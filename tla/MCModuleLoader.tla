--------------------------- MODULE MCModuleLoader ---------------------------
(* Small modules for ModuleLoader: each may import, use and fail in the       *)
(* orders that matter, in particular before and after exporting.             *)
EXTENDS ModuleLoader

CONSTANTS A, B, C    \* three paths

ImportOf(p) == [op |-> "import", path |-> p]
UseOf(p)    == [op |-> "use", path |-> p]
Exporting   == [op |-> "export"]
Failing     == [op |-> "fail"]

Sources == {Missing, Invalid,
            <<Exporting, ImportOf(A)>>,                  \* a cycle back to A
            <<ImportOf(B), UseOf(B), Exporting>>,
            <<ImportOf(C), ImportOf(B), Exporting>>,
            <<ImportOf(C), Failing>>}

Mains == {<<ImportOf(A), UseOf(A)>>, <<ImportOf(B), ImportOf(A)>>}

CycleSources == {Missing, Invalid, <<ImportOf(B), Exporting>>, <<ImportOf(B), Failing>>,
                 <<ImportOf(A), Exporting>>}
=============================================================================
