----------------------------- MODULE ImportOnce -----------------------------
(***************************************************************************)
(* What importing promises: a module's top level runs at most once to its  *)
(* end; while it runs, importing it again (an import cycle) does not start *)
(* it a second time; and a run that fails leaves none half done, so that a *)
(* later run may try the module again.                                     *)
(***************************************************************************)
EXTENDS Naturals, Sequences

CONSTANT Path

VARIABLES state,     \* for each path "absent", "running" or "done"
          running    \* the paths whose top level is running, innermost last

vars == <<state, running>>

Init == state = [p \in Path |-> "absent"] /\ running = <<>>

Begin(p) == /\ state[p] = "absent"
            /\ running' = Append(running, p)
            /\ state' = [state EXCEPT ![p] = "running"]

End == /\ running # <<>>
       /\ state' = [state EXCEPT ![running[Len(running)]] = "done"]
       /\ running' = SubSeq(running, 1, Len(running) - 1)

Abort == /\ running' = <<>>
         /\ state' = [p \in Path |-> IF state[p] = "running" THEN "absent" ELSE state[p]]

Next == Abort \/ End \/ (\E p \in Path : Begin(p))

Spec == Init /\ [][Next]_vars
=============================================================================
