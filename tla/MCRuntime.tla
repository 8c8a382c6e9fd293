----------------------------- MODULE MCRuntime -----------------------------
(***************************************************************************)
(* The parts of the runtime beside the call stack, on small instances.     *)
(* Collector has its own imports, of which it keeps what matters to the    *)
(* heap, and none of the others calls another: a behaviour is about one of *)
(* them, its `subject`, and the others rest.                               *)
(***************************************************************************)
EXTENDS MCModuleLoader, Collector, HashTable, BigInteger, Indentation

VARIABLE subject

\* Bitwise operations and shifts, apart for their recursive operators.
Bits == INSTANCE BitPatterns

ASSUME RuntimeAssumption == TableAssumption /\ NumbersAssumption /\ BlocksAssumption

\* What a program does to two registers' objects in one frame.
OneFrame(types) == [makes |-> types, objects |-> 3, registers |-> 2, calls |-> 1, modules |-> 0,
                    globals |-> FALSE]

\* Lists, dictionaries with equal keys, classes and methods, and modules that fail
\* after another module has taken a function from them.
Machines ==
  {OneFrame({"string", "list"}),
   OneFrame({"string", "dict"}),
   [OneFrame({"function", "class", "instance"}) EXCEPT !.calls = 2, !.globals = TRUE],
   [makes |-> {"module", "function"}, objects |-> 3, registers |-> 1, calls |-> 3, modules |-> 2,
    globals |-> TRUE]}

\* Columns that both readings agree about, and columns they do not.
Four   == <<"space", "space", "space", "space">>
Widths == {<<>>, <<"space">>, Four, Four \o Four, <<"tab">>, <<"space", "tab">>, <<"tab">> \o Four,
           Four \o <<"tab">>, <<"tab", "tab">>, <<"tab", "feed", "space">>, <<"tab", "slash">>}
-----------------------------------------------------------------------------
MCInit ==
  /\ subject \in {"modules", "heap", "table", "numbers", "blocks"}
  /\ Init /\ (subject = "modules" \/ files = [p \in Path |-> Missing])
  /\ HeapInit /\ (subject = "heap" \/ limit = CHOOSE l \in Limits : TRUE)
  /\ TableInit /\ (subject = "table" \/ hash = [k \in Key |-> 0])
  /\ NumberInit /\ (subject = "numbers" \/ operands = <<0, 0>>)
  /\ LexerInit

MCNext ==
  \/ /\ subject = "modules"
     /\ Next
     /\ UNCHANGED <<subject, heapVars, table, operands, lexing>>
  \/ /\ subject = "heap"
     /\ HeapNext
     /\ UNCHANGED <<subject, vars, table, operands, lexing>>
  \/ /\ subject = "table"
     /\ TableNext
     /\ UNCHANGED <<subject, vars, heapVars, operands, lexing>>
  \/ /\ subject = "blocks"
     /\ LexerNext
     /\ UNCHANGED <<subject, vars, heapVars, table, operands>>

MCSpec == MCInit /\ [][MCNext]_<<subject, vars, heapVars, table, operands, lexing>>
-----------------------------------------------------------------------------
\* Exact quotients, remainders, powers and digits are those of the numbers (BigInteger).
DivisionAgrees == subject = "numbers" => DivisionExact

\* Bitwise operations and shifts are those of endless two's complements (BitPatterns).
BitsAgree == subject = "numbers" => Bits!BitsAgree
=============================================================================
