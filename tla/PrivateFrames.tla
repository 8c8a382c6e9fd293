--------------------------- MODULE PrivateFrames ---------------------------
(***************************************************************************)
(* What the virtual machine promises a running program: every activation   *)
(* of a function, method, constructor or module owns its registers.  A     *)
(* call hands the callee the values the caller staged, in order; while the *)
(* callee runs the caller's other registers do not change; the result      *)
(* arrives in the one register the caller waits on.  A native function     *)
(* that calls back into the program is resumed by exactly the activation   *)
(* it started.  Nothing here mentions the shared value stack: CallStack    *)
(* implements this module on one array of slots.                           *)
(***************************************************************************)
EXTENDS Naturals, Sequences, SequencesExt

CONSTANTS Value,      \* what an instruction can load into a register
          Object,     \* an object made for the program: instance, module, native answer
          Nil         \* the language's nil, and the unreadable awaited register

VARIABLES
  acts,      \* the activations, innermost last: registers and awaited register
  natives,   \* the native functions waiting for an activation they started
  inbox,     \* what the last native to be resumed, or the host, receives
  mode       \* "execute" | "native" | "done" | "error"

vars == <<acts, natives, inbox, mode>>

Init == /\ acts = <<[regs |-> <<>>, want |-> 0]>>
        /\ natives = <<>>
        /\ inbox = Nil
        /\ mode = "execute"

Caller == acts[Len(acts)]
Staged == Len(Caller.regs)

\* The innermost activation keeps its first registers and waits on the next one.
Waiting(as, w, keep) ==
  [as EXCEPT ![Len(as)] = [regs |-> Append(SubSeq(@.regs, 1, keep), Nil), want |-> w]]

Fresh(regs) == [regs |-> regs, want |-> 0]

\* Value v leaves the innermost activation for the register its caller awaits.
Deliver(as, v) ==
  [as EXCEPT ![Len(as)] = [regs |-> [@.regs EXCEPT ![as[Len(as)].want] = v], want |-> 0]]
-----------------------------------------------------------------------------
Running == mode = "execute" /\ acts # <<>>

Load(v) == /\ Running
           /\ acts' = [acts EXCEPT ![Len(acts)].regs = Append(@, v)]
           /\ UNCHANGED <<natives, inbox, mode>>

Drop == /\ Running /\ Staged > 0
        /\ acts' = [acts EXCEPT ![Len(acts)].regs = Front(@)]
        /\ UNCHANGED <<natives, inbox, mode>>

\* What a callee may find in its first registers when argc values are staged
\* after register fn: the arguments alone, or a receiver and the arguments.
Received(fn, argc) ==
  LET args == SubSeq(Caller.regs, fn + 1, fn + argc)
  IN  {args} \cup {<<v>> \o args : v \in {Object, Caller.regs[fn]}}

Call == \E argc \in 0 .. Staged - 1 :
          LET fn == Staged - argc IN
          /\ Running
          /\ \E regs \in Received(fn, argc) :
               acts' = Append(Waiting(acts, fn, fn - 1), Fresh(regs))
          /\ UNCHANGED <<natives, inbox, mode>>

\* A method call stages the receiver, a spare register and the arguments.
Method == \E argc \in 0 .. Staged - 2 :
            LET self == Staged - argc - 1
                args == SubSeq(Caller.regs, self + 2, Staged)
            IN
            /\ Running
            /\ \E regs \in {args} \cup {<<v>> \o args : v \in {Object, Caller.regs[self]}} :
                 acts' = Append(Waiting(acts, self, self - 1), Fresh(regs))
            /\ UNCHANGED <<natives, inbox, mode>>

\* An operator method: two operands (or one), the result in any register.
Operator ==
  LET regs == Caller.regs IN
  /\ Running
  /\ UNCHANGED <<natives, inbox, mode>>
  /\ Len(acts') = Len(acts) + 1
  /\ \E x, y \in 1 .. Len(regs) : Last(acts').regs \in {<<regs[x]>>, <<regs[x], regs[y]>>}
  /\ \E dst \in 1 .. Len(regs) + 1 :
       acts' = Append([acts EXCEPT ![Len(acts)] =
                         [regs |-> [r \in 1 .. IF dst > Len(regs) THEN dst ELSE Len(regs) |->
                                      IF r = dst THEN Nil ELSE regs[r]],
                          want |-> dst]],
                      Fresh(Last(acts').regs))

Import == /\ Running
          /\ acts' = Append(Waiting(acts, Staged + 1, Staged), Fresh(<<>>))
          /\ UNCHANGED <<natives, inbox, mode>>

\* A callee that needs no activation answers at once.
Answer == \E keep \in 0 .. Staged - 1 :
            /\ Running
            /\ acts' = Deliver(Waiting(acts, keep + 1, keep), Object)
            /\ UNCHANGED <<natives, inbox, mode>>

\* The callee takes the place of its caller: same caller, same awaited register.
TailCall == \E argc \in 0 .. Staged - 1 :
              LET fn == Staged - argc IN
              /\ Running
              /\ \E regs \in Received(fn, argc) :
                   acts' = [acts EXCEPT ![Len(acts)] = Fresh(regs)]
              /\ UNCHANGED <<natives, inbox, mode>>

\* The innermost activation of as ends with v: its caller, the native that
\* started it, or the host gets v.
Finish(as, ns, v) ==
  LET rest == Front(as) IN
  IF ns # <<>> /\ Last(ns).depth = Len(rest)
  THEN /\ acts' = rest
       /\ inbox' = v
       /\ mode' = "native"
  ELSE IF rest = <<>>
  THEN /\ acts' = rest
       /\ inbox' = v
       /\ mode' = "done"
  ELSE /\ acts' = Deliver(rest, v)
       /\ inbox' = Nil
       /\ mode' = "execute"

Return == \E v \in Range(Caller.regs) \cup {Nil} :
            /\ Running
            /\ Finish(acts, natives, v)
            /\ UNCHANGED natives

\* The activation ends with an object made for it: a module with itself, a tail
\* call with the answer of a native function or with an instance.
EndWithObject == /\ Running
                 /\ Finish(acts, natives, Object)
                 /\ UNCHANGED natives

\* A native function calls back: it waits above the caller, below the callee.
CallBack == \E argc \in 0 .. Staged - 1, tail \in BOOLEAN :
              LET fn == Staged - argc IN
              /\ Running
              /\ natives' = Append(natives, [depth |-> Len(acts), tail |-> tail])
              /\ \E regs \in Received(fn, argc) :
                   acts' = Append(IF tail THEN acts ELSE Waiting(acts, fn, fn - 1), Fresh(regs))
              /\ UNCHANGED <<inbox, mode>>

\* The native function answers what it was sent, or a value of its own.
Resume == \E v \in {inbox, Object} :
            /\ mode = "native"
            /\ natives' = Front(natives)
            /\ IF Last(natives).tail
               THEN Finish(acts, natives', v)
               ELSE /\ acts' = Deliver(acts, v)
                    /\ inbox' = Nil
                    /\ mode' = "execute"

\* A runtime error ends the whole run.
Abort == /\ mode \in {"execute", "native"}
         /\ acts' = <<>>
         /\ natives' = <<>>
         /\ inbox' = Nil
         /\ mode' = "error"

Next == \/ \E v \in Value : Load(v)
        \/ Drop \/ Call \/ Method \/ Operator \/ Import \/ Answer \/ TailCall
        \/ Return \/ EndWithObject \/ CallBack \/ Resume \/ Abort

Spec == Init /\ [][Next]_vars
=============================================================================
