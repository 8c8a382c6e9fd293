------------------------- MODULE CallStackRefinement ------------------------
(***************************************************************************)
(* The shared value stack implements private registers (PrivateFrames).    *)
(* A suspended frame's registers are read out of its window; the register  *)
(* it waits on is not readable and is mapped to nil.                       *)
(***************************************************************************)
EXTENDS CallStack

\* The natives called by frame i, in a position that waits for an answer.
CallingNest(i) == {j \in 1 .. Len(nests) : nests[j].stop = i /\ ~nests[j].tail}

\* The 1-based register frame i waits on, 0 when it waits on none.
Awaited(i) ==
  IF CallingNest(i) # {}
  THEN nests[CHOOSE j \in CallingNest(i) : TRUE].base - frames[i].base
  ELSE IF i < Len(frames) /\ ~\E j \in 1 .. Len(nests) : nests[j].stop = i
  THEN frames[i + 1].ret - frames[i].base + 1
  ELSE 0

PrivateRegs(i) == [r \in 1 .. frames[i].live |->
                     IF r = Awaited(i) THEN Nil ELSE stack[frames[i].base + r - 1]]

\* PrivateFrames' activations, waiting natives and inbox.
Acts    == [i \in 1 .. Len(frames) |-> [regs |-> PrivateRegs(i), want |-> Awaited(i)]]
Natives == [j \in 1 .. Len(nests) |-> [depth |-> nests[j].stop, tail |-> nests[j].tail]]
Inbox   == CASE mode = "native" -> stack[Last(nests).savedTop]
             [] mode = "done"   -> stack[0]
             [] OTHER           -> Nil

Private == INSTANCE PrivateFrames WITH
  acts <- Acts, natives <- Natives, inbox <- Inbox, mode <- mode

\* Every call, return and native re-entry on the shared stack is one of private
\* activations: arguments arrive in order, no live register of a suspended caller
\* changes, results reach the register (or native, or host) that waits for them.
RegistersArePrivate == Private!Spec
=============================================================================
