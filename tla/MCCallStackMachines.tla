------------------------ MODULE MCCallStackMachines ------------------------
(***************************************************************************)
(* Two machines of CallStack in one run.  They run other programs and share *)
(* nothing, so a behaviour is about one of them, its `machine`: the one of  *)
(* the .cfg, which calls functions and the like, or the one below, which    *)
(* calls methods and has its stack limit lower down in an array of the same *)
(* size.                                                                    *)
(***************************************************************************)
EXTENDS MCCallStack

VARIABLE machine

\* The stack limit of the machine that calls methods.
MethodSlots == 8

\* That machine; the last slots of its array are above its limit and stay nil.
Methods(slots) == INSTANCE CallStack WITH
  StackSize <- slots, Callees <- MethodKinds, MainLocals <- 3, Collecting <- TRUE

ASSUME MethodsAssumption ==
  /\ MethodSlots <= StackSize
  /\ Methods(MethodSlots)!ConstantsAssumption

MCInit == \/ machine = "calls" /\ Init
          \/ machine = "methods" /\ Methods(StackSize)!Init

MCNext == \/ machine = "calls" /\ Next /\ UNCHANGED machine
          \/ machine = "methods" /\ Methods(MethodSlots)!Next /\ UNCHANGED machine

MCSpec == MCInit /\ [][MCNext]_<<machine, vars>>
=============================================================================
