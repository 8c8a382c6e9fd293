--------------------- MODULE CallStackRefinementProofs ----------------------
(***************************************************************************)
(* The shared value stack implements private registers, for any program,   *)
(* stack size and number of frames: step by step, calls, returns, tail     *)
(* calls, native re-entries and errors of CallStack are those of           *)
(* PrivateFrames under the mapping of CallStackRefinement.                 *)
(***************************************************************************)
EXTENDS CallStackRefinement, CallStackProofs
-----------------------------------------------------------------------------
(* What a suspended frame, or native, waits on.                             *)

\* Native n waits for the frame above its caller, to answer the register its caller reserved.
NestWaits(fs, n) ==
  /\ n.savedTop < StackSize
  /\ n.stop < Len(fs) => fs[n.stop + 1].ret = n.savedTop
  /\ ~n.tail => /\ fs[n.stop].base < n.base
                /\ n.base <= fs[n.stop].base + fs[n.stop].live

\* Frame i waits for the next one, unless a native does.
FrameWaits(fs, ns, i) ==
  (\A j \in 1 .. Len(ns) : ns[j].stop # i) => fs[i + 1].ret < fs[i].base + fs[i].live

WaitsIn(fs, ns) == /\ \A j \in 1 .. Len(ns) : NestWaits(fs, ns[j])
                   /\ \A i \in 1 .. Len(fs) - 1 : FrameWaits(fs, ns, i)
                   /\ fs # <<>> => fs[1].ret = 0
Waits == WaitsIn(frames, nests)

LEMMA StopsUnder ==
  ASSUME IInv, Running
  PROVE  /\ \A j \in 1 .. Len(nests) : nests[j].stop \in 1 .. Len(frames) - 1
         /\ Len(nests) \in Nat /\ nests \in Seq(NestType)
<1>1. nests \in Seq(NestType) /\ Len(nests) \in Nat
  BY LenProperties DEF IInv, Shape
<1>2. ASSUME NEW j \in 1 .. Len(nests) PROVE nests[j].stop \in 1 .. Len(frames) - 1
  <2>1. nests[j].stop <= StopDepth /\ nests[j].stop \in Nat
    BY StopsBelow DEF IInv
  <2>2. nests[j].stop \in 1 .. Len(frames)
    BY DEF IInv, Covered
  <2> QED
    BY <2>1, <2>2, RunningFacts
<1> QED
  BY <1>1, <1>2

\* A step of the running frame that leaves the natives alone.
LEMMA WaitsStep ==
  ASSUME IInv, Running, Waits, frames' \in Seq(FrameType), nests' = nests,
         \A i \in 1 .. Len(frames) - 1 : i <= Len(frames') => frames'[i] = frames[i],
         Len(frames') >= Len(frames) =>
           /\ frames'[Len(frames)].ret = TopFrame.ret
           /\ frames'[Len(frames)].base = TopFrame.base,
         \/ Len(frames') \in {Len(frames) - 1, Len(frames)}
         \/ /\ Len(frames') = Len(frames) + 1
            /\ frames'[Len(frames) + 1].ret < frames'[Len(frames)].base + frames'[Len(frames)].live
  PROVE  Waits'
<1>1. /\ Len(frames) \in Nat \ {0} /\ TopFrame = frames[Len(frames)] /\ frames # <<>>
      /\ Len(frames') \in Nat
  BY RunningFacts, LenProperties
<1>2. ASSUME NEW j \in 1 .. Len(nests) PROVE NestWaits(frames', nests[j])
  <2>1. nests[j].stop \in 1 .. Len(frames) - 1
    BY StopsUnder
  <2>2. NestWaits(frames, nests[j])
    BY DEF Waits, WaitsIn
  <2>3. nests[j].stop <= Len(frames') /\ frames'[nests[j].stop] = frames[nests[j].stop]
    BY <1>1, <2>1
  <2>4. ASSUME nests[j].stop < Len(frames')
        PROVE  frames'[nests[j].stop + 1].ret = frames[nests[j].stop + 1].ret
    <3>1. CASE nests[j].stop + 1 = Len(frames)
      BY <1>1, <2>1, <2>4, <3>1
    <3>2. CASE nests[j].stop + 1 # Len(frames)
      <4>1. nests[j].stop + 1 \in 1 .. Len(frames) - 1 /\ nests[j].stop + 1 <= Len(frames')
        BY <1>1, <2>1, <2>4, <3>2
      <4> QED
        BY <4>1
    <3> QED
      BY <3>1, <3>2
  <2> QED
    BY <1>1, <2>1, <2>2, <2>3, <2>4 DEF NestWaits
<1>3. ASSUME NEW i \in 1 .. Len(frames') - 1 PROVE FrameWaits(frames', nests, i)
  <2>1. CASE i = Len(frames)
    BY <1>1, <2>1 DEF FrameWaits
  <2>2. CASE i # Len(frames)
    <3>1. i \in 1 .. Len(frames) - 1 /\ frames'[i] = frames[i] /\ i + 1 <= Len(frames')
      BY <1>1, <2>2, SMTT(30)
    <3>2. frames'[i + 1].ret = frames[i + 1].ret
      <4>1. CASE i + 1 = Len(frames)
        BY <1>1, <3>1, <4>1
      <4>2. CASE i + 1 # Len(frames)
        BY <1>1, <3>1, <4>2
      <4> QED
        BY <4>1, <4>2
    <3>3. FrameWaits(frames, nests, i)
      BY <3>1 DEF Waits, WaitsIn
    <3> QED
      BY <3>1, <3>2, <3>3 DEF FrameWaits
  <2> QED
    BY <2>1, <2>2
<1>4. ASSUME frames' # <<>> PROVE frames'[1].ret = 0
  <2>1. Len(frames') \in Nat \ {0} /\ frames[1].ret = 0
    BY <1>1, <1>4, EmptySeq DEF Waits, WaitsIn
  <2>2. CASE Len(frames) = 1
    BY <1>1, <2>1, <2>2
  <2>3. CASE Len(frames) # 1
    BY <1>1, <2>1, <2>3
  <2> QED
    BY <2>2, <2>3
<1> QED
  BY <1>2, <1>3, <1>4 DEF Waits, WaitsIn

LEMMA WaitsPush ==
  ASSUME IInv, Running, Waits, NEW n, NEW f, Pushes(n, f), nests' = nests, f.ret < TopFrame.base + n
  PROVE  Waits'
<1>1. /\ frames' \in Seq(FrameType) /\ Len(frames') = Len(frames) + 1
      /\ \A i \in 1 .. Len(frames) - 1 : frames'[i] = frames[i]
      /\ frames'[Len(frames)] = [TopFrame EXCEPT !.live = n] /\ frames'[Len(frames) + 1] = f
  BY PushesFacts
<1>2. /\ frames'[Len(frames)].ret = TopFrame.ret /\ frames'[Len(frames)].base = TopFrame.base
      /\ frames'[Len(frames)].live = n
  BY <1>1, RunningFacts DEF FrameType
<1> QED
  BY <1>1, <1>2, WaitsStep

LEMMA WaitsRelive ==
  ASSUME IInv, Running, Waits, NEW n \in Nat, n <= TopFrame.locals, frames' = Relive(n),
         nests' = nests
  PROVE  Waits'
<1>1. /\ frames' \in Seq(FrameType) /\ Len(frames') = Len(frames)
      /\ \A i \in 1 .. Len(frames) - 1 : frames'[i] = frames[i]
      /\ frames'[Len(frames)] = [TopFrame EXCEPT !.live = n]
  BY ReliveFrames
<1>2. /\ frames'[Len(frames)].ret = TopFrame.ret /\ frames'[Len(frames)].base = TopFrame.base
  BY <1>1, RunningFacts DEF FrameType
<1> QED
  BY <1>1, <1>2, WaitsStep

LEMMA WaitsReplace ==
  ASSUME IInv, Running, Waits, NEW f, Replaces(f), nests' = nests PROVE Waits'
<1>1. /\ frames' \in Seq(FrameType) /\ Len(frames') = Len(frames)
      /\ \A i \in 1 .. Len(frames) - 1 : frames'[i] = frames[i]
      /\ frames'[Len(frames)] = f
  BY ReplacesFrames
<1>2. f.ret = TopFrame.ret /\ f.base = TopFrame.base
  BY DEF Replaces
<1> QED
  BY <1>1, <1>2, WaitsStep

LEMMA WaitsPop == ASSUME IInv, Running, Waits, NEW v, Pops(v), nests' = nests PROVE Waits'
<1>1. /\ frames' \in Seq(FrameType) /\ Len(frames') = Len(frames) - 1
      /\ \A i \in 1 .. Len(frames) - 1 : frames'[i] = frames[i]
  BY PopsFrames
<1> QED
  BY <1>1, RunningFacts, WaitsStep

\* A native calls back.
LEMMA WaitsEnter ==
  ASSUME IInv, Running, Waits, NEW n, NEW f, Pushes(n, f), f.ret = top, top < StackSize,
         NEW base \in Nat, NEW tail \in BOOLEAN,
         nests' = Append(nests, Nest(Len(frames), top, base, tail)),
         ~tail => TopFrame.base < base /\ base <= TopFrame.base + n
  PROVE  Waits'
<1> DEFINE e == Nest(Len(frames), top, base, tail)
<1>1. /\ frames' \in Seq(FrameType) /\ Len(frames') = Len(frames) + 1
      /\ \A i \in 1 .. Len(frames) - 1 : frames'[i] = frames[i]
      /\ frames'[Len(frames)] = [TopFrame EXCEPT !.live = n] /\ frames'[Len(frames) + 1] = f
  BY PushesFacts
<1>2. /\ frames'[Len(frames)].ret = TopFrame.ret /\ frames'[Len(frames)].base = TopFrame.base
      /\ frames'[Len(frames)].live = n
      /\ Len(frames) \in Nat \ {0} /\ TopFrame = frames[Len(frames)] /\ frames # <<>>
  BY <1>1, RunningFacts DEF FrameType
<1>3. /\ e \in NestType /\ e.stop = Len(frames) /\ e.savedTop = top /\ e.base = base /\ e.tail = tail
  BY <1>2, RegisterSlots DEF Nest, NestType
<1> HIDE DEF e
<1>4. /\ Len(nests') = Len(nests) + 1 /\ \A j \in 1 .. Len(nests) : nests'[j] = nests[j]
      /\ nests'[Len(nests) + 1] = e /\ Len(nests) \in Nat
  BY <1>3, StopsUnder, AppendFacts DEF e
<1>5. ASSUME NEW j \in 1 .. Len(nests') PROVE NestWaits(frames', nests'[j])
  <2>1. CASE j = Len(nests) + 1
    <3>1. nests'[j] = e /\ e.stop < Len(frames')
      BY <1>1, <1>2, <1>3, <1>4, <2>1
    <3> QED
      BY <1>1, <1>2, <1>3, <3>1 DEF NestWaits
  <2>2. CASE j # Len(nests) + 1
    <3>1. j \in 1 .. Len(nests) /\ nests'[j] = nests[j]
      BY <1>4, <2>2
    <3>2. nests[j].stop \in 1 .. Len(frames) - 1 /\ NestWaits(frames, nests[j])
      BY <3>1, StopsUnder DEF Waits, WaitsIn
    <3>3. frames'[nests[j].stop] = frames[nests[j].stop]
      BY <1>1, <3>2
    <3>4. frames'[nests[j].stop + 1].ret = frames[nests[j].stop + 1].ret
      <4>1. CASE nests[j].stop + 1 = Len(frames)
        BY <1>2, <4>1
      <4>2. CASE nests[j].stop + 1 # Len(frames)
        BY <1>1, <1>2, <3>2, <4>2, SMTT(30)
      <4> QED
        BY <4>1, <4>2
    <3>5. nests[j].stop < Len(frames)
      BY <1>2, <3>2
    <3> QED
      BY <3>1, <3>2, <3>3, <3>4, <3>5 DEF NestWaits
  <2> QED
    BY <2>1, <2>2
<1>6. ASSUME NEW i \in 1 .. Len(frames') - 1 PROVE FrameWaits(frames', nests', i)
  <2>1. CASE i = Len(frames)
    <3>1. Len(nests) + 1 \in 1 .. Len(nests') /\ nests'[Len(nests) + 1].stop = i
      BY <1>3, <1>4, <2>1
    <3> QED
      BY <3>1 DEF FrameWaits
  <2>2. CASE i # Len(frames)
    <3>1. i \in 1 .. Len(frames) - 1 /\ frames'[i] = frames[i] /\ FrameWaits(frames, nests, i)
      BY <1>1, <1>2, <2>2 DEF Waits, WaitsIn
    <3>2. frames'[i + 1].ret = frames[i + 1].ret
      <4>1. CASE i + 1 = Len(frames)
        BY <1>2, <4>1
      <4>2. CASE i + 1 # Len(frames)
        BY <1>1, <1>2, <3>1, <4>2
      <4> QED
        BY <4>1, <4>2
    <3>3. (\A j \in 1 .. Len(nests') : nests'[j].stop # i) => \A j \in 1 .. Len(nests) : nests[j].stop # i
      BY <1>4
    <3> QED
      BY <3>1, <3>2, <3>3 DEF FrameWaits
  <2> QED
    BY <2>1, <2>2
<1>7. frames'[1].ret = 0
  <2>1. frames[1].ret = 0
    BY <1>2 DEF Waits, WaitsIn
  <2>2. CASE Len(frames) = 1
    BY <1>2, <2>1, <2>2
  <2>3. CASE Len(frames) # 1
    <3>1. Len(frames) \in Nat \ {0}
      BY RunningFacts
    <3> DEFINE m == Len(frames)
    <3>2. m \in Nat \ {0} /\ m # 1
      BY <2>3, <3>1
    <3> HIDE DEF m
    <3>3. 1 \in 1 .. m - 1
      BY <3>2
    <3>4. 1 \in 1 .. Len(frames) - 1
      BY <3>3 DEF m
    <3> QED
      BY <1>1, <2>1, <3>4
  <2> QED
    BY <2>2, <2>3
<1> QED
  BY <1>5, <1>6, <1>7 DEF Waits, WaitsIn

\* The native that goes on is the innermost one.
LEMMA WaitsResume ==
  ASSUME IInv, Waits, NEW v, Resumes(v)
  PROVE  Waits'
<1>1. /\ nests # <<>> /\ frames # <<>> /\ Len(frames) = Last(nests).stop
      /\ Len(frames) \in Nat \ {0}
      /\ Last(nests) = nests[Len(nests)] /\ Len(nests) \in Nat \ {0}
      /\ nests \in Seq(NestType) /\ frames \in Seq(FrameType)
  BY NativeFacts DEF Resumes
<1>2. /\ nests' = Front(nests) /\ Len(nests') = Len(nests) - 1
      /\ \A j \in 1 .. Len(nests) - 1 : nests'[j] = nests[j]
  BY <1>1, FrontFacts DEF Resumes
<1>3. \/ frames' = frames
      \/ /\ frames' = Front(frames) /\ Len(frames') = Len(frames) - 1
         /\ \A i \in 1 .. Len(frames) - 1 : frames'[i] = frames[i]
  <2>1. frames' \in {frames, Front(frames)}
    BY DEF Resumes
  <2>2. /\ Len(Front(frames)) = Len(frames) - 1
        /\ \A i \in 1 .. Len(frames) - 1 : Front(frames)[i] = frames[i]
    BY <1>1, FrontFacts
  <2> QED
    BY <2>1, <2>2
<1>4. /\ Len(frames') \in {Len(frames) - 1, Len(frames)}
      /\ \A i \in 1 .. Len(frames) - 1 : frames'[i] = frames[i]
      /\ \A i \in 1 .. Len(frames') : frames'[i] = frames[i]
  BY <1>1, <1>3
<1>5. ASSUME NEW j \in 1 .. Len(nests') PROVE NestWaits(frames', nests'[j])
  <2>1. j \in 1 .. Len(nests) /\ nests'[j] = nests[j] /\ j < Len(nests) /\ Len(nests) \in 1 .. Len(nests)
    BY <1>1, <1>2
  <2>2. /\ nests[j].stop < nests[Len(nests)].stop
        /\ nests[j].stop \in 1 .. Len(frames)
        /\ NestWaits(frames, nests[j])
    BY <2>1 DEF IInv, NestedRunsAboveCaller, Covered, Waits, WaitsIn
  <2>3. nests[j].stop \in 1 .. Len(frames) - 1 /\ nests[j].stop < Len(frames)
    BY <1>1, <2>2
  <2>4. frames'[nests[j].stop] = frames[nests[j].stop]
    BY <1>4, <2>3
  <2>5. nests[j].stop < Len(frames') => frames'[nests[j].stop + 1] = frames[nests[j].stop + 1]
    <3>1. ASSUME nests[j].stop < Len(frames') PROVE nests[j].stop + 1 \in 1 .. Len(frames')
      BY <1>1, <1>4, <2>3, <3>1, SMTT(30)
    <3> QED
      BY <1>4, <3>1
  <2> QED
    BY <2>1, <2>2, <2>3, <2>4, <2>5 DEF NestWaits
<1>6. ASSUME NEW i \in 1 .. Len(frames') - 1 PROVE FrameWaits(frames', nests', i)
  <2>1. i \in 1 .. Len(frames) - 1 /\ i \in 1 .. Len(frames') /\ i + 1 \in 1 .. Len(frames')
    BY <1>1, <1>4
  <2>2. frames'[i] = frames[i] /\ frames'[i + 1] = frames[i + 1] /\ FrameWaits(frames, nests, i)
    BY <1>4, <2>1 DEF Waits, WaitsIn
  <2>3. ASSUME \A j \in 1 .. Len(nests') : nests'[j].stop # i PROVE \A j \in 1 .. Len(nests) : nests[j].stop # i
    <3> SUFFICES ASSUME NEW j \in 1 .. Len(nests) PROVE nests[j].stop # i
      OBVIOUS
    <3>1. CASE j = Len(nests)
      BY <1>1, <2>1, <3>1
    <3>2. CASE j # Len(nests)
      BY <1>1, <1>2, <2>3, <3>2
    <3> QED
      BY <3>1, <3>2
  <2> QED
    BY <2>2, <2>3 DEF FrameWaits
<1>7. frames' # <<>> => frames'[1].ret = 0
  <2>1. ASSUME frames' # <<>> PROVE 1 \in 1 .. Len(frames')
    <3>1. frames' \in Seq(FrameType)
      BY <1>1, <1>3, FrontFacts
    <3> QED
      BY <2>1, <3>1, EmptySeq
  <2> QED
    BY <1>1, <1>4, <2>1 DEF Waits, WaitsIn
<1> QED
  BY <1>5, <1>6, <1>7 DEF Waits, WaitsIn

LEMMA WaitsInit == Init => Waits
<1> SUFFICES ASSUME Init PROVE Waits
  OBVIOUS
<1>1. nests = <<>> /\ Len(nests) = 0 /\ Len(frames) = 1 /\ frames[1].ret = 0
  BY DEF Init, Frame
<1> QED
  BY <1>1 DEF Waits, WaitsIn

LEMMA WaitsKeeps == ASSUME SyncTails = FALSE, IInv, Contents, Waits, [Next]_vars PROVE Waits'
<1>1. Steps
  BY StepIs
<1>2. CASE Unwind
  <2>1. frames' = <<>> /\ nests' = <<>>
    BY <1>2 DEF Unwind
  <2> QED
    BY <2>1 DEF Waits, WaitsIn
<1>3. CASE UNCHANGED <<stack, frames, nests, mode>>
  BY <1>3 DEF Waits, WaitsIn
<1>4. CASE (\E v \in Value : Load(v)) \/ Drop
  <2>1. /\ Running /\ nests' = nests
        /\ \E n \in Nat : n <= TopFrame.locals /\ frames' = Relive(n)
    <3>1. ASSUME NEW v \in Value, Load(v)
          PROVE  /\ Running /\ nests' = nests /\ TopFrame.live + 1 \in Nat
                 /\ TopFrame.live + 1 <= TopFrame.locals /\ frames' = Relive(TopFrame.live + 1)
      <4>1. Running /\ TopFrame.live < TopFrame.locals /\ frames' = Relive(TopFrame.live + 1) /\ nests' = nests
        BY <3>1 DEF Load, Relive, TopFrame
      <4> QED
        BY <4>1, RegisterSlots
    <3>2. ASSUME Drop
          PROVE  /\ Running /\ nests' = nests /\ TopFrame.live - 1 \in Nat
                 /\ TopFrame.live - 1 <= TopFrame.locals /\ frames' = Relive(TopFrame.live - 1)
      <4>1. Running /\ TopFrame.live > 0 /\ frames' = Relive(TopFrame.live - 1) /\ nests' = nests
        BY <3>2 DEF Drop, Relive, TopFrame
      <4> QED
        BY <4>1, RegisterSlots
    <3> QED
      BY <1>4, <3>1, <3>2
  <2> QED
    BY <2>1, WaitsRelive
<1>5. ASSUME Running, nests' = nests, NEW n \in Nat, NEW argc, NEW skip, CallsWith(n, argc, skip) PROVE Waits'
  <2>1. CASE Answers(n)
    BY <1>5, <2>1, WaitsRelive DEF Answers
  <2>2. ASSUME NEW f, Pushes(n, f), f.ret = TopFrame.base + n - 1 PROVE Waits'
    <3>1. f.ret < TopFrame.base + n
      BY <1>5, <2>2, RegisterSlots
    <3> QED
      BY <1>5, <2>2, <3>1, WaitsPush
  <2> QED
    BY <1>5, <2>1, <2>2 DEF CallsWith
<1>6. CASE Running /\ (Calls \/ CallsMethod)
  <2>1. TopFrame.live \in Nat
    BY <1>6, RegisterSlots
  <2>2. ASSUME NEW argc \in Nat, argc < TopFrame.live, nests' = nests,
               CallsWith(TopFrame.live - argc, argc, 1)
        PROVE  Waits'
    BY <1>5, <1>6, <2>1, <2>2
  <2>3. ASSUME NEW argc \in Nat, argc + 1 < TopFrame.live, nests' = nests,
               CallsWith(TopFrame.live - argc - 1, argc, 2)
        PROVE  Waits'
    BY <1>5, <1>6, <2>1, <2>3
  <2> QED
    BY <1>6, <2>2, <2>3 DEF Calls, CallsMethod
<1>7. CASE Running /\ CallsOperator
  <2>1. PICK lhs \in Nat, rhs \in Nat, dst \in Nat, total \in {1, 2} :
               nests' = nests /\ dst <= TopFrame.live /\ Operates(lhs, rhs, dst, total)
    BY <1>7 DEF CallsOperator
  <2>2. PICK f : Pushes(Larger(dst + 1, TopFrame.live), f) /\ f.ret = TopFrame.base + dst
    BY <2>1 DEF Operates
  <2>3. f.ret < TopFrame.base + Larger(dst + 1, TopFrame.live)
    BY <1>7, <2>1, <2>2, RegisterSlots DEF Larger
  <2> QED
    BY <1>7, <2>1, <2>2, <2>3, WaitsPush
<1>8. CASE Running /\ Imports
  <2>1. PICK f : Pushes(TopFrame.live + 1, f) /\ f.ret = TopFrame.base + TopFrame.live
    BY <1>8 DEF Imports
  <2>2. f.ret < TopFrame.base + (TopFrame.live + 1)
    BY <1>8, <2>1, RegisterSlots
  <2> QED
    BY <1>8, <2>1, <2>2, WaitsPush DEF Imports
<1>9. CASE Running /\ (CallsTail \/ Returns)
  <2>1. nests' = nests /\ ((\E f : Replaces(f)) \/ \E v : Pops(v))
    BY <1>9 DEF CallsTail, TailCalls, Returns, Ends
  <2> QED
    BY <1>9, <2>1, WaitsReplace, WaitsPop
<1>10. CASE Running /\ CallsSync
  <2>1. PICK c \in Callees, argc \in Nat, tail \in BOOLEAN :
          /\ argc < TopFrame.live
          /\ CallsBack(c, argc, tail, TopFrame.base + (TopFrame.live - argc),
                       IF tail THEN TopFrame.live ELSE TopFrame.live - argc)
    BY <1>10 DEF CallsSync
  <2> DEFINE base == TopFrame.base + (TopFrame.live - argc)
             n    == IF tail THEN TopFrame.live ELSE TopFrame.live - argc
  <2>2. /\ n \in Nat /\ n <= TopFrame.locals /\ base \in Nat
        /\ ~tail => TopFrame.base < base /\ base <= TopFrame.base + n
    BY <1>10, <2>1, RegisterSlots
  <2>3. CallsBack(c, argc, tail, base, n)
    BY <2>1
  <2> HIDE DEF base, n
  <2>4. \/ /\ top < StackSize
           /\ nests' = Append(nests, Nest(Len(frames), top, base, tail))
           /\ \E f : Pushes(n, f) /\ f.ret = top
        \/ nests' = nests /\ frames' = Relive(n)
        \/ nests' = nests /\ \E v : Pops(v)
    BY <2>3 DEF CallsBack, Answers, Ends
  <2> QED
    BY <1>10, <2>2, <2>4, WaitsEnter, WaitsRelive, WaitsPop
<1>11. CASE \E v \in Cell : Resumes(v)
  BY <1>11, WaitsResume
<1> QED
  BY <1>1, <1>2, <1>3, <1>4, <1>6, <1>7, <1>8, <1>9, <1>10, <1>11 DEF Steps
-----------------------------------------------------------------------------
(* The activations, one frame at a time.                                    *)

ActsAre ==
  /\ List(Acts, Len(frames)) /\ List(Natives, Len(nests))
  /\ \A i \in 1 .. Len(frames) :
       /\ Acts[i] = [regs |-> PrivateRegs(i), want |-> Awaited(i)]
       /\ List(PrivateRegs(i), frames[i].live)
       /\ \A r \in 1 .. frames[i].live :
            PrivateRegs(i)[r] = IF r = Awaited(i) THEN Nil ELSE stack[frames[i].base + r - 1]
  /\ \A j \in 1 .. Len(nests) : Natives[j] = [depth |-> nests[j].stop, tail |-> nests[j].tail]

AwaitedIs ==
  \A i \in 1 .. Len(frames) :
    /\ \A j \in 1 .. Len(nests) : nests[j].stop = i =>
         Awaited(i) = IF nests[j].tail THEN 0 ELSE nests[j].base - frames[i].base
    /\ (\A j \in 1 .. Len(nests) : nests[j].stop # i) =>
         Awaited(i) = IF i < Len(frames) THEN frames[i + 1].ret - frames[i].base + 1 ELSE 0

LEMMA ActsHold == IInv => ActsAre
<1> SUFFICES ASSUME IInv PROVE ActsAre
  OBVIOUS
<1>1. Len(frames) \in Nat /\ Len(nests) \in Nat /\ \A i \in 1 .. Len(frames) : frames[i].live \in Nat
  <2>1. frames \in Seq(FrameType) /\ nests \in Seq(NestType)
    BY DEF IInv, Shape
  <2>2. \A i \in 1 .. Len(frames) : frames[i] \in FrameType
    BY <2>1, ElementOfSeq
  <2> QED
    BY <2>1, <2>2, LenProperties DEF FrameType
<1>2. /\ List(Acts, Len(frames))
      /\ \A i \in 1 .. Len(frames) : Acts[i] = [regs |-> PrivateRegs(i), want |-> Awaited(i)]
  BY <1>1 DEF Acts, List
<1>3. /\ List(Natives, Len(nests))
      /\ \A j \in 1 .. Len(nests) : Natives[j] = [depth |-> nests[j].stop, tail |-> nests[j].tail]
  BY <1>1 DEF Natives, List
<1>4. ASSUME NEW i \in 1 .. Len(frames)
      PROVE  /\ List(PrivateRegs(i), frames[i].live)
             /\ \A r \in 1 .. frames[i].live :
                  PrivateRegs(i)[r] = IF r = Awaited(i) THEN Nil ELSE stack[frames[i].base + r - 1]
  BY <1>1 DEF PrivateRegs, List
<1> QED
  BY <1>2, <1>3, <1>4 DEF ActsAre

LEMMA AwaitedHolds == IInv => AwaitedIs
<1> SUFFICES ASSUME IInv, NEW i \in 1 .. Len(frames)
             PROVE  /\ \A j \in 1 .. Len(nests) : nests[j].stop = i =>
                         Awaited(i) = IF nests[j].tail THEN 0 ELSE nests[j].base - frames[i].base
                    /\ (\A j \in 1 .. Len(nests) : nests[j].stop # i) =>
                         Awaited(i) = IF i < Len(frames) THEN frames[i + 1].ret - frames[i].base + 1
                                      ELSE 0
  BY DEF AwaitedIs
<1>1. nests \in Seq(NestType) /\ Len(nests) \in Nat
  BY LenProperties DEF IInv, Shape
<1>2. \A j \in 1 .. Len(nests) : nests[j].tail \in BOOLEAN /\ nests[j].stop \in Nat
  <2>1. \A j \in 1 .. Len(nests) : nests[j] \in NestType
    BY <1>1, ElementOfSeq
  <2> QED
    BY <2>1 DEF NestType
<1>3. \A j, k \in 1 .. Len(nests) : nests[j].stop = nests[k].stop => j = k
  <2> SUFFICES ASSUME NEW j \in 1 .. Len(nests), NEW k \in 1 .. Len(nests), j < k
               PROVE  nests[j].stop # nests[k].stop
    BY <1>1
  <2>1. nests[j].stop < nests[k].stop
    BY DEF IInv, NestedRunsAboveCaller
  <2> QED
    BY <1>2, <2>1
<1>4. ASSUME NEW j \in 1 .. Len(nests), nests[j].stop = i
      PROVE  Awaited(i) = IF nests[j].tail THEN 0 ELSE nests[j].base - frames[i].base
  <2>1. CASE nests[j].tail
    <3>1. CallingNest(i) = {}
      BY <1>3, <1>4, <2>1 DEF CallingNest
    <3> QED
      BY <1>4, <2>1, <3>1 DEF Awaited
  <2>2. CASE ~nests[j].tail
    <3>1. CallingNest(i) = {j}
      BY <1>3, <1>4, <2>2 DEF CallingNest
    <3>2. (CHOOSE k \in {j} : TRUE) = j
      OBVIOUS
    <3>3. Awaited(i) = nests[CHOOSE k \in {j} : TRUE].base - frames[i].base
      BY <3>1 DEF Awaited
    <3> QED
      BY <2>2, <3>2, <3>3
  <2> QED
    BY <1>2, <2>1, <2>2
<1>5. ASSUME \A j \in 1 .. Len(nests) : nests[j].stop # i
      PROVE  Awaited(i) = IF i < Len(frames) THEN frames[i + 1].ret - frames[i].base + 1 ELSE 0
  <2>1. CallingNest(i) = {}
    BY <1>5 DEF CallingNest
  <2> QED
    BY <1>5, <2>1 DEF Awaited
<1> QED
  BY <1>4, <1>5

LEMMA ActsHoldNext == IInv' => ActsAre' /\ AwaitedIs'
  BY ActsHold, AwaitedHolds, PTL

\* Every frame's registers are below the bases of the frames after it.
LEMMA WindowsChain ==
  ASSUME IInv, NEW i \in 1 .. Len(frames), NEW k \in 1 .. Len(frames), i < k
  PROVE  frames[i].base + frames[i].live <= frames[k].base
<1>1. frames \in Seq(FrameType) /\ Len(frames) \in Nat
  BY LenProperties DEF IInv, Shape
<1>2. \A x \in 1 .. Len(frames) : frames[x].base \in Nat /\ frames[x].live \in Nat
  <2>1. \A x \in 1 .. Len(frames) : frames[x] \in FrameType
    BY <1>1, ElementOfSeq
  <2> QED
    BY <2>1 DEF FrameType
<1>3. \A x \in 1 .. Len(frames) - 1 : frames[x].base + frames[x].live <= frames[x + 1].base
  BY DEF IInv, FrameWindows, Windows, CallerKeeps
<1> DEFINE end == frames[i].base + frames[i].live
           bad == {x \in i + 1 .. Len(frames) : ~(end <= frames[x].base)}
<1>4. bad = {}
  <2> SUFFICES ASSUME bad # {} PROVE FALSE
    OBVIOUS
  <2>1. bad \subseteq Nat
    OBVIOUS
  <2> HIDE DEF bad
  <2>2. PICK x \in bad : \A y \in bad : x <= y
    BY <2>1, LeastNumber
  <2>3. x \in i + 1 .. Len(frames) /\ ~(end <= frames[x].base)
    BY <2>2 DEF bad
  <2>4. x # i + 1
    BY <1>1, <1>3, <2>3
  <2>5. x - 1 \in i + 1 .. Len(frames) /\ x - 1 \in 1 .. Len(frames) - 1 /\ ~(x <= x - 1)
        /\ x \in 1 .. Len(frames) /\ x - 1 + 1 = x /\ x - 1 \in 1 .. Len(frames)
    BY <1>1, <2>3, <2>4
  <2>6. end <= frames[x - 1].base
    BY <2>2, <2>5 DEF bad
  <2>7. frames[x - 1].base + frames[x - 1].live <= frames[x].base
    BY <1>3, <2>5
  <2>8. end \in Nat
    BY <1>2
  <2> HIDE DEF end
  <2> QED
    BY <1>2, <2>3, <2>5, <2>6, <2>7, <2>8, SMTT(30)
<1> QED
  BY <1>1, <1>4
-----------------------------------------------------------------------------
(* Activations a step does not touch.                                       *)

\* Types, seen frame by frame.
LEMMA FrameNumbers ==
  ASSUME IInv
  PROVE  /\ frames \in Seq(FrameType) /\ Len(frames) \in Nat
         /\ nests \in Seq(NestType) /\ Len(nests) \in Nat /\ StackSize \in Nat
         /\ \A i \in 1 .. Len(frames) :
              /\ frames[i].base \in Nat /\ frames[i].live \in Nat /\ frames[i].ret \in Nat
              /\ frames[i].locals \in Nat
              /\ frames[i].live <= frames[i].locals
              /\ frames[i].base + frames[i].locals + 1 <= StackSize
         /\ \A j \in 1 .. Len(nests) :
              /\ nests[j].stop \in Nat /\ nests[j].base \in Nat /\ nests[j].savedTop \in Nat
              /\ nests[j].tail \in BOOLEAN
<1>1. /\ frames \in Seq(FrameType) /\ Len(frames) \in Nat
      /\ nests \in Seq(NestType) /\ Len(nests) \in Nat /\ StackSize \in Nat
  BY LenProperties, ConstantsAssumption DEF IInv, Shape
<1>2. /\ \A i \in 1 .. Len(frames) : frames[i] \in FrameType
      /\ \A j \in 1 .. Len(nests) : nests[j] \in NestType
  BY <1>1, ElementOfSeq
<1>3. \A i \in 1 .. Len(frames) : frames[i].live <= frames[i].locals /\ WindowEnd(frames[i]) <= StackSize
  BY DEF IInv, FrameWindows, Windows
<1> QED
  BY <1>1, <1>2, <1>3 DEF FrameType, NestType, WindowEnd

LEMMA ActSame ==
  ASSUME IInv, IInv', NEW i \in 1 .. Len(frames), i \in 1 .. Len(frames'),
         frames'[i] = frames[i], Awaited(i)' = Awaited(i),
         \A r \in 1 .. frames[i].live :
           r # Awaited(i) => stack'[frames[i].base + r - 1] = stack[frames[i].base + r - 1]
  PROVE  Acts'[i] = Acts[i]
<1>1. /\ List(PrivateRegs(i), frames[i].live)
      /\ \A r \in 1 .. frames[i].live :
           PrivateRegs(i)[r] = IF r = Awaited(i) THEN Nil ELSE stack[frames[i].base + r - 1]
      /\ Acts[i] = [regs |-> PrivateRegs(i), want |-> Awaited(i)]
  BY ActsHold DEF ActsAre
<1>2. /\ List(PrivateRegs(i)', frames'[i].live)
      /\ \A r \in 1 .. frames'[i].live :
           PrivateRegs(i)'[r] = IF r = Awaited(i)' THEN Nil ELSE stack'[frames'[i].base + r - 1]
      /\ Acts'[i] = [regs |-> PrivateRegs(i)', want |-> Awaited(i)']
  BY ActsHoldNext DEF ActsAre
<1>3. \A r \in 1 .. frames[i].live : PrivateRegs(i)'[r] = PrivateRegs(i)[r]
  BY <1>1, <1>2
<1>4. PrivateRegs(i)' = PrivateRegs(i)
  BY <1>1, <1>2, <1>3, ListEqual
<1> QED
  BY <1>1, <1>2, <1>4

\* The natives waiting at depth k or below are the same before and after.
NestsAgree(k) ==
  /\ \A j \in 1 .. Len(nests) : nests[j].stop <= k => \E m \in 1 .. Len(nests') : nests'[m] = nests[j]
  /\ \A m \in 1 .. Len(nests') : nests'[m].stop <= k => \E j \in 1 .. Len(nests) : nests[j] = nests'[m]

LEMMA AwaitedSame ==
  ASSUME IInv, IInv', NEW k, NEW i \in 1 .. Len(frames), i \in 1 .. Len(frames'), i <= k,
         frames'[i] = frames[i], NestsAgree(k),
         \/ \E j \in 1 .. Len(nests) : nests[j].stop = i
         \/ i < Len(frames) /\ i < Len(frames') /\ frames'[i + 1].ret = frames[i + 1].ret
  PROVE  Awaited(i)' = Awaited(i)
<1>1. /\ \A j \in 1 .. Len(nests) : nests[j].stop = i =>
           Awaited(i) = IF nests[j].tail THEN 0 ELSE nests[j].base - frames[i].base
      /\ (\A j \in 1 .. Len(nests) : nests[j].stop # i) =>
           Awaited(i) = IF i < Len(frames) THEN frames[i + 1].ret - frames[i].base + 1 ELSE 0
  BY AwaitedHolds DEF AwaitedIs
<1>2. /\ \A j \in 1 .. Len(nests') : nests'[j].stop = i =>
           Awaited(i)' = IF nests'[j].tail THEN 0 ELSE nests'[j].base - frames'[i].base
      /\ (\A j \in 1 .. Len(nests') : nests'[j].stop # i) =>
           Awaited(i)' = IF i < Len(frames') THEN frames'[i + 1].ret - frames'[i].base + 1 ELSE 0
  BY ActsHoldNext DEF AwaitedIs
<1>3. ASSUME NEW j \in 1 .. Len(nests), nests[j].stop = i PROVE Awaited(i)' = Awaited(i)
  <2>1. PICK m \in 1 .. Len(nests') : nests'[m] = nests[j]
    BY <1>3 DEF NestsAgree
  <2> QED
    BY <1>1, <1>2, <1>3, <2>1
<1>4. ASSUME \A j \in 1 .. Len(nests) : nests[j].stop # i PROVE Awaited(i)' = Awaited(i)
  <2>1. \A m \in 1 .. Len(nests') : nests'[m].stop # i
    BY <1>4 DEF NestsAgree
  <2> QED
    BY <1>1, <1>2, <1>4, <2>1
<1> QED
  BY <1>3, <1>4

\* The frames below k + 1, when they, what they wait for and their slots stay.
LEMMA ActsBelow ==
  ASSUME IInv, IInv', NEW k \in Nat, k < Len(frames), k < Len(frames'),
         \A i \in 1 .. k : frames'[i] = frames[i],
         frames'[k + 1].ret = frames[k + 1].ret, NestsAgree(k),
         \A x \in Slots : x < frames[k + 1].base => stack'[x] = stack[x]
  PROVE  \A i \in 1 .. k : Acts'[i] = Acts[i]
<1> SUFFICES ASSUME NEW i \in 1 .. k PROVE Acts'[i] = Acts[i]
  OBVIOUS
<1>1. /\ Len(frames) \in Nat /\ i \in 1 .. Len(frames) /\ k + 1 \in 1 .. Len(frames) /\ i < k + 1
      /\ frames[i].base \in Nat /\ frames[i].live \in Nat /\ frames[k + 1].base \in Nat
      /\ frames[i].live <= frames[i].locals /\ frames[i].locals \in Nat
      /\ frames[i].base + frames[i].locals + 1 <= StackSize /\ StackSize \in Nat
  <2>1. /\ Len(frames) \in Nat /\ i \in 1 .. Len(frames) /\ k + 1 \in 1 .. Len(frames) /\ i < k + 1
    BY FrameNumbers
  <2> QED
    BY <2>1, FrameNumbers
<1>2. i \in 1 .. Len(frames') /\ Len(frames') \in Nat
  <2>1. Len(frames') \in Nat
    BY LenProperties DEF IInv, Shape
  <2> QED
    BY <2>1
<1>3. frames'[i + 1].ret = frames[i + 1].ret /\ i < Len(frames) /\ i < Len(frames')
  <2>1. CASE i = k
    BY <1>1, <2>1
  <2>2. CASE i # k
    <3>1. i + 1 \in 1 .. k
      BY <2>2
    <3> QED
      BY <1>1, <1>2, <3>1
  <2> QED
    BY <2>1, <2>2
<1>4. Awaited(i)' = Awaited(i)
  BY <1>1, <1>2, <1>3, AwaitedSame
<1>5. frames[i].base + frames[i].live <= frames[k + 1].base
  BY <1>1, WindowsChain
<1>6. ASSUME NEW r \in 1 .. frames[i].live
      PROVE  stack'[frames[i].base + r - 1] = stack[frames[i].base + r - 1]
  <2> DEFINE b == frames[i].base
             n == frames[i].live
             e == frames[k + 1].base
  <2>1. b \in Nat /\ n \in Nat /\ e \in Nat /\ b + n < StackSize /\ b + n <= e /\ r \in 1 .. n
    BY <1>1, <1>5, SMTT(30)
  <2>2. \A x \in Slots : x < e => stack'[x] = stack[x]
    OBVIOUS
  <2> HIDE DEF b, n, e
  <2>3. b + r - 1 \in Slots /\ b + r - 1 < e
    BY <1>1, <2>1 DEF Slots
  <2>4. stack'[b + r - 1] = stack[b + r - 1]
    BY <2>2, <2>3
  <2> QED
    BY <2>4 DEF b
<1> QED
  BY <1>1, <1>2, <1>4, <1>6, ActSame

LEMMA NestsAgreeSame == ASSUME NEW k, nests' = nests PROVE NestsAgree(k)
  BY DEF NestsAgree

LEMMA NestsAgreeEnter ==
  ASSUME IInv, NEW k \in Nat, NEW e \in NestType, k < e.stop, nests' = Append(nests, e)
  PROVE  NestsAgree(k)
<1>1. nests \in Seq(NestType) /\ Len(nests) \in Nat
  BY FrameNumbers
<1>2. /\ Len(nests') = Len(nests) + 1 /\ \A j \in 1 .. Len(nests) : nests'[j] = nests[j]
      /\ nests'[Len(nests) + 1] = e
  BY <1>1, AppendFacts
<1>3. e.stop \in Nat
  BY DEF NestType
<1>4. \A j \in 1 .. Len(nests) : j \in 1 .. Len(nests')
  BY <1>1, <1>2
<1>5. ASSUME NEW m \in 1 .. Len(nests'), nests'[m].stop <= k
      PROVE  m \in 1 .. Len(nests)
  BY <1>1, <1>2, <1>3, <1>5
<1> QED
  BY <1>2, <1>4, <1>5 DEF NestsAgree

LEMMA NestsAgreeLeave ==
  ASSUME IInv, NEW k \in Nat, nests # <<>>, k < Last(nests).stop, nests' = Front(nests)
  PROVE  NestsAgree(k)
<1>1. nests \in Seq(NestType) /\ Len(nests) \in Nat \ {0} /\ Last(nests) = nests[Len(nests)]
  BY FrameNumbers, FrontFacts
<1>2. Len(nests') = Len(nests) - 1 /\ \A j \in 1 .. Len(nests) - 1 : nests'[j] = nests[j]
  BY <1>1, FrontFacts
<1>3. nests[Len(nests)].stop \in Nat
  BY <1>1, FrameNumbers
<1>4. \A j \in 1 .. Len(nests) - 1 : j \in 1 .. Len(nests) /\ j \in 1 .. Len(nests')
  BY <1>1, <1>2
<1>5. ASSUME NEW j \in 1 .. Len(nests), nests[j].stop <= k
      PROVE  j \in 1 .. Len(nests) - 1
  BY <1>1, <1>3, <1>5
<1>6. Len(nests') = Len(nests) - 1
  BY <1>2
<1> QED
  BY <1>2, <1>4, <1>5, <1>6 DEF NestsAgree

\* u is s with its innermost element replaced.
TopIs(u, s, n, e) == List(u, n) /\ u[n] = e /\ \A i \in 1 .. n - 1 : u[i] = s[i]

LEMMA ExceptTop ==
  ASSUME NEW s, NEW n, List(s, n), n # 0, NEW e, NEW u, u = [s EXCEPT ![n] = e]
  PROVE  TopIs(u, s, n, e)
<1>1. n \in 1 .. n /\ n \in Nat
  BY DEF List
<1>2. List([s EXCEPT ![n] = e], n)
  BY <1>1, ExceptList
<1>3. DOMAIN s = 1 .. n
  BY DEF List
<1>4. [s EXCEPT ![n] = e][n] = e
  BY <1>1, <1>3
<1>5. \A i \in 1 .. n - 1 : [s EXCEPT ![n] = e][i] = s[i]
  BY <1>1, <1>3
<1> QED
  BY <1>2, <1>4, <1>5 DEF TopIs

LEMMA TopUnique ==
  ASSUME NEW s, NEW n, NEW e, NEW u, NEW w, TopIs(u, s, n, e), TopIs(w, s, n, e)
  PROVE  u = w
<1>1. List(u, n) /\ List(w, n) /\ n \in Nat
  BY DEF TopIs, List
<1>2. ASSUME NEW i \in 1 .. n PROVE u[i] = w[i]
  <2>1. CASE i = n
    BY <2>1 DEF TopIs
  <2>2. CASE i # n
    <3>1. i \in 1 .. n - 1
      BY <1>1, <2>2
    <3> QED
      BY <3>1 DEF TopIs
  <2> QED
    BY <2>1, <2>2
<1> QED
  BY <1>1, <1>2, ListEqual

LEMMA MoreUnique ==
  ASSUME NEW s, NEW n, n \in Nat, NEW e, NEW u, NEW w, MoreIs(u, s, n, e), MoreIs(w, s, n, e)
  PROVE  u = w
<1>1. List(u, n + 1) /\ List(w, n + 1)
  BY DEF MoreIs
<1>2. ASSUME NEW i \in 1 .. n + 1 PROVE u[i] = w[i]
  <2>1. CASE i = n + 1
    BY <2>1 DEF MoreIs
  <2>2. CASE i # n + 1
    <3>1. i \in 1 .. n
      BY <2>2
    <3> QED
      BY <3>1 DEF MoreIs
  <2> QED
    BY <2>1, <2>2
<1> QED
  BY <1>1, <1>2, ListEqual

\* The activations as a whole, from those that stay and the innermost ones.
LEMMA ActsShape ==
  ASSUME IInv, IInv', frames # <<>>
  PROVE  /\ Len(Acts) = Len(frames) /\ Acts # <<>> /\ Len(Acts') = Len(frames')
         /\ Last(Acts) = Acts[Len(frames)]
         /\ List(Acts, Len(frames)) /\ List(Acts', Len(frames'))
         /\ List(Front(Acts), Len(frames) - 1) /\ Len(Front(Acts)) = Len(frames) - 1
         /\ \A i \in 1 .. Len(frames) - 1 : Front(Acts)[i] = Acts[i]
<1>1. List(Acts, Len(frames)) /\ List(Acts', Len(frames'))
  BY ActsHold, ActsHoldNext DEF ActsAre
<1>2. Len(frames) # 0
  BY FrameNumbers, EmptySeq
<1> QED
  BY <1>1, <1>2, FrontList, ListIsSeq

LEMMA ActsPush ==
  ASSUME IInv, IInv', frames # <<>>, Len(frames') = Len(frames) + 1,
         \A i \in 1 .. Len(frames) - 1 : Acts'[i] = Acts[i], NEW a, Acts'[Len(frames)] = a
  PROVE  Acts' = Append([Acts EXCEPT ![Len(frames)] = a], Acts'[Len(frames) + 1])
<1> DEFINE n == Len(frames)
           u == [Acts EXCEPT ![n] = a]
           e == Acts'[n + 1]
           w == Append(u, e)
<1>1. List(Acts, n) /\ List(Acts', n + 1) /\ n \in Nat /\ n # 0
  BY ActsShape, FrameNumbers, EmptySeq
<1>2. u = [Acts EXCEPT ![n] = a] /\ w = Append(u, e)
  OBVIOUS
<1>3. /\ \A i \in 1 .. n - 1 : Acts'[i] = Acts[i]
      /\ Acts'[n] = a /\ Acts'[n + 1] = e
  OBVIOUS
<1> HIDE DEF n, u, e, w
<1>4. TopIs(u, Acts, n, a)
  BY <1>1, <1>2, ExceptTop
<1>5. List(u, n) /\ u[n] = a /\ \A i \in 1 .. n - 1 : u[i] = Acts[i]
  BY <1>4 DEF TopIs
<1>6. MoreIs(w, u, n, e)
  BY <1>2, <1>5, AppendMore
<1>7. \A i \in 1 .. n : Acts'[i] = u[i]
  <2> SUFFICES ASSUME NEW i \in 1 .. n PROVE Acts'[i] = u[i]
    OBVIOUS
  <2>1. CASE i = n
    BY <1>3, <1>5, <2>1
  <2>2. CASE i # n
    <3>1. i \in 1 .. n - 1
      BY <1>1, <2>2
    <3> QED
      BY <1>3, <1>5, <3>1
  <2> QED
    BY <2>1, <2>2
<1>8. MoreIs(Acts', u, n, e)
  BY <1>1, <1>3, <1>7 DEF MoreIs
<1>9. Acts' = w
  BY <1>1, <1>6, <1>8, MoreUnique
<1> QED
  BY <1>9 DEF w, u, e, n

LEMMA ActsTop ==
  ASSUME IInv, IInv', frames # <<>>, Len(frames') = Len(frames),
         \A i \in 1 .. Len(frames) - 1 : Acts'[i] = Acts[i], NEW a, Acts'[Len(frames)] = a
  PROVE  Acts' = [Acts EXCEPT ![Len(frames)] = a]
<1> DEFINE n == Len(frames)
           u == [Acts EXCEPT ![n] = a]
<1>1. List(Acts, n) /\ List(Acts', n) /\ n \in Nat /\ n # 0
  BY ActsShape, FrameNumbers, EmptySeq
<1>2. u = [Acts EXCEPT ![n] = a]
  OBVIOUS
<1>3. TopIs(Acts', Acts, n, a)
  BY <1>1 DEF TopIs
<1> HIDE DEF n, u
<1>4. TopIs(u, Acts, n, a)
  BY <1>1, <1>2, ExceptTop
<1>5. Acts' = u
  BY <1>3, <1>4, TopUnique
<1> QED
  BY <1>5 DEF u, n

LEMMA ActsPop ==
  ASSUME IInv, IInv', frames # <<>>, Len(frames') = Len(frames) - 1,
         \A i \in 1 .. Len(frames) - 1 : Acts'[i] = Acts[i]
  PROVE  Acts' = Front(Acts)
<1>1. /\ List(Acts', Len(frames) - 1) /\ List(Front(Acts), Len(frames) - 1)
      /\ \A i \in 1 .. Len(frames) - 1 : Front(Acts)[i] = Acts[i]
  BY ActsShape
<1> QED
  BY <1>1, ListEqual

LEMMA ActsPopTop ==
  ASSUME IInv, IInv', Len(frames) > 1, Len(frames') = Len(frames) - 1,
         \A i \in 1 .. Len(frames) - 2 : Acts'[i] = Acts[i], NEW a, Acts'[Len(frames) - 1] = a
  PROVE  Acts' = [Front(Acts) EXCEPT ![Len(frames) - 1] = a]
<1> DEFINE n == Len(frames) - 1
           s == Front(Acts)
           u == [s EXCEPT ![n] = a]
<1>1. frames # <<>> /\ n \in Nat /\ n # 0 /\ Len(frames) - 2 = n - 1
  BY FrameNumbers, EmptySeq
<1>2. List(s, n) /\ List(Acts', n) /\ \A i \in 1 .. n : s[i] = Acts[i]
  BY <1>1, ActsShape
<1>3. /\ u = [s EXCEPT ![n] = a] /\ Acts'[n] = a
      /\ \A i \in 1 .. n - 1 : Acts'[i] = Acts[i]
  BY <1>1
<1> HIDE DEF n, s, u
<1>4. TopIs(u, s, n, a)
  BY <1>1, <1>2, <1>3, ExceptTop
<1>5. \A i \in 1 .. n - 1 : i \in 1 .. n
  BY <1>1
<1>6. TopIs(Acts', s, n, a)
  BY <1>2, <1>3, <1>5 DEF TopIs
<1>7. Acts' = u
  BY <1>4, <1>6, TopUnique
<1> QED
  BY <1>7 DEF u, s, n
-----------------------------------------------------------------------------
(* The running activation's registers, and those a callee receives.         *)

Regs == PrivateRegs(Len(frames))

RunsIs ==
  /\ Acts[Len(frames)] = [regs |-> Regs, want |-> 0]
  /\ List(Regs, TopFrame.live)
  /\ \A r \in 1 .. TopFrame.live : Regs[r] = stack[TopFrame.base + r - 1]

LEMMA RunsHold == IInv /\ Running => RunsIs
<1> SUFFICES ASSUME IInv, Running PROVE RunsIs
  OBVIOUS
<1>1. Len(frames) \in 1 .. Len(frames) /\ TopFrame = frames[Len(frames)]
  BY RunningFacts
<1>2. \A j \in 1 .. Len(nests) : nests[j].stop # Len(frames)
  BY StopsUnder, RunningFacts
<1>3. Awaited(Len(frames)) = 0
  BY <1>1, <1>2, AwaitedHolds DEF AwaitedIs
<1>4. /\ Acts[Len(frames)] = [regs |-> Regs, want |-> Awaited(Len(frames))]
      /\ List(Regs, TopFrame.live)
      /\ \A r \in 1 .. TopFrame.live :
           Regs[r] = IF r = Awaited(Len(frames)) THEN Nil ELSE stack[TopFrame.base + r - 1]
  BY <1>1, ActsHold DEF ActsAre, Regs
<1> QED
  BY <1>3, <1>4 DEF RunsIs

LEMMA RunsHoldNext == IInv' /\ Running' => RunsIs'
  BY RunsHold, PTL

LEMMA CallerIs ==
  ASSUME IInv, Running
  PROVE  /\ Private!Running /\ Private!Caller = [regs |-> Regs, want |-> 0]
         /\ Private!Caller.regs = Regs
         /\ Private!Staged = TopFrame.live /\ Len(Acts) = Len(frames) /\ Acts # <<>>
<1>1. frames # <<>>
  BY RunningFacts
<1>2. Len(Acts) = Len(frames) /\ Acts # <<>>
  BY <1>1, FrameNumbers, ActsHold, ListIsSeq, EmptySeq DEF ActsAre
<1>3. RunsIs
  BY RunsHold
<1>4. Private!Caller = [regs |-> Regs, want |-> 0]
  BY <1>2, <1>3 DEF RunsIs, Private!Caller
<1>5. Private!Caller.regs = Regs
  BY <1>4
<1>6. Len(Regs) = TopFrame.live
  BY <1>3, ListIsSeq DEF RunsIs
<1>7. Private!Running
  BY <1>2 DEF Private!Running, Running
<1> QED
  BY <1>2, <1>4, <1>5, <1>6, <1>7 DEF Private!Staged

\* Received argc registers after register p of s, alone or after register q or an object.
Receives(u, s, p, q, argc) ==
  u \in {SubSeq(s, p + 1, p + argc)} \cup {<<v>> \o SubSeq(s, p + 1, p + argc) : v \in {Object, s[q]}}

LEMMA GetsRegs ==
  ASSUME NEW f, NEW b \in Nat, NEW n \in Nat, NEW s, List(s, n),
         \A r \in 1 .. n : s[r] = stack[b + r - 1],
         NEW argc \in Nat, NEW p \in Nat, p + argc <= n, NEW q \in 1 .. n,
         NEW self, self = b + q - 1, NEW from, from = b + p, Gets(f, self, from, argc),
         f.base \in Nat, f.live \in Nat,
         NEW u, List(u, f.live), \A r \in 1 .. f.live : u[r] = stack'[f.base + r - 1]
  PROVE  Receives(u, s, p, q, argc)
<1> DEFINE args == SubSeq(s, p + 1, p + argc)
<1>1. List(args, argc) /\ \A i \in 1 .. argc : args[i] = s[p + i]
  <2>1. PartOf(args, s, p, argc)
    BY SubSeqPart
  <2> HIDE DEF args
  <2> QED
    BY <2>1 DEF PartOf
<1> HIDE DEF args
<1>2. \A k \in 0 .. argc - 1 : stack[from + k] = args[k + 1]
  <2> SUFFICES ASSUME NEW k \in 0 .. argc - 1 PROVE stack[from + k] = args[k + 1]
    OBVIOUS
  <2>1. k + 1 \in 1 .. argc /\ p + (k + 1) \in 1 .. n /\ b + (p + (k + 1)) - 1 = b + p + k
    OBVIOUS
  <2> QED
    BY <1>1, <2>1
<1>3. CASE f.live = argc /\ \A k \in 0 .. argc - 1 : stack'[f.base + k] = stack[from + k]
  <2>1. ASSUME NEW i \in 1 .. argc PROVE u[i] = args[i]
    <3>1. i - 1 \in 0 .. argc - 1 /\ f.base + i - 1 = f.base + (i - 1) /\ i - 1 + 1 = i
      OBVIOUS
    <3> QED
      BY <1>2, <1>3, <3>1
  <2>2. u = args
    BY <1>1, <1>3, <2>1, ListEqual
  <2> QED
    BY <2>2 DEF Receives, args
<1>4. CASE /\ f.live = argc + 1 /\ stack'[f.base] \in {Object, stack[self]}
           /\ \A k \in 0 .. argc - 1 : stack'[f.base + 1 + k] = stack[from + k]
  <2> DEFINE v == stack'[f.base]
  <2>1. v \in {Object, s[q]}
    BY <1>4
  <2>2. u[1] = v
    <3>1. 1 \in 1 .. f.live /\ f.base + 1 - 1 = f.base
      BY <1>4
    <3> QED
      BY <3>1
  <2>3. ASSUME NEW i \in 1 .. argc PROVE u[i + 1] = args[i]
    <3>1. i - 1 \in 0 .. argc - 1 /\ f.base + (i + 1) - 1 = f.base + 1 + (i - 1) /\ i - 1 + 1 = i
          /\ i + 1 \in 1 .. f.live
      BY <1>4
    <3> QED
      BY <1>2, <1>4, <3>1
  <2> HIDE DEF v
  <2>4. /\ List(<<v>> \o args, argc + 1) /\ (<<v>> \o args)[1] = v
        /\ \A i \in 1 .. argc : (<<v>> \o args)[i + 1] = args[i]
    <3>1. AfterIs(<<v>> \o args, args, argc, v)
      BY <1>1, ConsAfter
    <3> QED
      BY <3>1 DEF AfterIs
  <2>5. ASSUME NEW i \in 1 .. argc + 1 PROVE u[i] = (<<v>> \o args)[i]
    <3>1. CASE i = 1
      BY <2>2, <2>4, <3>1
    <3>2. CASE i # 1
      <4>1. i - 1 \in 1 .. argc /\ i - 1 + 1 = i
        BY <3>2
      <4> QED
        BY <2>3, <2>4, <4>1
    <3> QED
      BY <3>1, <3>2
  <2>6. u = <<v>> \o args
    <3> DEFINE w == <<v>> \o args
    <3>1. List(u, argc + 1) /\ List(w, argc + 1) /\ \A i \in 1 .. argc + 1 : u[i] = w[i]
      BY <1>4, <2>4, <2>5
    <3> HIDE DEF w
    <3>2. u = w
      BY <3>1, ListEqual
    <3> QED
      BY <3>2 DEF w
  <2> QED
    BY <2>1, <2>6 DEF Receives, args
<1> QED
  BY <1>3, <1>4 DEF Gets

\* q is the first m elements of s.
FirstOf(q, s, m) == List(q, m) /\ \A i \in 1 .. m : q[i] = s[i]

LEMMA FirstIs ==
  ASSUME NEW s, NEW k, List(s, k), NEW m \in Nat, m <= k, NEW q, q = SubSeq(s, 1, m)
  PROVE  FirstOf(q, s, m)
<1> DEFINE z == 0
<1>1. z \in Nat /\ q = SubSeq(s, z + 1, z + m) /\ z + m <= k
  BY DEF List
<1>2. \A i \in 1 .. m : z + i = i
  OBVIOUS
<1> HIDE DEF z
<1>3. PartOf(q, s, z, m)
  BY <1>1, SubSeqPart
<1> QED
  BY <1>3, <1>2 DEF PartOf, FirstOf

LEMMA WaitingRegs ==
  ASSUME NEW s, NEW k, List(s, k), NEW n \in Nat \ {0}, n - 1 <= k, NEW u, List(u, n),
         \A r \in 1 .. n : u[r] = IF r = n THEN Nil ELSE s[r]
  PROVE  u = Append(SubSeq(s, 1, n - 1), Nil)
<1> DEFINE p == SubSeq(s, 1, n - 1)
           w == Append(p, Nil)
           m == n - 1
<1>1. m \in Nat /\ m <= k /\ k \in Nat /\ m + 1 = n
  BY DEF List
<1>2. List(p, m) /\ \A i \in 1 .. m : p[i] = s[i]
  <2>1. p = SubSeq(s, 1, m)
    OBVIOUS
  <2> HIDE DEF m, p
  <2>2. FirstOf(p, s, m)
    BY <1>1, <2>1, FirstIs
  <2> QED
    BY <2>2 DEF FirstOf
<1>3. w = Append(p, Nil)
  OBVIOUS
<1>4. \A r \in 1 .. m : u[r] = s[r]
  BY <1>1
<1> HIDE DEF p, w, m
<1>5. MoreIs(w, p, m, Nil)
  BY <1>2, <1>3, AppendMore
<1>6. MoreIs(u, p, m, Nil)
  <2>1. n \in 1 .. n
    OBVIOUS
  <2> QED
    BY <1>1, <1>2, <1>4, <2>1 DEF MoreIs
<1>7. u = w
  BY <1>1, <1>5, <1>6, MoreUnique
<1> QED
  BY <1>7 DEF p, w, m

LEMMA WaitingIs ==
  ASSUME IInv, Running, NEW w, NEW keep
  PROVE  Private!Waiting(Acts, w, keep)
           = [Acts EXCEPT ![Len(frames)] = [regs |-> Append(SubSeq(Regs, 1, keep), Nil), want |-> w]]
<1>1. Len(Acts) = Len(frames) /\ Acts[Len(frames)].regs = Regs
  BY CallerIs, RunsHold DEF RunsIs
<1> QED
  BY <1>1 DEF Private!Waiting

\* A step of the running frame leaves the activations below it alone.
LEMMA ActsUnder ==
  ASSUME IInv, IInv', Running, Len(frames') >= Len(frames),
         \A i \in 1 .. Len(frames) - 1 : frames'[i] = frames[i],
         frames'[Len(frames)].ret = TopFrame.ret, NestsAgree(Len(frames) - 1),
         \A x \in Slots : x < TopFrame.base => stack'[x] = stack[x]
  PROVE  \A i \in 1 .. Len(frames) - 1 : Acts'[i] = Acts[i]
<1> DEFINE k == Len(frames) - 1
<1>1. k \in Nat /\ k + 1 = Len(frames) /\ TopFrame = frames[Len(frames)]
  BY RunningFacts
<1>2. Len(frames') \in Nat
  BY LenProperties DEF IInv, Shape
<1>3. k < Len(frames) /\ k < Len(frames')
  BY <1>1, <1>2
<1>4. /\ \A i \in 1 .. k : frames'[i] = frames[i]
      /\ frames'[k + 1].ret = frames[k + 1].ret /\ NestsAgree(k)
      /\ \A x \in Slots : x < frames[k + 1].base => stack'[x] = stack[x]
  BY <1>1
<1> HIDE DEF k
<1>5. \A i \in 1 .. k : Acts'[i] = Acts[i]
  BY <1>1, <1>3, <1>4, ActsBelow
<1> QED
  BY <1>5 DEF k

LEMMA PushesUnder ==
  ASSUME IInv, IInv', Running, NEW n, NEW f, Pushes(n, f), f.ret >= TopFrame.base,
         NestsAgree(Len(frames) - 1)
  PROVE  \A i \in 1 .. Len(frames) - 1 : Acts'[i] = Acts[i]
<1>1. /\ Len(frames') = Len(frames) + 1 /\ \A i \in 1 .. Len(frames) - 1 : frames'[i] = frames[i]
      /\ frames'[Len(frames)] = [TopFrame EXCEPT !.live = n]
  BY PushesFacts
<1>2. frames'[Len(frames)].ret = TopFrame.ret /\ Len(frames') >= Len(frames)
  BY <1>1, RunningFacts DEF FrameType
<1>3. n \in Nat /\ f.ret \in Nat /\ TopFrame.base \in Nat
      /\ \A x \in Slots : x < TopFrame.base + n /\ x # f.ret => stack'[x] = stack[x]
  BY RegisterSlots DEF Pushes, FrameType
<1>4. \A x \in Slots : x < TopFrame.base => stack'[x] = stack[x]
  <2> SUFFICES ASSUME NEW x \in Slots, x < TopFrame.base PROVE x < TopFrame.base + n /\ x # f.ret
    BY <1>3
  <2> QED
    BY <1>3, SlotFacts
<1> QED
  BY <1>1, <1>2, <1>4, ActsUnder

LEMMA PushedAwaits ==
  ASSUME IInv, IInv', Running, NEW n, NEW f, Pushes(n, f), NEW l, l = Len(frames)
  PROVE  /\ nests' = nests => Awaited(l)' = f.ret - TopFrame.base + 1
         /\ \A base \in Nat, tail \in BOOLEAN :
              nests' = Append(nests, Nest(l, top, base, tail)) =>
                Awaited(l)' = IF tail THEN 0 ELSE base - TopFrame.base
<1>1. /\ Len(frames') = Len(frames) + 1
      /\ frames'[l] = [TopFrame EXCEPT !.live = n] /\ frames'[l + 1] = f
  BY PushesFacts
<1>2. frames'[l].base = TopFrame.base /\ l \in Nat \ {0} /\ l \in 1 .. Len(frames') /\ l < Len(frames')
  <2>1. l \in Nat \ {0} /\ TopFrame \in FrameType
    BY RunningFacts
  <2>2. frames'[l].base = TopFrame.base
    BY <1>1, <2>1 DEF FrameType
  <2>3. Len(frames') = l + 1
    BY <1>1
  <2> QED
    BY <2>1, <2>2, <2>3
<1>3. /\ \A j \in 1 .. Len(nests') : nests'[j].stop = l =>
           Awaited(l)' = IF nests'[j].tail THEN 0 ELSE nests'[j].base - frames'[l].base
      /\ (\A j \in 1 .. Len(nests') : nests'[j].stop # l) =>
           Awaited(l)' = IF l < Len(frames') THEN frames'[l + 1].ret - frames'[l].base + 1 ELSE 0
  BY <1>2, ActsHoldNext DEF AwaitedIs
<1>4. ASSUME nests' = nests PROVE Awaited(l)' = f.ret - TopFrame.base + 1
  <2>1. \A j \in 1 .. Len(nests) : nests[j].stop # l
    BY StopsUnder, RunningFacts
  <2> QED
    BY <1>1, <1>2, <1>3, <1>4, <2>1
<1>5. ASSUME NEW base \in Nat, NEW tail \in BOOLEAN,
             nests' = Append(nests, Nest(l, top, base, tail))
      PROVE  Awaited(l)' = IF tail THEN 0 ELSE base - TopFrame.base
  <2> DEFINE e == Nest(l, top, base, tail)
  <2>1. e \in NestType /\ e.stop = l /\ e.base = base /\ e.tail = tail
    BY <1>2, RegisterSlots DEF Nest, NestType
  <2> HIDE DEF e
  <2>2. nests' = Append(nests, e)
    BY <1>5 DEF e
  <2>3. Len(nests') = Len(nests) + 1 /\ nests'[Len(nests) + 1] = e /\ Len(nests) \in Nat
    BY <2>1, <2>2, FrameNumbers, AppendFacts
  <2>4. Len(nests) + 1 \in 1 .. Len(nests')
    BY <2>3
  <2> QED
    BY <1>2, <1>3, <2>1, <2>3, <2>4
<1> QED
  BY <1>4, <1>5

\* The caller's activation after a call: it waits on register w.
Leaves(l, n, w) ==
  \E u : /\ Acts'[l] = [regs |-> u, want |-> w] /\ List(u, n)
         /\ \A r \in 1 .. n : u[r] = IF r = w THEN Nil ELSE stack[TopFrame.base + r - 1]

LEMMA PushedTop ==
  ASSUME IInv, IInv', Running, NEW n, NEW f, Pushes(n, f), NEW l, l = Len(frames),
         NEW w, Awaited(l)' = w, \A r \in 1 .. n : r # w => TopFrame.base + r - 1 # f.ret
  PROVE  Leaves(l, n, w)
<1>1. /\ Len(frames') = Len(frames) + 1 /\ frames'[l] = [TopFrame EXCEPT !.live = n]
  BY PushesFacts
<1>2. /\ frames'[l].base = TopFrame.base /\ frames'[l].live = n
      /\ l \in Nat \ {0} /\ l \in 1 .. Len(frames')
  BY <1>1, RunningFacts, SMTT(30) DEF FrameType
<1>3. /\ Acts'[l] = [regs |-> PrivateRegs(l)', want |-> Awaited(l)']
      /\ List(PrivateRegs(l)', frames'[l].live)
      /\ \A r \in 1 .. frames'[l].live :
           PrivateRegs(l)'[r] = IF r = Awaited(l)' THEN Nil ELSE stack'[frames'[l].base + r - 1]
  BY <1>2, ActsHoldNext DEF ActsAre
<1>4. /\ n \in Nat /\ n <= TopFrame.locals /\ TopFrame.base \in Nat
      /\ \A x \in Slots : x < TopFrame.base + n /\ x # f.ret => stack'[x] = stack[x]
  BY RegisterSlots DEF Pushes
<1>5. ASSUME NEW r \in 1 .. n, r # w PROVE stack'[TopFrame.base + r - 1] = stack[TopFrame.base + r - 1]
  <2> DEFINE b == TopFrame.base
  <2>1. b \in Nat /\ n \in Nat /\ b + n <= StackSize /\ StackSize \in Nat
    BY <1>4, RegisterSlots
  <2>2. b + r - 1 # f.ret
    BY <1>5
  <2>3. \A x \in Slots : x < b + n /\ x # f.ret => stack'[x] = stack[x]
    BY <1>4
  <2> HIDE DEF b
  <2>4. b + r - 1 \in Slots /\ b + r - 1 < b + n
    BY <2>1 DEF Slots
  <2>5. stack'[b + r - 1] = stack[b + r - 1]
    BY <2>2, <2>3, <2>4
  <2> QED
    BY <2>5 DEF b
<1> DEFINE u == PrivateRegs(l)'
<1>6. Acts'[l] = [regs |-> u, want |-> w] /\ List(u, n)
  BY <1>2, <1>3
<1>7. ASSUME NEW r \in 1 .. n
      PROVE  u[r] = IF r = w THEN Nil ELSE stack[TopFrame.base + r - 1]
  <2>1. u[r] = IF r = w THEN Nil ELSE stack'[TopFrame.base + r - 1]
    BY <1>2, <1>3
  <2> HIDE DEF u
  <2> QED
    BY <1>5, <2>1
<1> HIDE DEF u
<1> QED
  BY <1>6, <1>7 DEF Leaves
-----------------------------------------------------------------------------
(* Each kind of step is one of PrivateFrames'.                              *)

LEMMA StayIs ==
  ASSUME Running, mode' = mode
  PROVE  /\ Inbox' = Inbox /\ Inbox = Nil /\ mode = "execute" /\ Running'
         /\ nests' = nests => UNCHANGED <<Natives, Inbox, mode>>
<1>1. mode = "execute" /\ mode' = "execute" /\ Running'
  BY DEF Running
<1>2. Inbox = Nil /\ Inbox' = Nil
  BY <1>1 DEF Inbox
<1>3. nests' = nests => Natives' = Natives
  BY DEF Natives
<1> QED
  BY <1>1, <1>2, <1>3

LEMMA PushedRuns ==
  ASSUME IInv, IInv', Running, mode' = mode, NEW n, NEW f, Pushes(n, f)
  PROVE  /\ Acts'[Len(frames) + 1] = [regs |-> Regs', want |-> 0]
         /\ List(Regs', f.live) /\ f.live \in Nat /\ f.base \in Nat
         /\ \A r \in 1 .. f.live : Regs'[r] = stack'[f.base + r - 1]
<1>1. Len(frames') = Len(frames) + 1 /\ frames'[Len(frames) + 1] = f
  BY PushesFacts
<1>2. TopFrame' = f
  BY <1>1 DEF TopFrame
<1>3. RunsIs'
  BY StayIs, RunsHoldNext
<1>4. f.live \in Nat /\ f.base \in Nat
  BY DEF Pushes, FrameType
<1> QED
  BY <1>1, <1>2, <1>3, <1>4 DEF RunsIs

\* A caller that waits on register n, below its callee.
LEMMA CallActs ==
  ASSUME IInv, IInv', Running, mode' = mode, NEW n \in Nat \ {0}, n - 1 <= TopFrame.live,
         NEW f, Pushes(n, f), NEW l, l = Len(frames), Awaited(l)' = n,
         f.ret >= TopFrame.base + n - 1, NestsAgree(l - 1)
  PROVE  Acts' = Append(Private!Waiting(Acts, n, n - 1), Private!Fresh(Regs'))
<1>1. TopFrame.base \in Nat /\ f.ret \in Nat
  BY RegisterSlots DEF Pushes, FrameType
<1>2. \A r \in 1 .. n : r # n => TopFrame.base + r - 1 # f.ret
  BY <1>1
<1>3. PICK u : /\ Acts'[l] = [regs |-> u, want |-> n] /\ List(u, n)
               /\ \A r \in 1 .. n : u[r] = IF r = n THEN Nil ELSE stack[TopFrame.base + r - 1]
  <2>1. Leaves(l, n, n)
    BY <1>2, PushedTop
  <2> QED
    BY <2>1 DEF Leaves
<1>4. List(Regs, TopFrame.live) /\ \A r \in 1 .. TopFrame.live : Regs[r] = stack[TopFrame.base + r - 1]
  BY RunsHold DEF RunsIs
<1>5. \A r \in 1 .. n : u[r] = IF r = n THEN Nil ELSE Regs[r]
  <2> SUFFICES ASSUME NEW r \in 1 .. n PROVE u[r] = IF r = n THEN Nil ELSE Regs[r]
    OBVIOUS
  <2>1. CASE r = n
    BY <1>3, <2>1
  <2>2. CASE r # n
    <3>1. r \in 1 .. TopFrame.live
      BY <2>2, RegisterSlots
    <3> QED
      BY <1>3, <1>4, <2>2, <3>1
  <2> QED
    BY <2>1, <2>2
<1>6. u = Append(SubSeq(Regs, 1, n - 1), Nil)
  BY <1>3, <1>4, <1>5, WaitingRegs
<1> DEFINE a == [regs |-> u, want |-> n]
<1>7. Private!Waiting(Acts, n, n - 1) = [Acts EXCEPT ![Len(frames)] = a]
  BY <1>6, WaitingIs
<1>8. \A i \in 1 .. Len(frames) - 1 : Acts'[i] = Acts[i]
  BY <1>1, PushesUnder
<1>9. Acts'[Len(frames)] = a
  BY <1>3
<1>10. frames # <<>> /\ Len(frames') = Len(frames) + 1
  BY RunningFacts, PushesFacts
<1> HIDE DEF a
<1>11. Acts' = Append([Acts EXCEPT ![Len(frames)] = a], Acts'[Len(frames) + 1])
  BY <1>8, <1>9, <1>10, ActsPush
<1>12. Acts'[Len(frames) + 1] = Private!Fresh(Regs')
  BY PushedRuns DEF Private!Fresh
<1> QED
  BY <1>7, <1>11, <1>12

\* Value v for the register that activation k waits on.
LEMMA DeliverIs ==
  ASSUME NEW as, NEW k, List(as, k), NEW s, NEW w, as[k] = [regs |-> s, want |-> w], NEW v,
         NEW u, u = [s EXCEPT ![w] = v], NEW a, a = [regs |-> u, want |-> 0],
         NEW t, t = [as EXCEPT ![k] = a]
  PROVE  Private!Deliver(as, v) = t
<1>1. Len(as) = k
  BY ListIsSeq
<1>2. as[k].regs = s /\ as[k].want = w
  OBVIOUS
<1> QED
  BY <1>1, <1>2 DEF Private!Deliver

LEMMA TwiceTop ==
  ASSUME NEW s, NEW n, NEW a, NEW b
  PROVE  [[s EXCEPT ![n] = a] EXCEPT ![n] = b] = [s EXCEPT ![n] = b]
  OBVIOUS

LEMMA AnswersPrivate ==
  ASSUME IInv, IInv', Running, mode' = mode, nests' = nests, NEW n, Answers(n), n <= TopFrame.live
  PROVE  Private!Answer
<1> DEFINE l == Len(frames)
           p == Append(SubSeq(Regs, 1, n - 1), Nil)
           a == [regs |-> p, want |-> n]
           W == Private!Waiting(Acts, n, n - 1)
           b == [regs |-> [p EXCEPT ![n] = Object], want |-> 0]
<1>1. /\ n \in Nat \ {0} /\ n <= TopFrame.locals /\ frames' = Relive(n)
      /\ stack'[TopFrame.base + n - 1] = Object
      /\ \A x \in Slots : x < TopFrame.base + n - 1 => stack'[x] = stack[x]
  BY DEF Answers
<1>2. /\ Len(frames') = Len(frames)
      /\ \A i \in 1 .. Len(frames) - 1 : frames'[i] = frames[i]
      /\ frames'[Len(frames)] = [TopFrame EXCEPT !.live = n]
  BY <1>1, ReliveFrames
<1>3. /\ TopFrame' = [TopFrame EXCEPT !.live = n] /\ TopFrame'.base = TopFrame.base
      /\ TopFrame'.live = n /\ TopFrame'.ret = TopFrame.ret
      /\ frames'[Len(frames)].ret = TopFrame.ret /\ Len(frames') >= Len(frames)
      /\ frames # <<>>
  BY <1>2, RunningFacts DEF TopFrame, FrameType
<1>4. /\ Acts'[Len(frames)] = [regs |-> Regs', want |-> 0] /\ List(Regs', n)
      /\ \A r \in 1 .. n : Regs'[r] = stack'[TopFrame.base + r - 1]
  <2>1. RunsIs'
    BY StayIs, RunsHoldNext
  <2> QED
    BY <1>2, <1>3, <2>1 DEF RunsIs
<1>5. /\ List(Regs, TopFrame.live) /\ \A r \in 1 .. TopFrame.live : Regs[r] = stack[TopFrame.base + r - 1]
  BY RunsHold DEF RunsIs
<1>6. Regs' = [p EXCEPT ![n] = Object]
  <2> DEFINE m == n - 1
             q == SubSeq(Regs, 1, n - 1)
             e == [p EXCEPT ![n] = Object]
  <2>1. m \in Nat /\ m < TopFrame.live /\ m + 1 = n /\ m <= TopFrame.live /\ TopFrame.live \in Nat
    BY <1>1, RegisterSlots
  <2>2. List(q, m) /\ \A i \in 1 .. m : q[i] = Regs[i]
    <3>1. q = SubSeq(Regs, 1, m)
      OBVIOUS
    <3> HIDE DEF m, q
    <3>2. FirstOf(q, Regs, m)
      BY <1>5, <2>1, <3>1, FirstIs
    <3> QED
      BY <3>2 DEF FirstOf
  <2>3. p = Append(q, Nil) /\ e = [p EXCEPT ![n] = Object]
    OBVIOUS
  <2> HIDE DEF p, q, e, m
  <2>4. MoreIs(p, q, m, Nil)
    BY <2>2, <2>3, AppendMore
  <2>5. List(p, n) /\ \A i \in 1 .. n - 1 : p[i] = q[i]
    BY <2>1, <2>4 DEF MoreIs
  <2>6. TopIs(e, p, n, Object)
    BY <1>1, <2>3, <2>5, ExceptTop
  <2>7. ASSUME NEW i \in 1 .. n - 1 PROVE Regs'[i] = p[i]
    <3>1. i \in 1 .. m /\ i \in 1 .. n /\ i \in 1 .. TopFrame.live
      BY <1>1, <2>1
    <3>2. TopFrame.base + i - 1 \in Slots /\ TopFrame.base + i - 1 < TopFrame.base + n - 1
      <4> DEFINE c == TopFrame.base
      <4>1. c \in Nat /\ c + n <= StackSize /\ StackSize \in Nat
        BY <1>1, RegisterSlots
      <4> HIDE DEF c
      <4>2. c + i - 1 \in Slots /\ c + i - 1 < c + n - 1
        BY <1>1, <4>1 DEF Slots
      <4> QED
        BY <4>2 DEF c
    <3>3. stack'[TopFrame.base + i - 1] = stack[TopFrame.base + i - 1]
      BY <1>1, <3>2
    <3> QED
      BY <1>4, <1>5, <2>2, <2>5, <3>1, <3>3
  <2>8. Regs'[n] = Object
    <3>1. n \in 1 .. n
      BY <1>1
    <3> QED
      BY <1>1, <1>4, <3>1
  <2>9. TopIs(Regs', p, n, Object)
    BY <1>4, <2>7, <2>8 DEF TopIs
  <2>10. Regs' = e
    BY <2>6, <2>9, TopUnique
  <2> QED
    BY <2>10 DEF e
<1>7. \A i \in 1 .. Len(frames) - 1 : Acts'[i] = Acts[i]
  <2>1. \A x \in Slots : x < TopFrame.base => stack'[x] = stack[x]
    <3>1. TopFrame.base \in Nat
      BY RegisterSlots
    <3>2. \A x \in Slots : x < TopFrame.base => x < TopFrame.base + n - 1
      BY <1>1, <3>1, SlotFacts
    <3> QED
      BY <1>1, <3>2
  <2> QED
    BY <1>2, <1>3, <2>1, NestsAgreeSame, ActsUnder
<1>8. Acts'[Len(frames)] = b
  BY <1>4, <1>6
<1> HIDE DEF b
<1>9. Acts' = [Acts EXCEPT ![Len(frames)] = b]
  BY <1>2, <1>3, <1>7, <1>8, ActsTop
<1>10. W = [Acts EXCEPT ![l] = a]
  BY WaitingIs
<1>11. List(Acts, l) /\ l # 0
  BY <1>3, ActsShape, FrameNumbers, EmptySeq
<1> HIDE DEF W, l, a
<1>12. TopIs(W, Acts, l, a)
  BY <1>10, <1>11, ExceptTop
<1>13. List(W, l) /\ W[l] = [regs |-> p, want |-> n]
  BY <1>12 DEF TopIs, a
<1> HIDE DEF p
<1> DEFINE u == [p EXCEPT ![n] = Object]
           t == [W EXCEPT ![l] = b]
<1>14. u = [p EXCEPT ![n] = Object] /\ b = [regs |-> u, want |-> 0] /\ t = [W EXCEPT ![l] = b]
  BY DEF b
<1>15. t = [Acts EXCEPT ![l] = b]
  BY <1>10, TwiceTop
<1> HIDE DEF u, t, b
<1>16. Private!Deliver(W, Object) = t
  BY <1>13, <1>14, DeliverIs
<1>17. Private!Deliver(W, Object) = [Acts EXCEPT ![l] = b]
  BY <1>16, <1>15
<1>18. Acts' = Private!Deliver(Private!Waiting(Acts, n - 1 + 1, n - 1), Object)
  BY <1>1, <1>9, <1>17 DEF l, W
<1>19. n - 1 \in 0 .. Private!Staged - 1
  BY <1>1, CallerIs, RegisterSlots
<1>20. Private!Running /\ UNCHANGED <<Natives, Inbox, mode>>
  BY CallerIs, StayIs
<1> QED
  BY <1>18, <1>19, <1>20 DEF Private!Answer

\* A callee found its arguments skip slots after its result's.
LEMMA CalledPrivate ==
  ASSUME IInv, IInv', Running, mode' = mode, NEW n \in Nat \ {0}, NEW argc \in Nat,
         NEW p \in Nat, n - 1 <= TopFrame.live, n <= TopFrame.live, p + argc <= TopFrame.live,
         NEW f, Pushes(n, f), NEW l, l = Len(frames), Awaited(l)' = n,
         f.ret >= TopFrame.base + n - 1, NestsAgree(l - 1),
         Gets(f, TopFrame.base + n - 1, TopFrame.base + p, argc)
  PROVE  /\ Acts' = Append(Private!Waiting(Acts, n, n - 1), Private!Fresh(Regs'))
         /\ Receives(Regs', Regs, p, n, argc)
<1>1. Acts' = Append(Private!Waiting(Acts, n, n - 1), Private!Fresh(Regs'))
  BY CallActs
<1>2. /\ List(Regs, TopFrame.live) /\ TopFrame.live \in Nat /\ TopFrame.base \in Nat
      /\ \A r \in 1 .. TopFrame.live : Regs[r] = stack[TopFrame.base + r - 1]
  BY RunsHold, RegisterSlots DEF RunsIs
<1>3. /\ List(Regs', f.live) /\ f.live \in Nat /\ f.base \in Nat
      /\ \A r \in 1 .. f.live : Regs'[r] = stack'[f.base + r - 1]
  BY PushedRuns
<1>4. n \in 1 .. TopFrame.live
  BY <1>2
<1>5. Receives(Regs', Regs, p, n, argc)
  BY <1>2, <1>3, <1>4, GetsRegs
<1> QED
  BY <1>1, <1>5

LEMMA CallsWithPrivate ==
  ASSUME IInv, IInv', Running, mode' = mode, nests' = nests, NEW n \in Nat \ {0}, NEW argc \in Nat,
         NEW skip \in {1, 2}, NEW p, p = n + skip - 1, p + argc <= TopFrame.live,
         CallsWith(n, argc, skip)
  PROVE  \/ Private!Answer
         \/ /\ Acts' = Append(Private!Waiting(Acts, n, n - 1), Private!Fresh(Regs'))
            /\ Receives(Regs', Regs, p, n, argc)
<1>1. p \in Nat /\ n - 1 <= TopFrame.live /\ n <= TopFrame.live /\ TopFrame.base \in Nat
  BY RegisterSlots
<1>2. CASE Answers(n)
  BY <1>1, <1>2, AnswersPrivate
<1>3. ASSUME NEW f, Pushes(n, f), f.ret = TopFrame.base + n - 1, Gets(f, f.ret, f.ret + skip, argc)
      PROVE  /\ Acts' = Append(Private!Waiting(Acts, n, n - 1), Private!Fresh(Regs'))
             /\ Receives(Regs', Regs, p, n, argc)
  <2>1. PICK l : l = Len(frames)
    OBVIOUS
  <2>2. Awaited(l)' = n
    <3>1. Awaited(l)' = f.ret - TopFrame.base + 1
      BY <1>3, <2>1, PushedAwaits
    <3>2. f.ret - TopFrame.base + 1 = n
      BY <1>1, <1>3
    <3> QED
      BY <3>1, <3>2
  <2>3. NestsAgree(l - 1) /\ l = Len(frames)
    BY <2>1, NestsAgreeSame
  <2>4. f.ret >= TopFrame.base + n - 1 /\ f.ret + skip = TopFrame.base + p
    BY <1>1, <1>3
  <2>5. Gets(f, TopFrame.base + n - 1, TopFrame.base + p, argc)
    BY <1>3, <2>4
  <2> QED
    BY <1>1, <1>3, <2>2, <2>3, <2>4, <2>5, CalledPrivate
<1> QED
  BY <1>2, <1>3 DEF CallsWith

LEMMA CallsPrivate == ASSUME IInv, IInv', Running, Calls PROVE Private!Call \/ Private!Answer
<1>1. PICK argc \in Nat : /\ argc < TopFrame.live /\ nests' = nests /\ mode' = mode
                          /\ CallsWith(TopFrame.live - argc, argc, 1)
  BY DEF Calls
<1> DEFINE n == TopFrame.live - argc
<1>2. n \in Nat \ {0} /\ n = n + 1 - 1 /\ n + argc <= TopFrame.live /\ CallsWith(n, argc, 1)
  BY <1>1, RegisterSlots
<1>3. /\ Private!Staged = TopFrame.live /\ Private!Caller.regs = Regs /\ Private!Running
      /\ UNCHANGED <<Natives, Inbox, mode>> /\ argc \in 0 .. Private!Staged - 1
  BY <1>1, CallerIs, StayIs, RegisterSlots
<1>4. n = Private!Staged - argc
  BY <1>3
<1> HIDE DEF n
<1>5. \/ Private!Answer
      \/ /\ Acts' = Append(Private!Waiting(Acts, n, n - 1), Private!Fresh(Regs'))
         /\ Receives(Regs', Regs, n, n, argc)
  BY <1>1, <1>2, CallsWithPrivate
<1>6. ASSUME Acts' = Append(Private!Waiting(Acts, n, n - 1), Private!Fresh(Regs')),
             Receives(Regs', Regs, n, n, argc)
      PROVE  Private!Call
  <2>1. Regs' \in Private!Received(n, argc)
    BY <1>3, <1>6 DEF Receives, Private!Received
  <2> QED
    BY <1>3, <1>4, <1>6, <2>1 DEF Private!Call
<1> QED
  BY <1>5, <1>6

LEMMA CallsMethodPrivate ==
  ASSUME IInv, IInv', Running, CallsMethod PROVE Private!Method \/ Private!Answer
<1>1. PICK argc \in Nat : /\ argc + 1 < TopFrame.live /\ nests' = nests /\ mode' = mode
                          /\ CallsWith(TopFrame.live - argc - 1, argc, 2)
  BY DEF CallsMethod
<1> DEFINE n == TopFrame.live - argc - 1
           p == n + 1
<1>2. /\ n \in Nat \ {0} /\ p = n + 2 - 1 /\ p + argc <= TopFrame.live /\ CallsWith(n, argc, 2)
      /\ p + 1 = n + 2 /\ p + argc = TopFrame.live
  BY <1>1, RegisterSlots
<1>3. /\ Private!Staged = TopFrame.live /\ Private!Caller.regs = Regs /\ Private!Running
      /\ UNCHANGED <<Natives, Inbox, mode>> /\ argc \in 0 .. Private!Staged - 2
  BY <1>1, CallerIs, StayIs, RegisterSlots
<1>4. n = Private!Staged - argc - 1
  BY <1>3
<1> HIDE DEF n, p
<1>5. \/ Private!Answer
      \/ /\ Acts' = Append(Private!Waiting(Acts, n, n - 1), Private!Fresh(Regs'))
         /\ Receives(Regs', Regs, p, n, argc)
  BY <1>1, <1>2, CallsWithPrivate
<1>6. ASSUME Acts' = Append(Private!Waiting(Acts, n, n - 1), Private!Fresh(Regs')),
             Receives(Regs', Regs, p, n, argc)
      PROVE  Private!Method
  <2> DEFINE args == SubSeq(Regs, n + 2, TopFrame.live)
  <2>1. Regs' \in {args} \cup {<<v>> \o args : v \in {Object, Regs[n]}}
    BY <1>2, <1>6 DEF Receives
  <2> QED
    BY <1>3, <1>4, <1>6, <2>1 DEF Private!Method
<1> QED
  BY <1>5, <1>6

LEMMA ImportsPrivate == ASSUME IInv, IInv', Running, Imports PROVE Private!Import
<1>1. /\ nests' = nests /\ mode' = mode /\ TopFrame.live < TopFrame.locals
      /\ \E f : /\ Pushes(TopFrame.live + 1, f) /\ f.ret = TopFrame.base + TopFrame.live
                /\ f.live = 0
  BY DEF Imports
<1>2. PICK f : /\ Pushes(TopFrame.live + 1, f) /\ f.ret = TopFrame.base + TopFrame.live
               /\ f.live = 0
  BY <1>1
<1>3. PICK l : l = Len(frames)
  OBVIOUS
<1> DEFINE n == TopFrame.live + 1
<1>4. /\ n \in Nat \ {0} /\ n - 1 = TopFrame.live /\ n - 1 <= TopFrame.live
      /\ f.ret >= TopFrame.base + n - 1 /\ f.ret - TopFrame.base + 1 = n /\ Pushes(n, f)
  BY <1>2, RegisterSlots
<1>5. Private!Staged = TopFrame.live /\ Private!Running /\ UNCHANGED <<Natives, Inbox, mode>>
  BY <1>1, CallerIs, StayIs
<1>6. n = Private!Staged + 1 /\ l = Len(frames) /\ NestsAgree(l - 1)
  BY <1>3, <1>1, <1>5, NestsAgreeSame
<1> HIDE DEF n
<1>7. Awaited(l)' = n
  BY <1>1, <1>4, <1>6, PushedAwaits
<1>8. Acts' = Append(Private!Waiting(Acts, n, n - 1), Private!Fresh(Regs'))
  BY <1>1, <1>4, <1>6, <1>7, CallActs
<1>9. Regs' = <<>>
  <2>1. List(Regs', 0)
    BY <1>1, <1>2, <1>4, PushedRuns
  <2>2. Len(Regs') = 0 /\ \E S : Regs' \in Seq(S)
    BY <2>1, ListIsSeq
  <2> QED
    BY <2>2, EmptySeq
<1>10. Acts' = Append(Private!Waiting(Acts, Private!Staged + 1, Private!Staged), Private!Fresh(<<>>))
  BY <1>4, <1>5, <1>6, <1>8, <1>9
<1> QED
  BY <1>5, <1>10 DEF Private!Import

LEMMA ShortLists ==
  ASSUME NEW u, NEW x, NEW y
  PROVE  /\ List(u, 1) /\ u[1] = x => u = <<x>>
         /\ List(u, 2) /\ u[1] = x /\ u[2] = y => u = <<x, y>>
<1>1. ASSUME List(u, 1), u[1] = x PROVE u = <<x>>
  <2>1. List(<<x>>, 1)
    BY DEF List
  <2>2. \A i \in 1 .. 1 : u[i] = <<x>>[i]
    BY <1>1
  <2> QED
    BY <1>1, <2>1, <2>2, ListEqual
<1>2. ASSUME List(u, 2), u[1] = x, u[2] = y PROVE u = <<x, y>>
  <2>1. List(<<x, y>>, 2)
    BY DEF List
  <2>2. \A i \in 1 .. 2 : u[i] = <<x, y>>[i]
    BY <1>2
  <2> QED
    BY <1>2, <2>1, <2>2, ListEqual
<1> QED
  BY <1>1, <1>2

LEMMA OperatorPrivate == ASSUME IInv, IInv', Running, CallsOperator PROVE Private!Operator
<1>1. PICK lhs \in Nat, rhs \in Nat, dst \in Nat, total \in {1, 2} :
        /\ nests' = nests /\ mode' = mode /\ lhs < TopFrame.live /\ rhs < TopFrame.live
        /\ dst <= TopFrame.live /\ dst < TopFrame.locals /\ Operates(lhs, rhs, dst, total)
  BY DEF CallsOperator
<1> DEFINE d == dst + 1
           n == Larger(dst + 1, TopFrame.live)
<1>2. PICK f : /\ Pushes(n, f)
               /\ f.ret = TopFrame.base + dst /\ f.live = total
               /\ stack'[f.base] = stack[TopFrame.base + lhs]
               /\ total = 2 => stack'[f.base + 1] = stack[TopFrame.base + rhs]
  BY <1>1 DEF Operates
<1>3. PICK l : l = Len(frames)
  OBVIOUS
<1>4. /\ List(Regs, TopFrame.live) /\ TopFrame.live \in Nat /\ TopFrame.base \in Nat
      /\ \A r \in 1 .. TopFrame.live : Regs[r] = stack[TopFrame.base + r - 1]
  BY RunsHold, RegisterSlots DEF RunsIs
<1>5. /\ d \in 1 .. TopFrame.live + 1 /\ n = (IF d > TopFrame.live THEN d ELSE TopFrame.live)
      /\ n \in Nat /\ f.ret - TopFrame.base + 1 = d /\ f.ret = TopFrame.base + d - 1
      /\ f.ret >= TopFrame.base
  BY <1>1, <1>2, <1>4 DEF Larger
<1>6. \A r \in 1 .. n : r # d => r \in 1 .. TopFrame.live /\ TopFrame.base + r - 1 # f.ret
  BY <1>4, <1>5
<1> HIDE DEF d, n
<1>7. Awaited(l)' = d
  BY <1>1, <1>2, <1>3, <1>5, PushedAwaits
<1>8. Leaves(l, n, d)
  BY <1>2, <1>3, <1>6, <1>7, PushedTop
<1>9. PICK u : /\ Acts'[l] = [regs |-> u, want |-> d] /\ List(u, n)
               /\ \A r \in 1 .. n : u[r] = IF r = d THEN Nil ELSE stack[TopFrame.base + r - 1]
  BY <1>8 DEF Leaves
<1>10. u = [r \in 1 .. IF d > TopFrame.live THEN d ELSE TopFrame.live |->
              IF r = d THEN Nil ELSE Regs[r]]
  <2>1. \A r \in 1 .. n : u[r] = IF r = d THEN Nil ELSE Regs[r]
    BY <1>4, <1>6, <1>9
  <2>2. u = [r \in 1 .. n |-> u[r]]
    BY <1>9 DEF List
  <2>3. u = [r \in 1 .. n |-> IF r = d THEN Nil ELSE Regs[r]]
    BY <2>1, <2>2
  <2> QED
    BY <1>5, <2>3
<1> DEFINE a == [regs |-> u, want |-> d]
<1>11. Acts' = Append([Acts EXCEPT ![Len(frames)] = a], Private!Fresh(Regs'))
  <2>1. \A i \in 1 .. Len(frames) - 1 : Acts'[i] = Acts[i]
    BY <1>1, <1>2, <1>5, NestsAgreeSame, PushesUnder
  <2>2. Acts'[Len(frames)] = a
    BY <1>3, <1>9
  <2>3. frames # <<>> /\ Len(frames') = Len(frames) + 1
    BY <1>2, RunningFacts, PushesFacts
  <2> HIDE DEF a
  <2>4. Acts' = Append([Acts EXCEPT ![Len(frames)] = a], Acts'[Len(frames) + 1])
    BY <2>1, <2>2, <2>3, ActsPush
  <2>5. Acts'[Len(frames) + 1] = Private!Fresh(Regs')
    BY <1>1, <1>2, PushedRuns DEF Private!Fresh
  <2> QED
    BY <2>4, <2>5
<1>12. /\ Len(Acts') = Len(Acts) + 1 /\ Last(Acts').regs = Regs'
  <2>1. frames # <<>> /\ Len(frames') = Len(frames) + 1
    BY <1>2, RunningFacts, PushesFacts
  <2>2. Len(Acts) = Len(frames) /\ Len(Acts') = Len(frames')
    BY <2>1, ActsShape
  <2>3. Acts'[Len(frames) + 1] = [regs |-> Regs', want |-> 0]
    BY <1>1, <1>2, PushedRuns
  <2> QED
    BY <2>1, <2>2, <2>3 DEF Last
<1>13. /\ lhs + 1 \in 1 .. TopFrame.live /\ rhs + 1 \in 1 .. TopFrame.live
       /\ Regs' \in {<<Regs[lhs + 1]>>, <<Regs[lhs + 1], Regs[rhs + 1]>>}
  <2>1. /\ List(Regs', total) /\ f.base \in Nat
        /\ \A r \in 1 .. total : Regs'[r] = stack'[f.base + r - 1]
    BY <1>1, <1>2, PushedRuns
  <2>2. /\ lhs + 1 \in 1 .. TopFrame.live /\ rhs + 1 \in 1 .. TopFrame.live
        /\ TopFrame.base + (lhs + 1) - 1 = TopFrame.base + lhs
        /\ TopFrame.base + (rhs + 1) - 1 = TopFrame.base + rhs
        /\ f.base + 1 - 1 = f.base /\ f.base + 2 - 1 = f.base + 1
    BY <1>1, <1>4, <2>1
  <2>3. Regs[lhs + 1] = stack[TopFrame.base + lhs] /\ Regs[rhs + 1] = stack[TopFrame.base + rhs]
    BY <1>4, <2>2
  <2>4. 1 \in 1 .. total /\ total = 2 => 2 \in 1 .. total
    OBVIOUS
  <2>5. Regs'[1] = Regs[lhs + 1]
    <3>1. 1 \in 1 .. total
      OBVIOUS
    <3> QED
      BY <1>2, <2>1, <2>2, <2>3, <3>1
  <2>6. total = 2 => Regs'[2] = Regs[rhs + 1]
    BY <1>2, <2>1, <2>2, <2>3
  <2> QED
    BY <2>1, <2>2, <2>5, <2>6, ShortLists
<1>14. /\ Private!Running /\ Private!Caller.regs = Regs /\ Len(Acts) = Len(frames)
       /\ Len(Regs) = TopFrame.live /\ UNCHANGED <<Natives, Inbox, mode>>
  BY <1>1, CallerIs, StayIs DEF Private!Staged
<1>15. Acts' = Append([Acts EXCEPT ![Len(frames)] =
                         [regs |-> [r \in 1 .. IF d > TopFrame.live THEN d ELSE TopFrame.live |->
                                      IF r = d THEN Nil ELSE Regs[r]],
                          want |-> d]],
                      Private!Fresh(Regs'))
  BY <1>10, <1>11
<1> QED
  BY <1>5, <1>12, <1>13, <1>14, <1>15 DEF Private!Operator, Private!Last, Last

\* A step of the running activation that ends in a running activation.
LEMMA TopActs ==
  ASSUME IInv, IInv', Running, mode' = mode, nests' = nests, Len(frames') = Len(frames),
         \A i \in 1 .. Len(frames) - 1 : frames'[i] = frames[i],
         frames'[Len(frames)].ret = TopFrame.ret,
         \A x \in Slots : x < TopFrame.base => stack'[x] = stack[x]
  PROVE  /\ Acts' = [Acts EXCEPT ![Len(frames)] = Private!Fresh(Regs')]
         /\ TopFrame' = frames'[Len(frames)]
         /\ List(Regs', TopFrame'.live)
         /\ \A r \in 1 .. TopFrame'.live : Regs'[r] = stack'[TopFrame'.base + r - 1]
<1>1. frames # <<>> /\ Len(frames) \in Nat
  BY RunningFacts
<1>2. \A i \in 1 .. Len(frames) - 1 : Acts'[i] = Acts[i]
  BY <1>1, NestsAgreeSame, ActsUnder
<1>3. RunsIs'
  BY StayIs, RunsHoldNext
<1>4. Acts'[Len(frames)] = Private!Fresh(Regs')
  BY <1>3 DEF RunsIs, Private!Fresh
<1>5. Acts' = [Acts EXCEPT ![Len(frames)] = Private!Fresh(Regs')]
  BY <1>1, <1>2, <1>4, ActsTop
<1> QED
  BY <1>3, <1>5 DEF RunsIs, TopFrame

LEMMA TailCallPrivate ==
  ASSUME IInv, IInv', Running, mode' = mode, nests' = nests, NEW argc \in Nat, argc < TopFrame.live,
         NEW n, n = TopFrame.live - argc, NEW base, base = TopFrame.base + n,
         NEW f, Replaces(f), Gets(f, base - 1, base, argc)
  PROVE  Private!TailCall
<1>1. /\ f \in FrameType /\ f.ret = TopFrame.ret /\ f.base \in Nat /\ f.live \in Nat
      /\ \A x \in Slots : x < TopFrame.base => stack'[x] = stack[x]
  BY DEF Replaces, FrameType
<1>2. /\ Len(frames') = Len(frames) /\ \A i \in 1 .. Len(frames) - 1 : frames'[i] = frames[i]
      /\ frames'[Len(frames)] = f
  BY ReplacesFrames
<1>3. /\ Acts' = [Acts EXCEPT ![Len(frames)] = Private!Fresh(Regs')]
      /\ List(Regs', f.live)
      /\ \A r \in 1 .. f.live : Regs'[r] = stack'[f.base + r - 1]
  BY <1>1, <1>2, TopActs
<1>4. /\ List(Regs, TopFrame.live) /\ TopFrame.live \in Nat /\ TopFrame.base \in Nat
      /\ \A r \in 1 .. TopFrame.live : Regs[r] = stack[TopFrame.base + r - 1]
  BY RunsHold, RegisterSlots DEF RunsIs
<1>5. n \in 1 .. TopFrame.live /\ n \in Nat /\ n + argc <= TopFrame.live
  BY <1>4
<1>6. Gets(f, TopFrame.base + n - 1, TopFrame.base + n, argc)
  <2>1. base \in Nat /\ base - 1 = TopFrame.base + n - 1
    BY <1>4, <1>5
  <2> QED
    BY <2>1
<1>7. Receives(Regs', Regs, n, n, argc)
  BY <1>1, <1>3, <1>4, <1>5, <1>6, GetsRegs
<1>8. /\ Private!Staged = TopFrame.live /\ Private!Caller.regs = Regs /\ Private!Running
      /\ UNCHANGED <<Natives, Inbox, mode>> /\ argc \in 0 .. Private!Staged - 1
      /\ Len(Acts) = Len(frames)
  BY <1>4, CallerIs, StayIs
<1>9. Regs' \in Private!Received(n, argc)
  BY <1>7, <1>8 DEF Receives, Private!Received
<1> QED
  BY <1>3, <1>8, <1>9 DEF Private!TailCall

\* Changing the registers of the running activation.
LEMMA RegsOf ==
  ASSUME IInv, Running, NEW regs
  PROVE  [Acts EXCEPT ![Len(Acts)].regs = regs] = [Acts EXCEPT ![Len(frames)] = Private!Fresh(regs)]
<1>1. Acts[Len(frames)] = [regs |-> Regs, want |-> 0] /\ Len(Acts) = Len(frames)
  BY CallerIs, RunsHold DEF RunsIs
<1>2. [Acts[Len(frames)] EXCEPT !.regs = regs] = [regs |-> regs, want |-> 0]
  BY <1>1
<1> QED
  BY <1>1, <1>2 DEF Private!Fresh

LEMMA LoadPrivate == ASSUME IInv, IInv', Contents, NEW v \in Value, Load(v) PROVE Private!Load(v)
<1> DEFINE b == TopFrame.base
           m == TopFrame.live
<1>1. /\ Running /\ m < TopFrame.locals /\ nests' = nests /\ mode' = mode
      /\ stack' = [stack EXCEPT ![b + m] = v] /\ frames' = [frames EXCEPT ![Len(frames)].live = m + 1]
  BY DEF Load, Register, TopFrame
<1>2. b \in Nat /\ m \in Nat /\ m + 1 \in Nat /\ m + 1 <= TopFrame.locals /\ frames' = Relive(m + 1)
      /\ b + m < StackSize /\ StackSize \in Nat
  BY <1>1, RegisterSlots DEF Relive
<1>3. /\ Len(frames') = Len(frames) /\ \A i \in 1 .. Len(frames) - 1 : frames'[i] = frames[i]
      /\ frames'[Len(frames)] = [TopFrame EXCEPT !.live = m + 1]
  BY <1>1, <1>2, ReliveFrames
<1>4. /\ frames'[Len(frames)].ret = TopFrame.ret /\ frames'[Len(frames)].live = m + 1
      /\ frames'[Len(frames)].base = b
  BY <1>1, <1>3, RunningFacts, SMTT(30) DEF FrameType
<1>5. stack \in [Slots -> Cell] /\ stack' = [stack EXCEPT ![b + m] = v]
  BY <1>1 DEF Contents
<1>6. List(Regs, m) /\ \A r \in 1 .. m : Regs[r] = stack[b + r - 1]
  BY <1>1, RunsHold DEF RunsIs
<1>7. List(Regs, m) /\ Private!Running /\ UNCHANGED <<Natives, Inbox, mode>>
      /\ Len(Acts) = Len(frames) /\ Acts[Len(Acts)].regs = Regs
  BY <1>1, <1>6, CallerIs, StayIs DEF Private!Caller
<1>8. [Acts EXCEPT ![Len(Acts)].regs = Append(Regs, v)]
        = [Acts EXCEPT ![Len(frames)] = Private!Fresh(Append(Regs, v))]
  BY <1>1, RegsOf
<1> HIDE DEF b, m
<1>9. stack'[b + m] = v /\ (\A x \in Slots : x # b + m => stack'[x] = stack[x]) /\ b + m \in Slots
  BY <1>2, <1>5 DEF Slots
<1>10. \A x \in Slots : x < b => stack'[x] = stack[x]
  <2> SUFFICES ASSUME NEW x \in Slots, x < b PROVE stack'[x] = stack[x]
    OBVIOUS
  <2>1. x # b + m
    BY <1>2, SlotFacts
  <2> QED
    BY <1>9, <2>1
<1>11. /\ Acts' = [Acts EXCEPT ![Len(frames)] = Private!Fresh(Regs')]
       /\ TopFrame' = frames'[Len(frames)]
       /\ List(Regs', TopFrame'.live)
       /\ \A r \in 1 .. TopFrame'.live : Regs'[r] = stack'[TopFrame'.base + r - 1]
  <2>1. \A x \in Slots : x < TopFrame.base => stack'[x] = stack[x]
    BY <1>10 DEF b
  <2> QED
    BY <1>1, <1>3, <1>4, <2>1, TopActs
<1>12. List(Regs', m + 1) /\ \A r \in 1 .. m + 1 : Regs'[r] = stack'[b + r - 1]
  BY <1>4, <1>11
<1>13. \A r \in 1 .. m : Regs'[r] = Regs[r]
  <2> SUFFICES ASSUME NEW r \in 1 .. m PROVE Regs'[r] = Regs[r]
    OBVIOUS
  <2>1. b + r - 1 \in Slots /\ b + r - 1 # b + m /\ r \in 1 .. m + 1
    BY <1>2 DEF Slots
  <2> QED
    BY <1>6, <1>9, <1>12, <2>1
<1>14. Regs'[m + 1] = v
  <2>1. m + 1 \in 1 .. m + 1 /\ b + (m + 1) - 1 = b + m
    BY <1>2
  <2> QED
    BY <1>9, <1>12, <2>1
<1>15. MoreIs(Regs', Regs, m, v)
  BY <1>12, <1>13, <1>14 DEF MoreIs
<1>16. MoreIs(Append(Regs, v), Regs, m, v)
  BY <1>6, AppendMore
<1>17. Regs' = Append(Regs, v)
  BY <1>2, <1>15, <1>16, MoreUnique
<1> QED
  BY <1>7, <1>8, <1>11, <1>17 DEF Private!Load

LEMMA DropPrivate == ASSUME IInv, IInv', Drop PROVE Private!Drop
<1> DEFINE b == TopFrame.base
           m == TopFrame.live
<1>1. /\ Running /\ m > 0 /\ nests' = nests /\ mode' = mode /\ stack' = stack
      /\ frames' = [frames EXCEPT ![Len(frames)].live = m - 1]
  BY DEF Drop, TopFrame
<1>2. b \in Nat /\ m \in Nat /\ m - 1 \in Nat /\ m - 1 <= TopFrame.locals /\ frames' = Relive(m - 1)
      /\ m # 0
  BY <1>1, RegisterSlots DEF Relive
<1>3. /\ Len(frames') = Len(frames) /\ \A i \in 1 .. Len(frames) - 1 : frames'[i] = frames[i]
      /\ frames'[Len(frames)] = [TopFrame EXCEPT !.live = m - 1]
  BY <1>1, <1>2, ReliveFrames
<1>4. /\ frames'[Len(frames)].ret = TopFrame.ret /\ frames'[Len(frames)].live = m - 1
      /\ frames'[Len(frames)].base = b
  BY <1>1, <1>3, RunningFacts DEF FrameType
<1>5. List(Regs, m) /\ \A r \in 1 .. m : Regs[r] = stack[b + r - 1]
  BY <1>1, RunsHold DEF RunsIs
<1>6. Private!Running /\ UNCHANGED <<Natives, Inbox, mode>> /\ Private!Staged = m
      /\ Len(Acts) = Len(frames) /\ Acts[Len(Acts)].regs = Regs
  BY <1>1, CallerIs, StayIs DEF Private!Caller
<1>7. [Acts EXCEPT ![Len(Acts)].regs = Front(Regs)]
        = [Acts EXCEPT ![Len(frames)] = Private!Fresh(Front(Regs))]
  BY <1>1, RegsOf
<1>8. /\ Acts' = [Acts EXCEPT ![Len(frames)] = Private!Fresh(Regs')]
       /\ TopFrame' = frames'[Len(frames)]
       /\ List(Regs', TopFrame'.live)
       /\ \A r \in 1 .. TopFrame'.live : Regs'[r] = stack'[TopFrame'.base + r - 1]
  BY <1>1, <1>3, <1>4, TopActs
<1> HIDE DEF b, m
<1>9. List(Regs', m - 1) /\ \A r \in 1 .. m - 1 : Regs'[r] = stack[b + r - 1]
  BY <1>1, <1>4, <1>8
<1>10. List(Front(Regs), m - 1) /\ \A r \in 1 .. m - 1 : Front(Regs)[r] = Regs[r]
  BY <1>2, <1>5, FrontList
<1>11. \A r \in 1 .. m - 1 : r \in 1 .. m
  BY <1>2
<1>12. \A r \in 1 .. m - 1 : Regs'[r] = Front(Regs)[r]
  BY <1>5, <1>9, <1>10, <1>11
<1>13. Regs' = Front(Regs)
  BY <1>9, <1>10, <1>12, ListEqual
<1>14. [Acts EXCEPT ![Len(Acts)].regs = Private!Front(@)] = [Acts EXCEPT ![Len(Acts)].regs = Front(Regs)]
  BY <1>6 DEF Private!Front, Front
<1> QED
  BY <1>1, <1>6, <1>7, <1>8, <1>13, <1>14 DEF Private!Drop

\* The waiting natives after a call back and after an answer.
LEMMA NativesEnter ==
  ASSUME IInv, IInv', NEW e \in NestType, nests' = Append(nests, e)
  PROVE  Natives' = Append(Natives, [depth |-> e.stop, tail |-> e.tail])
<1> DEFINE k == Len(nests)
           d == [depth |-> e.stop, tail |-> e.tail]
           w == Append(Natives, d)
<1>1. /\ k \in Nat /\ Len(nests') = k + 1 /\ nests'[k + 1] = e
      /\ \A j \in 1 .. k : nests'[j] = nests[j]
  BY FrameNumbers, AppendFacts
<1>2. /\ List(Natives, k)
      /\ \A j \in 1 .. k : Natives[j] = [depth |-> nests[j].stop, tail |-> nests[j].tail]
  BY ActsHold DEF ActsAre
<1>3. /\ List(Natives', k + 1)
      /\ \A j \in 1 .. k + 1 : Natives'[j] = [depth |-> nests'[j].stop, tail |-> nests'[j].tail]
  BY <1>1, ActsHoldNext DEF ActsAre
<1>4. w = Append(Natives, d)
  OBVIOUS
<1>5. d = [depth |-> e.stop, tail |-> e.tail]
  OBVIOUS
<1> HIDE DEF k, d, w
<1>6. MoreIs(w, Natives, k, d)
  BY <1>2, <1>4, AppendMore
<1>7. \A j \in 1 .. k : j \in 1 .. k + 1
  BY <1>1
<1>8. \A j \in 1 .. k : Natives'[j] = Natives[j]
  BY <1>1, <1>2, <1>3, <1>7
<1>9. Natives'[k + 1] = d
  <2>1. k + 1 \in 1 .. k + 1
    BY <1>1
  <2> QED
    BY <1>1, <1>3, <1>5, <2>1
<1>10. MoreIs(Natives', Natives, k, d)
  BY <1>3, <1>8, <1>9 DEF MoreIs
<1>11. Natives' = w
  BY <1>1, <1>6, <1>10, MoreUnique
<1> QED
  BY <1>11 DEF w, d

LEMMA LastNative ==
  ASSUME IInv, nests # <<>>
  PROVE  /\ Natives # <<>> /\ Last(Natives) = [depth |-> Last(nests).stop, tail |-> Last(nests).tail]
         /\ List(Natives, Len(nests)) /\ Len(nests) \in Nat \ {0}
<1>1. /\ Len(nests) \in Nat \ {0} /\ Last(nests) = nests[Len(nests)]
      /\ Len(nests) \in 1 .. Len(nests) /\ Len(nests) # 0
  <2>1. nests \in Seq(NestType)
    BY FrameNumbers
  <2>2. Len(nests) \in Nat \ {0} /\ Last(nests) = nests[Len(nests)]
    BY <2>1, FrontFacts
  <2> QED
    BY <2>2
<1>2. /\ List(Natives, Len(nests))
      /\ \A j \in 1 .. Len(nests) : Natives[j] = [depth |-> nests[j].stop, tail |-> nests[j].tail]
  BY ActsHold DEF ActsAre
<1>3. Last(Natives) = Natives[Len(nests)] /\ Natives # <<>>
  BY <1>1, <1>2, FrontList
<1> QED
  BY <1>1, <1>2, <1>3

LEMMA NativesLeave ==
  ASSUME IInv, IInv', nests # <<>>, nests' = Front(nests)
  PROVE  Natives' = Front(Natives)
<1> DEFINE k == Len(nests) - 1
<1>1. /\ k \in Nat /\ Len(nests') = k /\ Len(nests) # 0
      /\ \A j \in 1 .. k : nests'[j] = nests[j]
      /\ \A j \in 1 .. k : j \in 1 .. Len(nests)
  <2>1. nests \in Seq(NestType)
    BY FrameNumbers
  <2>2. /\ Len(nests) \in Nat \ {0} /\ Len(nests') = Len(nests) - 1
        /\ \A j \in 1 .. Len(nests) - 1 : nests'[j] = nests[j]
    BY <2>1, FrontFacts
  <2> QED
    BY <2>2
<1>2. /\ List(Natives, Len(nests))
      /\ \A j \in 1 .. Len(nests) : Natives[j] = [depth |-> nests[j].stop, tail |-> nests[j].tail]
  BY ActsHold DEF ActsAre
<1>3. /\ List(Natives', k)
      /\ \A j \in 1 .. k : Natives'[j] = [depth |-> nests'[j].stop, tail |-> nests'[j].tail]
  BY <1>1, ActsHoldNext DEF ActsAre
<1>4. List(Front(Natives), k) /\ \A j \in 1 .. k : Front(Natives)[j] = Natives[j]
  BY <1>1, <1>2, FrontList, SMTT(30)
<1> HIDE DEF k
<1>5. ASSUME NEW j \in 1 .. k PROVE Natives'[j] = Front(Natives)[j]
  <2>1. nests'[j] = nests[j] /\ Natives[j] = [depth |-> nests[j].stop, tail |-> nests[j].tail]
    BY <1>1, <1>2
  <2>2. Natives'[j] = Natives[j]
    BY <1>3, <2>1
  <2> QED
    BY <1>4, <2>2
<1> QED
  BY <1>3, <1>4, <1>5, ListEqual

LEMMA CallBackPrivate ==
  ASSUME IInv, IInv', Running, mode' = mode, top < StackSize,
         NEW argc \in Nat, argc < TopFrame.live, NEW tail \in BOOLEAN,
         NEW k, k = TopFrame.live - argc, NEW n, n = IF tail THEN TopFrame.live ELSE k,
         NEW base, base = TopFrame.base + k, NEW l, l = Len(frames),
         nests' = Append(nests, Nest(l, top, base, tail)),
         NEW f, Pushes(n, f), f.ret = top, Gets(f, base - 1, base, argc)
  PROVE  Private!CallBack
<1>1. /\ TopFrame.live \in Nat /\ TopFrame.base \in Nat /\ top \in Nat
      /\ TopFrame.base + TopFrame.live < top
  <2>1. /\ TopFrame.live \in Nat /\ TopFrame.base \in Nat /\ top \in Nat /\ TopFrame.locals \in Nat
        /\ TopFrame.live <= TopFrame.locals /\ TopFrame.base + TopFrame.locals + 1 <= top
    BY RegisterSlots
  <2> QED
    BY <2>1, SMTT(30)
<1>2. /\ k \in 1 .. TopFrame.live /\ k \in Nat \ {0} /\ base \in Nat /\ k + argc = TopFrame.live
      /\ n \in Nat \ {0} /\ n <= TopFrame.live /\ k <= TopFrame.live
      /\ l \in Nat \ {0} /\ base - TopFrame.base = k /\ base - 1 = TopFrame.base + k - 1
      /\ k - 1 <= TopFrame.live /\ f.ret >= TopFrame.base + k - 1 /\ f.ret >= TopFrame.base
  <2>1. l \in Nat \ {0}
    BY RunningFacts
  <2>2. k \in 1 .. TopFrame.live /\ k \in Nat \ {0} /\ k + argc = TopFrame.live
    <3> DEFINE m == TopFrame.live
    <3>1. m \in Nat /\ argc < m /\ k = m - argc
      BY <1>1
    <3> HIDE DEF m
    <3>2. k \in 1 .. m /\ k \in Nat \ {0} /\ k + argc = m
      BY <3>1
    <3> QED
      BY <3>2 DEF m
  <2>3. n \in Nat \ {0} /\ n <= TopFrame.live
    BY <1>1, <2>2, SMTT(30)
  <2>4. /\ base \in Nat /\ base - TopFrame.base = k /\ base - 1 = TopFrame.base + k - 1
        /\ f.ret >= TopFrame.base + k - 1 /\ f.ret >= TopFrame.base
    <3> DEFINE b == TopFrame.base
               m == TopFrame.live
    <3>1. /\ b \in Nat /\ m \in Nat /\ top \in Nat /\ b + m < top /\ k \in 1 .. m
          /\ base = b + k /\ f.ret = top
      BY <1>1, <2>2
    <3> HIDE DEF b, m
    <3>2. base \in Nat /\ base - b = k /\ base - 1 = b + k - 1
      <4>1. base \in Nat /\ k \in Nat
        BY <3>1, SMTT(30)
      <4>2. base - b = k
        BY <3>1, <4>1
      <4>3. base - 1 = b + k - 1
        BY <3>1, <4>1
      <4> QED
        BY <4>1, <4>2, <4>3
    <3>3. top >= b + k - 1 /\ top >= b
      BY <3>1
    <3> QED
      BY <3>1, <3>2, <3>3 DEF b
  <2>5. k <= TopFrame.live /\ k - 1 <= TopFrame.live
    BY <1>1, <2>2
  <2> QED
    BY <2>1, <2>2, <2>3, <2>4, <2>5
<1> DEFINE e == Nest(l, top, base, tail)
<1>3. e \in NestType /\ e.stop = l /\ e.tail = tail /\ nests' = Append(nests, e)
  BY <1>1, <1>2 DEF Nest, NestType
<1>4. Awaited(l)' = IF tail THEN 0 ELSE k
  <2>1. Awaited(l)' = IF tail THEN 0 ELSE base - TopFrame.base
    BY <1>2, PushedAwaits
  <2> QED
    BY <1>2, <2>1
<1> HIDE DEF e
<1>5. NestsAgree(l - 1)
  <2>1. l - 1 \in Nat /\ l - 1 < e.stop
    BY <1>2, <1>3
  <2> QED
    BY <1>3, <2>1, NestsAgreeEnter
<1>6. Natives' = Append(Natives, [depth |-> Len(Acts), tail |-> tail])
  BY <1>3, NativesEnter, CallerIs
<1>7. /\ List(Regs, TopFrame.live)
      /\ \A r \in 1 .. TopFrame.live : Regs[r] = stack[TopFrame.base + r - 1]
      /\ Acts[l] = [regs |-> Regs, want |-> 0]
  BY RunsHold DEF RunsIs
<1>8. /\ List(Regs', f.live) /\ f.live \in Nat /\ f.base \in Nat
      /\ \A r \in 1 .. f.live : Regs'[r] = stack'[f.base + r - 1]
  BY PushedRuns
<1>9. Receives(Regs', Regs, k, k, argc)
  <2>1. Gets(f, TopFrame.base + k - 1, TopFrame.base + k, argc)
    BY <1>2
  <2>2. k + argc <= TopFrame.live /\ k \in Nat
    BY <1>1, <1>2
  <2> QED
    BY <1>1, <1>2, <1>7, <1>8, <2>1, <2>2, GetsRegs
<1>10. /\ Private!Staged = TopFrame.live /\ Private!Caller.regs = Regs /\ Private!Running
       /\ UNCHANGED <<Inbox, mode>> /\ argc \in 0 .. Private!Staged - 1 /\ Len(Acts) = Len(frames)
  BY <1>1, CallerIs, StayIs
<1>11. Regs' \in Private!Received(k, argc)
  BY <1>9, <1>10 DEF Receives, Private!Received
<1>12. CASE ~tail
  <2>1. Acts' = Append(Private!Waiting(Acts, k, k - 1), Private!Fresh(Regs'))
    BY <1>2, <1>4, <1>5, <1>12, CallActs
  <2> QED
    BY <1>6, <1>10, <1>11, <1>12, <2>1 DEF Private!CallBack
<1>13. CASE tail
  <2>1. Leaves(l, n, 0)
    <3>1. Awaited(l)' = 0
      BY <1>4, <1>13
    <3>2. \A r \in 1 .. n : r # 0 => TopFrame.base + r - 1 # f.ret
      <4> DEFINE b == TopFrame.base
                 m == TopFrame.live
      <4>1. b \in Nat /\ m \in Nat /\ top \in Nat /\ b + m < top /\ n \in Nat /\ n <= m
        BY <1>1, <1>2
      <4> HIDE DEF b, m
      <4>2. \A r \in 1 .. n : b + r - 1 # top
        BY <4>1
      <4> QED
        BY <4>2 DEF b
    <3> QED
      BY <3>1, <3>2, PushedTop
  <2>2. PICK u : /\ Acts'[l] = [regs |-> u, want |-> 0] /\ List(u, n)
                 /\ \A r \in 1 .. n : u[r] = IF r = 0 THEN Nil ELSE stack[TopFrame.base + r - 1]
    BY <2>1 DEF Leaves
  <2>3. n = TopFrame.live /\ \A r \in 1 .. n : u[r] = Regs[r]
    BY <1>2, <1>7, <1>13, <2>2
  <2>4. u = Regs
    BY <1>7, <2>2, <2>3, ListEqual
  <2>5. Acts'[Len(frames)] = Acts[Len(frames)]
    BY <1>7, <2>2, <2>4
  <2>6. \A i \in 1 .. Len(frames) - 1 : Acts'[i] = Acts[i]
    BY <1>2, <1>5, PushesUnder
  <2>7. frames # <<>> /\ Len(frames') = Len(frames) + 1 /\ Len(frames) \in Nat
    BY RunningFacts, PushesFacts
  <2>8. Acts' = Append([Acts EXCEPT ![Len(frames)] = Acts[Len(frames)]], Acts'[Len(frames) + 1])
    BY <2>5, <2>6, <2>7, ActsPush
  <2>9. [Acts EXCEPT ![Len(frames)] = Acts[Len(frames)]] = Acts
    BY <2>7, ActsShape DEF List
  <2>10. Acts'[Len(frames) + 1] = Private!Fresh(Regs')
    BY PushedRuns DEF Private!Fresh
  <2>11. Acts' = Append(Acts, Private!Fresh(Regs'))
    BY <2>8, <2>9, <2>10
  <2> QED
    BY <1>6, <1>10, <1>11, <1>13, <2>11 DEF Private!CallBack
<1> QED
  BY <1>12, <1>13
-----------------------------------------------------------------------------
(* Results that reach the register that waits for them.                     *)

\* Activation k waited on register w and now finds v there.
Finds(k, w, v) ==
  /\ Acts[k] = [regs |-> PrivateRegs(k), want |-> w]
  /\ Acts'[k] = [regs |-> [PrivateRegs(k) EXCEPT ![w] = v], want |-> 0]

\* Activation k is innermost again and finds v where it waited.
LEMMA Delivered ==
  ASSUME IInv, IInv', Running', NEW k \in 1 .. Len(frames), Len(frames') = k, frames'[k] = frames[k],
         NEW w, w = Awaited(k), w \in 1 .. frames[k].live, NEW v,
         stack'[frames[k].base + w - 1] = v,
         \A r \in 1 .. frames[k].live :
           r # w => stack'[frames[k].base + r - 1] = stack[frames[k].base + r - 1]
  PROVE  Finds(k, w, v)
<1>1. /\ Acts[k] = [regs |-> PrivateRegs(k), want |-> w]
      /\ List(PrivateRegs(k), frames[k].live)
      /\ \A r \in 1 .. frames[k].live :
           PrivateRegs(k)[r] = IF r = w THEN Nil ELSE stack[frames[k].base + r - 1]
  BY ActsHold DEF ActsAre
<1>2. TopFrame' = frames[k]
  BY DEF TopFrame
<1>3. /\ Acts'[k] = [regs |-> Regs', want |-> 0] /\ List(Regs', frames[k].live)
      /\ \A r \in 1 .. frames[k].live : Regs'[r] = stack'[frames[k].base + r - 1]
  BY <1>2, RunsHoldNext DEF RunsIs
<1> DEFINE s == PrivateRegs(k)
           u == [s EXCEPT ![w] = v]
           m == frames[k].live
<1>4. List(s, m) /\ u = [s EXCEPT ![w] = v] /\ w \in 1 .. m /\ List(Regs', m)
  BY <1>1, <1>3
<1>5. \A r \in 1 .. m : Regs'[r] = IF r = w THEN v ELSE s[r]
  BY <1>1, <1>3
<1> HIDE DEF s, m
<1>6. u = [r \in 1 .. m |-> IF r = w THEN v ELSE s[r]]
  BY <1>4 DEF List
<1>7. Regs' = [r \in 1 .. m |-> Regs'[r]]
  BY <1>4 DEF List
<1>8. Regs' = u
  BY <1>5, <1>6, <1>7
<1> QED
  BY <1>1, <1>3, <1>8 DEF s, Finds

\* What a frame's window leaves to the frame above it.
LEMMA CallerSlots ==
  ASSUME IInv, Len(frames) > 1
  PROVE  /\ Len(frames) - 1 \in 1 .. Len(frames) /\ Len(frames) - 1 + 1 = Len(frames)
         /\ TopFrame = frames[Len(frames)] /\ frames # <<>>
         /\ frames[Len(frames) - 1].base + frames[Len(frames) - 1].live <= TopFrame.base
         /\ frames[Len(frames) - 1].base <= TopFrame.ret
<1>1. Len(frames) \in Nat /\ frames # <<>>
  BY FrameNumbers, EmptySeq
<1>2. Len(frames) - 1 \in 1 .. Len(frames) - 1 /\ Len(frames) - 1 + 1 = Len(frames)
  BY <1>1
<1>3. CallerKeeps(frames[Len(frames) - 1], frames[Len(frames) - 1 + 1])
  BY <1>2 DEF IInv, FrameWindows, Windows
<1> QED
  BY <1>1, <1>2, <1>3 DEF CallerKeeps, TopFrame

\* The innermost frame is gone: the activations below its caller's are the same.
LEMMA PoppedUnder ==
  ASSUME IInv, IInv', Len(frames) > 1, frames' = Front(frames), NestsAgree(Len(frames) - 2),
         \A x \in Slots : x < TopFrame.base /\ x # TopFrame.ret => stack'[x] = stack[x]
  PROVE  /\ Len(frames') = Len(frames) - 1
         /\ \A i \in 1 .. Len(frames) - 1 : frames'[i] = frames[i]
         /\ \A i \in 1 .. Len(frames) - 2 : Acts'[i] = Acts[i]
<1> DEFINE k == Len(frames) - 2
<1>1. frames \in Seq(FrameType) /\ Len(frames) \in Nat /\ frames # <<>>
  BY FrameNumbers, EmptySeq
<1>2. Len(frames') = Len(frames) - 1 /\ \A i \in 1 .. Len(frames) - 1 : frames'[i] = frames[i]
  BY <1>1, FrontFacts
<1>3. /\ k \in Nat /\ k < Len(frames) /\ k < Len(frames') /\ k + 1 = Len(frames) - 1
      /\ k + 1 \in 1 .. Len(frames) - 1 /\ k + 1 \in 1 .. Len(frames)
      /\ \A i \in 1 .. k : i \in 1 .. Len(frames) - 1
  BY <1>1, <1>2
<1>4. (\A i \in 1 .. k : frames'[i] = frames[i]) /\ frames'[k + 1].ret = frames[k + 1].ret
  BY <1>2, <1>3
<1>5. /\ frames[k + 1].base \in Nat /\ frames[k + 1].live \in Nat
      /\ frames[k + 1].base + frames[k + 1].live <= TopFrame.base
      /\ frames[k + 1].base <= TopFrame.ret
      /\ TopFrame.base \in Nat /\ TopFrame.ret \in Nat
  <2>1. /\ Len(frames) \in 1 .. Len(frames) /\ TopFrame = frames[Len(frames)]
    BY <1>1, CallerSlots
  <2>2. frames[k + 1].base \in Nat /\ frames[k + 1].live \in Nat
    BY <1>3, FrameNumbers
  <2>3. TopFrame.base \in Nat /\ TopFrame.ret \in Nat
    BY <2>1, FrameNumbers
  <2> QED
    BY <1>3, <2>2, <2>3, CallerSlots
<1>6. ASSUME NEW x \in Slots, x < frames[k + 1].base PROVE stack'[x] = stack[x]
  <2> DEFINE b == frames[k + 1].base
             m == frames[k + 1].live
             c == TopFrame.base
             r == TopFrame.ret
  <2>1. /\ b \in Nat /\ m \in Nat /\ b + m <= c /\ b <= r /\ c \in Nat /\ r \in Nat /\ x < b
        /\ x \in Int
    BY <1>5, <1>6, SlotFacts
  <2> HIDE DEF b, m, c, r
  <2>2. x < c /\ x # r
    BY <2>1
  <2> QED
    BY <2>2 DEF c, r
<1>7. NestsAgree(k)
  OBVIOUS
<1> HIDE DEF k
<1>8. \A i \in 1 .. k : Acts'[i] = Acts[i]
  BY <1>3, <1>4, <1>6, <1>7, ActsBelow
<1> QED
  BY <1>2, <1>8 DEF k

\* The innermost activation ends and its caller finds v where it waited.
LEMMA DeliverPop ==
  ASSUME IInv, IInv', Waits, Len(frames) > 1, frames' = Front(frames), Running',
         NestsAgree(Len(frames) - 2), \A j \in 1 .. Len(nests) : nests[j].stop # Len(frames) - 1,
         \A x \in Slots : x < TopFrame.base /\ x # TopFrame.ret => stack'[x] = stack[x],
         NEW v, TopFrame.ret \in Slots => stack'[TopFrame.ret] = v
  PROVE  Acts' = Private!Deliver(Front(Acts), v)
<1> PICK k : k = Len(frames) - 1
  OBVIOUS
<1> DEFINE b == frames[k].base
           m == frames[k].live
           r == TopFrame.ret
           c == TopFrame.base
           s == PrivateRegs(k)
<1>1. /\ Len(frames) \in Nat /\ k \in 1 .. Len(frames) /\ k \in 1 .. Len(frames) - 1
      /\ k + 1 = Len(frames) /\ k < Len(frames) /\ TopFrame = frames[k + 1]
      /\ Len(frames) - 2 = k - 1 /\ frames # <<>>
  BY FrameNumbers, CallerSlots
<1>2. /\ Len(frames') = k /\ frames'[k] = frames[k]
      /\ \A i \in 1 .. Len(frames) - 2 : Acts'[i] = Acts[i]
  <2>1. /\ Len(frames') = Len(frames) - 1
        /\ \A i \in 1 .. Len(frames) - 1 : frames'[i] = frames[i]
        /\ \A i \in 1 .. Len(frames) - 2 : Acts'[i] = Acts[i]
    BY PoppedUnder
  <2> QED
    BY <1>1, <2>1
<1>3. r < b + m
  <2>1. FrameWaits(frames, nests, k)
    BY <1>1 DEF Waits, WaitsIn
  <2> QED
    BY <1>1, <2>1 DEF FrameWaits
<1>4. /\ b \in Nat /\ m \in Nat /\ r \in Nat /\ c \in Nat /\ b <= r /\ b + m <= c
      /\ b + m <= StackSize /\ StackSize \in Nat
  <2>1. /\ b \in Nat /\ m \in Nat /\ frames[k].locals \in Nat /\ m <= frames[k].locals
        /\ b + frames[k].locals + 1 <= StackSize /\ StackSize \in Nat
    BY <1>1, FrameNumbers
  <2>2. r \in Nat /\ c \in Nat
    <3>1. k + 1 \in 1 .. Len(frames)
      BY <1>1
    <3> QED
      BY <1>1, <3>1, FrameNumbers
  <2>3. b <= r /\ b + m <= c
    BY <1>1, CallerSlots
  <2>4. b + m <= StackSize
    <3> HIDE DEF b, m
    <3> QED
      BY <2>1
  <2> QED
    BY <2>1, <2>2, <2>3, <2>4
<1>5. Awaited(k) = r - b + 1
  <2>1. \A j \in 1 .. Len(nests) : nests[j].stop # k
    BY <1>1
  <2> QED
    BY <1>1, <2>1, AwaitedHolds DEF AwaitedIs
<1> PICK w : w = Awaited(k)
  OBVIOUS
<1>6. w = r - b + 1
  BY <1>5
<1>7. /\ \A x \in Slots : x < c /\ x # r => stack'[x] = stack[x]
      /\ r \in Slots => stack'[r] = v
  OBVIOUS
<1>8. w \in 1 .. m /\ stack'[b + w - 1] = v
      /\ \A q \in 1 .. m : q # w => stack'[b + q - 1] = stack[b + q - 1]
  <2> HIDE DEF b, m, r, c
  <2>1. w \in 1 .. m
    BY <1>3, <1>4, <1>6
  <2>2. b + w - 1 = r
    BY <1>4, <1>6
  <2>3. r \in Slots
    BY <1>3, <1>4 DEF Slots
  <2>4. ASSUME NEW q \in 1 .. m, q # w PROVE stack'[b + q - 1] = stack[b + q - 1]
    <3>1. b + q - 1 \in Slots /\ b + q - 1 < c /\ b + q - 1 # r
      BY <1>4, <1>6, <2>4 DEF Slots
    <3> QED
      BY <1>7, <3>1
  <2>5. stack'[b + w - 1] = v
    BY <1>7, <2>2, <2>3
  <2> QED
    BY <2>1, <2>4, <2>5
<1>9. Finds(k, w, v)
  BY <1>1, <1>2, <1>8, Delivered
<1> DEFINE u  == [s EXCEPT ![w] = v]
           a  == [regs |-> u, want |-> 0]
           as == Front(Acts)
           t  == [as EXCEPT ![k] = a]
<1>10. Acts'[Len(frames) - 1] = a
  BY <1>1, <1>9 DEF Finds
<1> HIDE DEF a
<1>11. Acts' = [Front(Acts) EXCEPT ![Len(frames) - 1] = a]
  BY <1>1, <1>2, <1>10, ActsPopTop
<1>12. Acts' = t
  BY <1>1, <1>11
<1>13. u = [s EXCEPT ![w] = v] /\ a = [regs |-> u, want |-> 0] /\ t = [as EXCEPT ![k] = a]
  BY DEF a
<1>14. List(as, k) /\ as[k] = [regs |-> s, want |-> w]
  BY <1>1, <1>9, ActsShape DEF Finds
<1> HIDE DEF as, s, u, t
<1> HIDE DEF b, m, r, c
<1>15. Private!Deliver(as, v) = t
  <2>1. /\ List(as, k) /\ as[k] = [regs |-> s, want |-> w] /\ u = [s EXCEPT ![w] = v]
        /\ a = [regs |-> u, want |-> 0] /\ t = [as EXCEPT ![k] = a]
    BY <1>13, <1>14
  <2> QED
    BY ONLY <2>1, DeliverIs
<1>16. Acts' = Private!Deliver(as, v)
  BY <1>12, <1>15
<1> QED
  BY <1>16 DEF as

LEMMA PrivateEnds ==
  ASSUME NEW s PROVE Private!Front(s) = Front(s) /\ Private!Last(s) = Last(s)
  BY DEF Front, Last, Private!Front, Private!Last

\* The innermost activation ends and the native that started it goes on.
LEMMA EndsInNative ==
  ASSUME IInv, IInv', Running, Waits, NEW v, Pops(v), nests' = nests, nests # <<>>,
         Len(frames) - 1 = StopDepth, mode' = "native"
  PROVE  Private!Finish(Acts, Natives, v)
<1> PICK k : k = Len(frames) - 1
  OBVIOUS
<1> DEFINE b == frames[k].base
           m == frames[k].live
           r == TopFrame.ret
           c == TopFrame.base
           j == Len(nests)
<1>1. /\ j \in 1 .. Len(nests) /\ nests[j].stop = k /\ Last(nests) = nests[j]
      /\ Len(frames) > 1 /\ k \in Nat
  <2>1. /\ nests \in Seq(NestType) /\ Len(nests) \in Nat \ {0} /\ Last(nests) = nests[Len(nests)]
    BY FrameNumbers, FrontFacts
  <2>2. nests[j].stop = k
    BY <2>1 DEF StopDepth, StopOf
  <2>3. nests[j].stop \in 1 .. Len(frames) - 1
    BY <2>1, StopsUnder
  <2>4. Len(frames) \in Nat
    BY FrameNumbers
  <2> QED
    BY <2>1, <2>2, <2>3, <2>4
<1>2. /\ Len(frames) \in Nat /\ k \in 1 .. Len(frames) /\ k \in 1 .. Len(frames) - 1
      /\ k + 1 = Len(frames) /\ k < Len(frames) /\ TopFrame = frames[k + 1]
      /\ Len(frames) - 2 = k - 1 /\ frames # <<>> /\ k - 1 \in Nat
  BY <1>1, FrameNumbers, CallerSlots
<1>3. /\ Len(frames') = k /\ frames'[k] = frames[k] /\ frames' = Front(frames)
      /\ \A i \in 1 .. k - 1 : Acts'[i] = Acts[i]
  <2>1. /\ frames' = Front(frames)
        /\ \A x \in Slots : x < TopFrame.base /\ x # TopFrame.ret => stack'[x] = stack[x]
    BY DEF Pops
  <2>2. /\ Len(frames') = Len(frames) - 1
        /\ \A i \in 1 .. Len(frames) - 1 : frames'[i] = frames[i]
        /\ \A i \in 1 .. Len(frames) - 2 : Acts'[i] = Acts[i]
    BY <1>1, <2>1, NestsAgreeSame, PoppedUnder
  <2> QED
    BY <1>2, <2>1, <2>2
<1>4. r = nests[j].savedTop /\ nests[j].savedTop < StackSize /\ WindowEnd(frames[k]) <= nests[j].savedTop
  <2>1. NestWaits(frames, nests[j])
    BY <1>1 DEF Waits, WaitsIn
  <2>2. WindowEnd(frames[k]) <= nests[j].savedTop
    BY <1>1 DEF IInv, Covered
  <2> QED
    BY <1>1, <1>2, <2>1, <2>2 DEF NestWaits
<1>5. /\ b \in Nat /\ m \in Nat /\ r \in Nat /\ c \in Nat /\ b + m <= c /\ b + m <= r /\ r \in Slots
  <2> DEFINE l == frames[k].locals
  <2>1. b \in Nat /\ m \in Nat /\ l \in Nat /\ m <= l /\ StackSize \in Nat
    BY <1>2, FrameNumbers
  <2>2. r \in Nat /\ c \in Nat
    <3>1. k + 1 \in 1 .. Len(frames)
      BY <1>2
    <3> QED
      BY <1>2, <3>1, FrameNumbers
  <2>3. b + m <= c /\ r < StackSize /\ b + l + 1 <= r
    BY <1>1, <1>2, <1>4, CallerSlots DEF WindowEnd
  <2> HIDE DEF b, m, l, r, c
  <2>4. b + m <= r
    BY <2>1, <2>2, <2>3
  <2>5. r \in Slots
    BY <2>1, <2>2, <2>3 DEF Slots
  <2> QED
    BY <2>1, <2>2, <2>3, <2>4, <2>5
<1>6. /\ \A x \in Slots : x < c /\ x # r => stack'[x] = stack[x]
      /\ stack'[r] = v
  BY <1>5 DEF Pops
<1>7. \A q \in 1 .. m : stack'[b + q - 1] = stack[b + q - 1]
  <2> SUFFICES ASSUME NEW q \in 1 .. m PROVE stack'[b + q - 1] = stack[b + q - 1]
    OBVIOUS
  <2>1. StackSize \in Nat /\ r < StackSize
    BY <1>4, SlotFacts
  <2> HIDE DEF b, m, r, c
  <2>2. b + q - 1 \in Slots /\ b + q - 1 < c /\ b + q - 1 # r
    BY <1>5, <2>1 DEF Slots
  <2> QED
    BY <1>6, <2>2
<1>8. Awaited(k)' = Awaited(k)
  <2>1. k \in 1 .. Len(frames') /\ k <= k
    BY <1>2, <1>3
  <2>2. NestsAgree(k)
    BY NestsAgreeSame
  <2> QED
    BY <1>1, <1>2, <1>3, <2>1, <2>2, AwaitedSame
<1>9. Acts'[k] = Acts[k]
  <2>1. k \in 1 .. Len(frames')
    BY <1>2, <1>3
  <2> QED
    BY <1>2, <1>3, <1>7, <1>8, <2>1, ActSame
<1>10. Acts' = Front(Acts)
  <2>1. \A i \in 1 .. Len(frames) - 1 : Acts'[i] = Acts[i]
    BY <1>2, <1>3, <1>9
  <2> QED
    BY <1>2, <1>3, <2>1, ActsPop
<1>11. Inbox' = v
  BY <1>1, <1>4, <1>6 DEF Inbox
<1>12. Natives # <<>> /\ Last(Natives).depth = k
  BY <1>1, LastNative
<1>13. Len(Front(Acts)) = k
  BY <1>2, ActsShape
<1> QED
  BY <1>10, <1>11, <1>12, <1>13, PrivateEnds DEF Private!Finish

\* The program's own activation ends.
LEMMA EndsDone ==
  ASSUME IInv, IInv', Running, Waits, NEW v, Pops(v), nests' = nests, nests = <<>>,
         Len(frames) - 1 = StopDepth, mode' = "done"
  PROVE  Private!Finish(Acts, Natives, v)
<1>1. Len(frames) = 1 /\ frames # <<>> /\ TopFrame = frames[1]
  <2>1. StopDepth = 0
    BY DEF StopDepth, StopOf
  <2>2. Len(frames) \in Nat /\ frames # <<>> /\ TopFrame = frames[Len(frames)]
    BY RunningFacts
  <2>3. Len(frames) = 1
    BY <2>1, <2>2
  <2> QED
    BY <2>2, <2>3
<1>2. Len(frames') = Len(frames) - 1
  <2>1. frames' = Front(frames)
    BY DEF Pops
  <2> QED
    BY <1>1, <2>1, FrameNumbers, FrontFacts
<1>3. Acts' = Front(Acts)
  BY <1>1, <1>2, ActsPop
<1>4. Front(Acts) = <<>>
  <2>1. List(Front(Acts), 0)
    BY <1>1, ActsShape
  <2> QED
    BY <2>1, ListIsSeq, EmptySeq
<1>5. Natives = <<>>
  <2>1. List(Natives, 0)
    BY ActsHold DEF ActsAre
  <2> QED
    BY <2>1, ListIsSeq, EmptySeq
<1>6. Inbox' = v
  <2>1. TopFrame.ret = 0 /\ 0 \in Slots
    BY <1>1, ConstantsAssumption DEF Waits, WaitsIn, Slots
  <2>2. stack'[0] = v
    BY <2>1 DEF Pops
  <2> QED
    BY <2>2 DEF Inbox
<1> QED
  BY <1>3, <1>4, <1>5, <1>6, PrivateEnds DEF Private!Finish

\* The innermost activation ends and its caller goes on.
LEMMA EndsInCaller ==
  ASSUME IInv, IInv', Running, Waits, NEW v, Pops(v), nests' = nests,
         Len(frames) - 1 # StopDepth, mode' = mode
  PROVE  Private!Finish(Acts, Natives, v)
<1>1. Len(frames) - 1 > StopDepth /\ StopDepth \in Nat /\ Len(frames) \in Nat /\ Len(frames) > 1
      /\ frames # <<>>
  BY RunningFacts
<1>2. \A j \in 1 .. Len(nests) : nests[j].stop # Len(frames) - 1
  <2>1. \A j \in 1 .. Len(nests) : nests[j].stop <= StopDepth /\ nests[j].stop \in Nat
    BY StopsBelow DEF IInv
  <2> QED
    BY <1>1, <2>1
<1>3. Acts' = Private!Deliver(Front(Acts), v)
  <2>1. /\ frames' = Front(frames) /\ (TopFrame.ret \in Slots => stack'[TopFrame.ret] = v)
        /\ \A x \in Slots : x < TopFrame.base /\ x # TopFrame.ret => stack'[x] = stack[x]
    BY DEF Pops
  <2>2. NestsAgree(Len(frames) - 2)
    BY NestsAgreeSame
  <2>3. Running'
    BY StayIs
  <2> QED
    BY <1>1, <1>2, <2>1, <2>2, <2>3, DeliverPop
<1>4. Len(Front(Acts)) = Len(frames) - 1 /\ Front(Acts) # <<>>
  <2>1. Len(Front(Acts)) = Len(frames) - 1
    BY <1>1, ActsShape
  <2> QED
    BY <1>1, <2>1, EmptySeq
<1>5. Natives # <<>> => Last(Natives).depth # Len(Front(Acts))
  <2>1. CASE nests = <<>>
    <3>1. List(Natives, 0)
      BY <2>1, ActsHold DEF ActsAre
    <3> QED
      BY <3>1, ListIsSeq, EmptySeq
  <2>2. CASE nests # <<>>
    <3>1. Last(Natives).depth = StopDepth
      BY <2>2, LastNative DEF StopDepth, StopOf
    <3> QED
      BY <1>4, <3>1
  <2> QED
    BY <2>1, <2>2
<1>6. Inbox' = Nil /\ mode' = "execute"
  BY StayIs
<1> QED
  BY <1>3, <1>4, <1>5, <1>6, PrivateEnds DEF Private!Finish

LEMMA EndsPrivate ==
  ASSUME IInv, IInv', Running, Waits, NEW v, Ends(v)
  PROVE  Private!Finish(Acts, Natives, v) /\ UNCHANGED Natives
<1>1. Natives' = Natives
  BY DEF Ends, Natives
<1>2. CASE Len(frames) - 1 # StopDepth
  BY <1>1, <1>2, EndsInCaller DEF Ends
<1>3. CASE Len(frames) - 1 = StopDepth /\ nests = <<>>
  BY <1>1, <1>3, EndsDone DEF Ends
<1>4. CASE Len(frames) - 1 = StopDepth /\ nests # <<>>
  BY <1>1, <1>4, EndsInNative DEF Ends
<1> QED
  BY <1>2, <1>3, <1>4

LEMMA ReturnPrivate ==
  ASSUME IInv, IInv', Running, Waits, Returns PROVE Private!Return \/ Private!EndWithObject
<1>1. PICK v \in {stack[TopFrame.base + r] : r \in 0 .. TopFrame.live - 1} \cup {Nil} :
        Ends(v) \/ Ends(Object)
  BY DEF Returns
<1>2. Private!Running /\ Private!Caller.regs = Regs
  BY CallerIs
<1>3. CASE Ends(Object)
  BY <1>2, <1>3, EndsPrivate DEF Private!EndWithObject
<1>4. CASE Ends(v)
  <2>1. v \in Private!Range(Regs) \cup {Nil}
    <3>1. /\ List(Regs, TopFrame.live) /\ TopFrame.live \in Nat /\ TopFrame.base \in Nat
          /\ \A r \in 1 .. TopFrame.live : Regs[r] = stack[TopFrame.base + r - 1]
      BY RunsHold, RegisterSlots DEF RunsIs
    <3>2. ASSUME NEW r \in 0 .. TopFrame.live - 1
          PROVE  stack[TopFrame.base + r] \in Private!Range(Regs)
      <4>1. r + 1 \in 1 .. TopFrame.live /\ TopFrame.base + (r + 1) - 1 = TopFrame.base + r
        BY <3>1
      <4>2. Regs[r + 1] = stack[TopFrame.base + r]
        BY <3>1, <4>1
      <4>3. DOMAIN Regs = 1 .. TopFrame.live
        BY <3>1 DEF List
      <4> QED
        BY <4>1, <4>2, <4>3 DEF Private!Range
    <3> QED
      BY <3>2
  <2>2. Private!Finish(Acts, Natives, v) /\ UNCHANGED Natives
    BY <1>4, EndsPrivate
  <2> QED
    BY <1>2, <2>1, <2>2 DEF Private!Return
<1> QED
  BY <1>1, <1>3, <1>4

LEMMA TailPrivate ==
  ASSUME IInv, IInv', Running, Waits, CallsTail
  PROVE  Private!TailCall \/ Private!EndWithObject
<1>1. PICK argc \in Nat : /\ argc < TopFrame.live
                          /\ TailCalls(argc, TopFrame.base + (TopFrame.live - argc))
  BY DEF CallsTail
<1>2. CASE Ends(Object)
  BY <1>2, CallerIs, EndsPrivate DEF Private!EndWithObject
<1>3. CASE ~Ends(Object)
  <2> PICK n : n = TopFrame.live - argc
    OBVIOUS
  <2> PICK base : base = TopFrame.base + n
    OBVIOUS
  <2>1. TailCalls(argc, base)
    BY <1>1
  <2>2. PICK f : nests' = nests /\ mode' = mode /\ Replaces(f) /\ Gets(f, base - 1, base, argc)
    BY <1>3, <2>1 DEF TailCalls
  <2> QED
    BY <1>1, <2>2, TailCallPrivate
<1> QED
  BY <1>2, <1>3

LEMMA SyncPrivate ==
  ASSUME SyncConstructors = FALSE, IInv, IInv', Running, Waits, CallsSync
  PROVE  Private!CallBack \/ Private!Answer \/ Private!EndWithObject
<1>1. PICK c \in Callees, argc \in Nat, tail \in BOOLEAN :
        /\ argc < TopFrame.live /\ c.kind # "constructor"
        /\ CallsBack(c, argc, tail, TopFrame.base + (TopFrame.live - argc),
                     IF tail THEN TopFrame.live ELSE TopFrame.live - argc)
  BY DEF CallsSync
<1> PICK k : k = TopFrame.live - argc
  OBVIOUS
<1> PICK n : n = IF tail THEN TopFrame.live ELSE k
  OBVIOUS
<1> PICK base : base = TopFrame.base + k
  OBVIOUS
<1> PICK l : l = Len(frames)
  OBVIOUS
<1>2. CallsBack(c, argc, tail, base, n)
  BY <1>1
<1>3. CASE Ends(Object)
  BY <1>3, CallerIs, EndsPrivate DEF Private!EndWithObject
<1>4. CASE ~tail /\ nests' = nests /\ mode' = mode /\ Answers(n)
  <2>1. n <= TopFrame.live
    BY <1>1, RegisterSlots
  <2> QED
    BY <1>4, <2>1, AnswersPrivate
<1>5. CASE \E f : Pushes(n, f) /\ f.ret = top /\ Gets(f, base - 1, base, argc)
                  /\ top < StackSize /\ mode' = mode /\ nests' = Append(nests, Nest(l, top, base, tail))
  BY <1>1, <1>5, CallBackPrivate
<1> QED
  BY <1>1, <1>2, <1>3, <1>4, <1>5 DEF CallsBack

LEMMA UnwindPrivate ==
  ASSUME IInv', mode \in {"execute", "native"}, Unwind PROVE Private!Abort
<1>1. frames' = <<>> /\ nests' = <<>> /\ mode' = "error"
  BY DEF Unwind
<1>2. List(Acts', 0) /\ List(Natives', 0)
  BY <1>1, ActsHoldNext DEF ActsAre
<1>3. Acts' = <<>> /\ Natives' = <<>>
  BY <1>2, ListIsSeq, EmptySeq
<1>4. Inbox' = Nil
  BY <1>1 DEF Inbox
<1> QED
  BY <1>1, <1>3, <1>4 DEF Private!Abort

LEMMA StutterPrivate ==
  ASSUME UNCHANGED <<stack, frames, nests, mode>> PROVE UNCHANGED Private!vars
<1>1. \A i : Awaited(i)' = Awaited(i)
  BY DEF Awaited, CallingNest
<1>2. \A i : PrivateRegs(i)' = PrivateRegs(i)
  BY <1>1 DEF PrivateRegs
<1>3. Acts' = Acts
  BY <1>1, <1>2 DEF Acts
<1>4. Natives' = Natives
  BY DEF Natives
<1>5. Inbox' = Inbox
  BY DEF Inbox
<1> QED
  BY <1>3, <1>4, <1>5 DEF Private!vars

LEMMA InitPrivate == ASSUME IInv, Init PROVE Private!Init
<1>1. /\ mode = "execute" /\ Running /\ nests = <<>> /\ Len(frames) = 1 /\ TopFrame.live = 0
  BY DEF Init, Running, TopFrame, Frame
<1>2. Acts[1] = [regs |-> Regs, want |-> 0] /\ List(Regs, 0)
  BY <1>1, RunsHold DEF RunsIs
<1>3. Regs = <<>>
  BY <1>2, ListIsSeq, EmptySeq
<1>4. List(Acts, 1) /\ List(Natives, 0)
  BY <1>1, ActsHold DEF ActsAre
<1>5. Acts = <<[regs |-> <<>>, want |-> 0]>>
  BY <1>2, <1>3, <1>4, ListIsSeq DEF List
<1>6. Natives = <<>>
  BY <1>4, ListIsSeq, EmptySeq
<1>7. Inbox = Nil
  BY <1>1 DEF Inbox
<1> QED
  BY <1>1, <1>5, <1>6, <1>7 DEF Private!Init
-----------------------------------------------------------------------------
(* A native function goes on.                                               *)

\* The native whose frames are left is the innermost one, started by the top frame.
LEMMA ResumeStops ==
  ASSUME IInv, mode = "native"
  PROVE  /\ Last(nests) = nests[Len(nests)] /\ Len(nests) \in 1 .. Len(nests)
         /\ Last(nests).stop = Len(frames)
         /\ \A j \in 1 .. Len(nests) : nests[j].stop = Len(frames) => nests[j] = Last(nests)
<1>1. /\ Last(nests) = nests[Len(nests)] /\ Last(nests).stop = Len(frames) /\ Len(nests) \in Nat \ {0}
  BY NativeFacts
<1>2. ASSUME NEW j \in 1 .. Len(nests), nests[j].stop = Len(frames) PROVE nests[j] = Last(nests)
  <2>1. CASE j = Len(nests)
    BY <1>1, <2>1
  <2>2. CASE j # Len(nests)
    <3>1. j < Len(nests) /\ Len(nests) \in 1 .. Len(nests)
      BY <1>1, <2>2
    <3>2. nests[j].stop < nests[Len(nests)].stop
      BY <3>1 DEF IInv, NestedRunsAboveCaller
    <3>3. nests[j].stop \in Nat
      BY FrameNumbers
    <3> QED
      BY <1>1, <1>2, <3>2, <3>3
  <2> QED
    BY <2>1, <2>2
<1> QED
  BY <1>1, <1>2

\* It answers the activation that called it and waits.
LEMMA ResumeInCaller ==
  ASSUME IInv, IInv', Waits, mode = "native", Running', nests' = Front(nests), ~Last(nests).tail,
         frames' = frames, NEW v, NEW x, x = Last(nests).base - 1, stack' = [stack EXCEPT ![x] = v],
         Contents
  PROVE  Acts' = Private!Deliver(Acts, v)
<1> PICK k : k = Len(frames)
  OBVIOUS
<1> PICK e : e = Last(nests)
  OBVIOUS
<1> DEFINE b == frames[k].base
           m == frames[k].live
           d == e.base
           s == PrivateRegs(k)
<1>1. /\ Len(frames) \in Nat \ {0} /\ k \in 1 .. Len(frames) /\ frames # <<>> /\ nests # <<>>
      /\ k - 1 \in Nat /\ k - 1 + 1 = k /\ k - 1 < Len(frames) /\ k \in Nat
  BY NativeFacts
<1>2. /\ \A j \in 1 .. Len(nests) : nests[j].stop = k => nests[j] = e
      /\ Len(nests) \in 1 .. Len(nests) /\ nests[Len(nests)] = e /\ e.stop = k /\ ~e.tail
  BY ResumeStops
<1>3. b < d /\ d <= b + m
  <2>1. NestWaits(frames, e)
    BY <1>2 DEF Waits, WaitsIn
  <2> QED
    BY <1>2, <2>1 DEF NestWaits
<1>4. /\ b \in Nat /\ m \in Nat /\ d \in Nat /\ b + m <= StackSize /\ StackSize \in Nat
  <2> DEFINE l == frames[k].locals
  <2>1. b \in Nat /\ m \in Nat /\ l \in Nat /\ m <= l /\ b + l + 1 <= StackSize /\ StackSize \in Nat
    BY <1>1, FrameNumbers
  <2>2. d \in Nat
    BY <1>2, FrameNumbers
  <2> HIDE DEF b, m, l, d
  <2>3. b + m <= StackSize
    BY <2>1
  <2> QED
    BY <2>1, <2>2, <2>3
<1> PICK w : w = Awaited(k)
  OBVIOUS
<1>5. w = d - b
  BY <1>1, <1>2, AwaitedHolds DEF AwaitedIs
<1>6. stack \in [Slots -> Cell] /\ stack' = [stack EXCEPT ![x] = v] /\ x = d - 1
  BY DEF Contents
<1>7. /\ w \in 1 .. m /\ stack'[b + w - 1] = v
      /\ \A q \in 1 .. m : q # w => stack'[b + q - 1] = stack[b + q - 1]
      /\ \A y \in Slots : y < b => stack'[y] = stack[y]
  <2> HIDE DEF b, m, d
  <2>1. w \in 1 .. m
    BY <1>3, <1>4, <1>5
  <2>2. b + w - 1 = x
    BY <1>4, <1>5, <1>6
  <2>3. x \in Slots
    BY <1>3, <1>4, <1>6 DEF Slots
  <2>4. stack'[b + w - 1] = v
    BY <1>6, <2>2, <2>3
  <2>5. ASSUME NEW q \in 1 .. m, q # w PROVE stack'[b + q - 1] = stack[b + q - 1]
    <3>1. b + q - 1 # x
      BY <1>4, <1>5, <1>6, <2>5
    <3> QED
      BY <1>6, <3>1
  <2>6. ASSUME NEW y \in Slots, y < b PROVE stack'[y] = stack[y]
    <3>1. y # x
      BY <1>3, <1>4, <1>6, <2>6, SlotFacts
    <3> QED
      BY <1>6, <3>1
  <2> QED
    BY <2>1, <2>4, <2>5, <2>6
<1>8. \A i \in 1 .. Len(frames) - 1 : Acts'[i] = Acts[i]
  <2>1. NestsAgree(k - 1)
    BY <1>1, <1>2, NestsAgreeLeave
  <2>2. /\ k - 1 < Len(frames') /\ \A i \in 1 .. k - 1 : frames'[i] = frames[i]
        /\ frames'[k - 1 + 1].ret = frames[k - 1 + 1].ret
    BY <1>1
  <2>3. \A y \in Slots : y < frames[k - 1 + 1].base => stack'[y] = stack[y]
    BY <1>1, <1>7
  <2>4. \A i \in 1 .. k - 1 : Acts'[i] = Acts[i]
    BY <1>1, <2>1, <2>2, <2>3, ActsBelow
  <2> QED
    BY <2>4
<1>9. Finds(k, w, v)
  BY <1>1, <1>7, Delivered
<1> DEFINE u  == [s EXCEPT ![w] = v]
           a  == [regs |-> u, want |-> 0]
           as == Acts
           t  == [as EXCEPT ![k] = a]
<1>10. Acts'[Len(frames)] = a
  BY <1>1, <1>9 DEF Finds
<1> HIDE DEF a
<1>11. Acts' = [Acts EXCEPT ![Len(frames)] = a]
  BY <1>1, <1>8, <1>10, ActsTop
<1>12. Acts' = t
  BY <1>1, <1>11
<1>13. /\ List(as, k) /\ as[k] = [regs |-> s, want |-> w] /\ u = [s EXCEPT ![w] = v]
       /\ a = [regs |-> u, want |-> 0] /\ t = [as EXCEPT ![k] = a]
  BY <1>1, <1>9, ActsShape DEF Finds, a
<1> HIDE DEF as, s, u, t
<1>14. Private!Deliver(as, v) = t
  BY ONLY <1>13, DeliverIs
<1>15. Acts' = Private!Deliver(as, v)
  BY <1>12, <1>14
<1> QED
  BY <1>15 DEF as

\* Or it was tail-called: its activation ends with the answer.
LEMMA ResumeInTail ==
  ASSUME IInv, IInv', Waits, mode = "native", Running', nests' = Front(nests), Last(nests).tail,
         frames' = Front(frames), NEW v, NEW x, x = TopFrame.ret, stack' = [stack EXCEPT ![x] = v],
         Len(frames) - 1 > StopOf(Front(nests)), Contents
  PROVE  Private!Finish(Acts, Natives', v)
<1>1. /\ Len(frames) \in Nat \ {0} /\ frames # <<>> /\ nests # <<>> /\ Len(frames) > 1
      /\ StopOf(Front(nests)) \in Nat /\ nests \in Seq(NestType)
  BY NativeFacts
<1>2. /\ Last(nests) = nests[Len(nests)] /\ Len(nests) \in Nat \ {0} /\ Last(nests).stop = Len(frames)
      /\ Len(Front(nests)) = Len(nests) - 1
      /\ \A j \in 1 .. Len(nests) - 1 : Front(nests)[j] = nests[j]
  BY <1>1, NativeFacts, FrontFacts
<1>3. ASSUME Len(nests) - 1 # 0
      PROVE  /\ Len(nests) - 1 \in 1 .. Len(nests) - 1 /\ Front(nests) # <<>>
             /\ StopOf(Front(nests)) = nests[Len(nests) - 1].stop
  <2>1. Len(nests) - 1 \in 1 .. Len(nests) - 1
    BY <1>2, <1>3
  <2>2. Front(nests) # <<>>
    BY <1>2, <1>3, EmptySeq
  <2>3. Last(Front(nests)) = Front(nests)[Len(nests) - 1]
    BY <1>2 DEF Last
  <2> QED
    BY <1>2, <2>1, <2>2, <2>3 DEF StopOf
<1>4. ASSUME NEW j \in 1 .. Len(nests) PROVE nests[j].stop # Len(frames) - 1
  <2>1. CASE j = Len(nests)
    BY <1>1, <1>2, <2>1
  <2>2. CASE j # Len(nests)
    <3>1. /\ Len(nests) - 1 # 0 /\ Len(nests) - 1 \in 1 .. Len(nests)
          /\ j = Len(nests) - 1 \/ j < Len(nests) - 1
      BY <1>2, <2>2
    <3>2. nests[j].stop <= nests[Len(nests) - 1].stop
      <4>1. nests[j].stop \in Nat /\ nests[Len(nests) - 1].stop \in Nat
        BY <3>1, FrameNumbers
      <4>2. j < Len(nests) - 1 => nests[j].stop < nests[Len(nests) - 1].stop
        BY <3>1 DEF IInv, NestedRunsAboveCaller
      <4> QED
        BY <3>1, <4>1, <4>2
    <3>3. nests[j].stop <= StopOf(Front(nests)) /\ nests[j].stop \in Nat
      BY <1>3, <3>1, <3>2, FrameNumbers
    <3> QED
      BY <1>1, <3>3
  <2> QED
    BY <2>1, <2>2
<1>5. Acts' = Private!Deliver(Front(Acts), v)
  <2>1. NestsAgree(Len(frames) - 2)
    BY <1>1, <1>2, NestsAgreeLeave
  <2>2. /\ \A y \in Slots : y < TopFrame.base /\ y # TopFrame.ret => stack'[y] = stack[y]
        /\ TopFrame.ret \in Slots => stack'[TopFrame.ret] = v
    BY DEF Contents
  <2> QED
    BY <1>1, <1>4, <2>1, <2>2, DeliverPop
<1>6. Len(Front(Acts)) = Len(frames) - 1 /\ Front(Acts) # <<>>
  <2>1. Len(Front(Acts)) = Len(frames) - 1
    BY <1>1, ActsShape
  <2> QED
    BY <1>1, <2>1, EmptySeq
<1>7. Natives' # <<>> => Last(Natives').depth # Len(Front(Acts))
  <2>1. /\ List(Natives', Len(nests) - 1)
        /\ \A j \in 1 .. Len(nests) - 1 : Natives'[j].depth = nests[j].stop
    <3> PICK k : k = Len(nests) - 1
      OBVIOUS
    <3>1. Len(nests') = k /\ \A j \in 1 .. k : nests'[j] = nests[j]
      BY <1>2
    <3>2. /\ List(Natives', k)
          /\ \A j \in 1 .. k : Natives'[j] = [depth |-> nests'[j].stop, tail |-> nests'[j].tail]
      BY <3>1, ActsHoldNext DEF ActsAre
    <3>3. ASSUME NEW j \in 1 .. k PROVE Natives'[j].depth = nests[j].stop
      <4>1. nests'[j] = nests[j]
        BY <3>1
      <4>2. Natives'[j] = [depth |-> nests'[j].stop, tail |-> nests'[j].tail]
        BY <3>2
      <4> QED
        BY <4>1, <4>2
    <3> QED
      BY <3>2, <3>3
  <2>2. CASE Len(nests) - 1 = 0
    BY <2>1, <2>2, ListIsSeq, EmptySeq
  <2>3. CASE Len(nests) - 1 # 0
    <3>1. Last(Natives') = Natives'[Len(nests) - 1]
      BY <2>1, ListIsSeq DEF Last
    <3>2. Last(Natives').depth = StopOf(Front(nests))
      BY <1>3, <2>1, <2>3, <3>1
    <3> QED
      BY <1>1, <1>6, <3>2
  <2> QED
    BY <2>2, <2>3
<1>8. Inbox' = Nil /\ mode' = "execute"
  BY DEF Inbox, Running
<1> QED
  BY <1>5, <1>6, <1>7, <1>8, PrivateEnds DEF Private!Finish

LEMMA ResumePrivate ==
  ASSUME IInv, IInv', Contents, Waits, NEW v, Resumes(v) PROVE Private!Resume
<1>1. /\ mode = "native" /\ nests # <<>> /\ nests' = Front(nests) /\ mode' = "execute" /\ Running'
      /\ v \in {stack[Last(nests).savedTop], Object}
  BY DEF Resumes, Running
<1>2. v \in {Inbox, Object} /\ Inbox' = Nil
  BY <1>1 DEF Inbox
<1>3. Natives' = Private!Front(Natives) /\ Private!Last(Natives).tail = Last(nests).tail
  BY <1>1, NativesLeave, LastNative, PrivateEnds
<1>4. CASE ~Last(nests).tail
  <2>1. Acts' = Private!Deliver(Acts, v)
    BY <1>1, <1>4, ResumeInCaller DEF Resumes
  <2> QED
    BY <1>1, <1>2, <1>3, <1>4, <2>1 DEF Private!Resume
<1>5. CASE Last(nests).tail
  <2>1. Private!Finish(Acts, Natives', v)
    BY <1>1, <1>5, ResumeInTail DEF Resumes
  <2> QED
    BY <1>1, <1>2, <1>3, <1>5, <2>1 DEF Private!Resume
<1> QED
  BY <1>4, <1>5
-----------------------------------------------------------------------------
(* The refinement.                                                          *)

LEMMA StepPrivate ==
  ASSUME SyncTails = FALSE, SyncConstructors = FALSE, IInv, IInv', Contents, Waits, [Next]_vars
  PROVE  [Private!Next]_(Private!vars)
<1>1. Steps
  BY StepIs
<1>2. CASE mode \in {"execute", "native"} /\ Unwind
  BY <1>2, UnwindPrivate DEF Private!Next
<1>3. CASE UNCHANGED <<stack, frames, nests, mode>>
  BY <1>3, StutterPrivate
<1>4. ASSUME NEW v \in Value, Load(v) PROVE Private!Next
  BY <1>4, LoadPrivate DEF Private!Next
<1>5. CASE Drop
  BY <1>5, DropPrivate DEF Private!Next
<1>6. CASE Running /\ (Calls \/ CallsMethod \/ CallsOperator \/ Imports)
  BY <1>6, CallsPrivate, CallsMethodPrivate, OperatorPrivate, ImportsPrivate DEF Private!Next
<1>7. CASE Running /\ (CallsTail \/ CallsSync \/ Returns)
  BY <1>7, TailPrivate, SyncPrivate, ReturnPrivate DEF Private!Next
<1>8. ASSUME NEW v \in Cell, Resumes(v) PROVE Private!Next
  BY <1>8, ResumePrivate DEF Private!Next
<1> QED
  BY <1>1, <1>2, <1>3, <1>4, <1>5, <1>6, <1>7, <1>8 DEF Steps

\* Every frame's registers are its own: on the shared stack, a call hands over its
\* arguments, a return its result, and no other register of a suspended caller changes.
THEOREM RegistersArePrivateHolds ==
  ASSUME SyncTails = FALSE, SyncConstructors = FALSE PROVE Spec => RegistersArePrivate
<1>1. Spec => [](IInv /\ Contents)
  BY TypedInvariant
<1>2. Init => IInv /\ Waits
  BY InitHolds, WaitsInit
<1>3. IInv /\ Contents /\ Waits /\ [Next]_vars => Waits'
  BY WaitsKeeps
<1>4. IInv /\ Init => Private!Init
  BY InitPrivate
<1>5. IInv /\ IInv' /\ Contents /\ Waits /\ [Next]_vars => [Private!Next]_(Private!vars)
  BY StepPrivate
<1> QED
  BY <1>1, <1>2, <1>3, <1>4, <1>5, PTL DEF Spec, Private!Spec, RegistersArePrivate
=============================================================================
