-------------------------- MODULE CallStackProofs --------------------------
(***************************************************************************)
(* FrameWindows, NestedRunsAboveCaller, CallerStillThere and TypeOK hold   *)
(* for every stack size, frame limit and set of callables, of the programs *)
(* in which no function run by call_value_sync ends in a tail call that    *)
(* completes without a frame (SyncTails = FALSE; the run                   *)
(* callstack_nested_tail shows what happens in the others).  The second    *)
(* part follows the slots: what each call path copies, clears and keeps.   *)
(* The third is about the slots below the live top, which the collector    *)
(* takes as roots: they hold nothing that has been freed as long as no     *)
(* instance is called and no tail call moves the top, as it is with        *)
(* windows of one size (callstack_stale_root and callstack_tail_root show  *)
(* what happens otherwise).                                                *)
(***************************************************************************)
EXTENDS CallStack, SequenceFacts

\* The types the argument needs: the slots' contents play no part in it.
Shape == /\ top \in 0 .. StackSize
         /\ frames \in Seq(FrameType)
         /\ nests \in Seq(NestType)
         /\ mode \in {"execute", "native", "done", "error"}

\* A waiting native restores a stack top that covers its caller's window.
Covered(fs, ns) ==
  \A j \in 1 .. Len(ns) : /\ ns[j].stop \in 1 .. Len(fs)
                          /\ WindowEnd(fs[ns[j].stop]) <= ns[j].savedTop
                          /\ ns[j].savedTop <= StackSize

IInv == /\ Shape
        /\ FrameWindows
        /\ NestedRunsAboveCaller
        /\ Covered(frames, nests)
        /\ mode = "native" => nests # <<>>
-----------------------------------------------------------------------------
(* Windows and Covered under the three ways the frame stack changes.        *)

LEMMA WindowEndNat == \A x \in FrameType : WindowEnd(x) \in Nat
  BY DEF FrameType, WindowEnd

\* Where the program is in the innermost frame does not move any window.
LEMMA WindowsRelive ==
  ASSUME NEW fs \in Seq(FrameType), fs # <<>>, NEW t, Windows(fs, t),
         NEW n \in Nat, n <= fs[Len(fs)].locals
  PROVE  LET g == [fs EXCEPT ![Len(fs)].live = n] IN
         /\ g \in Seq(FrameType) /\ Len(g) = Len(fs)
         /\ \A i \in 1 .. Len(fs) : WindowEnd(g[i]) = WindowEnd(fs[i])
         /\ g[Len(fs)] = [fs[Len(fs)] EXCEPT !.live = n]
         /\ Windows(g, t)
<1> DEFINE last == [fs[Len(fs)] EXCEPT !.live = n]
           g    == [fs EXCEPT ![Len(fs)] = last]
<1>1. Len(fs) \in Nat \ {0} /\ \A i \in 1 .. Len(fs) : fs[i] \in FrameType
  BY EmptySeq, ElementOfSeq
<1>2. last \in FrameType
  <2>1. fs[Len(fs)] \in FrameType
    BY <1>1
  <2> QED
    BY <2>1 DEF FrameType
<1>3. /\ g \in Seq(FrameType) /\ Len(g) = Len(fs)
      /\ \A i \in 1 .. Len(fs) : g[i] = IF i = Len(fs) THEN last ELSE fs[i]
  BY <1>1, <1>2, ExceptSeq
<1>4. /\ last.base = fs[Len(fs)].base /\ last.locals = fs[Len(fs)].locals /\ last.live = n
      /\ last.ret = fs[Len(fs)].ret /\ last.callerTop = fs[Len(fs)].callerTop
  BY <1>1 DEF FrameType
<1>5. Windows(g, t)
  <2>1. \A i \in 1 .. Len(g) : 
              /\ g[i].live <= g[i].locals /\ WindowEnd(g[i]) <= StackSize
              /\ g[i].callerTop <= StackSize
    BY <1>1, <1>3, <1>4 DEF Windows, WindowEnd
  <2>2. ASSUME NEW i \in 1 .. Len(g) - 1
        PROVE  CallerKeeps(g[i], g[i + 1])
    <3>1. CallerKeeps(fs[i], fs[i + 1]) /\ g[i] = fs[i]
      BY <1>1, <1>3 DEF Windows
    <3>2. /\ g[i + 1].base = fs[i + 1].base /\ g[i + 1].ret = fs[i + 1].ret
          /\ g[i + 1].callerTop = fs[i + 1].callerTop
      BY <1>1, <1>3, <1>4
    <3> QED
      BY <3>1, <3>2 DEF CallerKeeps
  <2>3. WindowEnd(g[Len(g)]) <= t
    BY <1>1, <1>3, <1>4 DEF Windows, WindowEnd
  <2> QED
    BY <2>1, <2>2, <2>3 DEF Windows
<1>6. \A i \in 1 .. Len(fs) : WindowEnd(g[i]) = WindowEnd(fs[i])
  BY <1>1, <1>3, <1>4 DEF WindowEnd
<1> HIDE DEF g, last
<1>7. g = [fs EXCEPT ![Len(fs)].live = n] /\ g[Len(fs)] = [fs[Len(fs)] EXCEPT !.live = n]
  BY <1>1, <1>3 DEF g, last
<1> QED
  BY <1>3, <1>5, <1>6, <1>7

\* A new frame whose window starts where the caller's registers end.
LEMMA WindowsPush ==
  ASSUME NEW fs \in Seq(FrameType), NEW t, Windows(fs, t), NEW f \in FrameType, NEW u,
         f.live <= f.locals, WindowEnd(f) <= StackSize, WindowEnd(f) <= u,
         f.callerTop <= StackSize,
         fs # <<>> => CallerKeeps(fs[Len(fs)], f)
  PROVE  Append(fs, f) \in Seq(FrameType) /\ Windows(Append(fs, f), u)
<1> DEFINE g == Append(fs, f)
<1>1. /\ g \in Seq(FrameType) /\ Len(g) = Len(fs) + 1 /\ Len(fs) \in Nat
      /\ \A i \in 1 .. Len(fs) : g[i] = fs[i]
      /\ g[Len(fs) + 1] = f
  BY AppendFacts
<1> HIDE DEF g
<1>2. \A i \in 1 .. Len(g) : 
              /\ g[i].live <= g[i].locals /\ WindowEnd(g[i]) <= StackSize
              /\ g[i].callerTop <= StackSize
  BY <1>1 DEF Windows
<1>3. ASSUME NEW i \in 1 .. Len(g) - 1
      PROVE  CallerKeeps(g[i], g[i + 1])
  <2>1. CASE i = Len(fs)
    <3>1. fs # <<>>
      BY <1>1, <2>1
    <3> QED
      BY <1>1, <2>1, <3>1
  <2>2. CASE i # Len(fs)
    BY <1>1, <2>2 DEF Windows
  <2> QED
    BY <2>1, <2>2
<1>4. WindowEnd(g[Len(g)]) <= u
  BY <1>1
<1> QED
  BY <1>1, <1>2, <1>3, <1>4 DEF Windows, g

\* The innermost frame gone, the top its caller had is back.
LEMMA WindowsPop ==
  ASSUME NEW fs \in Seq(FrameType), fs # <<>>, NEW t, Windows(fs, t)
  PROVE  /\ Front(fs) \in Seq(FrameType) /\ Len(Front(fs)) = Len(fs) - 1
         /\ Windows(Front(fs), fs[Len(fs)].callerTop)
<1> DEFINE g == Front(fs)
<1>1. /\ g \in Seq(FrameType) /\ Len(g) = Len(fs) - 1 /\ Len(fs) \in Nat \ {0}
      /\ \A i \in 1 .. Len(fs) - 1 : g[i] = fs[i]
  BY FrontFacts
<1> HIDE DEF g
<1>2. \A i \in 1 .. Len(g) : 
              /\ g[i].live <= g[i].locals /\ WindowEnd(g[i]) <= StackSize
              /\ g[i].callerTop <= StackSize
  BY <1>1 DEF Windows
<1>3. \A i \in 1 .. Len(g) - 1 : CallerKeeps(g[i], g[i + 1])
  BY <1>1 DEF Windows
<1>4. ASSUME g # <<>> PROVE WindowEnd(g[Len(g)]) <= fs[Len(fs)].callerTop
  <2>1. Len(g) \in Nat \ {0}
    BY <1>1, <1>4, EmptySeq
  <2>2. CallerKeeps(fs[Len(g)], fs[Len(g) + 1])
    BY <1>1, <2>1 DEF Windows
  <2> QED
    BY <1>1, <2>1, <2>2 DEF CallerKeeps
<1> QED
  BY <1>1, <1>2, <1>3, <1>4 DEF Windows, g

\* A tail call's frame starts, returns and restores where the old one did.
LEMMA WindowsReplace ==
  ASSUME NEW fs \in Seq(FrameType), fs # <<>>, NEW t, Windows(fs, t),
         NEW f \in FrameType, NEW u,
         f.live <= f.locals, WindowEnd(f) <= StackSize, WindowEnd(f) <= u,
         f.base = fs[Len(fs)].base, f.ret = fs[Len(fs)].ret,
         f.callerTop = fs[Len(fs)].callerTop
  PROVE  LET g == Append(Front(fs), f) IN
         /\ g \in Seq(FrameType) /\ Len(g) = Len(fs)
         /\ \A i \in 1 .. Len(fs) - 1 : g[i] = fs[i]
         /\ Windows(g, u)
<1>1. /\ Front(fs) \in Seq(FrameType) /\ Len(Front(fs)) = Len(fs) - 1 /\ Len(fs) \in Nat \ {0}
      /\ \A i \in 1 .. Len(fs) - 1 : Front(fs)[i] = fs[i]
  BY FrontFacts
<1>2. Windows(Front(fs), fs[Len(fs)].callerTop)
  BY WindowsPop
<1>3. ASSUME Front(fs) # <<>> PROVE CallerKeeps(Front(fs)[Len(Front(fs))], f)
  <2>1. Len(fs) - 1 \in 1 .. Len(fs) - 1
    BY <1>1, <1>3, EmptySeq
  <2>2. CallerKeeps(fs[Len(fs) - 1], fs[Len(fs) - 1 + 1])
    BY <2>1 DEF Windows
  <2>3. Front(fs)[Len(Front(fs))] = fs[Len(fs) - 1] /\ Len(fs) - 1 + 1 = Len(fs)
    BY <1>1, <2>1
  <2> QED
    BY <2>2, <2>3 DEF CallerKeeps
<1>4. f.callerTop <= StackSize
  BY <1>1 DEF Windows
<1>5. Append(Front(fs), f) \in Seq(FrameType) /\ Windows(Append(Front(fs), f), u)
  BY <1>1, <1>2, <1>3, <1>4, WindowsPush
<1>6. /\ Len(Append(Front(fs), f)) = Len(fs)
      /\ \A i \in 1 .. Len(fs) - 1 : Append(Front(fs), f)[i] = fs[i]
  BY <1>1, AppendFacts
<1> QED
  BY <1>5, <1>6
-----------------------------------------------------------------------------
(* What the call paths do to frames and top, whatever they do to the slots. *)

MachineOf(slots, height, calls) ==
  [stack |-> slots, top |-> height, frames |-> calls, status |-> "ok"]

LEMMA MachineSlots ==
  \A x, y, height, calls :
    [MachineOf(x, height, calls) EXCEPT !.stack = y] = MachineOf(y, height, calls)
  BY DEF MachineOf

\* m2 is a machine with frames fs and top t that answered, or pushed a frame that
\* starts at base or above and returns to slot ret.
Answered(m2, fs, t) == \E s : m2 = MachineOf(s, t, fs)
Pushed(m2, fs, t, base, ret) ==
  \E f \in FrameType : /\ m2.frames = Append(fs, f)
                       /\ f.live <= f.locals
                       /\ WindowEnd(f) <= m2.top /\ WindowEnd(f) <= StackSize
                       /\ m2.top \in 0 .. StackSize
                       /\ base <= f.base /\ f.ret = ret /\ f.callerTop = t

\* m2 has a frame in the place of the innermost of fs.
Replaced(m2, fs) ==
  \E f \in FrameType : /\ m2.frames = Append(Front(fs), f)
                       /\ f.live <= f.locals
                       /\ WindowEnd(f) <= m2.top /\ WindowEnd(f) <= StackSize
                       /\ m2.top \in 0 .. StackSize
                       /\ f.base = Last(fs).base /\ f.ret = Last(fs).ret
                       /\ f.callerTop = Last(fs).callerTop

Popped(m2, fs) == m2.frames = Front(fs) /\ m2.top = Last(fs).callerTop

LEMMA PushFrameFacts ==
  ASSUME NEW m, NEW s, NEW t \in 0 .. StackSize, NEW base \in Nat, NEW c \in Callees,
         NEW argc \in Nat, argc <= c.locals, NEW ret \in Nat, NEW callerTop \in Nat,
         NEW low, low <= base,
         base + c.locals + 1 <= t
  PROVE  Pushed(PushFrame(m, s, t, base, c, argc, ret, callerTop), m.frames, callerTop, low, ret)
<1> DEFINE f == Frame(base, c.locals, argc, ret, callerTop, FALSE)
<1>1. StackSize \in Nat /\ c.locals \in Nat
  BY ConstantsAssumption
<1>2. /\ f \in FrameType /\ f.live = argc /\ f.locals = c.locals /\ f.base = base
      /\ f.ret = ret /\ f.callerTop = callerTop
  BY <1>1 DEF Frame, FrameType
<1>3. /\ PushFrame(m, s, t, base, c, argc, ret, callerTop).frames = Append(m.frames, f)
      /\ PushFrame(m, s, t, base, c, argc, ret, callerTop).top = t
  BY DEF PushFrame
<1> HIDE DEF f
<1> QED
  BY <1>1, <1>2, <1>3 DEF Pushed, WindowEnd

LEMMA ReplaceFrameFacts ==
  ASSUME NEW m, NEW s, NEW t \in 0 .. StackSize, NEW c \in Callees,
         NEW argc \in Nat, argc <= c.locals, Last(m.frames) \in FrameType,
         Last(m.frames).base + c.locals + 1 <= t
  PROVE  Replaced(ReplaceFrame(m, s, t, c, argc), m.frames)
<1> DEFINE old == Last(m.frames)
           f == Frame(old.base, c.locals, argc, old.ret, old.callerTop, FALSE)
<1>1. /\ StackSize \in Nat /\ c.locals \in Nat
      /\ old.base \in Nat /\ old.ret \in Nat /\ old.callerTop \in Nat
  BY ConstantsAssumption DEF FrameType
<1>2. /\ f \in FrameType /\ f.live = argc /\ f.locals = c.locals /\ f.base = old.base
      /\ f.ret = old.ret /\ f.callerTop = old.callerTop
  BY <1>1 DEF Frame, FrameType
<1>3. /\ ReplaceFrame(m, s, t, c, argc).frames = Append(Front(m.frames), f)
      /\ ReplaceFrame(m, s, t, c, argc).top = t
  BY DEF ReplaceFrame
<1> HIDE DEF f
<1> QED
  BY <1>1, <1>2, <1>3 DEF Replaced, WindowEnd

\* call_value from an instruction that is not a tail call, or from call_value_sync.
LEMMA CallValueFacts ==
  ASSUME NEW s, NEW t \in 0 .. StackSize, NEW fs \in Seq(FrameType),
         NEW c \in Callees, NEW argc \in Nat, NEW base \in Nat \ {0}, base <= t,
         Ok(CallValue(MachineOf(s, t, fs), c, argc, base, FALSE))
  PROVE  LET m2 == CallValue(MachineOf(s, t, fs), c, argc, base, FALSE) IN
         Answered(m2, fs, t) \/ Pushed(m2, fs, t, base, base - 1)
<1> DEFINE m == MachineOf(s, t, fs)
           m2 == CallValue(m, c, argc, base, FALSE)
<1>1. m.frames = fs /\ m.top = t
  BY DEF MachineOf
<1>2. Ok(m2) /\ m2 = CallValue(m, c, argc, base, FALSE) /\ ~Ok(Fault(m))
  BY DEF MachineOf, Fault, Ok
<1>3. /\ StackSize \in Nat /\ c.arity \in Nat /\ c.locals \in Nat /\ c.kind \in CallKinds
      /\ c.arity <= c.locals \/ c.kind \in {"native", "class"}
      /\ c.kind \in WithSelf => c.arity > 0
      /\ base - 1 \in Nat
  BY ConstantsAssumption
<1> SUFFICES Answered(m2, fs, t) \/ Pushed(m2, fs, t, base, base - 1)
  OBVIOUS
<1>4. CASE c.kind \in {"native", "class"}
  <2>1. m2 \in {CallNative(m, c, argc, base), CallClass(m, argc, base, FALSE)}
    BY <1>2, <1>4 DEF CallValue
  <2>2. m2 = [m EXCEPT !.stack[base - 1] = Object]
    BY <1>2, <2>1 DEF CallNative, CallClass
  <2>3. m2 = MachineOf([s EXCEPT ![base - 1] = Object], t, fs)
    BY <2>2 DEF MachineOf
  <2> QED
    BY <2>3 DEF Answered
<1> HIDE DEF m, m2
<1>5. \A b, n, s2, u :
        /\ b \in Nat /\ base <= b /\ n \in Nat /\ n <= c.locals
        /\ u = Larger(t, b + c.locals + 1) \/ u = b + c.locals + 1
        /\ b + c.locals + 1 <= StackSize
        /\ m2 = PushFrame(m, s2, u, b, c, n, base - 1, t)
        => Pushed(m2, fs, t, base, base - 1)
  <2> SUFFICES ASSUME NEW b, NEW n, NEW s2, NEW u,
                      b \in Nat /\ base <= b /\ n \in Nat /\ n <= c.locals,
                      u = Larger(t, b + c.locals + 1) \/ u = b + c.locals + 1,
                      b + c.locals + 1 <= StackSize,
                      m2 = PushFrame(m, s2, u, b, c, n, base - 1, t)
               PROVE  Pushed(m2, fs, t, base, base - 1)
    OBVIOUS
  <2>1. b + c.locals + 1 <= u /\ u \in 0 .. StackSize
    BY <1>3 DEF Larger
  <2>2. t \in Nat /\ base \in Nat
    BY <1>3
  <2>3. Pushed(PushFrame(m, s2, u, b, c, n, base - 1, t), m.frames, t, base, base - 1)
    BY <1>3, <2>1, <2>2, PushFrameFacts
  <2> QED
    BY <1>1, <2>3
<1>6. CASE c.kind = "function"
  <2> DEFINE high == base + c.locals + 1
             bad  == argc # c.arity \/ high > StackSize \/ Len(fs) >= MaxFrames
  <2>1. m2 = CallFunction(m, c, argc, base, FALSE)
    BY <1>2, <1>6 DEF CallValue
  <2>2. m2 = IF bad THEN Fault(m)
             ELSE PushFrame(m, Clear(m.stack, t, high - 1), Larger(t, high), base, c, argc,
                            base - 1, t)
    BY <1>1, <2>1 DEF CallFunction
  <2>3. ~bad
    BY <1>2, <2>2
  <2>4. argc \in Nat /\ argc <= c.locals /\ high <= StackSize /\ base \in Nat /\ base <= base
    BY <1>3, <1>6, <2>3
  <2>5. m2 = PushFrame(m, Clear(m.stack, t, high - 1), Larger(t, high), base, c, argc, base - 1, t)
    BY <2>2, <2>3
  <2> QED
    BY <1>5, <2>4, <2>5
<1>7. CASE c.kind = "constructor"
  <2> DEFINE high == base + c.locals + 1
             bad  == \/ argc + 1 # c.arity \/ t + 1 >= StackSize \/ high > StackSize
                     \/ Len(fs) >= MaxFrames
  <2>1. m2 = CallConstructor(m, c, argc, base, FALSE)
    BY <1>2, <1>7 DEF CallValue
  <2>2. \E s2 : m2 = IF bad THEN Fault(m)
                     ELSE PushFrame(m, s2, Larger(t, high), base, c, argc + 1, base - 1, t)
    BY <1>1, <2>1 DEF CallConstructor
  <2>3. ~bad
    BY <1>2, <2>2
  <2>4. /\ argc + 1 \in Nat /\ argc + 1 <= c.locals /\ high <= StackSize
        /\ base \in Nat /\ base <= base
    BY <1>3, <1>7, <2>3 DEF WithSelf
  <2>5. \E s2 : m2 = PushFrame(m, s2, Larger(t, high), base, c, argc + 1, base - 1, t)
    BY <2>2, <2>3
  <2> QED
    BY <1>5, <2>4, <2>5
<1>8. CASE c.kind = "instance"
  <2> DEFINE high == t + c.locals + 1
             bad  == argc + 1 # c.arity \/ high > StackSize \/ Len(fs) >= MaxFrames
  <2>1. m2 = CallInstance(m, c, argc, base, FALSE)
    BY <1>2, <1>8 DEF CallValue
  <2>2. \E s2 : m2 = IF bad THEN Fault(m)
                     ELSE PushFrame(m, s2, high, t, c, argc + 1, base - 1, t)
    BY <1>1, <2>1 DEF CallInstance
  <2>3. ~bad
    BY <1>2, <2>2
  <2>4. /\ argc + 1 \in Nat /\ argc + 1 <= c.locals /\ high <= StackSize
        /\ t \in Nat /\ base <= t
    BY <1>3, <1>8, <2>3 DEF WithSelf
  <2>5. \E s2 : m2 = PushFrame(m, s2, high, t, c, argc + 1, base - 1, t)
    BY <2>2, <2>3
  <2> QED
    BY <1>5, <2>4, <2>5
<1>9. CASE c.kind \in {"method", "module"}
  <2>1. m2 = Fault(m)
    BY <1>2, <1>9 DEF CallValue
  <2> QED
    BY <1>2, <2>1
<1>10. \/ c.kind \in {"native", "class"} \/ c.kind = "function" \/ c.kind = "constructor"
       \/ c.kind = "instance" \/ c.kind \in {"method", "module"}
  BY <1>3 DEF CallKinds
<1> QED
  BY <1>4, <1>6, <1>7, <1>8, <1>9, <1>10

\* call_value from CALL_TAIL: the innermost frame is replaced or, when a class has no
\* constructor, gone.
LEMMA CallValueTailFacts ==
  ASSUME NEW s, NEW t \in 0 .. StackSize, NEW fs \in Seq(FrameType), fs # <<>>,
         NEW c \in Callees, c.kind # "native", NEW argc \in Nat, NEW base \in Nat \ {0},
         Ok(CallValue(MachineOf(s, t, fs), c, argc, base, TRUE))
  PROVE  LET m2 == CallValue(MachineOf(s, t, fs), c, argc, base, TRUE) IN
         IF c.kind = "class" THEN Popped(m2, fs) ELSE Replaced(m2, fs)
<1> DEFINE m == MachineOf(s, t, fs)
           m2 == CallValue(m, c, argc, base, TRUE)
           old == Last(fs)
<1>1. m.frames = fs /\ m.top = t
  BY DEF MachineOf
<1>2. Ok(m2) /\ m2 = CallValue(m, c, argc, base, TRUE) /\ ~Ok(Fault(m))
  BY DEF MachineOf, Fault, Ok
<1>3. /\ StackSize \in Nat /\ c.arity \in Nat /\ c.locals \in Nat /\ c.kind \in CallKinds
      /\ c.arity <= c.locals \/ c.kind \in {"native", "class"}
      /\ c.kind \in WithSelf => c.arity > 0
      /\ old \in FrameType /\ old.base \in Nat
  <2>1. old \in FrameType
    BY FrontFacts
  <2> QED
    BY <2>1, ConstantsAssumption DEF FrameType
<1> SUFFICES IF c.kind = "class" THEN Popped(m2, fs) ELSE Replaced(m2, fs)
  OBVIOUS
<1>4. CASE c.kind = "class"
  <2>1. m2 = CallClass(m, argc, base, TRUE)
    BY <1>2, <1>4 DEF CallValue
  <2>2. m2 = PopFrame(m, Object)
    BY <1>2, <2>1 DEF CallClass
  <2>3. m2.frames = Front(m.frames) /\ m2.top = Last(m.frames).callerTop
    BY <2>2 DEF PopFrame, MachineOf
  <2> QED
    BY <1>1, <1>4, <2>3 DEF Popped
<1> HIDE DEF m, m2
<1>5. \A n, s2 :
        /\ n \in Nat /\ n <= c.locals
        /\ old.base + c.locals + 1 <= StackSize
        /\ m2 = ReplaceFrame(m, s2, old.base + c.locals + 1, c, n)
        => Replaced(m2, fs)
  <2> SUFFICES ASSUME NEW n, NEW s2,
                      n \in Nat /\ n <= c.locals,
                      old.base + c.locals + 1 <= StackSize,
                      m2 = ReplaceFrame(m, s2, old.base + c.locals + 1, c, n)
               PROVE  Replaced(m2, fs)
    OBVIOUS
  <2>1. old.base + c.locals + 1 \in 0 .. StackSize
    BY <1>3
  <2>2. Last(m.frames) \in FrameType /\ Last(m.frames).base + c.locals + 1 <= old.base + c.locals + 1
    BY <1>1, <1>3
  <2>3. Replaced(ReplaceFrame(m, s2, old.base + c.locals + 1, c, n), m.frames)
    BY <2>1, <2>2, ReplaceFrameFacts
  <2> QED
    BY <1>1, <2>3
<1>6. CASE c.kind = "function"
  <2> DEFINE high == old.base + c.locals + 1
             bad  == argc # c.arity \/ high > StackSize
  <2>1. m2 = CallFunction(m, c, argc, base, TRUE)
    BY <1>2, <1>6 DEF CallValue
  <2>2. m2 = IF bad THEN Fault(m)
             ELSE ReplaceFrame(m, CopyUp(m.stack, base, old.base, argc), high, c, argc)
    BY <1>1, <2>1 DEF CallFunction
  <2>3. ~bad
    BY <1>2, <2>2
  <2>4. argc \in Nat /\ argc <= c.locals /\ high <= StackSize
    BY <1>3, <1>6, <2>3
  <2>5. m2 = ReplaceFrame(m, CopyUp(m.stack, base, old.base, argc), high, c, argc)
    BY <2>2, <2>3
  <2> QED
    BY <1>5, <1>6, <2>4, <2>5
<1>7. CASE c.kind = "constructor"
  <2> DEFINE high == old.base + c.locals + 1
             bad  == argc + 1 # c.arity \/ t + 1 >= StackSize \/ high > StackSize
  <2>1. m2 = CallConstructor(m, c, argc, base, TRUE)
    BY <1>2, <1>7 DEF CallValue
  <2>2. \E s2 : m2 = IF bad THEN Fault(m) ELSE ReplaceFrame(m, s2, high, c, argc + 1)
    BY <1>1, <2>1 DEF CallConstructor
  <2>3. ~bad
    BY <1>2, <2>2
  <2>4. argc + 1 \in Nat /\ argc + 1 <= c.locals /\ high <= StackSize
    BY <1>3, <1>7, <2>3
  <2>5. \E s2 : m2 = ReplaceFrame(m, s2, high, c, argc + 1)
    BY <2>2, <2>3
  <2> QED
    BY <1>5, <1>7, <2>4, <2>5
<1>8. CASE c.kind = "instance"
  <2> DEFINE high == old.base + c.locals + 1
             bad  == argc + 1 # c.arity \/ high > StackSize
  <2>1. m2 = CallInstance(m, c, argc, base, TRUE)
    BY <1>2, <1>8 DEF CallValue
  <2>2. \E s2 : m2 = IF bad THEN Fault(m) ELSE ReplaceFrame(m, s2, high, c, argc + 1)
    BY <1>1, <2>1 DEF CallInstance
  <2>3. ~bad
    BY <1>2, <2>2
  <2>4. argc + 1 \in Nat /\ argc + 1 <= c.locals /\ high <= StackSize
    BY <1>3, <1>8, <2>3
  <2>5. \E s2 : m2 = ReplaceFrame(m, s2, high, c, argc + 1)
    BY <2>2, <2>3
  <2> QED
    BY <1>5, <1>8, <2>4, <2>5
<1>9. CASE c.kind \in {"method", "module"}
  <2>1. m2 = Fault(m)
    BY <1>2, <1>9 DEF CallValue
  <2> QED
    BY <1>2, <2>1
<1>10. \/ c.kind = "class" \/ c.kind = "function" \/ c.kind = "constructor"
       \/ c.kind = "instance" \/ c.kind \in {"method", "module"}
  BY <1>3 DEF CallKinds
<1> QED
  BY <1>4, <1>6, <1>7, <1>8, <1>9, <1>10

\* invoke_method.
LEMMA InvokeMethodFacts ==
  ASSUME NEW s, NEW t \in 0 .. StackSize, NEW fs \in Seq(FrameType),
         NEW c \in Callees, c.kind = "method", NEW self, NEW ret \in Nat, NEW base \in Nat,
         NEW total \in Nat,
         Ok(InvokeMethod(MachineOf(s, t, fs), c, self, ret, base, total))
  PROVE  Pushed(InvokeMethod(MachineOf(s, t, fs), c, self, ret, base, total), fs, t, base, ret)
<1> DEFINE m == MachineOf(s, t, fs)
           m2 == InvokeMethod(m, c, self, ret, base, total)
           high == base + c.locals + 1
           u == Larger(t, base + total)
           bad == total # c.arity \/ Len(fs) >= MaxFrames \/ high > StackSize
<1>1. m.frames = fs /\ m.top = t
  BY DEF MachineOf
<1>2. Ok(m2) /\ m2 = InvokeMethod(m, c, self, ret, base, total) /\ ~Ok(Fault(m))
  BY DEF MachineOf, Fault, Ok
<1>3. /\ StackSize \in Nat /\ c.arity \in Nat /\ c.locals \in Nat /\ c.arity <= c.locals
      /\ t \in Nat
  BY ConstantsAssumption
<1> SUFFICES Pushed(m2, fs, t, base, ret)
  OBVIOUS
<1> HIDE DEF m, m2
<1>4. \E s2 : m2 = IF bad THEN Fault(m)
                  ELSE PushFrame(m, s2, Larger(u, high), base, c, total, ret, t)
  BY <1>1, <1>2 DEF InvokeMethod
<1>5. ~bad
  BY <1>2, <1>4
<1>6. PICK s2 : m2 = PushFrame(m, s2, Larger(u, high), base, c, total, ret, t)
  BY <1>4, <1>5
<1>7. /\ Larger(u, high) \in 0 .. StackSize /\ base + c.locals + 1 <= Larger(u, high)
      /\ total <= c.locals /\ base <= base
  BY <1>3, <1>5 DEF Larger
<1>8. Pushed(PushFrame(m, s2, Larger(u, high), base, c, total, ret, t), m.frames, t, base, ret)
  BY <1>3, <1>7, PushFrameFacts
<1> QED
  BY <1>1, <1>6, <1>8
-----------------------------------------------------------------------------
(* Steps that leave the nested calls alone, steps that enter or leave one.  *)

\* The stop depths below the current one.
LEMMA StopsBelow ==
  ASSUME Shape, NestedRunsAboveCaller, NEW j \in 1 .. Len(nests)
  PROVE  /\ nests # <<>> /\ StopDepth = nests[Len(nests)].stop
         /\ nests[j].stop <= StopDepth /\ nests[j].stop \in Nat
<1>1. /\ Len(nests) \in Nat /\ nests # <<>> /\ Len(nests) \in 1 .. Len(nests)
      /\ \A i \in 1 .. Len(nests) : nests[i] \in NestType
  BY LenProperties, ElementOfSeq, EmptySeq DEF Shape
<1>2. StopDepth = nests[Len(nests)].stop
  BY <1>1 DEF StopDepth, StopOf, Last
<1>3. /\ nests[j].stop \in Nat /\ nests[Len(nests)].stop \in Nat
      /\ j # Len(nests) => nests[j].stop < nests[Len(nests)].stop
  BY <1>1 DEF NestedRunsAboveCaller, NestType
<1> QED
  BY <1>1, <1>2, <1>3

\* The frames the waiting natives belong to are untouched by what runs above them.
LEMMA StepKeeps ==
  ASSUME IInv, Running, frames' \in Seq(FrameType), top' \in 0 .. StackSize,
         Windows(frames', top'), nests' = nests,
         \A i \in 1 .. Len(frames) - 1 :
            i <= Len(frames') => WindowEnd(frames'[i]) = WindowEnd(frames[i]),
         \/ mode' = "execute" /\ Len(frames') > StopDepth
         \/ mode' = "native" /\ nests # <<>> /\ Len(frames') = StopDepth
         \/ mode' = "done" /\ nests = <<>>
  PROVE  IInv'
<1>1. Len(frames) \in Nat /\ Len(frames') \in Nat
  BY LenProperties DEF IInv, Shape
<1>2. StopDepth' = StopDepth /\ Len(frames) > StopDepth
  BY DEF StopDepth, IInv, NestedRunsAboveCaller
<1>3. Covered(frames', nests)
  <2> SUFFICES ASSUME NEW j \in 1 .. Len(nests)
               PROVE  /\ nests[j].stop \in 1 .. Len(frames')
                      /\ WindowEnd(frames'[nests[j].stop]) <= nests[j].savedTop
                      /\ nests[j].savedTop <= StackSize
    BY DEF Covered
  <2>1. nests # <<>> /\ nests[j].stop <= StopDepth /\ StopDepth \in Nat
    <3>1. Len(nests) \in 1 .. Len(nests)
      BY LenProperties DEF IInv, Shape
    <3> QED
      BY <3>1, StopsBelow DEF IInv
  <2>2. /\ nests[j].stop \in 1 .. Len(frames)
        /\ WindowEnd(frames[nests[j].stop]) <= nests[j].savedTop
        /\ nests[j].savedTop <= StackSize
    BY DEF IInv, Covered
  <2>3. Len(frames') >= StopDepth
    BY <1>1, <2>1
  <2>4. nests[j].stop \in 1 .. Len(frames) - 1 /\ nests[j].stop <= Len(frames')
    BY <1>1, <1>2, <2>1, <2>2, <2>3
  <2>5. WindowEnd(frames'[nests[j].stop]) = WindowEnd(frames[nests[j].stop])
    BY <2>4
  <2> QED
    BY <1>1, <2>2, <2>4, <2>5
<1>4. NestedRunsAboveCaller'
  BY <1>1, <1>2 DEF NestedRunsAboveCaller, IInv, Running
<1> QED
  BY <1>3, <1>4 DEF IInv, Shape, FrameWindows

\* A runtime error.
LEMMA UnwindKeeps == ASSUME IInv, Unwind PROVE IInv'
<1>1. frames' = <<>> /\ nests' = <<>> /\ top' = 0 /\ mode' = "error" /\ Len(<<>>) = 0
  BY DEF Unwind
<1>2. StackSize \in Nat
  BY ConstantsAssumption
<1>3. Shape'
  BY <1>1, <1>2, EmptySeq DEF Shape
<1>4. Windows(<<>>, 0) /\ Covered(<<>>, <<>>)
  BY DEF Windows, Covered
<1>5. NestedRunsAboveCaller'
  BY <1>1 DEF NestedRunsAboveCaller, Running
<1> QED
  BY <1>1, <1>3, <1>4, <1>5 DEF IInv, FrameWindows

\* What holds of the innermost frame, and of the frames when it has n registers.
Relive(n) == [frames EXCEPT ![Len(frames)].live = n]

LEMMA RunningFacts ==
  ASSUME IInv, Running
  PROVE  /\ frames \in Seq(FrameType) /\ frames # <<>> /\ Len(frames) \in Nat \ {0}
         /\ TopFrame \in FrameType /\ TopFrame = frames[Len(frames)]
         /\ TopFrame.live <= TopFrame.locals /\ WindowEnd(TopFrame) <= top
         /\ top \in 0 .. StackSize /\ StackSize \in Nat
         /\ Machine = MachineOf(stack, top, frames)
         /\ Windows(frames, top) /\ Len(frames) > StopDepth /\ StopDepth \in Nat
<1>1. StackSize \in Nat /\ frames \in Seq(FrameType) /\ Len(frames) > StopDepth
  BY ConstantsAssumption DEF IInv, Shape, NestedRunsAboveCaller
<1>2. StopDepth \in Nat
  <2>1. CASE nests = <<>>
    BY <2>1 DEF StopDepth, StopOf
  <2>2. CASE nests # <<>>
    <3>1. Len(nests) \in 1 .. Len(nests)
      BY <2>2, EmptySeq DEF IInv, Shape
    <3> QED
      BY <3>1, StopsBelow DEF IInv
  <2> QED
    BY <2>1, <2>2
<1>3. frames # <<>> /\ Len(frames) \in Nat \ {0}
  BY <1>1, <1>2, EmptySeq
<1>4. TopFrame \in FrameType
  BY <1>1, <1>3, ElementOfSeq DEF TopFrame
<1>5. Windows(frames, top)
  BY DEF IInv, FrameWindows
<1>6. TopFrame.live <= TopFrame.locals /\ WindowEnd(TopFrame) <= top
  BY <1>3, <1>5 DEF Windows, TopFrame
<1> QED
  BY <1>1, <1>2, <1>3, <1>4, <1>5, <1>6 DEF TopFrame, Machine, MachineOf, IInv, Shape

LEMMA ReliveFacts ==
  ASSUME IInv, Running, NEW n \in Nat, n <= TopFrame.locals
  PROVE  /\ Relive(n) \in Seq(FrameType) /\ Len(Relive(n)) = Len(frames) /\ Relive(n) # <<>>
         /\ \A i \in 1 .. Len(frames) : WindowEnd(Relive(n)[i]) = WindowEnd(frames[i])
         /\ Relive(n)[Len(frames)] = [TopFrame EXCEPT !.live = n]
         /\ Windows(Relive(n), top)
         /\ Allocated(n) = MachineOf(stack, top, Relive(n))
         /\ \A s : [Allocated(n) EXCEPT !.stack = s] = MachineOf(s, top, Relive(n))
<1>1. /\ Relive(n) \in Seq(FrameType) /\ Len(Relive(n)) = Len(frames)
      /\ \A i \in 1 .. Len(frames) : WindowEnd(Relive(n)[i]) = WindowEnd(frames[i])
      /\ Relive(n)[Len(frames)] = [TopFrame EXCEPT !.live = n]
      /\ Windows(Relive(n), top)
  BY RunningFacts, WindowsRelive DEF Relive
<1>2. Relive(n) # <<>>
  BY <1>1, RunningFacts
<1>3. Allocated(n) = MachineOf(stack, top, Relive(n))
  <2>1. Machine.frames = frames
    BY DEF Machine
  <2>2. Allocated(n) = [Machine EXCEPT !.frames = [Machine.frames EXCEPT ![Len(frames)].live = n]]
    BY DEF Allocated
  <2>3. Allocated(n) = [Machine EXCEPT !.frames = Relive(n)]
    BY <2>1, <2>2 DEF Relive
  <2> HIDE DEF Relive
  <2> QED
    BY <2>3 DEF Machine, MachineOf
<1>4. ASSUME NEW s PROVE [Allocated(n) EXCEPT !.stack = s] = MachineOf(s, top, Relive(n))
  BY <1>3, MachineSlots
<1> QED
  BY <1>1, <1>2, <1>3, <1>4

\* The frame stack g differs from frames only in the registers in use, now n.
Resumable(g, n) == /\ g \in Seq(FrameType) /\ Len(g) = Len(frames) /\ g # <<>>
                   /\ \A i \in 1 .. Len(frames) : WindowEnd(g[i]) = WindowEnd(frames[i])
                   /\ g[Len(frames)].base = TopFrame.base /\ g[Len(frames)].live = n
                   /\ WindowEnd(g[Len(frames)]) <= top
                   /\ Windows(g, top)

LEMMA ReliveResumable ==
  ASSUME IInv, Running, NEW n \in Nat, n <= TopFrame.locals
  PROVE  Resumable(Relive(n), n)
<1>1. /\ [TopFrame EXCEPT !.live = n].base = TopFrame.base
      /\ [TopFrame EXCEPT !.live = n].live = n
  BY RunningFacts DEF FrameType
<1>2. /\ Relive(n) \in Seq(FrameType) /\ Len(Relive(n)) = Len(frames) /\ Relive(n) # <<>>
      /\ \A i \in 1 .. Len(frames) : WindowEnd(Relive(n)[i]) = WindowEnd(frames[i])
      /\ Relive(n)[Len(frames)] = [TopFrame EXCEPT !.live = n]
      /\ Windows(Relive(n), top)
  BY ReliveFacts
<1>3. WindowEnd(Relive(n)[Len(frames)]) <= top
  BY <1>2, RunningFacts
<1> QED
  BY <1>1, <1>2, <1>3 DEF Resumable

LEMMA FramesResumable == ASSUME IInv, Running PROVE Resumable(frames, TopFrame.live)
  BY RunningFacts DEF Resumable

\* A pushed frame above the registers in use.
LEMMA PushedFacts ==
  ASSUME IInv, Running, NEW g, NEW n \in Nat, Resumable(g, n),
         NEW t \in Nat, top <= t, t <= StackSize, NEW base \in Nat, NEW ret \in Nat,
         TopFrame.base + n <= base, TopFrame.base <= ret, ret < base,
         NEW m2, Pushed(m2, g, t, base, ret)
  PROVE  /\ m2.frames \in Seq(FrameType) /\ Len(m2.frames) = Len(frames) + 1
         /\ \A i \in 1 .. Len(frames) : WindowEnd(m2.frames[i]) = WindowEnd(frames[i])
         /\ Windows(m2.frames, m2.top) /\ m2.top \in 0 .. StackSize
<1>1. PICK f \in FrameType : /\ m2.frames = Append(g, f)
                            /\ f.live <= f.locals
                            /\ WindowEnd(f) <= m2.top /\ WindowEnd(f) <= StackSize
                            /\ m2.top \in 0 .. StackSize
                            /\ base <= f.base /\ f.ret = ret /\ f.callerTop = t
  BY DEF Pushed
<1>2. /\ g \in Seq(FrameType) /\ Len(g) = Len(frames) /\ g # <<>>
      /\ \A i \in 1 .. Len(frames) : WindowEnd(g[i]) = WindowEnd(frames[i])
      /\ g[Len(frames)].base = TopFrame.base /\ g[Len(frames)].live = n
      /\ Windows(g, top) /\ WindowEnd(g[Len(frames)]) <= top
  BY DEF Resumable
<1>3. g[Len(frames)] \in FrameType
  BY <1>2, RunningFacts, ElementOfSeq
<1>4. CallerKeeps(g[Len(g)], f)
  <2>1. StackSize \in Nat /\ top \in Nat /\ TopFrame \in FrameType
    BY RunningFacts
  <2>2. /\ TopFrame.base \in Nat /\ f.base \in Nat
        /\ g[Len(frames)].base \in Nat /\ g[Len(frames)].locals \in Nat
    BY <1>3, <2>1 DEF FrameType
  <2>3. WindowEnd(g[Len(frames)]) \in Nat
    BY <1>3, WindowEndNat
  <2> QED
    BY <1>1, <1>2, <2>1, <2>2, <2>3, SMTT(30) DEF CallerKeeps
<1>5. Append(g, f) \in Seq(FrameType) /\ Windows(Append(g, f), m2.top)
  BY <1>1, <1>2, <1>4, WindowsPush
<1>6. /\ Len(Append(g, f)) = Len(g) + 1
      /\ \A i \in 1 .. Len(g) : Append(g, f)[i] = g[i]
  BY <1>2, AppendFacts
<1> QED
  BY <1>1, <1>2, <1>5, <1>6

\* A call by an instruction: it is answered, a frame is pushed, or an error ends it all.
LEMMA CallKeeps ==
  ASSUME IInv, Running, NEW n \in Nat, n <= TopFrame.locals,
         NEW base \in Nat, NEW ret \in Nat,
         TopFrame.base + n <= base, TopFrame.base <= ret, ret < base,
         NEW m2, NEW made, CallOutcome(m2, made),
         Ok(m2) => Answered(m2, Relive(n), top) \/ Pushed(m2, Relive(n), top, base, ret)
  PROVE  IInv'
<1>1. CASE ~Ok(m2)
  BY <1>1, UnwindKeeps DEF CallOutcome, Install
<1>2. CASE Ok(m2) /\ ~Unwind
  <2>1. /\ frames' = m2.frames /\ top' = m2.top /\ nests' = nests /\ mode' = "execute"
    BY <1>2 DEF CallOutcome, Install, Running
  <2>2. Resumable(Relive(n), n)
    BY ReliveResumable
  <2>3. CASE Answered(m2, Relive(n), top)
    <3>1. frames' = Relive(n) /\ top' = top
      BY <2>1, <2>3 DEF Answered, MachineOf
    <3> QED
      BY <2>1, <2>2, <3>1, RunningFacts, StepKeeps DEF Resumable
  <2>4. CASE Pushed(m2, Relive(n), top, base, ret)
    <3>1. top \in Nat /\ top <= top /\ top <= StackSize
      BY RunningFacts
    <3>2. /\ m2.frames \in Seq(FrameType) /\ Len(m2.frames) = Len(frames) + 1
          /\ \A i \in 1 .. Len(frames) : WindowEnd(m2.frames[i]) = WindowEnd(frames[i])
          /\ Windows(m2.frames, m2.top) /\ m2.top \in 0 .. StackSize
      BY <2>2, <2>4, <3>1, PushedFacts
    <3>3. Len(frames') > StopDepth
      BY <2>1, <3>2, RunningFacts
    <3>4. \A i \in 1 .. Len(frames) - 1 :
            i <= Len(frames') => WindowEnd(frames'[i]) = WindowEnd(frames[i])
      BY <2>1, <3>2, RunningFacts
    <3> QED
      BY <2>1, <3>2, <3>3, <3>4, StepKeeps
  <2> QED
    BY <1>2, <2>3, <2>4
<1>3. CASE Ok(m2) /\ Unwind
  BY <1>3, UnwindKeeps
<1> QED
  BY <1>1, <1>2, <1>3
-----------------------------------------------------------------------------
(* One lemma per action.                                                    *)

LEMMA InitHolds == Init => IInv
<1> SUFFICES ASSUME Init PROVE IInv
  OBVIOUS
<1> DEFINE f == Frame(1, MainLocals, 0, 0, 0, TRUE)
<1>1. /\ frames = <<f>> /\ nests = <<>> /\ mode = "execute" /\ top = MainLocals + 2
  BY DEF Init
<1>2. MainLocals \in Nat /\ StackSize \in Nat /\ MainLocals + 2 <= StackSize
  BY ConstantsAssumption
<1>3. /\ f \in FrameType /\ f.live = 0 /\ f.base = 1 /\ f.locals = MainLocals
      /\ f.callerTop = 0
  BY <1>2 DEF Frame, FrameType
<1> HIDE DEF f
<1>4. /\ <<f>> \in Seq(FrameType) /\ Len(<<f>>) = 1 /\ <<f>>[1] = f
      /\ Len(<<>>) = 0 /\ <<>> \in Seq(NestType)
  BY <1>3
<1>5. Shape
  BY <1>1, <1>2, <1>4 DEF Shape
<1>6. Windows(frames, top)
  BY <1>1, <1>2, <1>3, <1>4 DEF Windows, WindowEnd
<1>7. NestedRunsAboveCaller
  BY <1>1, <1>4 DEF NestedRunsAboveCaller, StopDepth, StopOf
<1>8. Covered(frames, nests)
  BY <1>1, <1>4 DEF Covered
<1> QED
  BY <1>1, <1>5, <1>6, <1>7, <1>8 DEF IInv, FrameWindows

\* An instruction that only moves the top frame's ip.
LEMMA ReliveKeeps ==
  ASSUME IInv, Running, NEW n \in Nat, n <= TopFrame.locals,
         frames' = Relive(n), UNCHANGED <<top, nests, mode>>
  PROVE  IInv'
<1>1. Resumable(Relive(n), n)
  BY ReliveResumable
<1>2. top' = top /\ nests' = nests /\ mode' = "execute"
  BY DEF Running
<1> QED
  BY <1>1, <1>2, RunningFacts, StepKeeps DEF Resumable

LEMMA LoadKeeps == ASSUME IInv, NEW v, Load(v) PROVE IInv'
<1>1. Running /\ TopFrame.live < TopFrame.locals /\ UNCHANGED <<top, nests, mode>>
  BY DEF Load
<1>2. TopFrame \in FrameType /\ TopFrame = frames[Len(frames)]
  BY <1>1, RunningFacts
<1>3. TopFrame.live + 1 \in Nat /\ TopFrame.live + 1 <= TopFrame.locals
  BY <1>1, <1>2 DEF FrameType
<1>4. frames' = Relive(TopFrame.live + 1)
  BY <1>2 DEF Load, Relive
<1> QED
  BY <1>1, <1>3, <1>4, ReliveKeeps

LEMMA DropKeeps == ASSUME IInv, Drop PROVE IInv'
<1>1. Running /\ TopFrame.live > 0 /\ UNCHANGED <<top, nests, mode>>
  BY DEF Drop
<1>2. TopFrame \in FrameType /\ TopFrame = frames[Len(frames)] /\ TopFrame.live <= TopFrame.locals
  BY <1>1, RunningFacts
<1>3. TopFrame.live - 1 \in Nat /\ TopFrame.live - 1 <= TopFrame.locals
  BY <1>1, <1>2 DEF FrameType
<1>4. frames' = Relive(TopFrame.live - 1)
  BY <1>2 DEF Drop, Relive
<1> QED
  BY <1>1, <1>3, <1>4, ReliveKeeps

LEMMA CallStepKeeps ==
  ASSUME IInv, NEW c \in Callees, NEW argc \in Nat, Call(c, argc) PROVE IInv'
<1> DEFINE n    == TopFrame.live - argc - 1 + 1
           base == TopFrame.base + n
           m2   == CallValue(MachineOf(stack, top, Relive(n)), c, argc, base, FALSE)
<1>1. Running /\ argc < TopFrame.live
  BY DEF Call
<1>2. /\ TopFrame.live \in Nat /\ TopFrame.locals \in Nat /\ TopFrame.base \in Nat
      /\ TopFrame.live <= TopFrame.locals /\ WindowEnd(TopFrame) <= top /\ top \in 0 .. StackSize
      /\ StackSize \in Nat
  BY <1>1, RunningFacts DEF FrameType
<1>3. /\ n \in Nat \ {0} /\ n <= TopFrame.locals /\ base \in Nat \ {0} /\ base <= top
      /\ base - 1 \in Nat /\ TopFrame.base <= base - 1 /\ TopFrame.base + n <= base
      /\ base - 1 < base
  BY <1>1, <1>2 DEF WindowEnd
<1>4. /\ Allocated(n) = MachineOf(stack, top, Relive(n)) /\ Relive(n) \in Seq(FrameType)
  BY <1>1, <1>3, ReliveFacts
<1>5. CallOutcome(m2, Made(c))
  BY <1>4 DEF Call, Register
<1> HIDE DEF n
<1>6. Ok(m2) => Answered(m2, Relive(n), top) \/ Pushed(m2, Relive(n), top, base, base - 1)
  BY <1>2, <1>3, <1>4, CallValueFacts
<1> HIDE DEF m2, base
<1> QED
  BY <1>1, <1>3, <1>5, <1>6, CallKeeps

LEMMA InvokeKeeps ==
  ASSUME IInv, NEW c \in Callees, c.kind = "method", NEW argc \in Nat, Invoke(c, argc)
  PROVE  IInv'
<1> DEFINE n    == TopFrame.live - argc - 2 + 1
           base == TopFrame.base + n
           ret  == TopFrame.base + (TopFrame.live - argc - 2)
           m2   == InvokeMethod(MachineOf(stack, top, Relive(n)), c, stack[ret], ret, base, argc + 1)
<1>1. Running /\ argc + 1 < TopFrame.live
  BY DEF Invoke
<1>2. /\ TopFrame.live \in Nat /\ TopFrame.locals \in Nat /\ TopFrame.base \in Nat
      /\ TopFrame.live <= TopFrame.locals /\ top \in 0 .. StackSize
  BY <1>1, RunningFacts DEF FrameType
<1>3. /\ n \in Nat /\ n <= TopFrame.locals /\ base \in Nat /\ ret \in Nat
      /\ TopFrame.base <= ret /\ TopFrame.base + n <= base /\ ret < base
      /\ argc + 1 \in Nat
  BY <1>1, <1>2
<1>4. /\ Allocated(n) = MachineOf(stack, top, Relive(n)) /\ Relive(n) \in Seq(FrameType)
  BY <1>1, <1>3, ReliveFacts
<1>5. CallOutcome(m2, {})
  BY <1>4 DEF Invoke, Register
<1> HIDE DEF n, ret, base
<1>6. Ok(m2) => Pushed(m2, Relive(n), top, base, ret)
  BY <1>2, <1>3, <1>4, InvokeMethodFacts
<1> HIDE DEF m2
<1> QED
  BY <1>1, <1>3, <1>5, <1>6, CallKeeps

LEMMA InvokeMemberKeeps ==
  ASSUME IInv, NEW c \in Callees, NEW argc \in Nat, InvokeMember(c, argc) PROVE IInv'
<1> DEFINE self == TopFrame.live - argc - 2
           n    == self + 1
           base == TopFrame.base + n
           s2   == [CopyUp(stack, Register(self + 2), Register(self + 1), argc)
                      EXCEPT ![Register(self)] = Object]
           m2   == CallValue(MachineOf(s2, top, Relive(n)), c, argc, base, FALSE)
<1>1. Running /\ argc + 1 < TopFrame.live
  BY DEF InvokeMember
<1>2. /\ TopFrame.live \in Nat /\ TopFrame.locals \in Nat /\ TopFrame.base \in Nat
      /\ TopFrame.live <= TopFrame.locals /\ WindowEnd(TopFrame) <= top /\ top \in 0 .. StackSize
      /\ StackSize \in Nat
  BY <1>1, RunningFacts DEF FrameType
<1>3. /\ n \in Nat \ {0} /\ n <= TopFrame.locals /\ base \in Nat \ {0} /\ base <= top
      /\ base - 1 \in Nat /\ TopFrame.base <= base - 1 /\ TopFrame.base + n <= base
      /\ base - 1 < base
  BY <1>1, <1>2 DEF WindowEnd
<1>4. /\ Allocated(n) = MachineOf(stack, top, Relive(n)) /\ Relive(n) \in Seq(FrameType)
  BY <1>1, <1>3, ReliveFacts
<1>5. [Allocated(n) EXCEPT !.stack = s2] = MachineOf(s2, top, Relive(n))
  BY <1>1, <1>3, ReliveFacts
<1>6. CallOutcome(m2, Made(c) \cup {Object})
  BY <1>5 DEF InvokeMember, Register
<1> HIDE DEF n, self, s2
<1>7. Ok(m2) => Answered(m2, Relive(n), top) \/ Pushed(m2, Relive(n), top, base, base - 1)
  BY <1>2, <1>3, <1>4, CallValueFacts
<1> HIDE DEF m2, base
<1> QED
  BY <1>1, <1>3, <1>6, <1>7, CallKeeps

LEMMA OperatorKeeps ==
  ASSUME IInv, NEW c \in Callees, c.kind = "method", NEW lhs \in Nat, NEW rhs \in Nat,
         NEW dst \in Nat, NEW total \in {1, 2}, Operator(c, lhs, rhs, dst, total)
  PROVE  IInv'
<1> DEFINE n   == Larger(dst + 1, TopFrame.live)
           ret == TopFrame.base + dst
           s2  == IF total = 2 THEN [stack EXCEPT ![top + 1] = stack[Register(rhs)]] ELSE stack
           m2  == InvokeMethod(MachineOf(s2, top, Relive(n)), c, stack[Register(lhs)], ret, top,
                               total)
<1>1. Running /\ dst <= TopFrame.live /\ dst < TopFrame.locals
  BY DEF Operator
<1>2. /\ TopFrame.live \in Nat /\ TopFrame.locals \in Nat /\ TopFrame.base \in Nat
      /\ TopFrame.live <= TopFrame.locals /\ WindowEnd(TopFrame) <= top /\ top \in 0 .. StackSize
      /\ StackSize \in Nat /\ total \in Nat
  BY <1>1, RunningFacts DEF FrameType
<1>3. /\ n \in Nat /\ n <= TopFrame.locals /\ top \in Nat /\ ret \in Nat
      /\ TopFrame.base + n <= top /\ TopFrame.base <= ret /\ ret < top
  BY <1>1, <1>2 DEF WindowEnd, Larger
<1> HIDE DEF n
<1>4. /\ Relive(n) \in Seq(FrameType) /\ Allocated(n) = MachineOf(stack, top, Relive(n))
      /\ \A s : [Allocated(n) EXCEPT !.stack = s] = MachineOf(s, top, Relive(n))
  BY <1>1, <1>3, ReliveFacts
<1>5. CASE Unwind
  BY <1>5, UnwindKeeps
<1>6. CASE ~Unwind
  <2>1. CallOutcome(InvokeMethod(IF total = 2
                                 THEN [Allocated(n) EXCEPT !.stack[top + 1] = stack[Register(rhs)]]
                                 ELSE Allocated(n),
                                 c, stack[Register(lhs)], ret, top, total), {})
    BY <1>6 DEF Operator, Register, n
  <2>2. Allocated(n).stack = stack
    BY <1>4 DEF MachineOf
  <2>3. (IF total = 2 THEN [Allocated(n) EXCEPT !.stack[top + 1] = stack[Register(rhs)]]
                      ELSE Allocated(n)) = MachineOf(s2, top, Relive(n))
    BY <1>4, <2>2
  <2>4. CallOutcome(m2, {})
    BY <2>1, <2>3
  <2> HIDE DEF s2, ret
  <2>5. Ok(m2) => Pushed(m2, Relive(n), top, top, ret)
    BY <1>2, <1>3, <1>4, InvokeMethodFacts
  <2> HIDE DEF m2
  <2> QED
    BY <1>1, <1>3, <2>4, <2>5, CallKeeps
<1> QED
  BY <1>5, <1>6

LEMMA ImportModuleKeeps == ASSUME IInv, NEW c \in Callees, ImportModule(c) PROVE IInv'
<1> DEFINE dst  == TopFrame.live
           n    == dst + 1
           ret  == TopFrame.base + dst
           high == top + c.locals + 1
           m    == [Allocated(n) EXCEPT !.stack[ret] = Object]
           f    == Frame(top, c.locals, 0, ret, top, TRUE)
           m2   == IF Len(frames) >= MaxFrames \/ high > StackSize THEN Fault(m)
                   ELSE [stack |-> Clear(m.stack, top, high - 1), top |-> high, status |-> "ok",
                         frames |-> Append(m.frames, f)]
<1>1. Running /\ dst < TopFrame.locals /\ CallOutcome(m2, {Object})
  BY DEF ImportModule, Register
<1>2. /\ TopFrame.live \in Nat /\ TopFrame.locals \in Nat /\ TopFrame.base \in Nat
      /\ WindowEnd(TopFrame) <= top /\ top \in 0 .. StackSize
      /\ StackSize \in Nat /\ c.locals \in Nat
  BY <1>1, RunningFacts, ConstantsAssumption DEF FrameType
<1> HIDE DEF m, f, m2
<1>3. /\ n \in Nat /\ n <= TopFrame.locals /\ top \in Nat /\ ret \in Nat /\ high \in Nat
      /\ TopFrame.base + n <= top /\ TopFrame.base <= ret /\ ret < top
  BY <1>1, <1>2 DEF WindowEnd
<1> USE DEF m, f, m2
<1>4. /\ f \in FrameType /\ f.live = 0 /\ f.locals = c.locals /\ f.base = top
      /\ f.ret = ret /\ f.callerTop = top
  BY <1>2, <1>3 DEF Frame, FrameType
<1>5. /\ Allocated(n) = MachineOf(stack, top, Relive(n)) /\ Allocated(n).stack = stack
      /\ \A s : [Allocated(n) EXCEPT !.stack = s] = MachineOf(s, top, Relive(n))
  <2>1. /\ Allocated(n) = MachineOf(stack, top, Relive(n))
        /\ \A s : [Allocated(n) EXCEPT !.stack = s] = MachineOf(s, top, Relive(n))
    BY <1>1, <1>3, ReliveFacts
  <2> QED
    BY <2>1 DEF MachineOf
<1>6. m = MachineOf([stack EXCEPT ![ret] = Object], top, Relive(n))
  BY <1>5
<1>7. m.frames = Relive(n) /\ ~Ok(Fault(m))
  BY <1>6 DEF MachineOf, Fault, Ok
<1> HIDE DEF n, m, f, ret
<1>8. ASSUME Ok(m2) PROVE Pushed(m2, Relive(n), top, top, ret)
  <2>1. /\ m2.frames = Append(Relive(n), f) /\ m2.top = high /\ high <= StackSize
    BY <1>2, <1>3, <1>7, <1>8, SMTT(30)
  <2>2. /\ f.live <= f.locals /\ WindowEnd(f) = high /\ high \in 0 .. StackSize /\ top <= f.base
    BY <1>2, <1>3, <1>4, <2>1 DEF WindowEnd
  <2> HIDE DEF m2, high
  <2>3. WindowEnd(f) <= m2.top /\ WindowEnd(f) <= StackSize /\ m2.top \in 0 .. StackSize
    BY <1>2, <1>3, <2>1, <2>2
  <2> QED
    BY <1>4, <2>1, <2>2, <2>3 DEF Pushed
<1> HIDE DEF m2
<1> QED
  BY <1>1, <1>3, <1>8, CallKeeps

\* The innermost frame is gone and its caller runs on, or execute() is left.
LEMMA PopKeeps ==
  ASSUME IInv, Running, frames' = Front(frames), top' = TopFrame.callerTop, nests' = nests,
         \/ mode' = "execute" /\ Len(frames) - 1 > StopDepth
         \/ mode' = "native" /\ nests # <<>> /\ Len(frames) - 1 = StopDepth
         \/ mode' = "done" /\ nests = <<>>
  PROVE  IInv'
<1>1. /\ frames \in Seq(FrameType) /\ frames # <<>> /\ Len(frames) \in Nat \ {0}
      /\ TopFrame = frames[Len(frames)] /\ TopFrame \in FrameType /\ Windows(frames, top)
      /\ StackSize \in Nat
  BY RunningFacts
<1>2. /\ Front(frames) \in Seq(FrameType) /\ Len(Front(frames)) = Len(frames) - 1
      /\ Windows(Front(frames), TopFrame.callerTop)
  BY <1>1, WindowsPop
<1>3. \A i \in 1 .. Len(frames) - 1 : Front(frames)[i] = frames[i]
  BY <1>1, FrontFacts
<1>4. TopFrame.callerTop \in 0 .. StackSize
  <2>1. TopFrame.callerTop \in Nat
    BY <1>1 DEF FrameType
  <2>2. TopFrame.callerTop <= StackSize
    BY <1>1 DEF Windows
  <2> QED
    BY <1>1, <2>1, <2>2
<1> QED
  BY <1>1, <1>2, <1>3, <1>4, StepKeeps

LEMMA PopFrameIs ==
  ASSUME NEW x, NEW height, NEW calls, NEW v
  PROVE  PopFrame(MachineOf(x, height, calls), v)
           = MachineOf([x EXCEPT ![Last(calls).ret] = v], Last(calls).callerTop, Front(calls))
<1>1. MachineOf(x, height, calls).frames = calls /\ MachineOf(x, height, calls).stack = x
  BY DEF MachineOf
<1>2. PopFrame(MachineOf(x, height, calls), v)
        = [MachineOf(x, height, calls) EXCEPT !.stack = [x EXCEPT ![Last(calls).ret] = v],
                                              !.frames = Front(calls),
                                              !.top = Last(calls).callerTop]
  BY <1>1 DEF PopFrame
<1> QED
  BY <1>2 DEF MachineOf

\* What Install makes of a popped machine.
LEMMA PopInstalled ==
  ASSUME IInv, Running, NEW x, NEW height, NEW v,
         Install(PopFrame(MachineOf(x, height, frames), v))
  PROVE  /\ frames' = Front(frames) /\ top' = TopFrame.callerTop
         /\ PopFrame(MachineOf(x, height, frames), v).frames = Front(frames)
         /\ Len(Front(frames)) = Len(frames) - 1
<1>1. PopFrame(MachineOf(x, height, frames), v)
        = MachineOf([x EXCEPT ![Last(frames).ret] = v], Last(frames).callerTop, Front(frames))
  BY PopFrameIs
<1>2. Last(frames) = TopFrame /\ Len(Front(frames)) = Len(frames) - 1
  BY RunningFacts, FrontFacts
<1> QED
  BY <1>1, <1>2 DEF Install, MachineOf

LEMMA ReturnKeeps == ASSUME IInv, NEW v, Return(v) PROVE IInv'
<1>1. PICK w : LET m == PopFrame(Machine, w) IN
               /\ Running /\ Install(m) /\ nests' = nests
               /\ IF Len(m.frames) = StopDepth \/ m.frames = <<>> THEN LeaveExecute
                                                                  ELSE mode' = mode
  BY DEF Return
<1>2. /\ Machine = MachineOf(stack, top, frames) /\ Len(frames) \in Nat \ {0}
      /\ Len(frames) > StopDepth /\ StopDepth \in Nat
  BY <1>1, RunningFacts
<1>3. /\ frames' = Front(frames) /\ top' = TopFrame.callerTop
      /\ PopFrame(Machine, w).frames = Front(frames) /\ Len(Front(frames)) = Len(frames) - 1
  BY <1>1, <1>2, PopInstalled
<1>4. CASE Len(Front(frames)) = StopDepth \/ Front(frames) = <<>>
  <2>1. mode' = IF nests = <<>> THEN "done" ELSE "native"
    BY <1>1, <1>3, <1>4 DEF LeaveExecute
  <2>2. Len(frames) - 1 = StopDepth
    BY <1>2, <1>3, <1>4
  <2> QED
    BY <1>1, <1>3, <2>1, <2>2, PopKeeps
<1>5. CASE ~(Len(Front(frames)) = StopDepth \/ Front(frames) = <<>>)
  <2>1. mode' = "execute"
    BY <1>1, <1>3, <1>5 DEF Running
  <2>2. Len(frames) - 1 > StopDepth
    BY <1>2, <1>3, <1>5
  <2> QED
    BY <1>1, <1>3, <2>1, <2>2, PopKeeps
<1> QED
  BY <1>4, <1>5

\* A tail call that completes without a frame ends its own frame, and resumes the caller.
LEMMA TailCompleteKeeps ==
  ASSUME SyncTails = FALSE, IInv, Running, TailMayComplete(nests), NEW m, TailComplete(m),
         m.frames = Front(frames), m.top = TopFrame.callerTop
  PROVE  IInv'
<1>1. /\ Len(frames) \in Nat \ {0} /\ Len(frames) > StopDepth /\ StopDepth \in Nat
      /\ frames \in Seq(FrameType) /\ frames # <<>>
  BY RunningFacts
<1>2. Len(frames) - 1 > StopDepth
  BY <1>1 DEF TailMayComplete, StopDepth
<1>3. Front(frames) # <<>>
  <2>1. Len(Front(frames)) = Len(frames) - 1
    BY <1>1, FrontFacts
  <2> QED
    BY <1>1, <1>2, <2>1
<1>4. /\ frames' = Front(frames) /\ top' = TopFrame.callerTop /\ nests' = nests
      /\ mode' = "execute"
  BY <1>3 DEF TailComplete, Install, Running
<1> QED
  BY <1>2, <1>4, PopKeeps

LEMMA TailCallKeeps ==
  ASSUME SyncTails = FALSE, IInv, NEW c \in Callees, NEW argc \in Nat, TailCall(c, argc)
  PROVE  IInv'
<1> DEFINE base == TopFrame.base + (TopFrame.live - argc)
           m    == CallValue(MachineOf(stack, top, frames), c, argc, base, TRUE)
<1>1. Running /\ argc < TopFrame.live
  BY DEF TailCall
<1>2. /\ TopFrame.live \in Nat /\ TopFrame.base \in Nat /\ top \in 0 .. StackSize
      /\ Machine = MachineOf(stack, top, frames) /\ frames \in Seq(FrameType) /\ frames # <<>>
      /\ TopFrame = frames[Len(frames)] /\ Len(frames) \in Nat \ {0}
      /\ Len(frames) > StopDepth /\ Last(frames) = TopFrame /\ Windows(frames, top)
  BY <1>1, RunningFacts, FrontFacts DEF FrameType
<1>3. base \in Nat \ {0}
  BY <1>1, <1>2
<1>4. \/ Unwind
      \/ c.kind # "native" /\ c.kind # "class" /\ Ok(m) /\ CallOutcome(m, Made(c))
      \/ c.kind = "class" /\ Ok(m) /\ TailMayComplete(nests) /\ TailComplete(m)
      \/ TailMayComplete(nests) /\ TailComplete(PopFrame(MachineOf(stack, top, frames), Object))
  BY <1>2 DEF TailCall, Register, CallOutcome
<1>5. CASE Unwind
  BY <1>5, UnwindKeeps
<1>6. CASE c.kind # "native" /\ c.kind # "class" /\ Ok(m) /\ CallOutcome(m, Made(c)) /\ ~Unwind
  <2>1. Replaced(m, frames)
    BY <1>2, <1>3, <1>6, CallValueTailFacts
  <2> HIDE DEF m
  <2>2. frames' = m.frames /\ top' = m.top /\ nests' = nests /\ mode' = "execute"
    BY <1>1, <1>6 DEF CallOutcome, Install, Running
  <2>3. PICK f \in FrameType : /\ m.frames = Append(Front(frames), f)
                              /\ f.live <= f.locals
                              /\ WindowEnd(f) <= m.top /\ WindowEnd(f) <= StackSize
                              /\ m.top \in 0 .. StackSize
                              /\ f.base = TopFrame.base /\ f.ret = TopFrame.ret
                              /\ f.callerTop = TopFrame.callerTop
    BY <1>2, <2>1 DEF Replaced
  <2>4. /\ m.frames \in Seq(FrameType) /\ Len(m.frames) = Len(frames)
        /\ \A i \in 1 .. Len(frames) - 1 : m.frames[i] = frames[i]
        /\ Windows(m.frames, m.top)
    BY <1>2, <2>3, WindowsReplace
  <2>5. \A i \in 1 .. Len(frames) - 1 :
          i <= Len(frames') => WindowEnd(frames'[i]) = WindowEnd(frames[i])
    BY <2>2, <2>4
  <2>6. Len(frames') > StopDepth
    BY <1>2, <2>2, <2>4
  <2> QED
    BY <1>1, <2>2, <2>3, <2>4, <2>5, <2>6, StepKeeps
<1>7. CASE c.kind = "class" /\ Ok(m) /\ TailMayComplete(nests) /\ TailComplete(m)
  <2>1. Popped(m, frames)
    BY <1>2, <1>3, <1>7, CallValueTailFacts
  <2> HIDE DEF m
  <2>2. m.frames = Front(frames) /\ m.top = TopFrame.callerTop
    BY <1>2, <2>1 DEF Popped
  <2> QED
    BY <1>1, <1>7, <2>2, TailCompleteKeeps
<1>8. CASE /\ TailMayComplete(nests)
           /\ TailComplete(PopFrame(MachineOf(stack, top, frames), Object))
  <2>1. Install(PopFrame(MachineOf(stack, top, frames), Object))
    BY <1>8 DEF TailComplete
  <2>2. /\ PopFrame(MachineOf(stack, top, frames), Object).frames = Front(frames)
        /\ PopFrame(MachineOf(stack, top, frames), Object).top = TopFrame.callerTop
    <3>1. PopFrame(MachineOf(stack, top, frames), Object)
            = MachineOf([stack EXCEPT ![Last(frames).ret] = Object], Last(frames).callerTop,
                        Front(frames))
      BY PopFrameIs
    <3> QED
      BY <1>2, <3>1 DEF MachineOf
  <2> QED
    BY <1>1, <1>8, <2>2, TailCompleteKeeps
<1> HIDE DEF m
<1> QED
  BY <1>4, <1>5, <1>6, <1>7, <1>8

\* A native starts a nested execute(): the frame it pushed runs above the native's caller.
LEMMA EnterKeeps ==
  ASSUME IInv, Running, NEW g, NEW n \in Nat, Resumable(g, n), n <= TopFrame.locals,
         NEW t \in Nat, top < t, t <= StackSize,
         NEW m2, Pushed(m2, g, t, top + 1, top), Install(m2),
         NEW base \in Nat, NEW tail \in BOOLEAN,
         nests' = Append(nests, Nest(Len(frames), top, base, tail)), mode' = mode
  PROVE  IInv'
<1> DEFINE e == Nest(Len(frames), top, base, tail)
<1>1. /\ Len(frames) \in Nat \ {0} /\ Len(frames) > StopDepth /\ StopDepth \in Nat
      /\ TopFrame \in FrameType /\ WindowEnd(TopFrame) <= top /\ top \in 0 .. StackSize
      /\ TopFrame = frames[Len(frames)] /\ StackSize \in Nat
  BY RunningFacts
<1>2. /\ top + 1 \in Nat /\ top \in Nat /\ TopFrame.base + n <= top + 1
      /\ TopFrame.base <= top /\ top < top + 1 /\ top <= t
  <2>1. TopFrame.base \in Nat /\ TopFrame.locals \in Nat
    BY <1>1 DEF FrameType
  <2> QED
    <3>1. WindowEnd(TopFrame) = TopFrame.base + TopFrame.locals + 1
      BY DEF WindowEnd
    <3> QED
      BY <1>1, <2>1, <3>1, SMTT(30)
<1>3. /\ m2.frames \in Seq(FrameType) /\ Len(m2.frames) = Len(frames) + 1
      /\ \A i \in 1 .. Len(frames) : WindowEnd(m2.frames[i]) = WindowEnd(frames[i])
      /\ Windows(m2.frames, m2.top) /\ m2.top \in 0 .. StackSize
  BY <1>2, PushedFacts
<1>4. frames' = m2.frames /\ top' = m2.top /\ mode' = "execute"
  BY DEF Install, Running
<1>5. /\ e \in NestType /\ e.stop = Len(frames) /\ e.savedTop = top
  BY <1>1, <1>2 DEF Nest, NestType
<1> HIDE DEF e
<1>6. /\ nests \in Seq(NestType) /\ nests' = Append(nests, e)
  BY DEF IInv, Shape, e
<1>7. /\ nests' \in Seq(NestType) /\ Len(nests') = Len(nests) + 1 /\ Len(nests) \in Nat
      /\ \A j \in 1 .. Len(nests) : nests'[j] = nests[j]
      /\ nests'[Len(nests) + 1] = e /\ nests' # <<>>
  BY <1>5, <1>6, AppendFacts
<1>8. StopDepth' = Len(frames)
  BY <1>5, <1>7 DEF StopDepth, StopOf, Last
<1>9. NestedRunsAboveCaller'
  <2>1. Len(frames') > StopDepth'
    BY <1>1, <1>3, <1>4, <1>8
  <2>2. ASSUME NEW i \in 1 .. Len(nests'), NEW j \in 1 .. Len(nests'), i < j
        PROVE  nests'[i].stop < nests'[j].stop
    <3>1. CASE j \in 1 .. Len(nests)
      BY <1>7, <2>2, <3>1 DEF IInv, NestedRunsAboveCaller
    <3>2. CASE j = Len(nests) + 1
      <4>1. i \in 1 .. Len(nests)
        BY <1>7, <2>2, <3>2
      <4>2. nests[i].stop <= StopDepth /\ nests[i].stop \in Nat
        BY <4>1, StopsBelow DEF IInv
      <4> QED
        BY <1>1, <1>5, <1>7, <3>2, <4>1, <4>2
    <3> QED
      BY <1>7, <3>1, <3>2
  <2> QED
    BY <1>4, <2>1, <2>2 DEF NestedRunsAboveCaller
<1>10. Covered(frames', nests')
  <2> SUFFICES ASSUME NEW j \in 1 .. Len(nests')
               PROVE  /\ nests'[j].stop \in 1 .. Len(frames')
                      /\ WindowEnd(frames'[nests'[j].stop]) <= nests'[j].savedTop
                      /\ nests'[j].savedTop <= StackSize
    BY DEF Covered
  <2>1. CASE j \in 1 .. Len(nests)
    <3>1. /\ nests[j].stop \in 1 .. Len(frames)
          /\ WindowEnd(frames[nests[j].stop]) <= nests[j].savedTop
          /\ nests[j].savedTop <= StackSize
      BY <2>1 DEF IInv, Covered
    <3>2. WindowEnd(m2.frames[nests[j].stop]) = WindowEnd(frames[nests[j].stop])
      BY <1>3, <3>1
    <3> QED
      BY <1>1, <1>3, <1>4, <1>7, <2>1, <3>1, <3>2
  <2>2. CASE j = Len(nests) + 1
    <3>1. nests'[j].stop = Len(frames) /\ nests'[j].savedTop = top
      BY <1>5, <1>7, <2>2
    <3>2. WindowEnd(m2.frames[Len(frames)]) = WindowEnd(frames[Len(frames)])
      BY <1>1, <1>3
    <3> QED
      BY <1>1, <1>3, <1>4, <3>1, <3>2, SMTT(30)
  <2> QED
    BY <1>7, <2>1, <2>2
<1>11. Shape' /\ FrameWindows'
  BY <1>3, <1>4, <1>7 DEF Shape, FrameWindows
<1> QED
  BY <1>4, <1>7, <1>9, <1>10, <1>11 DEF IInv

LEMMA CallSyncKeeps ==
  ASSUME SyncTails = FALSE, IInv, NEW c \in Callees, NEW argc \in Nat, NEW tail \in BOOLEAN,
         CallSync(c, argc, tail)
  PROVE  IInv'
<1> DEFINE fn   == TopFrame.live - argc - 1
           n    == IF tail THEN TopFrame.live ELSE fn + 1
           g    == IF tail THEN frames ELSE Relive(fn + 1)
           base == TopFrame.base + (fn + 1)
           t    == top + argc + 1
           s2   == CopyUp([stack EXCEPT ![top] = stack[base - 1]], base, top + 1, argc)
           m2   == CallValue(MachineOf(s2, t, g), c, argc, top + 1, FALSE)
<1>1. Running /\ argc < TopFrame.live
  BY DEF CallSync
<1>2. /\ TopFrame.live \in Nat /\ TopFrame.locals \in Nat /\ TopFrame.base \in Nat
      /\ TopFrame.live <= TopFrame.locals /\ top \in 0 .. StackSize /\ StackSize \in Nat
      /\ Machine = MachineOf(stack, top, frames) /\ frames \in Seq(FrameType)
      /\ Len(frames) \in Nat
  BY <1>1, RunningFacts DEF FrameType
<1>3. /\ fn + 1 \in Nat /\ fn + 1 <= TopFrame.locals /\ n \in Nat /\ n <= TopFrame.locals
      /\ base \in Nat /\ t \in Nat /\ top < t /\ top + 1 <= t /\ top + 1 \in Nat \ {0}
      /\ top + 1 - 1 = top
  BY <1>1, <1>2, SMTT(30)
<1>4. Resumable(g, n)
  BY <1>1, <1>3, ReliveResumable, FramesResumable
<1>5. (IF tail THEN Machine ELSE Allocated(fn + 1)) = MachineOf(stack, top, g)
  <2>1. Allocated(fn + 1) = MachineOf(stack, top, Relive(fn + 1))
    BY <1>1, <1>3, ReliveFacts
  <2> QED
    BY <1>2, <2>1
<1> HIDE DEF g, s2, t
<1>6. [MachineOf(stack, top, g) EXCEPT !.stack = s2, !.top = t] = MachineOf(s2, t, g)
  <2>1. [MachineOf(stack, top, g) EXCEPT !.stack = s2, !.top = t]
          = [[MachineOf(stack, top, g) EXCEPT !.stack = s2] EXCEPT !.top = t]
    OBVIOUS
  <2>2. [MachineOf(stack, top, g) EXCEPT !.stack = s2] = MachineOf(s2, top, g)
    BY DEF MachineOf
  <2>3. [MachineOf(s2, top, g) EXCEPT !.top = t] = MachineOf(s2, t, g)
    BY DEF MachineOf
  <2> QED
    BY <2>1, <2>2, <2>3
<1>7. [(IF tail THEN Machine ELSE Allocated(fn + 1)) EXCEPT !.stack = s2, !.top = t]
        = MachineOf(s2, t, g)
  BY <1>5, <1>6
<1> USE DEF g, s2, t
<1>8. \/ Unwind
      \/ /\ t <= StackSize /\ Ok(m2) /\ Len(m2.frames) > Len(frames)
         /\ Install(m2) /\ nests' = Append(nests, Nest(Len(frames), top, base, tail))
         /\ mode' = mode
      \/ /\ t <= StackSize /\ Ok(m2) /\ ~(Len(m2.frames) > Len(frames)) /\ ~tail
         /\ Install([m2 EXCEPT !.stack[base - 1] = m2.stack[top], !.top = top])
         /\ nests' = nests /\ mode' = mode
      \/ /\ t <= StackSize /\ Ok(m2) /\ ~(Len(m2.frames) > Len(frames)) /\ tail
         /\ TailMayComplete(nests)
         /\ TailComplete(PopFrame([m2 EXCEPT !.top = top], m2.stack[top]))
  BY <1>7 DEF CallSync, Register
<1> HIDE DEF g, n, fn, base, s2
<1>9. ASSUME t <= StackSize, Ok(m2)
      PROVE  Answered(m2, g, t) \/ Pushed(m2, g, t, top + 1, top)
  <2>1. t \in 0 .. StackSize /\ g \in Seq(FrameType)
    BY <1>2, <1>3, <1>4, <1>9 DEF Resumable
  <2> DEFINE slot == top + 1
             mm   == CallValue(MachineOf(s2, t, g), c, argc, slot, FALSE)
  <2>2. Ok(mm) /\ m2 = mm
    BY <1>9
  <2> HIDE DEF m2, mm, t
  <2>3. slot \in Nat \ {0}
    BY <1>2
  <2>4. slot <= t
    BY <1>3
  <2>5. slot - 1 = top
    BY <1>2
  <2> HIDE DEF slot
  <2> USE DEF mm
  <2>6. Answered(mm, g, t) \/ Pushed(mm, g, t, slot, slot - 1)
    BY <2>1, <2>2, <2>3, <2>4, CallValueFacts
  <2> HIDE DEF mm
  <2> QED
    BY <2>2, <2>5, <2>6 DEF slot
<1> HIDE DEF m2, t
<1>10. Len(g) = Len(frames)
  BY <1>4 DEF Resumable
<1>11. CASE Unwind
  BY <1>11, UnwindKeeps
<1>12. CASE /\ t <= StackSize /\ Ok(m2) /\ Len(m2.frames) > Len(frames)
            /\ Install(m2) /\ nests' = Append(nests, Nest(Len(frames), top, base, tail))
            /\ mode' = mode
  <2>1. ~Answered(m2, g, t)
    <3> SUFFICES ASSUME Answered(m2, g, t) PROVE FALSE
      OBVIOUS
    <3>1. m2.frames = g
      BY DEF Answered, MachineOf
    <3> QED
      BY <1>2, <1>10, <1>12, <3>1
  <2> QED
    BY <1>1, <1>3, <1>4, <1>9, <1>12, <2>1, EnterKeeps
<1>13. ASSUME t <= StackSize, Ok(m2), ~(Len(m2.frames) > Len(frames))
       PROVE  \E x : m2 = MachineOf(x, t, g)
  <2>1. ~Pushed(m2, g, t, top + 1, top)
    <3> SUFFICES ASSUME Pushed(m2, g, t, top + 1, top) PROVE FALSE
      OBVIOUS
    <3>1. PICK f \in FrameType : m2.frames = Append(g, f)
      BY DEF Pushed
    <3>2. Len(m2.frames) = Len(g) + 1
      BY <1>4, <3>1, AppendFacts DEF Resumable
    <3> QED
      BY <1>2, <1>10, <1>13, <3>2
  <2> QED
    BY <1>9, <1>13, <2>1 DEF Answered
<1>14. CASE /\ t <= StackSize /\ Ok(m2) /\ ~(Len(m2.frames) > Len(frames)) /\ ~tail
            /\ Install([m2 EXCEPT !.stack[base - 1] = m2.stack[top], !.top = top])
            /\ nests' = nests /\ mode' = mode
  <2>1. PICK x : m2 = MachineOf(x, t, g)
    BY <1>13, <1>14
  <2>2. frames' = g /\ top' = top
    BY <1>14, <2>1 DEF Install, MachineOf
  <2>3. g = Relive(fn + 1)
    BY <1>14 DEF g
  <2> QED
    BY <1>1, <1>3, <1>14, <2>2, <2>3, ReliveKeeps
<1>15. CASE /\ t <= StackSize /\ Ok(m2) /\ ~(Len(m2.frames) > Len(frames)) /\ tail
            /\ TailMayComplete(nests)
            /\ TailComplete(PopFrame([m2 EXCEPT !.top = top], m2.stack[top]))
  <2>1. PICK x : m2 = MachineOf(x, t, g)
    BY <1>13, <1>15
  <2>2. g = frames
    BY <1>15 DEF g
  <2>3. [m2 EXCEPT !.top = top] = MachineOf(x, top, frames)
    BY <2>1, <2>2 DEF MachineOf
  <2>4. PICK v : TailComplete(PopFrame(MachineOf(x, top, frames), v))
    BY <1>15, <2>3
  <2>5. PopFrame(MachineOf(x, top, frames), v)
          = MachineOf([x EXCEPT ![Last(frames).ret] = v], Last(frames).callerTop, Front(frames))
    BY PopFrameIs
  <2>6. Last(frames) = TopFrame
    BY DEF Last, TopFrame
  <2>7. /\ PopFrame(MachineOf(x, top, frames), v).frames = Front(frames)
        /\ PopFrame(MachineOf(x, top, frames), v).top = TopFrame.callerTop
    BY <2>5, <2>6 DEF MachineOf
  <2> QED
    BY <1>1, <1>15, <2>4, <2>7, TailCompleteKeeps
<1> QED
  BY <1>8, <1>11, <1>12, <1>14, <1>15

\* The native function goes on, with the frames that called it.
LEMMA ResumeNativeKeeps ==
  ASSUME SyncTails = FALSE, IInv, NEW v, ResumeNative(v) PROVE IInv'
<1> DEFINE n   == Len(nests)
           out == Front(nests)
<1>1. /\ mode = "native" /\ nests # <<>> /\ nests \in Seq(NestType)
      /\ frames \in Seq(FrameType) /\ Len(frames) \in Nat /\ Len(frames) = StopDepth
  BY LenProperties DEF ResumeNative, IInv, Shape, NestedRunsAboveCaller
<1>2. /\ out \in Seq(NestType) /\ Len(out) = n - 1 /\ n \in Nat \ {0}
      /\ \A j \in 1 .. n - 1 : out[j] = nests[j]
      /\ Last(nests) = nests[n] /\ nests[n] \in NestType
  BY <1>1, FrontFacts
<1>3. Len(frames) = nests[n].stop
  BY <1>1, <1>2 DEF StopDepth, StopOf
<1>4. /\ Len(frames) \in 1 .. Len(frames) /\ frames # <<>>
      /\ WindowEnd(frames[Len(frames)]) <= nests[n].savedTop
      /\ nests[n].savedTop \in 0 .. StackSize
  <2>1. n \in 1 .. Len(nests) /\ nests[n].savedTop \in Nat /\ StackSize \in Nat
    BY <1>2, ConstantsAssumption DEF NestType
  <2>2. /\ nests[n].stop \in 1 .. Len(frames) /\ nests[n].savedTop <= StackSize
        /\ WindowEnd(frames[nests[n].stop]) <= nests[n].savedTop
    BY <2>1 DEF IInv, Covered
  <2> QED
    BY <1>1, <1>3, <2>1, <2>2, EmptySeq
<1>5. \A j \in 1 .. n - 1 : nests[j].stop < Len(frames)
  BY <1>2, <1>3 DEF IInv, NestedRunsAboveCaller
<1>6. StopOf(out) < Len(frames) /\ StopOf(out) \in Nat
  <2>1. CASE out = <<>>
    BY <1>1, <1>4, <2>1 DEF StopOf
  <2>2. CASE out # <<>>
    <3>1. Last(out) = out[Len(out)] /\ Len(out) \in Nat \ {0} /\ Last(out) \in NestType
      BY <1>2, <2>2, FrontFacts
    <3>2. Last(out) = nests[n - 1] /\ n - 1 \in 1 .. n - 1
      BY <1>2, <3>1
    <3> QED
      BY <1>5, <2>2, <3>1, <3>2 DEF StopOf, NestType
  <2> QED
    BY <2>1, <2>2
<1>7. nests' = out
  BY DEF ResumeNative
<1> HIDE DEF n, out
<1>8. \/ frames' = frames /\ top' = nests[n].savedTop /\ mode' = "execute"
      \/ /\ frames' = Front(frames) /\ top' = frames[Len(frames)].callerTop
         /\ mode' = "execute" /\ Len(frames) # StopOf(out) + 1
  <2> DEFINE height == nests[n].savedTop
             m      == [Machine EXCEPT !.top = height]
  <2>1. m = MachineOf(stack, height, frames)
    BY DEF Machine, MachineOf
  <2>2. CASE ~nests[n].tail
    <3>1. /\ Install([m EXCEPT !.stack[nests[n].base - 1] = v]) /\ mode' = "execute"
      BY <1>2, <1>4, <2>2 DEF ResumeNative
    <3> QED
      BY <2>1, <3>1 DEF Install, MachineOf
  <2>3. CASE nests[n].tail
    <3>1. /\ TailMayComplete(out) /\ Install(PopFrame(m, v))
          /\ mode' = IF Len(frames) > 1 THEN "execute"
                     ELSE IF nests' = <<>> THEN "done" ELSE "native"
      BY <1>2, <1>4, <2>3 DEF ResumeNative, out
    <3>2. PopFrame(m, v)
            = MachineOf([stack EXCEPT ![Last(frames).ret] = v], Last(frames).callerTop,
                        Front(frames))
      BY <2>1, PopFrameIs
    <3>3. frames' = Front(frames) /\ top' = frames[Len(frames)].callerTop
      BY <1>1, <1>4, <3>1, <3>2, FrontFacts, SMTT(30) DEF Install, MachineOf
    <3>4. Len(frames) # StopOf(out) + 1
      BY <3>1 DEF TailMayComplete
    <3>5. Len(frames) > 1
      BY <1>1, <1>6, <3>4
    <3> QED
      BY <3>1, <3>3, <3>4, <3>5
  <2> QED
    BY <2>2, <2>3
<1>9. Covered(frames', out)
  <2> SUFFICES ASSUME NEW j \in 1 .. n - 1
               PROVE  /\ nests[j].stop \in 1 .. Len(frames')
                      /\ WindowEnd(frames'[nests[j].stop]) <= nests[j].savedTop
                      /\ nests[j].savedTop <= StackSize
    BY <1>2 DEF Covered
  <2>1. j \in 1 .. Len(nests)
    BY <1>2 DEF n
  <2>2. /\ nests[j].stop \in 1 .. Len(frames) /\ nests[j].savedTop <= StackSize
        /\ WindowEnd(frames[nests[j].stop]) <= nests[j].savedTop
    BY <2>1 DEF IInv, Covered
  <2>3. nests[j].stop \in 1 .. Len(frames) - 1
    BY <1>1, <1>5, <2>2
  <2>4. Len(Front(frames)) = Len(frames) - 1
        /\ Front(frames)[nests[j].stop] = frames[nests[j].stop]
    BY <1>1, <1>4, <2>3, FrontFacts
  <2> QED
    BY <1>8, <2>2, <2>3, <2>4
<1>10. /\ frames' \in Seq(FrameType) /\ top' \in 0 .. StackSize /\ Windows(frames', top')
       /\ Len(frames') > StopOf(out) /\ mode' = "execute"
  <2>1. CASE frames' = frames /\ top' = nests[n].savedTop /\ mode' = "execute"
    <3>1. Windows(frames, top)
      BY DEF IInv, FrameWindows
    <3>2. Windows(frames, nests[n].savedTop)
      BY <1>4, <3>1 DEF Windows
    <3> QED
      BY <1>1, <1>4, <1>6, <2>1, <3>2
  <2>2. CASE /\ frames' = Front(frames) /\ top' = frames[Len(frames)].callerTop
             /\ mode' = "execute" /\ Len(frames) # StopOf(out) + 1
    <3>1. /\ Front(frames) \in Seq(FrameType) /\ Len(Front(frames)) = Len(frames) - 1
          /\ Windows(Front(frames), frames[Len(frames)].callerTop)
      BY <1>1, <1>4, WindowsPop DEF IInv, FrameWindows
    <3>2. frames[Len(frames)] \in FrameType /\ frames[Len(frames)].callerTop <= StackSize
      BY <1>1, <1>4, ElementOfSeq DEF IInv, FrameWindows, Windows
    <3>3. frames[Len(frames)].callerTop \in 0 .. StackSize
      BY <3>2, ConstantsAssumption DEF FrameType
    <3>4. Len(frames) - 1 > StopOf(out)
      BY <1>1, <1>6, <2>2
    <3> QED
      BY <2>2, <3>1, <3>3, <3>4
  <2> QED
    BY <1>8, <2>1, <2>2
<1>11. NestedRunsAboveCaller'
  <2>1. StopDepth' = StopOf(out)
    BY <1>7 DEF StopDepth
  <2>2. \A i, j \in 1 .. Len(out) : i < j => out[i].stop < out[j].stop
    <3>1. \A i, j \in 1 .. n - 1 : i < j => nests[i].stop < nests[j].stop
      BY <1>2 DEF IInv, NestedRunsAboveCaller, n
    <3> QED
      BY <1>2, <3>1
  <2> QED
    BY <1>7, <1>10, <2>1, <2>2 DEF NestedRunsAboveCaller
<1> QED
  BY <1>2, <1>7, <1>9, <1>10, <1>11 DEF IInv, Shape, FrameWindows

-----------------------------------------------------------------------------
(* The invariant is inductive, and implies the three properties.            *)

LEMMA StutterKeeps == ASSUME IInv, UNCHANGED <<top, frames, nests, mode>> PROVE IInv'
<1>1. StopDepth' = StopDepth
  BY DEF StopDepth
<1>2. NestedRunsAboveCaller'
  BY <1>1 DEF IInv, NestedRunsAboveCaller, Running
<1> QED
  BY <1>2 DEF IInv, Shape, FrameWindows

LEMMA ArgCountsNat == ArgCounts \subseteq Nat
<1> SUFFICES ASSUME NEW c \in Callees
             PROVE  (IF c.kind \in WithSelf THEN c.arity - 1 ELSE c.arity) \in Nat
  BY DEF ArgCounts
<1>1. c.arity \in Nat /\ (c.kind \in WithSelf => c.arity > 0)
  BY ConstantsAssumption
<1> QED
  BY <1>1

LEMMA NextKeeps == ASSUME SyncTails = FALSE, IInv, [Next]_vars PROVE IInv'
<1>1. CASE \E v \in Value : Load(v)
  BY <1>1, LoadKeeps
<1>2. CASE Drop
  BY <1>2, DropKeeps
<1>3. ASSUME NEW c \in Callees, NEW argc \in ArgCounts,
             Call(c, argc) \/ InvokeMember(c, argc) \/ TailCall(c, argc)
               \/ \E tail \in BOOLEAN : CallSync(c, argc, tail)
      PROVE  IInv'
  <2>1. argc \in Nat
    BY ArgCountsNat
  <2> QED
    BY <1>3, <2>1, CallStepKeeps, InvokeMemberKeeps, TailCallKeeps, CallSyncKeeps
<1>4. ASSUME NEW c \in Of("method"),
             \/ \E argc \in ArgCounts : Invoke(c, argc)
             \/ \E lhs, rhs, dst \in 0 .. MainLocals, total \in {1, 2} :
                  Operator(c, lhs, rhs, dst, total)
      PROVE  IInv'
  <2>1. c \in Callees /\ c.kind = "method"
    BY DEF Of
  <2>2. CASE \E argc \in ArgCounts : Invoke(c, argc)
    BY <2>1, <2>2, ArgCountsNat, InvokeKeeps
  <2>3. ASSUME NEW lhs \in 0 .. MainLocals, NEW rhs \in 0 .. MainLocals,
               NEW dst \in 0 .. MainLocals, NEW total \in {1, 2},
               Operator(c, lhs, rhs, dst, total)
        PROVE  IInv'
    <3>1. lhs \in Nat /\ rhs \in Nat /\ dst \in Nat
      BY ConstantsAssumption
    <3> QED
      BY <2>1, <2>3, <3>1, OperatorKeeps
  <2> QED
    BY <1>4, <2>2, <2>3
<1>5. CASE \E c \in Of("module") : ImportModule(c)
  BY <1>5, ImportModuleKeeps DEF Of
<1>6. CASE \E v \in Value \cup {Object, Nil} : Return(v) \/ ResumeNative(v)
  BY <1>6, ReturnKeeps, ResumeNativeKeeps
<1>7. CASE Fail
  BY <1>7, UnwindKeeps DEF Fail
<1>8. CASE Collect
  BY <1>8, StutterKeeps DEF Collect
<1>9. CASE UNCHANGED vars
  BY <1>9, StutterKeeps DEF vars
<1> QED
  BY <1>1, <1>2, <1>3, <1>4, <1>5, <1>6, <1>7, <1>8, <1>9 DEF Next

LEMMA Invariant == ASSUME SyncTails = FALSE PROVE Spec => []IInv
<1>1. Init => IInv
  BY InitHolds
<1>2. IInv /\ [Next]_vars => IInv'
  BY NextKeeps
<1> QED
  BY <1>1, <1>2, PTL DEF Spec
-----------------------------------------------------------------------------
(* The copying loops, in closed form.                                       *)

\* A function on 0 .. n is given by its value at 0 and by each step.
LEMMA LoopIs ==
  ASSUME NEW n \in Nat, NEW c, NEW d,
         c[0] = d[0], \A i \in 1 .. n : c[i - 1] = d[i - 1] => c[i] = d[i]
  PROVE  c[n] = d[n]
<1> DEFINE bad == {i \in 0 .. n : c[i] # d[i]}
<1> SUFFICES ASSUME bad # {} PROVE FALSE
  BY DEF bad
<1>1. PICK i \in bad : \A j \in bad : i <= j
  <2>1. bad \subseteq Nat
    OBVIOUS
  <2> HIDE DEF bad
  <2> QED
    BY <2>1, LeastNumber
<1>2. i \in 0 .. n /\ c[i] # d[i]
  BY <1>1
<1>3. i # 0 /\ i \in 1 .. n /\ i - 1 \in 0 .. n /\ ~(i <= i - 1)
  BY <1>2
<1>4. i - 1 \notin bad
  BY <1>1, <1>3
<1>5. c[i - 1] = d[i - 1]
  BY <1>3, <1>4
<1> QED
  BY <1>2, <1>3, <1>5

\* Slots to .. to + n - 1 get what slots from .. from + n - 1 held before.
Copied(s, from, to, n) ==
  [x \in DOMAIN s |-> IF to <= x /\ x < to + n THEN s[from + (x - to)] ELSE s[x]]

\* One more element, upwards.
OneUp(c, from, to, i) == [c EXCEPT ![to + i - 1] = c[from + i - 1]]

LEMMA CopiedUp ==
  ASSUME NEW S, NEW D \in SUBSET Int, NEW s \in [D -> S], NEW from \in Nat, NEW to \in Nat, NEW i \in Nat \ {0},
         from .. from + i - 1 \subseteq D, to <= from \/ from + i <= to
  PROVE  Copied(s, from, to, i) = OneUp(Copied(s, from, to, i - 1), from, to, i)
<1> DEFINE c == Copied(s, from, to, i - 1)
<1>1. from + i - 1 \in D
  OBVIOUS
<1>2. c[from + i - 1] = s[from + i - 1]
  BY <1>1 DEF Copied
<1>3. DOMAIN c = D /\ DOMAIN s = D
  BY DEF Copied
<1>4. ASSUME NEW x \in D
      PROVE  Copied(s, from, to, i)[x] = [c EXCEPT ![to + i - 1] = s[from + i - 1]][x]
  <2>1. CASE x = to + i - 1
    <3>1. to <= x /\ x < to + i /\ from + (x - to) = from + i - 1
      BY <2>1
    <3>2. Copied(s, from, to, i)[x] = s[from + i - 1]
      BY <1>3, <3>1 DEF Copied
    <3> QED
      BY <1>3, <2>1, <3>2
  <2>2. CASE x # to + i - 1
    <3>1. (to <= x /\ x < to + i) <=> (to <= x /\ x < to + (i - 1))
      BY <2>2
    <3> QED
      BY <1>3, <2>2, <3>1 DEF Copied
  <2> QED
    BY <2>1, <2>2
<1>5. DOMAIN Copied(s, from, to, i) = D
  BY DEF Copied
<1>6. Copied(s, from, to, i) = [x \in D |-> Copied(s, from, to, i)[x]]
  BY <1>3 DEF Copied
<1>7. [c EXCEPT ![to + i - 1] = s[from + i - 1]]
        = [x \in D |-> [c EXCEPT ![to + i - 1] = s[from + i - 1]][x]]
  BY <1>3
<1> QED
  BY <1>2, <1>4, <1>6, <1>7 DEF OneUp

LEMMA CopyUpIs ==
  ASSUME NEW S, NEW D \in SUBSET Int, NEW s \in [D -> S], NEW from \in Nat, NEW to \in Nat, NEW n \in Nat,
         from .. from + n - 1 \subseteq D, to <= from \/ from + n <= to
  PROVE  CopyUp(s, from, to, n) = Copied(s, from, to, n)
<1> DEFINE Loop(c) == c = [i \in 0 .. n |-> IF i = 0 THEN s
                                 ELSE OneUp(c[i - 1], from, to, i)]
           d == [i \in 0 .. n |-> Copied(s, from, to, i)]
           c == CHOOSE f : Loop(f)
<1>1. CopyUp(s, from, to, n) = c[n]
  BY DEF CopyUp, OneUp
<1>2. d[0] = s
  <2>1. Copied(s, from, to, 0) = s
    BY DEF Copied
  <2> QED
    BY <2>1
<1>3. \A i \in 1 .. n : d[i] = OneUp(d[i - 1], from, to, i)
  <2> SUFFICES ASSUME NEW i \in 1 .. n
               PROVE  d[i] = OneUp(d[i - 1], from, to, i)
    OBVIOUS
  <2>1. i \in Nat \ {0} /\ (to <= from \/ from + i <= to) /\ from .. from + i - 1 \subseteq D
    OBVIOUS
  <2>2. d[i] = Copied(s, from, to, i) /\ d[i - 1] = Copied(s, from, to, i - 1)
    OBVIOUS
  <2>3. Copied(s, from, to, i)
           = OneUp(Copied(s, from, to, i - 1), from, to, i)
    <3>1. i \in Nat \ {0}
      OBVIOUS
    <3>2. from .. from + i - 1 \subseteq D
      BY <2>1
    <3>3. to <= from \/ from + i <= to
      BY <2>1
    <3> HIDE DEF d
    <3> QED
      BY <3>1, <3>2, <3>3, CopiedUp
  <2> QED
    BY <2>2, <2>3
<1>4. Loop(d)
  <2> DEFINE e == [i \in 0 .. n |-> IF i = 0 THEN s
                     ELSE OneUp(d[i - 1], from, to, i)]
  <2>1. DOMAIN d = 0 .. n /\ DOMAIN e = 0 .. n /\ d = [i \in 0 .. n |-> d[i]] /\ e = [i \in 0 .. n |-> e[i]]
    OBVIOUS
  <2> HIDE DEF d
  <2>2. ASSUME NEW i \in 0 .. n PROVE d[i] = e[i]
    BY <1>2, <1>3
  <2> HIDE DEF e
  <2>3. d = e
    BY <2>1, <2>2
  <2> QED
    BY <2>3 DEF e
<1>5. Loop(c)
  <2> HIDE DEF Loop, d
  <2> QED
    BY <1>4
<1> HIDE DEF d, c
<1>6. c[0] = s /\ \A i \in 1 .. n : c[i] = OneUp(c[i - 1], from, to, i)
  BY <1>5
<1> HIDE DEF Loop
<1>7. c[n] = d[n]
  <2>1. c[0] = d[0] /\ \A i \in 1 .. n : c[i - 1] = d[i - 1] => c[i] = d[i]
    BY <1>2, <1>3, <1>6
  <2> QED
    BY <2>1, LoopIs
<1> QED
  BY <1>1, <1>7 DEF d

\* One more element, downwards: the i last of n.
OneDown(c, from, to, n, i) == [c EXCEPT ![to + n - i] = c[from + n - i]]
LastCopied(s, from, to, n, i) == Copied(s, from + n - i, to + n - i, i)

LEMMA CopiedDown ==
  ASSUME NEW S, NEW D \in SUBSET Int, NEW s \in [D -> S], NEW from \in Nat, NEW to \in Nat,
         NEW n \in Nat, NEW i \in 1 .. n, from .. from + n - 1 \subseteq D, from <= to
  PROVE  LastCopied(s, from, to, n, i) = OneDown(LastCopied(s, from, to, n, i - 1), from, to, n, i)
<1> DEFINE c == LastCopied(s, from, to, n, i - 1)
           b == LastCopied(s, from, to, n, i)
           w == to + n - i
           r == from + n - i
<1>1. r \in D /\ r \in Int /\ w \in Int /\ r <= w
  OBVIOUS
<1>2. /\ c = [x \in D |-> IF to + n - (i - 1) <= x /\ x < to + n - (i - 1) + (i - 1)
                          THEN s[from + n - (i - 1) + (x - (to + n - (i - 1)))] ELSE s[x]]
      /\ b = [x \in D |-> IF w <= x /\ x < w + i THEN s[r + (x - w)] ELSE s[x]]
  BY DEF Copied, LastCopied
<1> HIDE DEF c, b
<1>3. c[r] = s[r]
  <2>1. ~(to + n - (i - 1) <= r)
    BY <1>1
  <2> QED
    BY <1>1, <1>2, <2>1
<1>4. ASSUME NEW x \in D PROVE b[x] = [c EXCEPT ![w] = s[r]][x]
  <2>1. CASE x = w
    <3>1. w <= x /\ x < w + i /\ r + (x - w) = r
      BY <1>1, <2>1
    <3> QED
      BY <1>2, <2>1, <3>1
  <2>2. CASE x # w
    <3>1. (w <= x /\ x < w + i) <=> (to + n - (i - 1) <= x /\ x < to + n - (i - 1) + (i - 1))
      BY <1>1, <2>2
    <3>2. r + (x - w) = from + n - (i - 1) + (x - (to + n - (i - 1)))
      BY <1>1
    <3> QED
      BY <1>2, <2>2, <3>1, <3>2
  <2> QED
    BY <2>1, <2>2
<1>5. /\ DOMAIN b = D /\ b = [x \in D |-> b[x]]
      /\ DOMAIN [c EXCEPT ![w] = s[r]] = D
      /\ [c EXCEPT ![w] = s[r]] = [x \in D |-> [c EXCEPT ![w] = s[r]][x]]
  BY <1>2
<1>6. b = [c EXCEPT ![w] = s[r]]
  BY <1>4, <1>5
<1> QED
  BY <1>3, <1>6 DEF b, c, OneDown

LEMMA CopyDownIs ==
  ASSUME NEW S, NEW D \in SUBSET Int, NEW s \in [D -> S], NEW from \in Nat, NEW to \in Nat, NEW n \in Nat,
         from .. from + n - 1 \subseteq D, from <= to
  PROVE  CopyDown(s, from, to, n) = Copied(s, from, to, n)
<1> DEFINE Loop(c) == c = [i \in 0 .. n |-> IF i = 0 THEN s ELSE OneDown(c[i - 1], from, to, n, i)]
           d == [i \in 0 .. n |-> LastCopied(s, from, to, n, i)]
           c == CHOOSE f : Loop(f)
<1>1. CopyDown(s, from, to, n) = c[n]
  BY DEF CopyDown, OneDown
<1>2. d[0] = s
  <2>1. LastCopied(s, from, to, n, 0) = s
    BY DEF Copied, LastCopied
  <2> QED
    BY <2>1
<1>3. \A i \in 1 .. n : d[i] = OneDown(d[i - 1], from, to, n, i)
  <2> SUFFICES ASSUME NEW i \in 1 .. n PROVE d[i] = OneDown(d[i - 1], from, to, n, i)
    OBVIOUS
  <2>1. d[i] = LastCopied(s, from, to, n, i) /\ d[i - 1] = LastCopied(s, from, to, n, i - 1)
    OBVIOUS
  <2>2. LastCopied(s, from, to, n, i) = OneDown(LastCopied(s, from, to, n, i - 1), from, to, n, i)
    BY CopiedDown
  <2> QED
    BY <2>1, <2>2
<1>4. Loop(d)
  <2> DEFINE e == [i \in 0 .. n |-> IF i = 0 THEN s ELSE OneDown(d[i - 1], from, to, n, i)]
  <2>1. DOMAIN d = 0 .. n /\ DOMAIN e = 0 .. n /\ d = [i \in 0 .. n |-> d[i]] /\ e = [i \in 0 .. n |-> e[i]]
    OBVIOUS
  <2> HIDE DEF d
  <2>2. ASSUME NEW i \in 0 .. n PROVE d[i] = e[i]
    BY <1>2, <1>3
  <2> HIDE DEF e
  <2>3. d = e
    BY <2>1, <2>2
  <2> QED
    BY <2>3 DEF e
<1>5. Loop(c)
  <2> HIDE DEF Loop, d
  <2> QED
    BY <1>4
<1> HIDE DEF d, c
<1>6. c[0] = s /\ \A i \in 1 .. n : c[i] = OneDown(c[i - 1], from, to, n, i)
  BY <1>5
<1> HIDE DEF Loop
<1>7. c[n] = d[n]
  <2>1. c[0] = d[0] /\ \A i \in 1 .. n : c[i - 1] = d[i - 1] => c[i] = d[i]
    BY <1>2, <1>3, <1>6
  <2> QED
    BY <2>1, LoopIs
<1>8. LastCopied(s, from, to, n, n) = Copied(s, from, to, n)
  BY DEF LastCopied
<1> QED
  BY <1>1, <1>7, <1>8 DEF d
-----------------------------------------------------------------------------
(* What the call paths do to the slots.                                     *)

LEMMA SlotFacts == Slots \in SUBSET Int /\ StackSize \in Nat /\ Nil \in Cell /\ Object \in Cell
  BY ConstantsAssumption DEF Slots, Cell

LEMMA ClearFacts ==
  ASSUME NEW s \in [Slots -> Cell], NEW lo \in Nat, NEW hi
  PROVE  /\ Clear(s, lo, hi) \in [Slots -> Cell]
         /\ \A x \in Slots : x < lo => Clear(s, lo, hi)[x] = s[x]
  BY SlotFacts DEF Clear

\* s2 has n elements of s at slot to on, and those of s below.
HasCopy(s2, s, from, to, n) ==
  /\ s2 \in [Slots -> Cell]
  /\ \A x \in Slots : x < to => s2[x] = s[x]
  /\ \A k \in 0 .. n - 1 : to + k < StackSize => s2[to + k] = s[from + k]

LEMMA CopiedFacts ==
  ASSUME NEW s \in [Slots -> Cell], NEW from \in Nat, NEW to \in Nat, NEW n \in Nat,
         from + n <= StackSize
  PROVE  HasCopy(Copied(s, from, to, n), s, from, to, n)
<1>1. Slots \in SUBSET Int /\ StackSize \in Nat /\ DOMAIN s = Slots
  BY SlotFacts
<1>2. Copied(s, from, to, n) \in [Slots -> Cell]
  <2>1. \A x \in Slots : to <= x /\ x < to + n => from + (x - to) \in Slots
    BY <1>1 DEF Slots
  <2> QED
    BY <1>1, <2>1 DEF Copied
<1>3. \A x \in Slots : x < to => Copied(s, from, to, n)[x] = s[x]
  BY <1>1 DEF Copied
<1>4. ASSUME NEW k \in 0 .. n - 1, to + k < StackSize
      PROVE  Copied(s, from, to, n)[to + k] = s[from + k]
  <2>1. to <= to + k /\ to + k < to + n /\ (to + k) - to = k /\ to + k \in Slots
    BY <1>1, <1>4 DEF Slots
  <2> QED
    BY <1>1, <2>1 DEF Copied
<1> QED
  BY <1>2, <1>3, <1>4 DEF HasCopy

LEMMA CopiesAre ==
  ASSUME NEW s \in [Slots -> Cell], NEW from \in Nat, NEW to \in Nat, NEW n \in Nat,
         from + n <= StackSize
  PROVE  /\ to <= from \/ from + n <= to => HasCopy(CopyUp(s, from, to, n), s, from, to, n)
         /\ from <= to => HasCopy(CopyDown(s, from, to, n), s, from, to, n)
<1>1. Slots \in SUBSET Int /\ from .. from + n - 1 \subseteq Slots
  BY SlotFacts DEF Slots
<1>2. to <= from \/ from + n <= to => CopyUp(s, from, to, n) = Copied(s, from, to, n)
  BY <1>1, CopyUpIs
<1>3. from <= to => CopyDown(s, from, to, n) = Copied(s, from, to, n)
  BY <1>1, CopyDownIs
<1> QED
  BY <1>2, <1>3, CopiedFacts

\* The first registers of frame f hold the values in slots base .. base + argc - 1,
\* alone or after a receiver.
Arrived(s2, f, s, base, argc) ==
  \/ f.live = argc /\ \A k \in 0 .. argc - 1 : s2[f.base + k] = s[base + k]
  \/ /\ f.live = argc + 1 /\ s2[f.base] \in {Object, s[base - 1]}
     /\ \A k \in 0 .. argc - 1 : s2[f.base + 1 + k] = s[base + k]

\* f is a new innermost frame of m2, and the slots below its base are what they were.
NewFrame(m2, f, s, low) ==
  /\ f \in FrameType /\ f.live <= f.locals /\ WindowEnd(f) <= StackSize
  /\ m2.stack \in [Slots -> Cell] /\ \A x \in Slots : x < low => m2.stack[x] = s[x]

\* m2 has frame f, of argc registers, above (or in the place of) those in calls.
Framed(m2, f, calls, t, s, base, argc, ret, callerTop) ==
  /\ m2.frames = Append(calls, f) /\ m2.top = t /\ NewFrame(m2, f, s, base + argc)
  /\ f.base = base /\ f.live = argc /\ f.ret = ret /\ f.callerTop = callerTop

LEMMA PushFrameSlots ==
  ASSUME NEW m, NEW s \in [Slots -> Cell], NEW t, NEW base \in Nat, NEW c \in Callees,
         NEW argc \in Nat, argc <= c.locals, NEW ret \in Nat, NEW callerTop \in Nat,
         base + c.locals + 1 <= StackSize,
         NEW m2, m2 = PushFrame(m, s, t, base, c, argc, ret, callerTop),
         NEW f, f = Frame(base, c.locals, argc, ret, callerTop, FALSE)
  PROVE  Framed(m2, f, m.frames, t, s, base, argc, ret, callerTop)
<1>1. c.locals \in Nat /\ StackSize \in Nat
  BY ConstantsAssumption
<1>2. /\ f \in FrameType /\ f.base = base /\ f.live = argc /\ f.locals = c.locals
      /\ f.ret = ret /\ f.callerTop = callerTop
  BY <1>1 DEF Frame, FrameType
<1>3. /\ m2.frames = Append(m.frames, f) /\ m2.top = t
      /\ m2.stack = Clear(s, base + argc, base + c.locals - 1)
  BY DEF PushFrame
<1>4. /\ m2.stack \in [Slots -> Cell]
      /\ \A x \in Slots : x < base + argc => m2.stack[x] = s[x]
  BY <1>3, ClearFacts
<1>5. NewFrame(m2, f, s, base + argc)
  BY <1>1, <1>2, <1>4 DEF NewFrame, WindowEnd
<1> QED
  BY <1>2, <1>3, <1>5 DEF Framed

LEMMA ReplaceFrameSlots ==
  ASSUME NEW m, NEW s \in [Slots -> Cell], NEW t, NEW c \in Callees,
         NEW argc \in Nat, argc <= c.locals, NEW old \in FrameType, old = Last(m.frames),
         old.base + c.locals + 1 <= StackSize,
         NEW m2, m2 = ReplaceFrame(m, s, t, c, argc),
         NEW f, f = Frame(old.base, c.locals, argc, old.ret, old.callerTop, FALSE)
  PROVE  Framed(m2, f, Front(m.frames), t, s, old.base, argc, old.ret, old.callerTop)
<1>1. /\ c.locals \in Nat /\ StackSize \in Nat
      /\ old.base \in Nat /\ old.ret \in Nat /\ old.callerTop \in Nat
  BY ConstantsAssumption DEF FrameType
<1>2. /\ f \in FrameType /\ f.base = old.base /\ f.live = argc /\ f.locals = c.locals
      /\ f.ret = old.ret /\ f.callerTop = old.callerTop
  BY <1>1 DEF Frame, FrameType
<1>3. /\ m2.frames = Append(Front(m.frames), f) /\ m2.top = t
      /\ m2.stack = Clear(s, old.base + argc, old.base + c.locals - 1)
  BY DEF ReplaceFrame
<1>4. /\ m2.stack \in [Slots -> Cell]
      /\ \A x \in Slots : x < old.base + argc => m2.stack[x] = s[x]
  BY <1>1, <1>3, ClearFacts, SMTT(30)
<1>5. NewFrame(m2, f, s, old.base + argc)
  BY <1>1, <1>2, <1>4 DEF NewFrame, WindowEnd
<1> QED
  BY <1>2, <1>3, <1>5 DEF Framed
-----------------------------------------------------------------------------
(* Lists: sequences given index by index, whatever their elements.          *)

List(s, n) == n \in Nat /\ s = [i \in 1 .. n |-> s[i]]

LEMMA ListIsSeq == ASSUME NEW s, NEW n, List(s, n) PROVE Len(s) = n /\ \E S : s \in Seq(S)
<1> DEFINE S == {s[i] : i \in 1 .. n}
<1>1. n \in Nat /\ s \in [1 .. n -> S]
  <2>1. n \in Nat /\ s = [i \in 1 .. n |-> s[i]]
    BY DEF List
  <2>2. \A i \in 1 .. n : s[i] \in S
    OBVIOUS
  <2> HIDE DEF S
  <2>3. [i \in 1 .. n |-> s[i]] \in [1 .. n -> S]
    BY <2>2
  <2> QED
    BY <2>1, <2>3, Zenon
<1> HIDE DEF S
<1>2. s \in Seq(S) /\ Len(s) = n
  BY <1>1
<1> QED
  BY <1>2

LEMMA SeqIsList == ASSUME NEW S, NEW s \in Seq(S) PROVE List(s, Len(s))
  BY LenProperties DEF List

LEMMA ListEqual ==
  ASSUME NEW s, NEW u, NEW n, List(s, n), List(u, n), \A i \in 1 .. n : s[i] = u[i]
  PROVE  s = u
<1>1. s = [i \in 1 .. n |-> s[i]] /\ u = [i \in 1 .. n |-> u[i]]
  BY DEF List
<1>2. [i \in 1 .. n |-> s[i]] = [i \in 1 .. n |-> u[i]]
  OBVIOUS
<1> QED
  BY <1>1, <1>2, Zenon

\* u is s with one more element.
MoreIs(u, s, n, e) == List(u, n + 1) /\ u[n + 1] = e /\ \A i \in 1 .. n : u[i] = s[i]

LEMMA AppendMore ==
  ASSUME NEW s, NEW n, List(s, n), NEW e, NEW u, u = Append(s, e)
  PROVE  MoreIs(u, s, n, e)
<1>1. PICK S : s \in Seq(S)
  BY ListIsSeq
<1>2. Len(s) = n /\ n \in Nat
  BY ListIsSeq DEF List
<1> DEFINE T == S \cup {e}
<1>3. s \in Seq(T) /\ e \in T
  <2>1. \A i \in 1 .. Len(s) : s[i] \in T
    BY <1>1, ElementOfSeq
  <2>2. s = [i \in 1 .. n |-> s[i]]
    BY DEF List
  <2>3. e \in T
    OBVIOUS
  <2> HIDE DEF T
  <2>4. [i \in 1 .. n |-> s[i]] \in [1 .. n -> T]
    BY <1>2, <2>1
  <2>5. s \in [1 .. n -> T]
    BY <2>2, <2>4, Zenon
  <2> QED
    BY <1>2, <2>3, <2>5
<1> HIDE DEF T
<1>4. /\ u \in Seq(T) /\ Len(u) = n + 1 /\ u[n + 1] = e
      /\ \A i \in 1 .. n : u[i] = s[i]
  BY <1>2, <1>3, AppendProperties
<1>5. List(u, n + 1)
  BY <1>4, SeqIsList
<1> QED
  BY <1>4, <1>5 DEF MoreIs

LEMMA FrontList ==
  ASSUME NEW s, NEW n, List(s, n), n # 0
  PROVE  /\ List(Front(s), n - 1) /\ Last(s) = s[n] /\ s # <<>>
         /\ \A i \in 1 .. n - 1 : Front(s)[i] = s[i]
<1>1. PICK S : s \in Seq(S)
  BY ListIsSeq
<1>2. Len(s) = n /\ n \in Nat
  BY ListIsSeq DEF List
<1>3. s # <<>>
  BY <1>2
<1>4. /\ Front(s) \in Seq(S) /\ Len(Front(s)) = n - 1
      /\ \A i \in 1 .. n - 1 : Front(s)[i] = s[i]
      /\ Last(s) = s[n]
  BY <1>1, <1>2, <1>3, FrontFacts
<1> QED
  BY <1>3, <1>4, SeqIsList

LEMMA ExceptList ==
  ASSUME NEW s, NEW n, List(s, n), NEW k \in 1 .. n, NEW e
  PROVE  /\ List([s EXCEPT ![k] = e], n) /\ [s EXCEPT ![k] = e][k] = e
         /\ \A i \in 1 .. n : i # k => [s EXCEPT ![k] = e][i] = s[i]
<1>1. s = [i \in 1 .. n |-> s[i]] /\ n \in Nat
  BY DEF List
<1>2. DOMAIN s = 1 .. n
  BY <1>1
<1> QED
  BY <1>1, <1>2 DEF List

\* u is m elements of s, after the first p.
PartOf(u, s, p, m) == List(u, m) /\ \A i \in 1 .. m : u[i] = s[p + i]

LEMMA SubSeqPart ==
  ASSUME NEW s, NEW n, List(s, n), NEW p \in Nat, NEW m \in Nat, p + m <= n,
         NEW u, u = SubSeq(s, p + 1, p + m)
  PROVE  PartOf(u, s, p, m)
<1> DEFINE q == p + m
<1>1. u = SubSeq(s, p + 1, q) /\ q \in Nat /\ q - p = m /\ p <= q /\ q <= n
  OBVIOUS
<1> HIDE DEF q
<1>2. PICK S : s \in Seq(S)
  BY ListIsSeq
<1>3. Len(s) = n /\ n \in Nat
  BY ListIsSeq DEF List
<1>4. \A i \in p + 1 .. q : s[i] \in S
  BY <1>1, <1>2, <1>3, ElementOfSeq
<1>5. /\ u \in Seq(S) /\ Len(u) = IF p + 1 <= q THEN q - (p + 1) + 1 ELSE 0
      /\ \A i \in 1 .. q - (p + 1) + 1 : u[i] = s[p + 1 + i - 1]
  BY <1>1, <1>3, <1>4, SubSeqProperties
<1>6. Len(u) = q - p /\ \A i \in 1 .. q - p : u[i] = s[p + i]
  <2>1. q - (p + 1) + 1 = q - p /\ (~(p + 1 <= q) => q - p = 0)
        /\ \A i \in 1 .. q - p : p + 1 + i - 1 = p + i
    BY <1>1
  <2> QED
    BY <1>1, <1>5, <2>1
<1> QED
  BY <1>1, <1>5, <1>6, SeqIsList DEF PartOf

\* u is s with one more element before it.
AfterIs(u, s, n, v) == List(u, n + 1) /\ u[1] = v /\ \A i \in 1 .. n : u[i + 1] = s[i]

LEMMA ConsAfter ==
  ASSUME NEW s, NEW n, List(s, n), NEW v, NEW u, u = <<v>> \o s
  PROVE  AfterIs(u, s, n, v)
<1>1. PICK S : s \in Seq(S)
  BY ListIsSeq
<1>2. Len(s) = n /\ n \in Nat
  BY ListIsSeq DEF List
<1> DEFINE T == S \cup {v}
<1>3. s \in Seq(T) /\ v \in T
  <2>1. \A i \in 1 .. Len(s) : s[i] \in T
    BY <1>1, ElementOfSeq
  <2>2. s = [i \in 1 .. n |-> s[i]]
    BY DEF List
  <2>3. v \in T
    OBVIOUS
  <2> HIDE DEF T
  <2>4. [i \in 1 .. n |-> s[i]] \in [1 .. n -> T]
    BY <1>2, <2>1
  <2>5. s \in [1 .. n -> T]
    BY <2>2, <2>4, Zenon
  <2> QED
    BY <1>2, <2>3, <2>5
<1> HIDE DEF T
<1>4. <<v>> \in Seq(T) /\ Len(<<v>>) = 1 /\ <<v>>[1] = v
  BY <1>3
<1>5. /\ u \in Seq(T) /\ Len(u) = 1 + n
      /\ \A i \in 1 .. 1 + n : u[i] = IF i <= 1 THEN <<v>>[i] ELSE s[i - 1]
  BY <1>2, <1>3, <1>4, ConcatProperties
<1>6. 1 + n = n + 1 /\ u[1] = v /\ \A i \in 1 .. n : u[i + 1] = s[i]
  <2>1. \A i \in 1 .. n : i + 1 \in 1 .. 1 + n /\ ~(i + 1 <= 1) /\ i + 1 - 1 = i
    BY <1>2
  <2>2. u[1] = v
    BY <1>2, <1>4, <1>5
  <2> QED
    BY <1>2, <1>5, <2>1, <2>2
<1>7. List(u, n + 1)
  BY <1>5, <1>6, SeqIsList
<1> QED
  BY <1>6, <1>7 DEF AfterIs
-----------------------------------------------------------------------------
\* A callee's frame, pushed by call_value.
Called(m2, f, fs, s, t, base) ==
  /\ m2.frames = Append(fs, f) /\ Len(fs) < MaxFrames /\ NewFrame(m2, f, s, base)
  /\ base <= f.base /\ f.ret = base - 1 /\ f.callerTop = t

\* ... which has n registers at slot b on, with what s2 has there.
CalledAt(m2, f, fs, s, t, base, s2, b, n) ==
  /\ Called(m2, f, fs, s, t, base) /\ f.base = b /\ f.live = n
  /\ \A x \in Slots : x < b + n => m2.stack[x] = s2[x]

CallValueGives(m2, s, t, fs, c, argc, base) ==
  IF c.kind \in {"native", "class"} THEN m2 = MachineOf([s EXCEPT ![base - 1] = Object], t, fs)
  ELSE \E f : /\ Called(m2, f, fs, s, t, base)
              /\ \/ c.kind = "constructor" /\ ~(base + argc < t)
                 \/ Arrived(m2.stack, f, s, base, argc)

LEMMA CallValueSlots ==
  ASSUME NEW s \in [Slots -> Cell], NEW t \in 0 .. StackSize, NEW fs \in Seq(FrameType),
         NEW c \in Callees, NEW argc \in Nat, NEW base \in Nat \ {0}, base + argc <= t,
         Ok(CallValue(MachineOf(s, t, fs), c, argc, base, FALSE))
  PROVE  CallValueGives(CallValue(MachineOf(s, t, fs), c, argc, base, FALSE), s, t, fs, c, argc, base)
<1> DEFINE m == MachineOf(s, t, fs)
           m2 == CallValue(m, c, argc, base, FALSE)
           Lost == c.kind = "constructor" /\ ~(base + argc < t)
<1>1. m.frames = fs /\ m.top = t /\ m.stack = s
  BY DEF MachineOf
<1>2. Ok(m2) /\ m2 = CallValue(m, c, argc, base, FALSE) /\ ~Ok(Fault(m))
  BY DEF MachineOf, Fault, Ok
<1>3. /\ StackSize \in Nat /\ c.arity \in Nat /\ c.locals \in Nat /\ c.kind \in CallKinds
      /\ c.arity <= c.locals \/ c.kind \in {"native", "class"}
      /\ c.kind \in WithSelf => c.arity > 0
      /\ base - 1 \in Nat /\ t \in Nat /\ DOMAIN s = Slots /\ base \in Nat /\ base <= t
      /\ MaxFrames \in Nat /\ Len(fs) \in Nat
  BY ConstantsAssumption, LenProperties
<1> SUFFICES IF c.kind \in {"native", "class"}
             THEN m2 = MachineOf([s EXCEPT ![base - 1] = Object], t, fs)
             ELSE \E f : Called(m2, f, fs, s, t, base)
                         /\ (Lost \/ Arrived(m2.stack, f, s, base, argc))
  BY DEF CallValueGives
<1>4. CASE c.kind \in {"native", "class"}
  <2>1. m2 \in {CallNative(m, c, argc, base), CallClass(m, argc, base, FALSE)}
    BY <1>2, <1>4 DEF CallValue
  <2>2. m2 = [m EXCEPT !.stack[base - 1] = Object]
    BY <1>2, <2>1 DEF CallNative, CallClass
  <2>3. m2 = MachineOf([s EXCEPT ![base - 1] = Object], t, fs)
    BY <2>2 DEF MachineOf
  <2> QED
    BY <1>4, <2>3
<1> HIDE DEF m, m2
\* What a frame of n arguments on slots s2 is, its window starting at b.
<1>5. ASSUME NEW s2 \in [Slots -> Cell], NEW b \in Nat, base <= b, NEW n \in Nat, n <= c.locals,
             b + c.locals + 1 <= StackSize, NEW u, Len(fs) < MaxFrames,
             \A x \in Slots : x < base => s2[x] = s[x],
             m2 = PushFrame(m, s2, u, b, c, n, base - 1, t)
      PROVE  \E f : CalledAt(m2, f, fs, s, t, base, s2, b, n)
  <2> DEFINE ret == base - 1
             f   == Frame(b, c.locals, n, ret, t, FALSE)
  <2>1. ret \in Nat /\ t \in Nat /\ m2 = PushFrame(m, s2, u, b, c, n, ret, t)
    BY <1>3, <1>5
  <2> HIDE DEF ret
  <2>2. f = Frame(b, c.locals, n, ret, t, FALSE)
    OBVIOUS
  <2> HIDE DEF f
  <2>3. Framed(m2, f, m.frames, u, s2, b, n, ret, t)
    BY <2>1, <2>2, <1>5, PushFrameSlots
  <2> USE DEF ret
  <2>4. NewFrame(m2, f, s, base)
    BY <1>3, <1>5, <2>3, SlotFacts DEF NewFrame, Framed
  <2>5. \A x \in Slots : x < b + n => m2.stack[x] = s2[x]
    BY <2>3 DEF NewFrame, Framed
  <2>6. Called(m2, f, fs, s, t, base)
    BY <1>1, <1>5, <2>3, <2>4 DEF Called, Framed
  <2>7. CalledAt(m2, f, fs, s, t, base, s2, b, n)
    BY <2>3, <2>5, <2>6 DEF CalledAt, Framed
  <2> QED
    BY <2>7
<1>6. CASE c.kind = "function"
  <2> DEFINE high == base + c.locals + 1
             bad  == argc # c.arity \/ high > StackSize \/ Len(fs) >= MaxFrames
             s2   == Clear(s, t, high - 1)
  <2>1. m2 = CallFunction(m, c, argc, base, FALSE)
    BY <1>2, <1>6 DEF CallValue
  <2>2. m2 = IF bad THEN Fault(m) ELSE PushFrame(m, s2, Larger(t, high), base, c, argc, base - 1, t)
    BY <1>1, <2>1 DEF CallFunction
  <2>3. ~bad
    BY <1>2, <2>2
  <2>4. /\ argc <= c.locals /\ high <= StackSize /\ Len(fs) < MaxFrames
        /\ m2 = PushFrame(m, s2, Larger(t, high), base, c, argc, base - 1, t)
    BY <1>3, <1>6, <2>2, <2>3
  <2>5. s2 \in [Slots -> Cell] /\ \A x \in Slots : x < t => s2[x] = s[x]
    BY <1>3, ClearFacts
  <2> HIDE DEF s2
  <2>6. \A x \in Slots : x < base => s2[x] = s[x]
    BY <1>3, <2>5, SlotFacts
  <2>7. PICK f : CalledAt(m2, f, fs, s, t, base, s2, base, argc)
    BY <1>3, <1>5, <2>4, <2>5, <2>6
  <2>8. ASSUME NEW k \in 0 .. argc - 1 PROVE m2.stack[base + k] = s[base + k]
    <3>1. base + k \in Slots /\ base + k < base + argc /\ base + k < t
      BY <1>3 DEF Slots
    <3> QED
      BY <2>5, <2>7, <3>1 DEF CalledAt
  <2>9. Arrived(m2.stack, f, s, base, argc)
    BY <2>7, <2>8 DEF Arrived, CalledAt
  <2> QED
    BY <1>6, <2>7, <2>9 DEF CalledAt
<1>7. CASE c.kind = "constructor"
  <2> DEFINE high  == base + c.locals + 1
             bad   == \/ argc + 1 # c.arity \/ t + 1 >= StackSize \/ high > StackSize
                      \/ Len(fs) >= MaxFrames
             next  == base + 1
             n     == argc + 1
             moved == CopyDown(s, base, next, argc)
             s2    == Clear([moved EXCEPT ![base] = Object], t, high - 1)
  <2>1. m2 = CallConstructor(m, c, argc, base, FALSE)
    BY <1>2, <1>7 DEF CallValue
  <2>2. m2 = IF bad THEN Fault(m)
             ELSE PushFrame(m, s2, Larger(t, high), base, c, argc + 1, base - 1, t)
    BY <1>1, <2>1 DEF CallConstructor
  <2>3. ~bad
    BY <1>2, <2>2
  <2>4. /\ n \in Nat /\ n <= c.locals /\ high <= StackSize /\ Len(fs) < MaxFrames
        /\ m2 = PushFrame(m, s2, Larger(t, high), base, c, n, base - 1, t)
        /\ next \in Nat /\ base <= next /\ base + argc <= StackSize
    BY <1>3, <1>7, <2>2, <2>3 DEF WithSelf
  <2> HIDE DEF next
  <2>5. HasCopy(moved, s, base, next, argc)
    BY <1>3, <2>4, CopiesAre
  <2>6. /\ moved \in [Slots -> Cell]
        /\ \A x \in Slots : x < next => moved[x] = s[x]
        /\ \A k \in 0 .. argc - 1 : next + k < StackSize => moved[next + k] = s[base + k]
    BY <2>5 DEF HasCopy
  <2> HIDE DEF moved
  <2> DEFINE s1 == [moved EXCEPT ![base] = Object]
  <2>7. /\ s1 \in [Slots -> Cell]
        /\ \A x \in Slots : x # base => s1[x] = moved[x]
        /\ base \in Slots => s1[base] = Object
    BY <2>6, SlotFacts
  <2>8. s2 = Clear(s1, t, high - 1)
    OBVIOUS
  <2> HIDE DEF s1, s2, n
  <2>9. s2 \in [Slots -> Cell] /\ \A x \in Slots : x < t => s2[x] = s1[x]
    BY <1>3, <2>7, <2>8, ClearFacts
  <2>10. \A x \in Slots : x < base => s2[x] = s[x]
    BY <1>3, <2>6, <2>7, <2>9, SlotFacts DEF next
  <2>11. PICK f : CalledAt(m2, f, fs, s, t, base, s2, base, n)
    BY <1>3, <1>5, <2>4, <2>9, <2>10
  <2> USE DEF n, next
  <2>12. ASSUME base + argc < t PROVE Arrived(m2.stack, f, s, base, argc)
    <3>1. base \in Slots /\ base < base + (argc + 1) /\ base < t
      BY <1>3, <2>12 DEF Slots
    <3>2. m2.stack[base] = Object
      BY <2>7, <2>9, <2>11, <3>1 DEF CalledAt
    <3>3. ASSUME NEW k \in 0 .. argc - 1 PROVE m2.stack[base + 1 + k] = s[base + k]
      <4>1. /\ base + 1 + k \in Slots /\ base + 1 + k < base + (argc + 1) /\ base + 1 + k < t
            /\ base + 1 + k # base /\ base + 1 + k < StackSize
        BY <1>3, <2>12 DEF Slots
      <4>2. moved[base + 1 + k] = s[base + k]
        BY <2>6, <4>1
      <4>3. s2[base + 1 + k] = moved[base + 1 + k]
        BY <2>7, <2>9, <4>1
      <4> QED
        BY <2>11, <4>1, <4>2, <4>3 DEF CalledAt
    <3> QED
      BY <2>11, <3>2, <3>3 DEF Arrived, CalledAt
  <2> QED
    BY <1>7, <2>11, <2>12 DEF CalledAt
<1>8. CASE c.kind = "instance"
  <2> DEFINE high == t + c.locals + 1
             bad  == argc + 1 # c.arity \/ high > StackSize \/ Len(fs) >= MaxFrames
             n    == argc + 1
             next == t + 1
             s1   == [s EXCEPT ![t] = s[base - 1]]
             s2   == CopyUp(s1, base, next, argc)
  <2>1. m2 = CallInstance(m, c, argc, base, FALSE)
    BY <1>2, <1>8 DEF CallValue
  <2>2. m2 = IF bad THEN Fault(m) ELSE PushFrame(m, s2, high, t, c, argc + 1, base - 1, t)
    BY <1>1, <2>1 DEF CallInstance
  <2>3. ~bad
    BY <1>2, <2>2
  <2>4. /\ n \in Nat /\ n <= c.locals /\ high <= StackSize /\ Len(fs) < MaxFrames
        /\ m2 = PushFrame(m, s2, high, t, c, n, base - 1, t)
        /\ next \in Nat /\ base + argc <= next
    BY <1>3, <1>8, <2>2, <2>3 DEF WithSelf
  <2>5. t \in Slots /\ base - 1 \in Slots /\ s[base - 1] \in Cell /\ base + argc <= StackSize
    BY <1>3, <2>4 DEF Slots
  <2>6. /\ s1 \in [Slots -> Cell] /\ s1[t] = s[base - 1]
        /\ \A x \in Slots : x < t => s1[x] = s[x]
    BY <1>3, <2>5, SlotFacts
  <2> HIDE DEF s1, next, n
  <2>7. HasCopy(s2, s1, base, next, argc)
    BY <1>3, <2>4, <2>5, <2>6, CopiesAre
  <2>8. /\ s2 \in [Slots -> Cell]
        /\ \A x \in Slots : x < next => s2[x] = s1[x]
        /\ \A k \in 0 .. argc - 1 : next + k < StackSize => s2[next + k] = s1[base + k]
    BY <2>7 DEF HasCopy
  <2> HIDE DEF s2
  <2>9. \A x \in Slots : x < base => s2[x] = s[x]
    BY <1>3, <2>6, <2>8, SlotFacts DEF next
  <2>10. PICK f : CalledAt(m2, f, fs, s, t, base, s2, t, n)
    BY <1>3, <1>5, <2>4, <2>8, <2>9
  <2> USE DEF n, next
  <2>11. m2.stack[t] = s[base - 1]
    BY <1>3, <2>5, <2>6, <2>8, <2>10, SMTT(30) DEF CalledAt
  <2>12. ASSUME NEW k \in 0 .. argc - 1 PROVE m2.stack[t + 1 + k] = s[base + k]
    <3>1. /\ t + 1 + k \in Slots /\ t + 1 + k < t + (argc + 1) /\ t + 1 + k < StackSize
          /\ base + k \in Slots /\ base + k < t
      BY <1>3, <2>4, <2>5 DEF Slots
    <3> QED
      BY <2>6, <2>8, <2>10, <3>1 DEF CalledAt
  <2>13. Arrived(m2.stack, f, s, base, argc)
    BY <2>10, <2>11, <2>12 DEF Arrived, CalledAt
  <2> QED
    BY <1>8, <2>10, <2>13 DEF CalledAt
<1>9. CASE c.kind \in {"method", "module"}
  <2>1. m2 = Fault(m)
    BY <1>2, <1>9 DEF CallValue
  <2> QED
    BY <1>2, <2>1
<1>10. \/ c.kind \in {"native", "class"} \/ c.kind = "function" \/ c.kind = "constructor"
       \/ c.kind = "instance" \/ c.kind \in {"method", "module"}
  BY <1>3 DEF CallKinds
<1> QED
  BY <1>4, <1>6, <1>7, <1>8, <1>9, <1>10
-----------------------------------------------------------------------------
\* A callee's frame in the place of the innermost of fs.
TookOver(m2, f, fs, s) ==
  /\ m2.frames = Append(Front(fs), f) /\ NewFrame(m2, f, s, Last(fs).base)
  /\ f.base = Last(fs).base /\ f.ret = Last(fs).ret /\ f.callerTop = Last(fs).callerTop

\* ... which has n registers, with what s2 has there.
TookOverWith(m2, f, fs, s, s2, n) ==
  /\ TookOver(m2, f, fs, s) /\ f.live = n
  /\ \A x \in Slots : x < f.base + n => m2.stack[x] = s2[x]

CallValueTailGives(m2, s, t, fs, c, argc, base) ==
  IF c.kind = "class" THEN m2 = PopFrame(MachineOf(s, t, fs), Object)
  ELSE \E f : TookOver(m2, f, fs, s) /\ Arrived(m2.stack, f, s, base, argc)

LEMMA CallValueTailSlots ==
  ASSUME NEW s \in [Slots -> Cell], NEW t \in 0 .. StackSize, NEW fs \in Seq(FrameType), fs # <<>>,
         NEW c \in Callees, c.kind # "native", NEW argc \in Nat, NEW base \in Nat \ {0},
         Last(fs).base < base, base + argc <= t,
         Ok(CallValue(MachineOf(s, t, fs), c, argc, base, TRUE))
  PROVE  CallValueTailGives(CallValue(MachineOf(s, t, fs), c, argc, base, TRUE), s, t, fs, c, argc, base)
<1> DEFINE m == MachineOf(s, t, fs)
           m2 == CallValue(m, c, argc, base, TRUE)
           old == Last(fs)
<1>1. m.frames = fs /\ m.top = t /\ m.stack = s
  BY DEF MachineOf
<1>2. Ok(m2) /\ m2 = CallValue(m, c, argc, base, TRUE) /\ ~Ok(Fault(m))
  BY DEF MachineOf, Fault, Ok
<1>3. /\ StackSize \in Nat /\ c.arity \in Nat /\ c.locals \in Nat /\ c.kind \in CallKinds
      /\ c.arity <= c.locals \/ c.kind \in {"native", "class"}
      /\ c.kind \in WithSelf => c.arity > 0
      /\ old \in FrameType /\ old.base \in Nat /\ old.ret \in Nat /\ old.callerTop \in Nat
      /\ base - 1 \in Nat /\ t \in Nat /\ DOMAIN s = Slots /\ base \in Nat /\ base <= t
      /\ old.base < base
  <2>1. old \in FrameType
    BY FrontFacts
  <2> QED
    BY <2>1, ConstantsAssumption, SMTT(30) DEF FrameType
<1> SUFFICES IF c.kind = "class" THEN m2 = PopFrame(m, Object)
             ELSE \E f : TookOver(m2, f, fs, s) /\ Arrived(m2.stack, f, s, base, argc)
  BY DEF CallValueTailGives
<1>4. CASE c.kind = "class"
  <2>1. m2 = CallClass(m, argc, base, TRUE)
    BY <1>2, <1>4 DEF CallValue
  <2>2. m2 = PopFrame(m, Object)
    BY <1>2, <2>1 DEF CallClass
  <2> QED
    BY <1>4, <2>2
<1> HIDE DEF m, m2, old
<1>5. ASSUME NEW s2 \in [Slots -> Cell], NEW n \in Nat, n <= c.locals,
             old.base + c.locals + 1 <= StackSize, NEW u,
             \A x \in Slots : x < old.base => s2[x] = s[x],
             m2 = ReplaceFrame(m, s2, u, c, n)
      PROVE  \E f : TookOverWith(m2, f, fs, s, s2, n)
  <2> DEFINE f == Frame(old.base, c.locals, n, old.ret, old.callerTop, FALSE)
  <2>1. f = Frame(old.base, c.locals, n, old.ret, old.callerTop, FALSE)
    OBVIOUS
  <2> HIDE DEF f
  <2>2. old = Last(m.frames) /\ old = Last(fs)
    BY <1>1 DEF old
  <2>3. Framed(m2, f, Front(m.frames), u, s2, old.base, n, old.ret, old.callerTop)
    BY <1>3, <1>5, <2>1, <2>2, ReplaceFrameSlots
  <2>4. NewFrame(m2, f, s, old.base)
    <3>1. NewFrame(m2, f, s2, old.base + n)
      BY <2>3 DEF Framed
    <3>2. \A x \in Slots : x < old.base => x < old.base + n
      BY <1>3, SlotFacts
    <3>3. \A x \in Slots : x < old.base => m2.stack[x] = s[x]
      BY <1>5, <3>1, <3>2 DEF NewFrame
    <3> QED
      BY <3>1, <3>3 DEF NewFrame
  <2>5. \A x \in Slots : x < old.base + n => m2.stack[x] = s2[x]
    BY <2>3 DEF NewFrame, Framed
  <2>6. TookOver(m2, f, fs, s)
    BY <1>1, <2>2, <2>3, <2>4 DEF TookOver, Framed
  <2>7. TookOverWith(m2, f, fs, s, s2, n)
    BY <2>3, <2>5, <2>6 DEF TookOverWith, Framed
  <2> QED
    BY <2>7
<1>6. CASE c.kind = "function"
  <2> DEFINE high == old.base + c.locals + 1
             bad  == argc # c.arity \/ high > StackSize
             b    == old.base
             s2   == CopyUp(s, base, b, argc)
  <2>1. m2 = CallFunction(m, c, argc, base, TRUE)
    BY <1>2, <1>6 DEF CallValue
  <2>2. m2 = IF bad THEN Fault(m) ELSE ReplaceFrame(m, s2, high, c, argc)
    BY <1>1, <2>1 DEF CallFunction, old
  <2>3. ~bad
    BY <1>2, <2>2
  <2>4. /\ argc <= c.locals /\ high <= StackSize /\ m2 = ReplaceFrame(m, s2, high, c, argc)
        /\ b \in Nat /\ b <= base /\ base + argc <= StackSize
    BY <1>3, <1>6, <2>2, <2>3
  <2> HIDE DEF b
  <2>5. HasCopy(s2, s, base, b, argc)
    BY <1>3, <2>4, CopiesAre
  <2>6. /\ s2 \in [Slots -> Cell] /\ \A x \in Slots : x < b => s2[x] = s[x]
        /\ \A k \in 0 .. argc - 1 : b + k < StackSize => s2[b + k] = s[base + k]
    BY <2>5 DEF HasCopy
  <2> HIDE DEF s2
  <2>7. \A x \in Slots : x < old.base => s2[x] = s[x]
    BY <2>6 DEF b
  <2>8. PICK f : TookOverWith(m2, f, fs, s, s2, argc)
    BY <1>3, <1>5, <2>4, <2>6, <2>7
  <2>9. f.base = b /\ f.live = argc
    BY <2>8 DEF TookOverWith, TookOver, b, old
  <2>10. ASSUME NEW k \in 0 .. argc - 1 PROVE m2.stack[b + k] = s[base + k]
    <3>1. b + k \in Slots /\ b + k < b + argc /\ b + k < StackSize
      BY <1>3, <2>4 DEF Slots
    <3>2. m2.stack[b + k] = s2[b + k]
      BY <2>8, <2>9, <3>1 DEF TookOverWith
    <3> QED
      BY <2>6, <3>1, <3>2
  <2>11. Arrived(m2.stack, f, s, base, argc)
    BY <2>9, <2>10 DEF Arrived
  <2> QED
    BY <1>6, <2>8, <2>11 DEF TookOverWith
\* Arguments after a receiver, in slots s2.
<1>7. ASSUME NEW b \in Nat, NEW next \in Nat, NEW n \in Nat, NEW s2 \in [Slots -> Cell],
             b = old.base, next = b + 1, n = argc + 1, n <= c.locals, b + c.locals + 1 <= StackSize,
             NEW u, m2 = ReplaceFrame(m, s2, u, c, n), NEW moved, HasCopy(moved, s, base, next, argc),
             s2[b] \in {Object, s[base - 1]},
             \A x \in Slots : x < base + argc /\ x # b => s2[x] = moved[x]
      PROVE  \E f : TookOver(m2, f, fs, s) /\ Arrived(m2.stack, f, s, base, argc)
  <2>1. /\ moved \in [Slots -> Cell] /\ \A x \in Slots : x < next => moved[x] = s[x]
        /\ \A k \in 0 .. argc - 1 : next + k < StackSize => moved[next + k] = s[base + k]
    BY <1>7 DEF HasCopy
  <2>2. b < base /\ base \in Nat
    BY <1>3, <1>7
  <2>3. \A x \in Slots : x < old.base => s2[x] = s[x]
    <3> SUFFICES ASSUME NEW x \in Slots, x < b PROVE s2[x] = s[x]
      BY <1>7
    <3>1. x \in Int /\ x < base + argc /\ x # b /\ x < next
      BY <1>7, <2>2, SlotFacts
    <3> QED
      BY <1>7, <2>1, <3>1
  <2>4. PICK f : TookOverWith(m2, f, fs, s, s2, n)
    BY <1>5, <1>7, <2>3
  <2>5. f.base = b /\ f.live = n
    BY <1>7, <2>4 DEF TookOverWith, TookOver, old
  <2>6. m2.stack[b] = s2[b]
    <3>1. b \in Slots /\ b < b + n
      BY <1>3, <1>7 DEF Slots
    <3> QED
      BY <2>4, <2>5, <3>1 DEF TookOverWith
  <2>7. ASSUME NEW k \in 0 .. argc - 1 PROVE m2.stack[b + 1 + k] = s[base + k]
    <3> DEFINE x == b + 1 + k
    <3>1. n = argc + 1 /\ next = b + 1 /\ n <= c.locals /\ b + c.locals + 1 <= StackSize
      BY <1>7
    <3>2. /\ x \in Slots /\ x < b + n /\ x < base + argc /\ x # b /\ x = next + k
          /\ x < StackSize
      BY <1>3, <2>2, <3>1 DEF Slots
    <3>3. moved[x] = s[base + k]
      BY <2>1, <3>2
    <3> HIDE DEF x
    <3>4. m2.stack[x] = s2[x]
      BY <2>4, <2>5, <3>2 DEF TookOverWith
    <3>5. s2[x] = moved[x]
      BY <1>7, <3>2
    <3> QED
      BY <3>3, <3>4, <3>5 DEF x
  <2>8. Arrived(m2.stack, f, s, base, argc)
    BY <1>7, <2>5, <2>6, <2>7 DEF Arrived
  <2> QED
    BY <2>4, <2>8 DEF TookOverWith
<1>8. CASE c.kind = "constructor"
  <2> DEFINE b     == old.base
             high  == b + c.locals + 1
             bad   == argc + 1 # c.arity \/ t + 1 >= StackSize \/ high > StackSize
             next  == b + 1
             n     == argc + 1
             moved == CopyUp(s, base, next, argc)
             s1    == [moved EXCEPT ![b] = Object]
             s2    == Clear(s1, t, high - 1)
  <2>1. m2 = CallConstructor(m, c, argc, base, TRUE)
    BY <1>2, <1>8 DEF CallValue
  <2>2. m2 = IF bad THEN Fault(m) ELSE ReplaceFrame(m, s2, high, c, n)
    BY <1>1, <1>3, <2>1 DEF CallConstructor, old
  <2>3. ~bad
    BY <1>2, <2>2
  <2>4. /\ n \in Nat /\ n <= c.locals /\ high <= StackSize /\ m2 = ReplaceFrame(m, s2, high, c, n)
        /\ b \in Nat /\ next \in Nat /\ next <= base /\ base + argc <= StackSize
    BY <1>3, <1>8, <2>2, <2>3, SMTT(30) DEF WithSelf
  <2> HIDE DEF next
  <2>5. HasCopy(moved, s, base, next, argc)
    BY <1>3, <2>4, CopiesAre
  <2>6. moved \in [Slots -> Cell]
    BY <2>5 DEF HasCopy
  <2> HIDE DEF moved
  <2>7. b \in Slots /\ b < t
    BY <1>3, <2>4 DEF Slots
  <2>8. /\ s1 \in [Slots -> Cell] /\ s1[b] = Object
        /\ \A x \in Slots : x # b => s1[x] = moved[x]
    BY <2>6, <2>7, SlotFacts
  <2> HIDE DEF s1
  <2>9. s2 \in [Slots -> Cell] /\ \A x \in Slots : x < t => s2[x] = s1[x]
    BY <1>3, <2>8, ClearFacts
  <2> HIDE DEF s2
  <2>10. s2[b] = Object
    BY <2>7, <2>8, <2>9
  <2>11. ASSUME NEW x \in Slots, x < base + argc, x # b PROVE s2[x] = moved[x]
    <3>1. x < t
      BY <1>3, <2>11, SlotFacts
    <3> QED
      BY <2>8, <2>9, <2>11, <3>1
  <2>12. next = b + 1 /\ b = old.base /\ n = argc + 1
    BY DEF next
  <2> HIDE DEF b, n
  <2>13. \E f : TookOver(m2, f, fs, s) /\ Arrived(m2.stack, f, s, base, argc)
    BY <1>7, <2>4, <2>5, <2>9, <2>10, <2>11, <2>12, SMTT(30)
  <2> QED
    BY <1>8, <2>13
<1>9. CASE c.kind = "instance"
  <2> DEFINE b     == old.base
             high  == b + c.locals + 1
             bad   == argc + 1 # c.arity \/ high > StackSize
             next  == b + 1
             n     == argc + 1
             moved == CopyUp(s, base, next, argc)
             s2    == [moved EXCEPT ![b] = s[base - 1]]
  <2>1. m2 = CallInstance(m, c, argc, base, TRUE)
    BY <1>2, <1>9 DEF CallValue
  <2>2. m2 = IF bad THEN Fault(m) ELSE ReplaceFrame(m, s2, high, c, n)
    BY <1>1, <2>1 DEF CallInstance, old
  <2>3. ~bad
    BY <1>2, <2>2
  <2>4. /\ n \in Nat /\ n <= c.locals /\ high <= StackSize /\ m2 = ReplaceFrame(m, s2, high, c, n)
        /\ b \in Nat /\ next \in Nat /\ next <= base /\ base + argc <= StackSize
    BY <1>3, <1>9, <2>2, <2>3, SMTT(30) DEF WithSelf
  <2> HIDE DEF next
  <2>5. HasCopy(moved, s, base, next, argc)
    BY <1>3, <2>4, CopiesAre
  <2>6. moved \in [Slots -> Cell]
    BY <2>5 DEF HasCopy
  <2> HIDE DEF moved
  <2>7. b \in Slots /\ base - 1 \in Slots
    BY <1>3, <2>4 DEF Slots
  <2>8. s[base - 1] \in Cell
    BY <2>7
  <2>9. /\ s2 \in [Slots -> Cell] /\ s2[b] = s[base - 1]
        /\ \A x \in Slots : x # b => s2[x] = moved[x]
    BY <2>6, <2>7, <2>8
  <2> HIDE DEF s2
  <2>10. next = b + 1 /\ b = old.base /\ n = argc + 1
    BY DEF next
  <2> HIDE DEF b, n
  <2>11. s2[b] = s[base - 1]
    BY <2>9
  <2>12. \A x \in Slots : x < base + argc /\ x # b => s2[x] = moved[x]
    BY <2>9
  <2>13. s2 \in [Slots -> Cell]
    BY <2>9
  <2>14. \E f : TookOver(m2, f, fs, s) /\ Arrived(m2.stack, f, s, base, argc)
    BY <1>7, <2>4, <2>5, <2>11, <2>12, <2>10, <2>13, SMTT(30)
  <2> QED
    BY <1>9, <2>14
<1>10. CASE c.kind \in {"method", "module"}
  <2>1. m2 = Fault(m)
    BY <1>2, <1>10 DEF CallValue
  <2> QED
    BY <1>2, <2>1
<1>11. \/ c.kind = "class" \/ c.kind = "function" \/ c.kind = "constructor"
       \/ c.kind = "instance" \/ c.kind \in {"method", "module"}
  BY <1>3 DEF CallKinds
<1> QED
  BY <1>4, <1>6, <1>8, <1>9, <1>10, <1>11

\* The frame of a method: the receiver, then the arguments.
InvokeMethodGives(m2, f, s, t, fs, self, ret, base, total) ==
  /\ m2.frames = Append(fs, f) /\ Len(fs) < MaxFrames /\ NewFrame(m2, f, s, base)
  /\ f.base = base /\ f.ret = ret /\ f.callerTop = t /\ f.live = total
  /\ total > 0 /\ m2.stack[base] = self
  /\ \A k \in 1 .. total - 1 : m2.stack[base + k] = s[base + k]

LEMMA InvokeMethodSlots ==
  ASSUME NEW s \in [Slots -> Cell], NEW t \in 0 .. StackSize, NEW fs \in Seq(FrameType),
         NEW c \in Callees, c.kind = "method", NEW self \in Cell, NEW ret \in Nat, NEW base \in Nat,
         NEW total \in Nat,
         Ok(InvokeMethod(MachineOf(s, t, fs), c, self, ret, base, total))
  PROVE  \E f : InvokeMethodGives(InvokeMethod(MachineOf(s, t, fs), c, self, ret, base, total),
                                  f, s, t, fs, self, ret, base, total)
<1> DEFINE m == MachineOf(s, t, fs)
           m2 == InvokeMethod(m, c, self, ret, base, total)
           high == base + c.locals + 1
           u == Larger(t, base + total)
           s1 == Clear(s, u, high - 1)
           s2 == [s1 EXCEPT ![base] = self]
           bad == total # c.arity \/ Len(fs) >= MaxFrames \/ high > StackSize
<1>1. m.frames = fs /\ m.top = t /\ m.stack = s
  BY DEF MachineOf
<1>2. Ok(m2) /\ m2 = InvokeMethod(m, c, self, ret, base, total) /\ ~Ok(Fault(m))
  BY DEF MachineOf, Fault, Ok
<1>3. /\ StackSize \in Nat /\ c.arity \in Nat /\ c.locals \in Nat /\ c.arity <= c.locals
      /\ c.arity > 0 /\ t \in Nat /\ MaxFrames \in Nat /\ Len(fs) \in Nat /\ DOMAIN s = Slots
  BY ConstantsAssumption, LenProperties DEF WithSelf
<1> HIDE DEF m, m2
<1>4. m2 = IF bad THEN Fault(m) ELSE PushFrame(m, s2, Larger(u, high), base, c, total, ret, t)
  BY <1>1, <1>2 DEF InvokeMethod
<1>5. ~bad
  BY <1>2, <1>4
<1>6. /\ m2 = PushFrame(m, s2, Larger(u, high), base, c, total, ret, t)
      /\ total <= c.locals /\ total > 0 /\ Len(fs) < MaxFrames /\ high <= StackSize
      /\ u \in Nat /\ base + total <= u
  BY <1>3, <1>4, <1>5 DEF Larger
<1> HIDE DEF u
<1>7. s1 \in [Slots -> Cell] /\ \A x \in Slots : x < u => s1[x] = s[x]
  BY <1>3, <1>6, ClearFacts
<1> HIDE DEF s1
<1>8. base \in Slots
  BY <1>3, <1>6 DEF Slots
<1>9. s2 \in [Slots -> Cell] /\ s2[base] = self /\ \A x \in Slots : x # base => s2[x] = s1[x]
  BY <1>7, <1>8
<1> HIDE DEF s2
<1> DEFINE f == Frame(base, c.locals, total, ret, t, FALSE)
<1>10. f = Frame(base, c.locals, total, ret, t, FALSE)
  OBVIOUS
<1> HIDE DEF f
<1>11. Framed(m2, f, m.frames, Larger(u, high), s2, base, total, ret, t)
  BY <1>3, <1>6, <1>9, <1>10, PushFrameSlots
<1>12. \A x \in Slots : x < base + total => m2.stack[x] = s2[x]
  BY <1>11 DEF Framed, NewFrame
<1>13. m2.stack[base] = self
  BY <1>3, <1>6, <1>8, <1>9, <1>12
<1>14. ASSUME NEW x \in Slots, x < base + total, x # base PROVE m2.stack[x] = s[x]
  <2>1. x < u
    BY <1>6, <1>14, SlotFacts
  <2> QED
    BY <1>7, <1>9, <1>12, <1>14, <2>1
<1>15. NewFrame(m2, f, s, base)
  <2>1. \A x \in Slots : x < base => m2.stack[x] = s[x]
    BY <1>3, <1>6, <1>14, SlotFacts
  <2> QED
    BY <1>11, <2>1 DEF Framed, NewFrame
<1>16. ASSUME NEW k \in 1 .. total - 1 PROVE m2.stack[base + k] = s[base + k]
  <2>1. base + k \in Slots /\ base + k < base + total /\ base + k # base
    BY <1>3, <1>6 DEF Slots
  <2> QED
    BY <1>14, <2>1
<1>17. /\ m2.frames = Append(fs, f) /\ f.base = base /\ f.ret = ret /\ f.callerTop = t
       /\ f.live = total
  BY <1>1, <1>11 DEF Framed
<1>18. InvokeMethodGives(m2, f, s, t, fs, self, ret, base, total)
  BY <1>6, <1>13, <1>15, <1>16, <1>17 DEF InvokeMethodGives
<1> QED
  BY <1>18 DEF m, m2
-----------------------------------------------------------------------------
(* What each action does to the frames and the slots a frame can read.      *)

\* The second half of the invariant: what the slots and the heap hold.
Contents == /\ stack \in [Slots -> Cell]
            /\ heap \subseteq Value \cup {Object}
            /\ Len(frames) <= MaxFrames

\* Frame f is above the innermost one, which keeps its first n registers but the one
\* that waits for the result.
Pushes(n, f) ==
  /\ n \in Nat /\ n <= TopFrame.locals /\ Len(frames) < MaxFrames
  /\ frames' = Append(Relive(n), f) /\ f \in FrameType
  /\ f.live <= f.locals /\ WindowEnd(f) <= StackSize /\ TopFrame.base + n <= f.base
  /\ stack' \in [Slots -> Cell]
  /\ \A x \in Slots : x < TopFrame.base + n /\ x # f.ret => stack'[x] = stack[x]

\* Frame f found argc values from slot from on, alone or after a receiver.
Gets(f, self, from, argc) ==
  \/ f.live = argc /\ \A k \in 0 .. argc - 1 : stack'[f.base + k] = stack[from + k]
  \/ /\ f.live = argc + 1 /\ stack'[f.base] \in {Object, stack[self]}
     /\ \A k \in 0 .. argc - 1 : stack'[f.base + 1 + k] = stack[from + k]

\* The callee needed no frame: the n-th register holds its result.
Answers(n) ==
  /\ n \in Nat \ {0} /\ n <= TopFrame.locals
  /\ frames' = Relive(n) /\ stack' \in [Slots -> Cell]
  /\ stack'[TopFrame.base + n - 1] = Object
  /\ \A x \in Slots : x < TopFrame.base + n - 1 => stack'[x] = stack[x]

LEMMA ArrivedGets ==
  ASSUME NEW f, NEW s, NEW base, NEW self, NEW from, NEW argc \in Nat,
         Arrived(stack', f, s, base, argc), s[base - 1] \in {Object, stack[self]},
         \A k \in 0 .. argc - 1 : s[base + k] = stack[from + k]
  PROVE  Gets(f, self, from, argc)
  BY DEF Arrived, Gets

\* The registers in use lie in the slots.
LEMMA RegisterSlots ==
  ASSUME IInv, Running
  PROVE  /\ TopFrame.base \in Nat /\ TopFrame.live \in Nat /\ TopFrame.locals \in Nat
         /\ TopFrame.live <= TopFrame.locals /\ TopFrame.base + TopFrame.locals + 1 <= top
         /\ top \in Nat /\ top <= StackSize /\ StackSize \in Nat
         /\ TopFrame.ret \in Nat /\ TopFrame.callerTop \in Nat
  BY RunningFacts DEF FrameType, WindowEnd

\* call_value at register n of the innermost frame, made on slots s: no frame was needed, or
\* one was pushed.
CallsOn(s, n, argc) ==
  \/ Answers(n)
  \/ \E f : /\ Pushes(n, f) /\ f.ret = TopFrame.base + n - 1
            /\ Arrived(stack', f, s, TopFrame.base + n, argc)

\* The same, in terms of the caller's slots: skip tells where the arguments were.
CallsWith(n, argc, skip) ==
  \/ Answers(n)
  \/ \E f : /\ Pushes(n, f) /\ f.ret = TopFrame.base + n - 1
            /\ Gets(f, f.ret, f.ret + skip, argc)

LEMMA CallOutcomeStep ==
  ASSUME IInv, Running, NEW s \in [Slots -> Cell], NEW n \in Nat \ {0}, n <= TopFrame.locals,
         NEW c \in Callees, NEW argc \in Nat, NEW base, base = TopFrame.base + n, base + argc < top,
         \A x \in Slots : x < base - 1 => s[x] = stack[x],
         NEW made, CallOutcome(CallValue(MachineOf(s, top, Relive(n)), c, argc, base, FALSE), made)
  PROVE  \/ Unwind
         \/ /\ nests' = nests /\ mode' = mode /\ heap' = heap \cup made
            /\ CallsOn(s, n, argc)
<1> DEFINE m2 == CallValue(MachineOf(s, top, Relive(n)), c, argc, base, FALSE)
<1>1. CASE ~Ok(m2) \/ Unwind
  BY <1>1 DEF CallOutcome
<1>2. CASE Ok(m2) /\ ~Unwind
  <2>1. Install(m2) /\ nests' = nests /\ mode' = mode /\ heap' = heap \cup made
    BY <1>2 DEF CallOutcome
  <2>2. /\ base \in Nat \ {0} /\ base \in Nat /\ base - 1 \in Slots /\ top \in 0 .. StackSize
        /\ base + argc <= top /\ TopFrame.base \in Nat /\ base - 1 = TopFrame.base + n - 1
    <3>1. /\ TopFrame.base \in Nat /\ top \in Nat /\ top <= StackSize /\ StackSize \in Nat
          /\ base \in Nat \ {0}
      BY RegisterSlots
    <3>2. base < top /\ base + argc <= top /\ base - 1 \in 0 .. StackSize - 1
      BY <3>1
    <3> QED
      BY <3>1, <3>2 DEF Slots
  <2>3. /\ Relive(n) \in Seq(FrameType) /\ Len(Relive(n)) = Len(frames)
    BY ReliveFacts
  <2>4. CallValueGives(m2, s, top, Relive(n), c, argc, base)
    BY <1>2, <2>2, <2>3, CallValueSlots
  <2> HIDE DEF m2
  <2>5. CASE m2 = MachineOf([s EXCEPT ![base - 1] = Object], top, Relive(n))
    <3>1. frames' = Relive(n) /\ stack' = [s EXCEPT ![base - 1] = Object]
      BY <2>1, <2>5 DEF Install, MachineOf
    <3>2. stack' \in [Slots -> Cell] /\ stack'[base - 1] = Object
      BY <2>2, <3>1, SlotFacts
    <3>3. \A x \in Slots : x < base - 1 => stack'[x] = stack[x]
      BY <2>2, <3>1, SlotFacts
    <3>4. Answers(n)
      BY <2>2, <3>1, <3>2, <3>3 DEF Answers
    <3> QED
      BY <2>1, <3>4 DEF CallsOn
  <2>6. ASSUME NEW f, Called(m2, f, Relive(n), s, top, base), Arrived(m2.stack, f, s, base, argc)
        PROVE  Pushes(n, f) /\ f.ret = base - 1 /\ Arrived(stack', f, s, base, argc)
    <3>1. frames' = m2.frames /\ stack' = m2.stack
      BY <2>1 DEF Install
    <3>2. /\ frames' = Append(Relive(n), f) /\ Len(frames) < MaxFrames /\ f.ret = base - 1
          /\ base <= f.base /\ f \in FrameType /\ f.live <= f.locals /\ WindowEnd(f) <= StackSize
          /\ stack' \in [Slots -> Cell] /\ \A x \in Slots : x < base => stack'[x] = s[x]
      BY <2>3, <2>6, <3>1 DEF Called, NewFrame
    <3>3. ASSUME NEW x \in Slots, x < base, x # base - 1 PROVE stack'[x] = stack[x]
      <4>1. x < base - 1
        BY <2>2, <3>3, SlotFacts
      <4> QED
        BY <3>2, <3>3, <4>1
    <3> QED
      BY <2>6, <3>1, <3>2, <3>3 DEF Pushes
  <2>7. CASE \E f : Called(m2, f, Relive(n), s, top, base) /\ Arrived(m2.stack, f, s, base, argc)
    <3>1. PICK f : Called(m2, f, Relive(n), s, top, base) /\ Arrived(m2.stack, f, s, base, argc)
      BY <2>7
    <3>2. /\ Pushes(n, f) /\ f.ret = TopFrame.base + n - 1
          /\ Arrived(stack', f, s, TopFrame.base + n, argc)
      BY <2>2, <2>6, <3>1
    <3>3. CallsOn(s, n, argc)
      BY <3>2 DEF CallsOn
    <3> QED
      BY <2>1, <3>3
  <2> QED
    BY <2>4, <2>5, <2>7 DEF CallValueGives
<1> QED
  BY <1>1, <1>2

LEMMA CallStep ==
  ASSUME IInv, Contents, NEW c \in Callees, NEW argc \in Nat, Call(c, argc)
  PROVE  \/ Unwind
         \/ /\ nests' = nests /\ mode' = mode /\ heap' = heap \cup Made(c) /\ argc < TopFrame.live
            /\ CallsWith(TopFrame.live - argc, argc, 1)
<1> DEFINE n    == TopFrame.live - argc
           base == TopFrame.base + n
<1>1. Running /\ argc < TopFrame.live
  BY DEF Call
<1>2. /\ n \in Nat \ {0} /\ n \in Nat /\ n <= TopFrame.locals /\ base + argc < top /\ base \in Nat
      /\ TopFrame.live - argc - 1 + 1 = n /\ base - 1 + 1 = base
  BY <1>1, RegisterSlots
<1>3. Allocated(n) = MachineOf(stack, top, Relive(n))
  BY <1>1, <1>2, ReliveFacts
<1>4. CallOutcome(CallValue(MachineOf(stack, top, Relive(n)), c, argc, base, FALSE), Made(c))
  BY <1>2, <1>3 DEF Call, Register
<1>5. stack \in [Slots -> Cell] /\ base = TopFrame.base + n
  BY DEF Contents
<1> HIDE DEF n, base
<1>6. \/ Unwind
      \/ nests' = nests /\ mode' = mode /\ heap' = heap \cup Made(c) /\ CallsOn(stack, n, argc)
  BY <1>1, <1>2, <1>4, <1>5, CallOutcomeStep
<1>7. ASSUME CallsOn(stack, n, argc) PROVE CallsWith(n, argc, 1)
  <2> SUFFICES ASSUME NEW f, Pushes(n, f), f.ret = base - 1, Arrived(stack', f, stack, base, argc)
               PROVE  Gets(f, f.ret, f.ret + 1, argc)
    <3>1. TopFrame.base + n = base /\ TopFrame.base + n - 1 = base - 1
      BY <1>1, <1>2, <1>5, RegisterSlots
    <3> HIDE DEF n, base
    <3> QED
      BY <1>7, <3>1 DEF CallsOn, CallsWith
  <2>1. stack[base - 1] \in {Object, stack[f.ret]} /\ f.ret + 1 = base
    BY <1>2
  <2> QED
    BY <2>1, ArrivedGets
<1> QED
  BY <1>1, <1>6, <1>7 DEF n

LEMMA InvokeMemberStep ==
  ASSUME IInv, Contents, NEW c \in Callees, NEW argc \in Nat, InvokeMember(c, argc)
  PROVE  \/ Unwind
         \/ /\ nests' = nests /\ mode' = mode /\ heap' = heap \cup (Made(c) \cup {Object})
            /\ argc + 1 < TopFrame.live /\ CallsWith(TopFrame.live - argc - 1, argc, 2)
<1> DEFINE n    == TopFrame.live - argc - 1
           base == TopFrame.base + n
           next == base + 1
           slid == CopyUp(stack, next, base, argc)
           s    == [slid EXCEPT ![base - 1] = Object]
           made == Made(c) \cup {Object}
<1>1. Running /\ argc + 1 < TopFrame.live
  BY DEF InvokeMember
<1>2. /\ n \in Nat \ {0} /\ n \in Nat /\ n <= TopFrame.locals /\ base + argc < top /\ base \in Nat
      /\ TopFrame.live - argc - 2 + 1 = n /\ base - 1 + 1 = base
      /\ Register(TopFrame.live - argc - 2 + 2) = next /\ Register(TopFrame.live - argc - 2 + 1) = base
      /\ Register(TopFrame.live - argc - 2) = base - 1
      /\ next \in Nat /\ base <= next /\ next + argc <= StackSize /\ base - 1 \in Slots
      /\ base - 1 + 2 = next
  BY <1>1, RegisterSlots DEF Register, Slots
<1>3. [Allocated(n) EXCEPT !.stack = s] = MachineOf(s, top, Relive(n))
  BY <1>1, <1>2, ReliveFacts
<1>4. CallOutcome(CallValue(MachineOf(s, top, Relive(n)), c, argc, base, FALSE), made)
  <2> HIDE DEF next, base, n
  <2> QED
    BY <1>2, <1>3 DEF InvokeMember
<1>5. HasCopy(slid, stack, next, base, argc)
  <2> HIDE DEF next, base, n
  <2> QED
    BY <1>2, CopiesAre DEF Contents
<1>6. /\ slid \in [Slots -> Cell] /\ \A x \in Slots : x < base => slid[x] = stack[x]
      /\ \A k \in 0 .. argc - 1 : base + k < StackSize => slid[base + k] = stack[next + k]
  BY <1>5 DEF HasCopy
<1> HIDE DEF slid
<1>7. /\ s \in [Slots -> Cell] /\ s[base - 1] = Object
      /\ \A x \in Slots : x # base - 1 => s[x] = slid[x]
  BY <1>2, <1>6, SlotFacts
<1> HIDE DEF s
<1>8. \A x \in Slots : x < base - 1 => s[x] = stack[x]
  BY <1>2, <1>6, <1>7, SlotFacts
<1>9. base = TopFrame.base + n
  OBVIOUS
<1> HIDE DEF n, base, next, made
<1>10. \/ Unwind
       \/ /\ nests' = nests /\ mode' = mode /\ heap' = heap \cup made
          /\ CallsOn(s, n, argc)
  BY <1>1, <1>2, <1>4, <1>7, <1>8, <1>9, CallOutcomeStep
<1>11. ASSUME CallsOn(s, n, argc) PROVE CallsWith(n, argc, 2)
  <2> SUFFICES ASSUME NEW f, Pushes(n, f), f.ret = base - 1, Arrived(stack', f, s, base, argc)
               PROVE  Gets(f, f.ret, f.ret + 2, argc)
    <3>1. TopFrame.base + n = base /\ TopFrame.base + n - 1 = base - 1
      BY <1>1, <1>2, <1>9, RegisterSlots
    <3> QED
      BY <1>11, <3>1 DEF CallsOn, CallsWith
  <2>1. s[base - 1] \in {Object, stack[f.ret]} /\ f.ret + 2 = next
    BY <1>2, <1>7
  <2>2. ASSUME NEW k \in 0 .. argc - 1 PROVE s[base + k] = stack[next + k]
    <3>1. base \in Nat /\ base + argc < top /\ top <= StackSize /\ top \in Nat /\ StackSize \in Nat
      BY <1>1, <1>2, RegisterSlots
    <3>2. base + k \in Slots /\ base + k < StackSize /\ base + k # base - 1
      BY <3>1 DEF Slots
    <3> QED
      BY <1>6, <1>7, <3>2
  <2> QED
    BY <2>1, <2>2, ArrivedGets
<1> QED
  BY <1>1, <1>10, <1>11 DEF n, made

\* A method's frame f at slot base: the receiver, then what s has in the slots after it.
InvokesOn(s, n, self, ret, base, total) ==
  \E f : /\ Pushes(n, f) /\ f.ret = ret /\ f.base = base /\ f.live = total
         /\ total > 0 /\ stack'[base] = self
         /\ \A k \in 1 .. total - 1 : stack'[base + k] = s[base + k]

LEMMA InvokeOutcomeStep ==
  ASSUME IInv, Running, NEW s \in [Slots -> Cell], NEW n \in Nat, n <= TopFrame.locals,
         NEW c \in Callees, c.kind = "method", NEW self \in Cell, NEW ret \in Nat, NEW base \in Nat,
         NEW total \in Nat, TopFrame.base + n <= base,
         \A x \in Slots : x < base /\ x # ret => s[x] = stack[x],
         CallOutcome(InvokeMethod(MachineOf(s, top, Relive(n)), c, self, ret, base, total), {})
  PROVE  \/ Unwind
         \/ nests' = nests /\ mode' = mode /\ InvokesOn(s, n, self, ret, base, total)
<1> DEFINE m2 == InvokeMethod(MachineOf(s, top, Relive(n)), c, self, ret, base, total)
<1>1. CASE ~Ok(m2) \/ Unwind
  BY <1>1 DEF CallOutcome
<1>2. CASE Ok(m2) /\ ~Unwind
  <2>1. Install(m2) /\ nests' = nests /\ mode' = mode
    BY <1>2 DEF CallOutcome
  <2>2. top \in 0 .. StackSize /\ Relive(n) \in Seq(FrameType) /\ Len(Relive(n)) = Len(frames)
    BY ReliveFacts, RunningFacts
  <2>3. \E f : InvokeMethodGives(m2, f, s, top, Relive(n), self, ret, base, total)
    BY <1>2, <2>2, InvokeMethodSlots
  <2> HIDE DEF m2
  <2>4. PICK f : InvokeMethodGives(m2, f, s, top, Relive(n), self, ret, base, total)
    BY <2>3
  <2>5. frames' = m2.frames /\ stack' = m2.stack
    BY <2>1 DEF Install
  <2>6. /\ frames' = Append(Relive(n), f) /\ Len(frames) < MaxFrames /\ f \in FrameType
        /\ f.live <= f.locals /\ WindowEnd(f) <= StackSize /\ f.base = base
        /\ stack' \in [Slots -> Cell] /\ \A x \in Slots : x < base => stack'[x] = s[x]
    BY <2>2, <2>4, <2>5 DEF InvokeMethodGives, NewFrame
  <2>7. /\ f.ret = ret /\ f.live = total /\ total > 0 /\ stack'[base] = self
        /\ \A k \in 1 .. total - 1 : stack'[base + k] = s[base + k]
    BY <2>4, <2>5 DEF InvokeMethodGives
  <2>8. ASSUME NEW x \in Slots, x < TopFrame.base + n, x # f.ret PROVE stack'[x] = stack[x]
    <3>1. x < base
      BY <2>8, RegisterSlots, SlotFacts
    <3> QED
      BY <2>6, <2>7, <2>8, <3>1
  <2>9. Pushes(n, f)
    BY <2>6, <2>8 DEF Pushes
  <2> QED
    BY <2>1, <2>6, <2>7, <2>9 DEF InvokesOn
<1> QED
  BY <1>1, <1>2

LEMMA InvokeStep ==
  ASSUME IInv, Contents, NEW c \in Callees, c.kind = "method", NEW argc \in Nat, Invoke(c, argc)
  PROVE  \/ Unwind
         \/ /\ nests' = nests /\ mode' = mode
            /\ argc + 1 < TopFrame.live /\ CallsWith(TopFrame.live - argc - 1, argc, 2)
<1> DEFINE n     == TopFrame.live - argc - 1
           ret   == TopFrame.base + n - 1
           base  == TopFrame.base + n
           total == argc + 1
<1>1. Running /\ argc + 1 < TopFrame.live
  BY DEF Invoke
<1>2. /\ n \in Nat /\ n <= TopFrame.locals /\ base \in Nat /\ ret \in Nat /\ total \in Nat
      /\ TopFrame.base + n <= base /\ TopFrame.live - argc - 2 + 1 = n
      /\ Register(TopFrame.live - argc - 2) = ret /\ Register(n) = base /\ ret \in Slots
      /\ ret + 1 = base
  BY <1>1, RegisterSlots DEF Register, Slots
<1>3. Allocated(n) = MachineOf(stack, top, Relive(n))
  BY <1>1, <1>2, ReliveFacts
<1>4. CallOutcome(InvokeMethod(MachineOf(stack, top, Relive(n)), c, stack[ret], ret, base, total), {})
  <2>1. CallOutcome(InvokeMethod(Allocated(TopFrame.live - argc - 2 + 1), c,
                                 stack[Register(TopFrame.live - argc - 2)],
                                 Register(TopFrame.live - argc - 2),
                                 Register(TopFrame.live - argc - 2 + 1), argc + 1), {})
    BY DEF Invoke
  <2> HIDE DEF n, ret, base
  <2> QED
    BY <1>2, <1>3, <2>1
<1>5. stack \in [Slots -> Cell] /\ stack[ret] \in Cell
  BY <1>2 DEF Contents
<1> HIDE DEF n, ret, base, total
<1>6. \/ Unwind
      \/ nests' = nests /\ mode' = mode /\ InvokesOn(stack, n, stack[ret], ret, base, total)
  BY <1>1, <1>2, <1>4, <1>5, InvokeOutcomeStep
<1>7. ASSUME InvokesOn(stack, n, stack[ret], ret, base, total) PROVE CallsWith(n, argc, 2)
  <2>1. PICK f : /\ Pushes(n, f) /\ f.ret = ret /\ f.base = base /\ f.live = total
                 /\ total > 0 /\ stack'[base] = stack[ret]
                 /\ \A k \in 1 .. total - 1 : stack'[base + k] = stack[base + k]
    BY <1>7 DEF InvokesOn
  <2>2. ASSUME NEW k \in 0 .. argc - 1 PROVE stack'[f.base + 1 + k] = stack[f.ret + 2 + k]
    <3>1. k + 1 \in 1 .. total - 1 /\ f.base + 1 + k = base + (k + 1) /\ f.ret + 2 + k = base + (k + 1)
      BY <1>2, <2>1 DEF total
    <3>2. stack'[base + (k + 1)] = stack[base + (k + 1)]
      BY <2>1, <3>1
    <3> QED
      BY <3>1, <3>2
  <2>3. f.live = argc + 1 /\ stack'[f.base] \in {Object, stack[f.ret]}
    BY <2>1 DEF total
  <2>4. Gets(f, f.ret, f.ret + 2, argc)
    BY <2>2, <2>3 DEF Gets
  <2> QED
    BY <2>1, <2>4 DEF CallsWith, ret
<1> QED
  BY <1>1, <1>6, <1>7 DEF n

\* An operator method found its operands, whatever they are in the caller.
Operates(lhs, rhs, dst, total) ==
  \E f : /\ Pushes(Larger(dst + 1, TopFrame.live), f)
         /\ f.ret = TopFrame.base + dst /\ f.live = total
         /\ stack'[f.base] = stack[TopFrame.base + lhs]
         /\ total = 2 => stack'[f.base + 1] = stack[TopFrame.base + rhs]

LEMMA OperatorStep ==
  ASSUME IInv, Contents, NEW c \in Callees, c.kind = "method", NEW lhs \in Nat, NEW rhs \in Nat,
         NEW dst \in Nat, NEW total \in {1, 2}, Operator(c, lhs, rhs, dst, total)
  PROVE  \/ Unwind
         \/ /\ nests' = nests /\ mode' = mode /\ lhs < TopFrame.live /\ rhs < TopFrame.live
            /\ dst <= TopFrame.live /\ dst < TopFrame.locals /\ Operates(lhs, rhs, dst, total)
<1> DEFINE n   == Larger(dst + 1, TopFrame.live)
           ret == TopFrame.base + dst
           x   == TopFrame.base + lhs
           y   == TopFrame.base + rhs
           s   == IF total = 2 THEN [stack EXCEPT ![top + 1] = stack[y]] ELSE stack
<1>1. /\ Running /\ lhs < TopFrame.live /\ rhs < TopFrame.live /\ dst <= TopFrame.live
      /\ dst < TopFrame.locals
  BY DEF Operator
<1>2. /\ n \in Nat /\ n <= TopFrame.locals /\ top \in Nat /\ ret \in Nat /\ total \in Nat
      /\ TopFrame.base + n <= top /\ x \in Slots /\ y \in Slots
  BY <1>1, RegisterSlots DEF Slots, Larger
<1>3. stack \in [Slots -> Cell] /\ stack[x] \in Cell /\ stack[y] \in Cell
  BY <1>2 DEF Contents
<1> HIDE DEF n
<1>4. /\ Allocated(n) = MachineOf(stack, top, Relive(n))
      /\ \A z : [Allocated(n) EXCEPT !.stack = z] = MachineOf(z, top, Relive(n))
  BY <1>1, <1>2, ReliveFacts
<1>5. CASE ~Unwind
  <2>1. /\ top + total < StackSize
        /\ CallOutcome(InvokeMethod(IF total = 2
                                    THEN [Allocated(n) EXCEPT !.stack[top + 1] = stack[y]]
                                    ELSE Allocated(n),
                                    c, stack[x], ret, top, total), {})
    BY <1>5 DEF Operator, Register, n
  <2>2. Allocated(n).stack = stack
    BY <1>4 DEF MachineOf
  <2>3. (IF total = 2 THEN [Allocated(n) EXCEPT !.stack[top + 1] = stack[y]] ELSE Allocated(n))
          = MachineOf(s, top, Relive(n))
    BY <1>4, <2>2
  <2>4. CallOutcome(InvokeMethod(MachineOf(s, top, Relive(n)), c, stack[x], ret, top, total), {})
    BY <2>1, <2>3
  <2>5. s \in [Slots -> Cell] /\ \A z \in Slots : z < top => s[z] = stack[z]
    <3> DEFINE s1 == [stack EXCEPT ![top + 1] = stack[y]]
    <3> HIDE DEF y
    <3>1. s1 \in [Slots -> Cell]
      BY <1>3
    <3>2. \A z \in Slots : z < top => s1[z] = stack[z]
      <4>1. \A z \in Slots : z < top => z # top + 1
        BY <1>2, SlotFacts
      <4> QED
        BY <1>3, <4>1
    <3> QED
      BY <1>3, <3>1, <3>2
  <2>6. total = 2 => s[top + 1] = stack[y]
    <3>1. top + 1 \in Slots
      BY <1>2, <2>1, SlotFacts DEF Slots
    <3> QED
      BY <1>3, <3>1
  <2> HIDE DEF s, ret, x, y
  <2>7. InvokesOn(s, n, stack[x], ret, top, total)
    BY <1>1, <1>2, <1>3, <1>5, <2>4, <2>5, InvokeOutcomeStep
  <2>8. nests' = nests /\ mode' = mode
    BY <1>5, <2>1 DEF CallOutcome
  <2>9. PICK f : /\ Pushes(n, f) /\ f.ret = ret /\ f.base = top /\ f.live = total
                 /\ stack'[top] = stack[x]
                 /\ \A k \in 1 .. total - 1 : stack'[top + k] = s[top + k]
    BY <2>7 DEF InvokesOn
  <2>10. total = 2 => stack'[f.base + 1] = stack[y]
    <3>1. total = 2 => 1 \in 1 .. total - 1
      OBVIOUS
    <3> QED
      BY <2>6, <2>9, <3>1
  <2>11. Operates(lhs, rhs, dst, total)
    BY <2>9, <2>10 DEF Operates, n, ret, x, y
  <2> QED
    BY <1>1, <2>8, <2>11
<1> QED
  BY <1>5, <1>1

LEMMA ImportModuleStep ==
  ASSUME IInv, Contents, NEW c \in Callees, ImportModule(c)
  PROVE  \/ Unwind
         \/ /\ nests' = nests /\ mode' = mode /\ TopFrame.live < TopFrame.locals
            /\ \E f : /\ Pushes(TopFrame.live + 1, f) /\ f.ret = TopFrame.base + TopFrame.live
                      /\ f.live = 0
<1> DEFINE n    == TopFrame.live + 1
           ret  == TopFrame.base + TopFrame.live
           high == top + c.locals + 1
           s    == [stack EXCEPT ![ret] = Object]
           m    == [Allocated(n) EXCEPT !.stack[ret] = Object]
           f    == Frame(top, c.locals, 0, ret, top, TRUE)
           m2   == IF Len(frames) >= MaxFrames \/ high > StackSize THEN Fault(m)
                   ELSE [stack |-> Clear(m.stack, top, high - 1), top |-> high, status |-> "ok",
                         frames |-> Append(m.frames, f)]
<1>1. Running /\ TopFrame.live < TopFrame.locals /\ CallOutcome(m2, {Object})
  BY DEF ImportModule, Register
<1>2. c.locals \in Nat /\ MaxFrames \in Nat /\ Len(frames) \in Nat
  BY <1>1, RunningFacts, ConstantsAssumption
<1> HIDE DEF m, f, m2
<1>3. /\ n \in Nat /\ n <= TopFrame.locals /\ top \in Nat /\ ret \in Nat /\ high \in Nat
      /\ TopFrame.base + n <= top /\ ret \in Slots /\ StackSize \in Nat
  <2>1. /\ TopFrame.base \in Nat /\ TopFrame.live \in Nat /\ TopFrame.locals \in Nat
        /\ TopFrame.base + TopFrame.locals + 1 <= top /\ TopFrame.live < TopFrame.locals
        /\ top \in Nat /\ top <= StackSize /\ StackSize \in Nat
    BY <1>1, RegisterSlots
  <2>2. n \in Nat /\ n <= TopFrame.locals /\ ret \in Nat /\ ret < top /\ TopFrame.base + n <= top
    BY <2>1
  <2>3. ret \in 0 .. StackSize - 1
    BY <2>1, <2>2
  <2> QED
    BY <1>2, <2>1, <2>2, <2>3, SMTT(30) DEF Slots
<1> USE DEF m, f, m2
<1>4. /\ f \in FrameType /\ f.live = 0 /\ f.locals = c.locals /\ f.base = top /\ f.ret = ret
  BY <1>2, <1>3 DEF Frame, FrameType
<1>5. m = MachineOf(s, top, Relive(n))
  <2>1. /\ Allocated(n) = MachineOf(stack, top, Relive(n))
        /\ \A z : [Allocated(n) EXCEPT !.stack = z] = MachineOf(z, top, Relive(n))
    BY <1>1, <1>3, ReliveFacts
  <2>2. Allocated(n).stack = stack
    BY <2>1 DEF MachineOf
  <2> QED
    BY <2>1, <2>2
<1>6. m.frames = Relive(n) /\ m.stack = s /\ ~Ok(Fault(m))
  BY <1>5 DEF MachineOf, Fault, Ok
<1> HIDE DEF n, m, f, ret
<1>7. s \in [Slots -> Cell] /\ \A x \in Slots : x # ret => s[x] = stack[x]
  BY SlotFacts DEF Contents
<1> HIDE DEF s
<1>8. CASE Ok(m2) /\ ~Unwind
  <2>1. Len(frames) < MaxFrames /\ high <= StackSize
    BY <1>2, <1>3, <1>6, <1>8
  <2>2. m2 = [stack |-> Clear(m.stack, top, high - 1), top |-> high, status |-> "ok",
              frames |-> Append(m.frames, f)]
    BY <1>2, <1>3, <2>1
  <2>3. m2.stack = Clear(s, top, high - 1) /\ m2.frames = Append(Relive(n), f)
    BY <1>6, <2>2
  <2> HIDE DEF m2, high
  <2>4. Install(m2) /\ nests' = nests /\ mode' = mode
    BY <1>1, <1>8 DEF CallOutcome
  <2>5. stack' = Clear(s, top, high - 1) /\ frames' = Append(Relive(n), f)
    BY <2>3, <2>4 DEF Install
  <2>6. stack' \in [Slots -> Cell] /\ \A x \in Slots : x < top => stack'[x] = s[x]
    BY <1>3, <1>7, <2>5, ClearFacts
  <2>7. ASSUME NEW x \in Slots, x < TopFrame.base + n, x # f.ret PROVE stack'[x] = stack[x]
    <3>1. x < top
      BY <1>1, <1>3, <2>7, RegisterSlots, SlotFacts
    <3> QED
      BY <1>4, <1>7, <2>6, <2>7, <3>1
  <2>8. f.live <= f.locals /\ WindowEnd(f) <= StackSize /\ TopFrame.base + n <= f.base
    BY <1>2, <1>3, <1>4, <2>1 DEF WindowEnd, high
  <2>9. Pushes(n, f)
    BY <1>3, <1>4, <2>1, <2>5, <2>6, <2>7, <2>8 DEF Pushes
  <2> QED
    BY <1>1, <1>4, <2>4, <2>9 DEF n, ret
<1> QED
  BY <1>1, <1>8 DEF CallOutcome
-----------------------------------------------------------------------------
\* The innermost frame is gone; v is where it was to return its result.
Pops(v) ==
  /\ frames' = Front(frames) /\ stack' \in [Slots -> Cell]
  /\ TopFrame.ret \in Slots => stack'[TopFrame.ret] = v
  /\ \A x \in Slots : x < TopFrame.base /\ x # TopFrame.ret => stack'[x] = stack[x]

\* ... and whoever waited for it goes on.
Ends(v) ==
  /\ Pops(v) /\ nests' = nests
  /\ mode' = IF Len(frames) - 1 = StopDepth THEN (IF nests = <<>> THEN "done" ELSE "native")
             ELSE mode

\* Frame f is in the place of the innermost one.
Replaces(f) ==
  /\ frames' = Append(Front(frames), f) /\ f \in FrameType
  /\ f.live <= f.locals /\ WindowEnd(f) <= StackSize
  /\ f.base = TopFrame.base /\ f.ret = TopFrame.ret
  /\ stack' \in [Slots -> Cell]
  /\ \A x \in Slots : x < TopFrame.base => stack'[x] = stack[x]

LEMMA PoppedSlots ==
  ASSUME IInv, NEW x, NEW t, NEW v, Install(PopFrame(MachineOf(x, t, frames), v))
  PROVE  frames' = Front(frames) /\ stack' = [x EXCEPT ![TopFrame.ret] = v]
<1>1. PopFrame(MachineOf(x, t, frames), v)
        = MachineOf([x EXCEPT ![Last(frames).ret] = v], Last(frames).callerTop, Front(frames))
  BY PopFrameIs
<1>2. Last(frames) = TopFrame
  BY DEF Last, TopFrame
<1>3. Install(MachineOf([x EXCEPT ![Last(frames).ret] = v], Last(frames).callerTop, Front(frames)))
  BY <1>1
<1>4. frames' = Front(frames) /\ stack' = [x EXCEPT ![Last(frames).ret] = v]
  BY <1>3 DEF Install, MachineOf
<1> QED
  BY <1>2, <1>4

LEMMA PopsFacts ==
  ASSUME IInv, Running, NEW s \in [Slots -> Cell], NEW t, NEW v \in Cell,
         \A x \in Slots : x < TopFrame.base => s[x] = stack[x],
         Install(PopFrame(MachineOf(s, t, frames), v))
  PROVE  Pops(v)
<1> DEFINE r == TopFrame.ret
<1>1. frames' = Front(frames) /\ stack' = [s EXCEPT ![r] = v]
  BY PoppedSlots
<1> HIDE DEF r
<1>2. stack' \in [Slots -> Cell] /\ (r \in Slots => stack'[r] = v)
  BY <1>1
<1>3. \A x \in Slots : x < TopFrame.base /\ x # r => stack'[x] = stack[x]
  BY <1>1
<1> QED
  BY <1>1, <1>2, <1>3 DEF Pops, r

LEMMA ReturnStep ==
  ASSUME IInv, Contents, NEW v \in Cell, Return(v)
  PROVE  /\ v \in {stack[TopFrame.base + r] : r \in 0 .. TopFrame.live - 1} \cup {Nil}
         /\ Ends(v) \/ Ends(Object)
<1> DEFINE w == IF TopFrame.toplevel /\ Len(frames) > 1 THEN Object ELSE v
           m == PopFrame(Machine, w)
<1>1. /\ Running /\ v \in {stack[TopFrame.base + r] : r \in 0 .. TopFrame.live - 1} \cup {Nil}
      /\ Install(m) /\ nests' = nests
      /\ IF Len(m.frames) = StopDepth \/ m.frames = <<>> THEN LeaveExecute ELSE mode' = mode
  BY DEF Return, Register
<1>2. /\ Machine = MachineOf(stack, top, frames) /\ Len(frames) \in Nat \ {0}
      /\ Len(frames) > StopDepth /\ StopDepth \in Nat
  BY <1>1, RunningFacts
<1>3. w \in Cell /\ stack \in [Slots -> Cell]
  BY SlotFacts DEF Contents
<1>4. Pops(w)
  <2> HIDE DEF w
  <2> QED
    BY <1>1, <1>2, <1>3, PopsFacts
<1>5. m.frames = Front(frames) /\ Len(Front(frames)) = Len(frames) - 1
  <2> HIDE DEF w
  <2> QED
    BY <1>1, <1>2, PopInstalled
<1> HIDE DEF m
<1>6. (Len(m.frames) = StopDepth \/ m.frames = <<>>) <=> Len(frames) - 1 = StopDepth
  BY <1>2, <1>5
<1>7. mode' = IF Len(frames) - 1 = StopDepth THEN (IF nests = <<>> THEN "done" ELSE "native") ELSE mode
  BY <1>1, <1>6 DEF LeaveExecute
<1>8. Ends(w)
  <2> HIDE DEF w
  <2> QED
    BY <1>1, <1>4, <1>7 DEF Ends
<1> QED
  BY <1>1, <1>8

LEMMA TailCompleteStep ==
  ASSUME SyncTails = FALSE, IInv, Running, TailMayComplete(nests),
         NEW s \in [Slots -> Cell], NEW t, NEW v \in Cell,
         \A x \in Slots : x < TopFrame.base => s[x] = stack[x],
         TailComplete(PopFrame(MachineOf(s, t, frames), v))
  PROVE  Ends(v) /\ Len(frames) - 1 # StopDepth
<1> DEFINE m == PopFrame(MachineOf(s, t, frames), v)
<1>1. Install(m) /\ (m.frames # <<>> => mode' = mode) /\ nests' = nests
  BY DEF TailComplete
<1>2. Pops(v)
  BY <1>1, PopsFacts
<1>3. m.frames = Front(frames) /\ Len(Front(frames)) = Len(frames) - 1
  BY <1>1, PopInstalled
<1> HIDE DEF m
<1>4. Len(frames) - 1 > StopDepth /\ StopDepth \in Nat /\ Len(frames) \in Nat
  BY RunningFacts DEF TailMayComplete, StopDepth
<1>5. m.frames # <<>>
  BY <1>3, <1>4
<1>6. Len(frames) - 1 # StopDepth
  BY <1>4
<1> QED
  BY <1>1, <1>2, <1>5, <1>6 DEF Ends
-----------------------------------------------------------------------------
\* A tail call's callee has the caller's frame and its arguments, or it needed none
\* and the caller's frame is gone.
TailCalls(argc, base) ==
  \/ nests' = nests /\ mode' = mode /\ \E f : Replaces(f) /\ Gets(f, base - 1, base, argc)
  \/ Ends(Object) /\ Len(frames) - 1 # StopDepth

LEMMA ReplacesFacts ==
  ASSUME IInv, Running, NEW m2, NEW f, TookOver(m2, f, frames, stack), Install(m2)
  PROVE  Replaces(f) /\ stack' = m2.stack
<1>1. Last(frames) = TopFrame
  BY DEF Last, TopFrame
<1>2. frames' = m2.frames /\ stack' = m2.stack
  BY DEF Install
<1>3. /\ m2.frames = Append(Front(frames), f) /\ f \in FrameType
      /\ f.live <= f.locals /\ WindowEnd(f) <= StackSize
      /\ f.base = TopFrame.base /\ f.ret = TopFrame.ret
      /\ m2.stack \in [Slots -> Cell] /\ \A x \in Slots : x < TopFrame.base => m2.stack[x] = stack[x]
  BY <1>1 DEF TookOver, NewFrame
<1> QED
  BY <1>2, <1>3 DEF Replaces

LEMMA TailCallStep ==
  ASSUME SyncTails = FALSE, IInv, Contents, NEW c \in Callees, NEW argc \in Nat, TailCall(c, argc)
  PROVE  \/ Unwind
         \/ /\ argc < TopFrame.live
            /\ TailCalls(argc, TopFrame.base + (TopFrame.live - argc))
<1> DEFINE base == TopFrame.base + (TopFrame.live - argc)
           m    == CallValue(MachineOf(stack, top, frames), c, argc, base, TRUE)
<1>1. Running /\ argc < TopFrame.live
  BY DEF TailCall
<1>2. /\ Machine = MachineOf(stack, top, frames) /\ frames \in Seq(FrameType) /\ frames # <<>>
      /\ top \in 0 .. StackSize /\ Last(frames) = TopFrame
  BY <1>1, RunningFacts DEF Last, TopFrame
<1>3. base \in Nat \ {0} /\ TopFrame.base < base /\ base + argc <= top
  BY <1>1, RegisterSlots
<1>4. \/ Unwind
      \/ c.kind # "native" /\ c.kind # "class" /\ Ok(m) /\ CallOutcome(m, Made(c))
      \/ c.kind = "class" /\ Ok(m) /\ TailMayComplete(nests) /\ TailComplete(m)
      \/ TailMayComplete(nests) /\ TailComplete(PopFrame(MachineOf(stack, top, frames), Object))
  BY <1>2 DEF TailCall, Register, CallOutcome
<1>5. stack \in [Slots -> Cell] /\ Object \in Cell
  BY SlotFacts DEF Contents
<1> HIDE DEF base
<1>6. CASE c.kind # "native" /\ c.kind # "class" /\ Ok(m) /\ CallOutcome(m, Made(c)) /\ ~Unwind
  <2>1. CallValueTailGives(m, stack, top, frames, c, argc, base)
    BY <1>2, <1>3, <1>5, <1>6, CallValueTailSlots
  <2> HIDE DEF m
  <2>2. Install(m) /\ nests' = nests /\ mode' = mode
    BY <1>6 DEF CallOutcome
  <2>3. PICK f : TookOver(m, f, frames, stack) /\ Arrived(m.stack, f, stack, base, argc)
    BY <1>6, <2>1 DEF CallValueTailGives
  <2>4. Replaces(f) /\ stack' = m.stack
    BY <1>1, <2>2, <2>3, ReplacesFacts
  <2>5. Gets(f, base - 1, base, argc)
    <3>1. Arrived(stack', f, stack, base, argc)
      BY <2>3, <2>4
    <3> QED
      BY <3>1, ArrivedGets
  <2>6. TailCalls(argc, base)
    BY <2>2, <2>4, <2>5 DEF TailCalls
  <2> QED
    BY <1>1, <2>6 DEF base
<1>7. ASSUME TailMayComplete(nests), TailComplete(PopFrame(MachineOf(stack, top, frames), Object))
      PROVE  TailCalls(argc, base)
  <2>1. Ends(Object) /\ Len(frames) - 1 # StopDepth
    BY <1>1, <1>5, <1>7, TailCompleteStep
  <2> QED
    BY <2>1 DEF TailCalls
<1>8. CASE c.kind = "class" /\ Ok(m) /\ TailMayComplete(nests) /\ TailComplete(m)
  <2>1. CallValueTailGives(m, stack, top, frames, c, argc, base)
    BY <1>2, <1>3, <1>5, <1>8, CallValueTailSlots
  <2> HIDE DEF m
  <2>2. m = PopFrame(MachineOf(stack, top, frames), Object)
    BY <1>8, <2>1 DEF CallValueTailGives
  <2>3. TailCalls(argc, base)
    BY <1>7, <1>8, <2>2
  <2> QED
    BY <1>1, <2>3 DEF base
<1>9. CASE /\ TailMayComplete(nests)
           /\ TailComplete(PopFrame(MachineOf(stack, top, frames), Object))
  <2>1. TailCalls(argc, base)
    BY <1>7, <1>9
  <2> QED
    BY <1>1, <2>1 DEF base
<1> HIDE DEF m
<1> QED
  BY <1>4, <1>6, <1>8, <1>9

\* Slots s have the callee and argc arguments of call_value_sync above the live top.
Staged(s, base, argc) ==
  /\ s \in [Slots -> Cell] /\ s[top] = stack[base - 1]
  /\ \A x \in Slots : x < top => s[x] = stack[x]
  /\ \A k \in 0 .. argc - 1 : s[top + 1 + k] = stack[base + k]

LEMMA StagedSlots ==
  ASSUME IInv, Contents, Running, NEW argc \in Nat, NEW base \in Nat \ {0}, base + argc <= top,
         top + argc + 1 <= StackSize
  PROVE  Staged(CopyUp([stack EXCEPT ![top] = stack[base - 1]], base, top + 1, argc), base, argc)
<1> DEFINE next == top + 1
           s1   == [stack EXCEPT ![top] = stack[base - 1]]
           s    == CopyUp(s1, base, next, argc)
<1>1. /\ top \in Nat /\ StackSize \in Nat /\ top \in Slots /\ base - 1 \in Slots
      /\ next \in Nat /\ base \in Nat /\ base + argc <= next /\ base + argc <= StackSize
  <2>1. top \in Nat /\ StackSize \in Nat
    BY RegisterSlots
  <2> QED
    BY <2>1 DEF Slots
<1>2. stack \in [Slots -> Cell] /\ stack[base - 1] \in Cell
  BY <1>1 DEF Contents
<1>3. /\ s1 \in [Slots -> Cell] /\ s1[top] = stack[base - 1]
      /\ \A x \in Slots : x # top => s1[x] = stack[x]
  BY <1>1, <1>2
<1> HIDE DEF s1, next
<1>4. HasCopy(s, s1, base, next, argc)
  BY <1>1, <1>3, CopiesAre
<1>5. /\ s \in [Slots -> Cell] /\ \A x \in Slots : x < next => s[x] = s1[x]
      /\ \A k \in 0 .. argc - 1 : next + k < StackSize => s[next + k] = s1[base + k]
  BY <1>4 DEF HasCopy
<1> HIDE DEF s
<1>6. s[top] = stack[base - 1] /\ \A x \in Slots : x < top => s[x] = stack[x]
  BY <1>1, <1>3, <1>5, SlotFacts DEF next
<1>7. ASSUME NEW k \in 0 .. argc - 1 PROVE s[top + 1 + k] = stack[base + k]
  <2>1. next + k < StackSize /\ base + k \in Slots /\ base + k # top /\ top + 1 + k = next + k
    BY <1>1 DEF next, Slots
  <2> QED
    BY <1>3, <1>5, <2>1
<1>8. Staged(s, base, argc)
  BY <1>5, <1>6, <1>7 DEF Staged
<1> QED
  BY <1>8 DEF s, s1, next

LEMMA ReliveSame == ASSUME IInv, Running PROVE frames = Relive(TopFrame.live)
<1>1. /\ Relive(TopFrame.live) \in Seq(FrameType) /\ Len(Relive(TopFrame.live)) = Len(frames)
      /\ frames \in Seq(FrameType)
  BY RunningFacts, RegisterSlots, ReliveFacts
<1>2. /\ List(frames, Len(frames)) /\ List(Relive(TopFrame.live), Len(frames))
      /\ Len(frames) \in 1 .. Len(frames)
  BY <1>1, SeqIsList, RunningFacts
<1> DEFINE last == [TopFrame EXCEPT !.live = TopFrame.live]
<1>3. last = frames[Len(frames)]
  BY RunningFacts DEF FrameType
<1> HIDE DEF last
<1>4. Relive(TopFrame.live) = [frames EXCEPT ![Len(frames)] = last]
  BY DEF Relive, last, TopFrame
<1>5. \A i \in 1 .. Len(frames) : Relive(TopFrame.live)[i] = frames[i]
  BY <1>2, <1>3, <1>4, ExceptList
<1> QED
  BY <1>2, <1>5, ListEqual

\* A native that calls back: its callee runs above it, or answered at once and the native
\* returns with an object.
CallsBack(c, argc, tail, base, n) ==
  \/ /\ top < StackSize /\ mode' = mode
     /\ nests' = Append(nests, Nest(Len(frames), top, base, tail))
     /\ \E f : /\ Pushes(n, f) /\ f.ret = top
               /\ c.kind = "constructor" \/ Gets(f, base - 1, base, argc)
  \/ ~tail /\ nests' = nests /\ mode' = mode /\ Answers(n)
  \/ tail /\ Ends(Object) /\ Len(frames) - 1 # StopDepth

LEMMA CallSyncStep ==
  ASSUME SyncTails = FALSE, IInv, Contents, NEW c \in Callees, NEW argc \in Nat,
         NEW tail \in BOOLEAN, CallSync(c, argc, tail)
  PROVE  \/ Unwind
         \/ /\ argc < TopFrame.live
            /\ CallsBack(c, argc, tail, TopFrame.base + (TopFrame.live - argc),
                         IF tail THEN TopFrame.live ELSE TopFrame.live - argc)
<1> DEFINE k    == TopFrame.live - argc
           n    == IF tail THEN TopFrame.live ELSE k
           g    == IF tail THEN frames ELSE Relive(k)
           base == TopFrame.base + k
           slot == top + 1
           t    == top + argc + 1
           s2   == CopyUp([stack EXCEPT ![top] = stack[base - 1]], base, slot, argc)
           m2   == CallValue(MachineOf(s2, t, g), c, argc, slot, FALSE)
<1>1. Running /\ argc < TopFrame.live
  BY DEF CallSync
<1>2. /\ TopFrame.base \in Nat /\ TopFrame.live \in Nat /\ TopFrame.locals \in Nat
      /\ k \in Nat \ {0} /\ k \in Nat /\ k <= TopFrame.locals /\ n \in Nat \ {0} /\ n \in Nat
      /\ n <= TopFrame.locals
      /\ base \in Nat \ {0} /\ base + argc <= top /\ top \in Nat /\ StackSize \in Nat
      /\ slot \in Nat \ {0} /\ slot + argc <= t /\ slot - 1 = top
      /\ TopFrame.base + n <= top /\ TopFrame.live - argc - 1 + 1 = k
      /\ base - 1 < top /\ TopFrame.base < base
  BY <1>1, RegisterSlots
<1>3. Machine = MachineOf(stack, top, frames) /\ Allocated(k) = MachineOf(stack, top, Relive(k))
  BY <1>1, <1>2, RunningFacts, ReliveFacts
<1>4. g = Relive(n) /\ g \in Seq(FrameType) /\ Len(g) = Len(frames) /\ Len(frames) \in Nat
  <2>1. Relive(n) \in Seq(FrameType) /\ Len(Relive(n)) = Len(frames) /\ Len(frames) \in Nat
    BY <1>1, <1>2, RunningFacts, ReliveFacts
  <2>2. g = Relive(n)
    BY <1>1, ReliveSame
  <2> QED
    BY <2>1, <2>2
<1> HIDE DEF g, s2, t
<1>5. (IF tail THEN Machine ELSE Allocated(k)) = MachineOf(stack, top, g)
  BY <1>3 DEF g
<1>6. [(IF tail THEN Machine ELSE Allocated(k)) EXCEPT !.stack = s2, !.top = t]
        = MachineOf(s2, t, g)
  <2> DEFINE m == IF tail THEN Machine ELSE Allocated(k)
  <2>1. m = MachineOf(stack, top, g)
    BY <1>5
  <2> HIDE DEF m, k
  <2>2. [MachineOf(stack, top, g) EXCEPT !.stack = s2, !.top = t] = MachineOf(s2, t, g)
    <3>1. [MachineOf(stack, top, g) EXCEPT !.stack = s2, !.top = t]
            = [[MachineOf(stack, top, g) EXCEPT !.stack = s2] EXCEPT !.top = t]
      OBVIOUS
    <3>2. [MachineOf(stack, top, g) EXCEPT !.stack = s2] = MachineOf(s2, top, g)
      BY DEF MachineOf
    <3>3. [MachineOf(s2, top, g) EXCEPT !.top = t] = MachineOf(s2, t, g)
      BY DEF MachineOf
    <3> QED
      BY <3>1, <3>2, <3>3
  <2>3. [m EXCEPT !.stack = s2, !.top = t] = MachineOf(s2, t, g)
    BY <2>1, <2>2
  <2> QED
    BY <2>3 DEF m
<1>7. \/ Unwind
      \/ /\ t <= StackSize /\ Ok(m2) /\ Len(m2.frames) > Len(frames)
         /\ Install(m2) /\ nests' = Append(nests, Nest(Len(frames), top, base, tail))
         /\ mode' = mode
      \/ /\ t <= StackSize /\ Ok(m2) /\ ~(Len(m2.frames) > Len(frames)) /\ ~tail
         /\ Install([m2 EXCEPT !.stack[base - 1] = m2.stack[top], !.top = top])
         /\ nests' = nests /\ mode' = mode
      \/ /\ t <= StackSize /\ Ok(m2) /\ ~(Len(m2.frames) > Len(frames)) /\ tail
         /\ TailMayComplete(nests)
         /\ TailComplete(PopFrame([m2 EXCEPT !.top = top], m2.stack[top]))
  <2> HIDE DEF k
  <2> USE DEF s2, t
  <2> QED
    BY <1>2, <1>6 DEF CallSync, Register
<1> HIDE DEF n, k, base, m2
<1> SUFFICES ASSUME ~Unwind PROVE CallsBack(c, argc, tail, base, n)
  BY <1>1 DEF base, n, k
<1>8. t <= StackSize /\ Ok(m2)
  BY <1>7
<1>9. Staged(s2, base, argc)
  BY <1>1, <1>2, <1>8, StagedSlots DEF s2, t
<1>10. CallValueGives(m2, s2, t, g, c, argc, slot)
  <2>1. t \in 0 .. StackSize /\ s2 \in [Slots -> Cell]
    BY <1>2, <1>8, <1>9 DEF t, Staged
  <2> HIDE DEF slot
  <2> QED
    BY <1>2, <1>4, <1>8, <2>1, CallValueSlots DEF m2
<1>11. CASE c.kind \in {"native", "class"}
  <2> DEFINE x == [s2 EXCEPT ![top] = Object]
  <2>1. m2 = MachineOf(x, t, g)
    BY <1>2, <1>10, <1>11 DEF CallValueGives
  <2>2. top \in Slots /\ base - 1 \in Slots /\ t - 1 >= top
    BY <1>2, <1>8 DEF t, Slots
  <2>3. /\ x \in [Slots -> Cell] /\ x[top] = Object
        /\ \A i \in Slots : i # top => x[i] = s2[i]
    BY <1>9, <2>2, SlotFacts DEF Staged
  <2>4. \A i \in Slots : i < top => x[i] = stack[i]
    BY <1>2, <1>9, <2>3, SlotFacts DEF Staged
  <2> HIDE DEF x
  <2>5. Len(m2.frames) = Len(frames) /\ m2.stack = x
    BY <1>4, <2>1 DEF MachineOf
  <2>6. ~(Len(m2.frames) > Len(frames))
    BY <1>4, <2>5
  <2>7. CASE ~tail
    <3>1. Install([m2 EXCEPT !.stack[base - 1] = m2.stack[top], !.top = top]) /\ nests' = nests /\ mode' = mode
      BY <1>7, <2>6, <2>7
    <3> DEFINE y == [x EXCEPT ![base - 1] = Object]
    <3>2. [m2 EXCEPT !.stack[base - 1] = m2.stack[top], !.top = top] = [m2 EXCEPT !.stack = y, !.top = top]
      BY <2>3, <2>5
    <3>3. y \in [Slots -> Cell] /\ y[base - 1] = Object /\ \A i \in Slots : i # base - 1 => y[i] = x[i]
      BY <2>2, <2>3, SlotFacts
    <3> HIDE DEF y
    <3>4. [m2 EXCEPT !.stack = y, !.top = top] = MachineOf(y, top, g)
      <4>1. [MachineOf(x, t, g) EXCEPT !.stack = y, !.top = top] = MachineOf(y, top, g)
        <5>1. [MachineOf(x, t, g) EXCEPT !.stack = y, !.top = top]
                = [[MachineOf(x, t, g) EXCEPT !.stack = y] EXCEPT !.top = top]
          OBVIOUS
        <5>2. [MachineOf(x, t, g) EXCEPT !.stack = y] = MachineOf(y, t, g)
          BY DEF MachineOf
        <5>3. [MachineOf(y, t, g) EXCEPT !.top = top] = MachineOf(y, top, g)
          BY DEF MachineOf
        <5> QED
          BY <5>1, <5>2, <5>3
      <4> QED
        BY <2>1, <4>1
    <3>5. Install(MachineOf(y, top, g))
      BY <3>1, <3>2, <3>4
    <3>6. frames' = g /\ stack' = y
      BY <3>5 DEF Install, MachineOf
    <3>7. ASSUME NEW i \in Slots, i < base - 1 PROVE stack'[i] = stack[i]
      <4>1. i < top /\ i # base - 1
        BY <1>2, <3>7, SlotFacts
      <4> QED
        BY <2>4, <3>3, <3>6, <4>1
    <3>8. TopFrame.base + n - 1 = base - 1
      BY <1>2, <2>7 DEF n, base
    <3>9. Answers(n)
      BY <1>2, <1>4, <3>3, <3>6, <3>7, <3>8 DEF Answers
    <3> QED
      BY <2>7, <3>1, <3>9 DEF CallsBack
  <2>8. CASE tail
    <3>1. TailMayComplete(nests) /\ TailComplete(PopFrame([m2 EXCEPT !.top = top], m2.stack[top]))
      BY <1>7, <2>6, <2>8
    <3>2. g = frames
      BY <2>8 DEF g
    <3>3. [m2 EXCEPT !.top = top] = MachineOf(x, top, frames)
      BY <2>1, <3>2 DEF MachineOf
    <3>4. TailComplete(PopFrame(MachineOf(x, top, frames), Object))
      BY <2>3, <2>5, <3>1, <3>3
    <3>5. ASSUME NEW i \in Slots, i < TopFrame.base PROVE x[i] = stack[i]
      <4>1. i < top
        BY <1>2, <3>5, SlotFacts
      <4> QED
        BY <2>4, <4>1
    <3>6. Ends(Object) /\ Len(frames) - 1 # StopDepth
      BY <1>1, <2>3, <3>1, <3>4, <3>5, SlotFacts, TailCompleteStep
    <3> QED
      BY <2>8, <3>6 DEF CallsBack
  <2> QED
    BY <2>7, <2>8
<1>12. CASE c.kind \notin {"native", "class"}
  <2>1. PICK f : /\ Called(m2, f, g, s2, t, slot)
                 /\ c.kind = "constructor" \/ Arrived(m2.stack, f, s2, slot, argc)
    BY <1>10, <1>12 DEF CallValueGives
  <2>2. /\ m2.frames = Append(g, f) /\ Len(g) < MaxFrames /\ f.ret = top /\ slot <= f.base
        /\ f \in FrameType /\ f.live <= f.locals /\ WindowEnd(f) <= StackSize
        /\ m2.stack \in [Slots -> Cell] /\ \A i \in Slots : i < slot => m2.stack[i] = s2[i]
    BY <1>2, <2>1 DEF Called, NewFrame
  <2>3. Len(m2.frames) > Len(frames)
    <3>1. Len(m2.frames) = Len(g) + 1
      BY <1>4, <2>2, AppendFacts
    <3> QED
      BY <1>4, <3>1
  <2>4. /\ Install(m2) /\ nests' = Append(nests, Nest(Len(frames), top, base, tail))
        /\ mode' = mode
    BY <1>7, <2>3
  <2>5. frames' = m2.frames /\ stack' = m2.stack
    BY <2>4 DEF Install
  <2>6. top < StackSize
    BY <1>2, <1>8 DEF t
  <2>7. ASSUME NEW i \in Slots, i < TopFrame.base + n, i # f.ret PROVE stack'[i] = stack[i]
    <3>1. i < top /\ i < slot
      BY <1>2, <2>7, SlotFacts
    <3> QED
      BY <1>9, <2>2, <2>5, <3>1 DEF Staged
  <2>8. f.base \in Nat /\ TopFrame.base + n <= f.base
    <3>1. f.base \in Nat
      BY <2>2 DEF FrameType
    <3> QED
      BY <1>2, <2>2, <3>1, SMTT(30)
  <2>9. Pushes(n, f)
    BY <1>2, <1>4, <2>2, <2>5, <2>7, <2>8 DEF Pushes
  <2>10. ASSUME Arrived(m2.stack, f, s2, slot, argc) PROVE Gets(f, base - 1, base, argc)
    <3>1. Arrived(stack', f, s2, slot, argc)
      BY <2>5, <2>10
    <3>2. s2[slot - 1] \in {Object, stack[base - 1]}
      BY <1>2, <1>9 DEF Staged
    <3>3. \A i \in 0 .. argc - 1 : s2[slot + i] = stack[base + i]
      BY <1>9 DEF Staged
    <3> HIDE DEF slot
    <3> QED
      BY <3>1, <3>2, <3>3, ArrivedGets
  <2> QED
    BY <2>1, <2>2, <2>4, <2>6, <2>9, <2>10 DEF CallsBack
<1> QED
  BY <1>11, <1>12

\* The native goes on: its caller gets v, or the frame that tail-called the native ends with v.
Resumes(v) ==
  /\ mode = "native" /\ frames # <<>> /\ nests # <<>>
  /\ v \in {stack[Last(nests).savedTop], Object}
  /\ nests' = Front(nests) /\ mode' = "execute"
  /\ \/ /\ ~Last(nests).tail /\ frames' = frames
        /\ stack' = [stack EXCEPT ![Last(nests).base - 1] = v]
     \/ /\ Last(nests).tail /\ frames' = Front(frames)
        /\ stack' = [stack EXCEPT ![TopFrame.ret] = v]
        /\ Len(frames) - 1 > StopOf(Front(nests))

\* The frames are those of the innermost native's callers.
LEMMA NativeFacts ==
  ASSUME IInv, mode = "native"
  PROVE  /\ nests # <<>> /\ frames # <<>> /\ Len(frames) = Last(nests).stop
         /\ Len(frames) \in Nat \ {0} /\ StopOf(Front(nests)) < Len(frames)
         /\ StopOf(Front(nests)) \in Nat
         /\ Last(nests) = nests[Len(nests)] /\ Last(nests) \in NestType
         /\ Len(nests) \in Nat \ {0}
         /\ nests \in Seq(NestType) /\ frames \in Seq(FrameType)
<1>1. nests # <<>> /\ nests \in Seq(NestType) /\ frames \in Seq(FrameType) /\ Len(frames) = StopDepth
  BY DEF IInv, Shape, NestedRunsAboveCaller
<1>2. /\ Last(nests) = nests[Len(nests)] /\ Last(nests) \in NestType /\ Len(nests) \in Nat \ {0}
      /\ Len(Front(nests)) = Len(nests) - 1 /\ Front(nests) \in Seq(NestType)
      /\ \A j \in 1 .. Len(nests) - 1 : Front(nests)[j] = nests[j]
  BY <1>1, FrontFacts
<1>3. Len(frames) = Last(nests).stop
  BY <1>1 DEF StopDepth, StopOf
<1>4. Len(frames) \in Nat \ {0} /\ frames # <<>>
  <2>1. nests[Len(nests)].stop \in 1 .. Len(frames) /\ Len(frames) \in Nat
    BY <1>1, <1>2, LenProperties DEF IInv, Covered
  <2> QED
    BY <2>1, <1>1, EmptySeq
<1>5. StopOf(Front(nests)) < Len(frames) /\ StopOf(Front(nests)) \in Nat
  <2>1. CASE Front(nests) = <<>>
    BY <1>4, <2>1 DEF StopOf
  <2>2. CASE Front(nests) # <<>>
    <3>1. /\ Last(Front(nests)) = Front(nests)[Len(Front(nests))]
          /\ Len(Front(nests)) \in Nat \ {0}
      BY <1>2, <2>2, FrontFacts
    <3>2. /\ Last(Front(nests)) = nests[Len(nests) - 1] /\ Len(nests) - 1 \in 1 .. Len(nests)
          /\ Len(nests) \in 1 .. Len(nests) /\ Len(nests) - 1 < Len(nests)
      BY <1>2, <3>1
    <3>3. nests[Len(nests) - 1].stop < nests[Len(nests)].stop
      BY <3>2 DEF IInv, NestedRunsAboveCaller
    <3>4. nests[Len(nests) - 1].stop \in Nat
      <4>1. nests[Len(nests) - 1] \in NestType
        BY <1>1, <3>2, ElementOfSeq
      <4> QED
        BY <4>1 DEF NestType
    <3> QED
      BY <1>2, <1>3, <2>2, <3>2, <3>3, <3>4 DEF StopOf
  <2> QED
    BY <2>1, <2>2
<1> QED
  BY <1>1, <1>2, <1>3, <1>4, <1>5

LEMMA ResumeNativeStep ==
  ASSUME SyncTails = FALSE, IInv, NEW v, ResumeNative(v)
  PROVE  Resumes(v)
<1> DEFINE n == Last(nests)
           m == [Machine EXCEPT !.top = n.savedTop]
<1>1. /\ mode = "native" /\ v \in {stack[n.savedTop], Object} /\ nests' = Front(nests)
      /\ \/ /\ frames = <<>>
            /\ mode' = "asserted"
            /\ Install(IF n.tail THEN m ELSE [m EXCEPT !.stack[n.base - 1] = v])
         \/ /\ frames # <<>> /\ ~n.tail
            /\ mode' = "execute"
            /\ Install([m EXCEPT !.stack[n.base - 1] = v])
         \/ /\ frames # <<>> /\ n.tail
            /\ TailMayComplete(Front(nests))
            /\ Install(PopFrame(m, v))
            /\ mode' = IF Len(frames) > 1 THEN "execute"
                       ELSE IF nests' = <<>> THEN "done" ELSE "native"
  BY DEF ResumeNative
<1>2. /\ nests # <<>> /\ frames # <<>> /\ Len(frames) \in Nat \ {0}
      /\ StopOf(Front(nests)) < Len(frames) /\ StopOf(Front(nests)) \in Nat
  BY <1>1, NativeFacts
<1>3. m = MachineOf(stack, n.savedTop, frames)
  BY DEF Machine, MachineOf
<1> HIDE DEF m, n
<1>4. CASE ~n.tail
  <2>1. mode' = "execute" /\ Install([m EXCEPT !.stack[n.base - 1] = v])
    BY <1>1, <1>2, <1>4
  <2>2. frames' = frames /\ stack' = [stack EXCEPT ![n.base - 1] = v]
    BY <1>3, <2>1 DEF Install, MachineOf
  <2> QED
    BY <1>1, <1>2, <1>4, <2>1, <2>2 DEF Resumes, n
<1>5. CASE n.tail
  <2>1. TailMayComplete(Front(nests)) /\ Install(PopFrame(m, v))
        /\ mode' = IF Len(frames) > 1 THEN "execute"
                   ELSE IF nests' = <<>> THEN "done" ELSE "native"
    BY <1>1, <1>2, <1>5
  <2>2. Len(frames) - 1 > StopOf(Front(nests))
    BY <1>2, <2>1 DEF TailMayComplete
  <2>3. mode' = "execute"
    BY <1>2, <2>1, <2>2
  <2>4. Install(PopFrame(MachineOf(stack, n.savedTop, frames), v))
    BY <1>3, <2>1
  <2>5. frames' = Front(frames) /\ stack' = [stack EXCEPT ![TopFrame.ret] = v]
    BY <2>4, PoppedSlots
  <2> QED
    BY <1>1, <1>2, <1>5, <2>2, <2>3, <2>5 DEF Resumes, n
<1> QED
  BY <1>4, <1>5
-----------------------------------------------------------------------------
(* Every step, by what it does to frames and slots.                         *)

Calls == \E argc \in Nat : /\ argc < TopFrame.live /\ nests' = nests /\ mode' = mode
                           /\ CallsWith(TopFrame.live - argc, argc, 1)

CallsMethod == \E argc \in Nat : /\ argc + 1 < TopFrame.live /\ nests' = nests /\ mode' = mode
                                 /\ CallsWith(TopFrame.live - argc - 1, argc, 2)

CallsOperator ==
  \E lhs, rhs, dst \in Nat, total \in {1, 2} :
    /\ nests' = nests /\ mode' = mode /\ lhs < TopFrame.live /\ rhs < TopFrame.live
    /\ dst <= TopFrame.live /\ dst < TopFrame.locals /\ Operates(lhs, rhs, dst, total)

Imports ==
  /\ nests' = nests /\ mode' = mode /\ TopFrame.live < TopFrame.locals
  /\ \E f : /\ Pushes(TopFrame.live + 1, f) /\ f.ret = TopFrame.base + TopFrame.live
            /\ f.live = 0

CallsTail == \E argc \in Nat : /\ argc < TopFrame.live
                               /\ TailCalls(argc, TopFrame.base + (TopFrame.live - argc))

CallsSync ==
  \E c \in Callees, argc \in Nat, tail \in BOOLEAN :
    /\ argc < TopFrame.live
    /\ c.kind = "constructor" => SyncConstructors
    /\ CallsBack(c, argc, tail, TopFrame.base + (TopFrame.live - argc),
                 IF tail THEN TopFrame.live ELSE TopFrame.live - argc)

Returns == \E v \in {stack[TopFrame.base + r] : r \in 0 .. TopFrame.live - 1} \cup {Nil} :
             v \in Cell /\ (Ends(v) \/ Ends(Object))

Steps == \/ mode \in {"execute", "native"} /\ Unwind
         \/ UNCHANGED <<stack, frames, nests, mode>>
         \/ (\E v \in Value : Load(v)) \/ Drop
         \/ Running /\ (Calls \/ CallsMethod \/ CallsOperator \/ Imports)
         \/ Running /\ (CallsTail \/ CallsSync \/ Returns)
         \/ \E v \in Cell : Resumes(v)

LEMMA StepIs == ASSUME SyncTails = FALSE, IInv, Contents, [Next]_vars PROVE Steps
<1>1. CASE (\E v \in Value : Load(v)) \/ Drop
  BY <1>1 DEF Steps
<1>2. ASSUME NEW c \in Callees, NEW argc \in ArgCounts,
             Call(c, argc) \/ InvokeMember(c, argc) \/ TailCall(c, argc)
               \/ \E tail \in BOOLEAN : CallSync(c, argc, tail)
      PROVE  Steps
  <2>1. argc \in Nat
    BY ArgCountsNat
  <2>2. CASE Call(c, argc)
    <3>1. Running
      BY <2>2 DEF Call
    <3>2. Unwind \/ Calls
      BY <2>1, <2>2, CallStep DEF Calls
    <3> QED
      BY <3>1, <3>2 DEF Steps, Running
  <2>3. CASE InvokeMember(c, argc)
    <3>1. Running
      BY <2>3 DEF InvokeMember
    <3>2. Unwind \/ CallsMethod
      BY <2>1, <2>3, InvokeMemberStep DEF CallsMethod
    <3> QED
      BY <3>1, <3>2 DEF Steps, Running
  <2>4. CASE TailCall(c, argc)
    <3>1. Running
      BY <2>4 DEF TailCall
    <3>2. Unwind \/ CallsTail
      BY <2>1, <2>4, TailCallStep DEF CallsTail
    <3> QED
      BY <3>1, <3>2 DEF Steps, Running
  <2>5. ASSUME NEW tail \in BOOLEAN, CallSync(c, argc, tail) PROVE Steps
    <3>1. Running /\ (c.kind = "constructor" => SyncConstructors)
      BY <2>5 DEF CallSync
    <3>2. Unwind \/ CallsSync
      <4>1. \/ Unwind
            \/ /\ argc < TopFrame.live
               /\ CallsBack(c, argc, tail, TopFrame.base + (TopFrame.live - argc),
                            IF tail THEN TopFrame.live ELSE TopFrame.live - argc)
        BY <2>1, <2>5, CallSyncStep
      <4> QED
        BY <2>1, <3>1, <4>1 DEF CallsSync
    <3> QED
      BY <3>1, <3>2 DEF Steps, Running
  <2> QED
    BY <1>2, <2>2, <2>3, <2>4, <2>5
<1>3. ASSUME NEW c \in Of("method"),
             \/ \E argc \in ArgCounts : Invoke(c, argc)
             \/ \E lhs, rhs, dst \in 0 .. MainLocals, total \in {1, 2} :
                  Operator(c, lhs, rhs, dst, total)
      PROVE  Steps
  <2>1. c \in Callees /\ c.kind = "method"
    BY DEF Of
  <2>2. ASSUME NEW argc \in ArgCounts, Invoke(c, argc) PROVE Steps
    <3>1. Running /\ argc \in Nat
      BY <2>2, ArgCountsNat DEF Invoke
    <3>2. Unwind \/ CallsMethod
      BY <2>1, <2>2, <3>1, InvokeStep DEF CallsMethod
    <3> QED
      BY <3>1, <3>2 DEF Steps, Running
  <2>3. ASSUME NEW lhs \in 0 .. MainLocals, NEW rhs \in 0 .. MainLocals,
               NEW dst \in 0 .. MainLocals, NEW total \in {1, 2},
               Operator(c, lhs, rhs, dst, total)
        PROVE  Steps
    <3>1. lhs \in Nat /\ rhs \in Nat /\ dst \in Nat
      BY ConstantsAssumption
    <3>2. Running
      BY <2>3 DEF Operator
    <3>3. Unwind \/ CallsOperator
      BY <2>1, <2>3, <3>1, OperatorStep DEF CallsOperator
    <3> QED
      BY <3>2, <3>3 DEF Steps, Running
  <2> QED
    BY <1>3, <2>2, <2>3
<1>4. ASSUME NEW c \in Of("module"), ImportModule(c) PROVE Steps
  <2>1. Running /\ c \in Callees
    BY <1>4 DEF ImportModule, Of
  <2>2. Unwind \/ Imports
    BY <1>4, <2>1, ImportModuleStep DEF Imports
  <2> QED
    BY <2>1, <2>2 DEF Steps, Running
<1>5. ASSUME NEW v \in Value \cup {Object, Nil}, Return(v) PROVE Steps
  <2>1. Running /\ v \in Cell
    BY <1>5 DEF Return, Cell
  <2>2. Returns
    BY <1>5, <2>1, ReturnStep DEF Returns
  <2> QED
    BY <2>1, <2>2 DEF Steps
<1>6. ASSUME NEW v \in Value \cup {Object, Nil}, ResumeNative(v) PROVE Steps
  <2>1. v \in Cell /\ Resumes(v)
    BY <1>6, ResumeNativeStep DEF Cell
  <2> QED
    BY <2>1 DEF Steps
<1>7. CASE Fail
  BY <1>7 DEF Fail, Steps
<1>8. CASE Collect \/ UNCHANGED vars
  BY <1>8 DEF Collect, vars, Steps
<1> QED
  BY <1>1, <1>2, <1>3, <1>4, <1>5, <1>6, <1>7, <1>8 DEF Next
-----------------------------------------------------------------------------
(* The slots hold values; with the shape, that is the type invariant.       *)

LEMMA HeapStep == ASSUME IInv, Contents, [Next]_vars PROVE heap' \subseteq Value \cup {Object}
<1> DEFINE Typed == heap' \subseteq Value \cup {Object}
<1>1. heap \subseteq Value \cup {Object} /\ \A c : Made(c) \subseteq {Object}
  BY DEF Contents, Made
<1>2. Unwind => Typed
  BY <1>1 DEF Unwind
<1>3. ASSUME NEW m, NEW made \in SUBSET {Object}, CallOutcome(m, made) PROVE Typed
  BY <1>1, <1>2, <1>3 DEF CallOutcome
<1>4. CASE (\E v \in Value : Load(v)) \/ Drop
  BY <1>1, <1>4 DEF Load, Drop
<1>5. ASSUME NEW c \in Callees, NEW argc \in ArgCounts,
             Call(c, argc) \/ InvokeMember(c, argc) \/ TailCall(c, argc)
               \/ \E tail \in BOOLEAN : CallSync(c, argc, tail)
      PROVE  Typed
  <2>1. CASE Call(c, argc)
    BY <1>1, <1>3, <2>1 DEF Call
  <2>2. CASE InvokeMember(c, argc)
    <3>1. Made(c) \cup {Object} \in SUBSET {Object}
      BY <1>1
    <3> QED
      BY <1>3, <2>2, <3>1 DEF InvokeMember
  <2>3. \A m : TailComplete(m) => Typed
    BY <1>1 DEF TailComplete
  <2>4. CASE TailCall(c, argc)
    BY <1>1, <1>2, <1>3, <2>3, <2>4 DEF TailCall
  <2>5. ASSUME NEW tail \in BOOLEAN, CallSync(c, argc, tail) PROVE Typed
    <3>1. heap' = heap \cup Made(c) \/ (\E m : TailComplete(m)) \/ Unwind
      BY <2>5 DEF CallSync
    <3> QED
      BY <1>1, <1>2, <2>3, <3>1
  <2> QED
    BY <1>5, <2>1, <2>2, <2>4, <2>5
<1>6. ASSUME NEW c \in Of("method"),
             \/ \E argc \in ArgCounts : Invoke(c, argc)
             \/ \E lhs, rhs, dst \in 0 .. MainLocals, total \in {1, 2} :
                  Operator(c, lhs, rhs, dst, total)
      PROVE  Typed
  <2>1. {} \in SUBSET {Object}
    OBVIOUS
  <2>2. ASSUME NEW argc, Invoke(c, argc) PROVE Typed
    BY <1>3, <2>1, <2>2 DEF Invoke
  <2>3. ASSUME NEW lhs, NEW rhs, NEW dst, NEW total, Operator(c, lhs, rhs, dst, total)
        PROVE  Typed
    <3>1. Unwind \/ \E m : CallOutcome(m, {})
      BY <2>3 DEF Operator
    <3> QED
      BY <1>2, <1>3, <2>1, <3>1
  <2> QED
    BY <1>6, <2>2, <2>3
<1>7. CASE \E c \in Of("module") : ImportModule(c)
  <2>1. {Object} \in SUBSET {Object}
    OBVIOUS
  <2> QED
    BY <1>3, <1>7, <2>1 DEF ImportModule
<1>8. CASE \E v \in Value \cup {Object, Nil} : Return(v) \/ ResumeNative(v)
  BY <1>1, <1>8 DEF Return, ResumeNative
<1>9. CASE Fail
  BY <1>2, <1>9 DEF Fail
<1>10. CASE Collect
  <2>1. heap' = {stack[i] : i \in 0 .. top - 1} \ {Nil}
    BY <1>10 DEF Collect
  <2>2. 0 .. top - 1 \subseteq Slots
    BY ConstantsAssumption DEF IInv, Shape, Slots
  <2>3. \A i \in 0 .. top - 1 : stack[i] \in Value \cup {Object, Nil}
    BY <2>2 DEF Contents, Cell
  <2> QED
    BY <2>1, <2>3
<1>11. CASE UNCHANGED vars
  BY <1>1, <1>11 DEF vars
<1> QED
  BY <1>4, <1>5, <1>6, <1>7, <1>8, <1>9, <1>10, <1>11 DEF Next

LEMMA ReliveEach ==
  ASSUME IInv, Running, NEW n
  PROVE  \A i \in 1 .. Len(frames) - 1 : Relive(n)[i] = frames[i]
<1> DEFINE last == [TopFrame EXCEPT !.live = n]
<1>1. List(frames, Len(frames)) /\ Len(frames) \in 1 .. Len(frames)
  BY RunningFacts, SeqIsList
<1>2. Relive(n) = [frames EXCEPT ![Len(frames)] = last]
  BY DEF Relive, TopFrame
<1> HIDE DEF last
<1>3. \A i \in 1 .. Len(frames) : i # Len(frames) => Relive(n)[i] = frames[i]
  BY <1>1, <1>2, ExceptList
<1> QED
  BY <1>1, <1>3

\* The frames after a call, a return, a tail call, an answer.
LEMMA PushesFacts ==
  ASSUME IInv, Running, NEW n, NEW f, Pushes(n, f)
  PROVE  /\ stack' \in [Slots -> Cell] /\ frames' \in Seq(FrameType) /\ Len(frames') = Len(frames) + 1
         /\ \A i \in 1 .. Len(frames) - 1 : frames'[i] = frames[i]
         /\ frames'[Len(frames)] = [TopFrame EXCEPT !.live = n] /\ frames'[Len(frames) + 1] = f
<1>1. /\ n \in Nat /\ n <= TopFrame.locals /\ frames' = Append(Relive(n), f) /\ f \in FrameType
      /\ stack' \in [Slots -> Cell]
  BY DEF Pushes
<1>2. /\ Relive(n) \in Seq(FrameType) /\ Len(Relive(n)) = Len(frames)
      /\ Relive(n)[Len(frames)] = [TopFrame EXCEPT !.live = n]
      /\ Len(frames) \in Nat \ {0} /\ frames \in Seq(FrameType)
  BY <1>1, ReliveFacts, RunningFacts
<1>3. \A i \in 1 .. Len(frames) - 1 : Relive(n)[i] = frames[i]
  BY ReliveEach
<1>4. /\ frames' \in Seq(FrameType) /\ Len(frames') = Len(frames) + 1
      /\ \A i \in 1 .. Len(frames) : frames'[i] = Relive(n)[i]
      /\ frames'[Len(frames) + 1] = f
  BY <1>1, <1>2, AppendFacts
<1> QED
  BY <1>1, <1>2, <1>3, <1>4

LEMMA PopsFrames ==
  ASSUME IInv, Running, NEW v, Pops(v)
  PROVE  /\ stack' \in [Slots -> Cell] /\ frames' \in Seq(FrameType) /\ Len(frames') = Len(frames) - 1
         /\ \A i \in 1 .. Len(frames) - 1 : frames'[i] = frames[i]
<1>1. frames \in Seq(FrameType) /\ frames # <<>>
  BY RunningFacts
<1> QED
  BY <1>1, FrontFacts DEF Pops

LEMMA ReplacesFrames ==
  ASSUME IInv, Running, NEW f, Replaces(f)
  PROVE  /\ stack' \in [Slots -> Cell] /\ frames' \in Seq(FrameType) /\ Len(frames') = Len(frames)
         /\ \A i \in 1 .. Len(frames) - 1 : frames'[i] = frames[i]
         /\ frames'[Len(frames)] = f
<1>1. frames \in Seq(FrameType) /\ frames # <<>>
  BY RunningFacts
<1>2. /\ Front(frames) \in Seq(FrameType) /\ Len(Front(frames)) = Len(frames) - 1
      /\ \A i \in 1 .. Len(frames) - 1 : Front(frames)[i] = frames[i]
      /\ Len(frames) \in Nat \ {0}
  BY <1>1, FrontFacts
<1>3. stack' \in [Slots -> Cell] /\ f \in FrameType /\ frames' = Append(Front(frames), f)
  BY DEF Replaces
<1>4. /\ frames' \in Seq(FrameType) /\ Len(frames') = Len(frames) - 1 + 1
      /\ \A i \in 1 .. Len(frames) - 1 : frames'[i] = Front(frames)[i]
      /\ frames'[Len(frames) - 1 + 1] = f
  BY <1>2, <1>3, AppendFacts
<1>5. Len(frames) - 1 + 1 = Len(frames)
  BY <1>1, RunningFacts
<1> QED
  BY <1>2, <1>3, <1>4, <1>5

\* The innermost frame has n registers.
LEMMA ReliveFrames ==
  ASSUME IInv, Running, NEW n \in Nat, n <= TopFrame.locals, frames' = Relive(n)
  PROVE  /\ frames' \in Seq(FrameType) /\ Len(frames') = Len(frames)
         /\ \A i \in 1 .. Len(frames) - 1 : frames'[i] = frames[i]
         /\ frames'[Len(frames)] = [TopFrame EXCEPT !.live = n]
<1>1. /\ Relive(n) \in Seq(FrameType) /\ Len(Relive(n)) = Len(frames)
      /\ Relive(n)[Len(frames)] = [TopFrame EXCEPT !.live = n]
      /\ Len(frames) \in Nat \ {0} /\ frames \in Seq(FrameType)
  BY ReliveFacts, RunningFacts
<1> QED
  BY <1>1, ReliveEach

\* What kinds of steps there are, for the frames and the slots as a whole.
LEMMA StepShape ==
  ASSUME IInv, Contents, Steps
  PROVE  \/ Unwind
         \/ UNCHANGED <<stack, frames>>
         \/ Running /\ \E n, f : Pushes(n, f)
         \/ Running /\ \E n : Answers(n)
         \/ Running /\ \E f : Replaces(f)
         \/ Running /\ \E v : Pops(v)
         \/ stack' \in [Slots -> Cell] /\ frames' \in {frames, Front(frames)} /\ frames # <<>>
         \/ stack' \in [Slots -> Cell] /\ \E n \in Nat : n <= TopFrame.locals /\ Running /\ frames' = Relive(n)
<1>1. \A n, argc, skip : CallsWith(n, argc, skip) => (\E f : Pushes(n, f)) \/ Answers(n)
  BY DEF CallsWith
<1>2. CASE Running /\ (Calls \/ CallsMethod)
  BY <1>1, <1>2 DEF Calls, CallsMethod
<1>3. CASE Running /\ (CallsOperator \/ Imports)
  BY <1>3 DEF CallsOperator, Operates, Imports
<1>4. CASE Running /\ (CallsTail \/ Returns)
  BY <1>4 DEF CallsTail, TailCalls, Returns, Ends
<1>5. CASE Running /\ CallsSync
  BY <1>5 DEF CallsSync, CallsBack, Ends
<1>6. ASSUME NEW v \in Value, Load(v)
      PROVE  /\ stack' \in [Slots -> Cell]
             /\ \E n \in Nat : n <= TopFrame.locals /\ Running /\ frames' = Relive(n)
  <2>1. Running /\ TopFrame.live + 1 \in Nat /\ TopFrame.live + 1 <= TopFrame.locals
    BY <1>6, RegisterSlots DEF Load
  <2>2. frames' = Relive(TopFrame.live + 1)
    BY <1>6 DEF Load, Relive, TopFrame
  <2>3. v \in Cell /\ stack' = [stack EXCEPT ![Register(TopFrame.live)] = v]
    BY <1>6 DEF Load, Cell
  <2>4. stack' \in [Slots -> Cell]
    BY <2>3 DEF Contents
  <2> QED
    BY <2>1, <2>2, <2>4
<1>7. CASE Drop
  <2>1. Running /\ TopFrame.live - 1 \in Nat /\ TopFrame.live - 1 <= TopFrame.locals
    BY <1>7, RegisterSlots DEF Drop
  <2>2. frames' = Relive(TopFrame.live - 1) /\ stack' = stack
    BY <1>7 DEF Drop, Relive, TopFrame
  <2> QED
    BY <2>1, <2>2 DEF Contents
<1>8. ASSUME NEW v \in Cell, Resumes(v)
      PROVE  stack' \in [Slots -> Cell] /\ frames' \in {frames, Front(frames)} /\ frames # <<>>
  <2>1. \A x : [stack EXCEPT ![x] = v] \in [Slots -> Cell]
    BY DEF Contents
  <2> QED
    BY <1>8, <2>1 DEF Resumes
<1> QED
  BY <1>2, <1>3, <1>4, <1>5, <1>6, <1>7, <1>8 DEF Steps

LEMMA ContentsKeeps == ASSUME SyncTails = FALSE, IInv, Contents, [Next]_vars PROVE Contents'
<1> DEFINE Fits == stack' \in [Slots -> Cell] /\ Len(frames') <= MaxFrames
<1>1. Steps /\ heap' \subseteq Value \cup {Object}
  BY StepIs, HeapStep
<1>2. /\ MaxFrames \in Nat /\ Len(frames) <= MaxFrames /\ stack \in [Slots -> Cell]
      /\ frames \in Seq(FrameType) /\ Len(frames) \in Nat
  BY ConstantsAssumption, LenProperties DEF Contents, IInv, Shape
<1>3. CASE Unwind
  <2>1. stack' = Clear(stack, 0, top - 1) /\ frames' = <<>>
    BY <1>3 DEF Unwind
  <2> QED
    BY <1>1, <1>2, <2>1, ClearFacts DEF Contents
<1>4. CASE UNCHANGED <<stack, frames>>
  BY <1>1, <1>2, <1>4 DEF Contents
<1>5. ASSUME Running, NEW n, NEW f, Pushes(n, f) PROVE Contents'
  <2>1. stack' \in [Slots -> Cell] /\ Len(frames') = Len(frames) + 1
    BY <1>5, PushesFacts
  <2>2. Len(frames) < MaxFrames
    BY <1>5 DEF Pushes
  <2> QED
    BY <1>1, <1>2, <2>1, <2>2 DEF Contents
<1>6. ASSUME Running, NEW n \in Nat, n <= TopFrame.locals, frames' = Relive(n),
             stack' \in [Slots -> Cell]
      PROVE  Contents'
  <2>1. Len(frames') = Len(frames)
    BY <1>6, ReliveFrames
  <2> QED
    BY <1>1, <1>2, <1>6, <2>1 DEF Contents
<1>7. ASSUME Running, NEW n, Answers(n) PROVE Contents'
  BY <1>6, <1>7 DEF Answers
<1>8. ASSUME Running, NEW f, Replaces(f) PROVE Contents'
  BY <1>1, <1>2, <1>8, ReplacesFrames DEF Contents
<1>9. ASSUME Running, NEW v, Pops(v) PROVE Contents'
  BY <1>1, <1>2, <1>9, PopsFrames DEF Contents
<1>10. CASE stack' \in [Slots -> Cell] /\ frames' \in {frames, Front(frames)} /\ frames # <<>>
  <2>1. Len(Front(frames)) = Len(frames) - 1
    BY <1>2, <1>10, FrontFacts
  <2> QED
    BY <1>1, <1>2, <1>10, <2>1 DEF Contents
<1> QED
  BY <1>1, <1>3, <1>4, <1>5, <1>6, <1>7, <1>8, <1>9, <1>10, StepShape

LEMMA ContentsInit == Init => Contents
<1> SUFFICES ASSUME Init PROVE Contents
  OBVIOUS
<1>1. stack = [i \in Slots |-> IF i = 0 THEN Object ELSE Nil] /\ heap = {Object} /\ MaxFrames \in Nat \ {0}
  BY ConstantsAssumption DEF Init
<1>2. Len(frames) = 1
  BY DEF Init
<1> QED
  BY <1>1, <1>2, SlotFacts DEF Contents

LEMMA TypedInvariant == ASSUME SyncTails = FALSE PROVE Spec => [](IInv /\ Contents)
<1>1. Init => IInv /\ Contents
  BY InitHolds, ContentsInit
<1>2. IInv /\ Contents /\ [Next]_vars => (IInv /\ Contents)'
  BY NextKeeps, ContentsKeeps
<1> QED
  BY <1>1, <1>2, PTL DEF Spec
-----------------------------------------------------------------------------
(* What the collector takes as a root: every slot below the top holds an    *)
(* object that has not been freed, or nothing.                              *)

\* The slots below t hold only what is in G.
Clean(s, t, G) == s \in [Slots -> Cell] /\ \A x \in Slots : x < t => s[x] \in G

LEMMA CleanMore ==
  ASSUME NEW s, NEW t, NEW G, Clean(s, t, G), NEW H, G \subseteq H, NEW u, \A x \in Slots : x < u => x < t
  PROVE  Clean(s, u, H)
  BY DEF Clean

LEMMA CleanClear ==
  ASSUME NEW s, NEW t, NEW G, Clean(s, t, G), Nil \in G, NEW lo, NEW hi, NEW u,
         \A x \in Slots : x < u => x < t \/ (lo <= x /\ x <= hi)
  PROVE  Clean(Clear(s, lo, hi), u, G)
  BY SlotFacts DEF Clean, Clear

LEMMA CleanSet ==
  ASSUME NEW s, NEW t, NEW G, Clean(s, t, G), NEW slot, NEW v \in Cell, v \in G, NEW u,
         \A x \in Slots : x < u => x < t \/ x = slot
  PROVE  Clean([s EXCEPT ![slot] = v], u, G)
  BY DEF Clean

LEMMA CleanCopied ==
  ASSUME NEW s, NEW t \in 0 .. StackSize, NEW G, Clean(s, t, G), NEW from \in Nat, NEW to \in Nat,
         NEW n \in Nat, from + n <= t, NEW u,
         \A x \in Slots : x < u => x < t \/ (to <= x /\ x < to + n)
  PROVE  Clean(Copied(s, from, to, n), u, G)
<1>1. Slots \in SUBSET Int /\ StackSize \in Nat /\ DOMAIN s = Slots /\ s \in [Slots -> Cell]
  BY SlotFacts DEF Clean
<1>2. ASSUME NEW x \in Slots, to <= x, x < to + n
      PROVE  from + (x - to) \in Slots /\ from + (x - to) < t
  BY <1>1, <1>2 DEF Slots
<1>3. Copied(s, from, to, n) \in [Slots -> Cell]
  BY <1>1, <1>2 DEF Copied
<1> QED
  BY <1>1, <1>2, <1>3 DEF Copied, Clean

LEMMA CleanCopies ==
  ASSUME NEW s, NEW t \in 0 .. StackSize, NEW G, Clean(s, t, G), NEW from \in Nat, NEW to \in Nat,
         NEW n \in Nat, from + n <= t, NEW u,
         \A x \in Slots : x < u => x < t \/ (to <= x /\ x < to + n)
  PROVE  /\ to <= from \/ from + n <= to => Clean(CopyUp(s, from, to, n), u, G)
         /\ from <= to => Clean(CopyDown(s, from, to, n), u, G)
<1>1. Slots \in SUBSET Int /\ from .. from + n - 1 \subseteq Slots /\ s \in [Slots -> Cell]
  BY SlotFacts DEF Slots, Clean
<1>2. to <= from \/ from + n <= to => CopyUp(s, from, to, n) = Copied(s, from, to, n)
  BY <1>1, CopyUpIs
<1>3. from <= to => CopyDown(s, from, to, n) = Copied(s, from, to, n)
  BY <1>1, CopyDownIs
<1> QED
  BY <1>2, <1>3, CleanCopied

\* Machine m2 has only what is in G below its top, which is t or above.
CleanAbove(m2, t, G) == Clean(m2.stack, m2.top, G) /\ t <= m2.top

LEMMA LargerIs == \A x, y \in Nat : /\ Larger(x, y) \in Nat /\ x <= Larger(x, y) /\ y <= Larger(x, y)
                                    /\ Larger(x, y) \in {x, y}
  BY DEF Larger

LEMMA PushClean ==
  ASSUME NEW m, NEW s, NEW t, NEW G, Clean(s, t, G), Nil \in G, NEW base, NEW c, NEW argc, NEW ret, NEW callerTop
  PROVE  LET m2 == PushFrame(m, s, t, base, c, argc, ret, callerTop)
         IN  Clean(m2.stack, m2.top, G) /\ m2.top = t
  BY CleanClear DEF PushFrame

LEMMA ReplaceClean ==
  ASSUME NEW m, NEW s, NEW t, NEW G, Clean(s, t, G), Nil \in G, NEW c, NEW argc, NEW u,
         \A x \in Slots : x < u => x < t
  PROVE  LET m2 == ReplaceFrame(m, s, u, c, argc) IN Clean(m2.stack, m2.top, G) /\ m2.top = u
  BY CleanClear DEF ReplaceFrame

LEMMA ReplaceTop ==
  ASSUME NEW m, NEW s, NEW u, NEW c, NEW argc
  PROVE  ReplaceFrame(m, s, u, c, argc).top = u
  BY DEF ReplaceFrame

\* A call leaves nothing unclean below the top, but that of a callable instance (finding 2).
LEMMA CallValueClean ==
  ASSUME NEW s, NEW t \in 0 .. StackSize, NEW G, Clean(s, t, G), Nil \in G, NEW fs \in Seq(FrameType),
         NEW c \in Callees, c.kind # "instance", Made(c) \subseteq G,
         NEW argc \in Nat, NEW base \in Nat \ {0}, base + argc <= t,
         Ok(CallValue(MachineOf(s, t, fs), c, argc, base, FALSE))
  PROVE  CleanAbove(CallValue(MachineOf(s, t, fs), c, argc, base, FALSE), t, G)
<1> DEFINE m == MachineOf(s, t, fs)
           m2 == CallValue(m, c, argc, base, FALSE)
<1>1. m.frames = fs /\ m.top = t /\ m.stack = s
  BY DEF MachineOf
<1>2. Ok(m2) /\ m2 = CallValue(m, c, argc, base, FALSE) /\ ~Ok(Fault(m))
  BY DEF MachineOf, Fault, Ok
<1>3. /\ StackSize \in Nat /\ c.locals \in Nat /\ c.kind \in CallKinds
      /\ t \in Nat /\ base \in Nat /\ Slots \in SUBSET Int
      /\ Object \in Cell
  BY ConstantsAssumption, SlotFacts
<1>4. CASE c.kind \in {"native", "class"}
  <2>1. Object \in G
    BY <1>4 DEF Made
  <2>2. m2 \in {CallNative(m, c, argc, base), CallClass(m, argc, base, FALSE)}
    BY <1>2, <1>4 DEF CallValue
  <2>3. m2 = [m EXCEPT !.stack[base - 1] = Object]
    BY <1>2, <2>2 DEF CallNative, CallClass
  <2>4. m2 = MachineOf([s EXCEPT ![base - 1] = Object], t, fs)
    BY <2>3 DEF MachineOf
  <2>5. Clean([s EXCEPT ![base - 1] = Object], t, G)
    BY <1>3, <2>1, CleanSet
  <2> HIDE DEF m, m2
  <2>6. m2.stack = [s EXCEPT ![base - 1] = Object] /\ m2.top = t
    BY <2>4 DEF MachineOf
  <2>7. CleanAbove(m2, t, G)
    BY <1>3, <2>5, <2>6 DEF CleanAbove
  <2> QED
    BY <2>7 DEF m, m2
<1> HIDE DEF m, m2
<1>5. CASE c.kind = "function"
  <2> DEFINE high == base + c.locals + 1
             bad  == argc # c.arity \/ high > StackSize \/ Len(fs) >= MaxFrames
             s2   == Clear(s, t, high - 1)
             u    == Larger(t, high)
  <2>1. m2 = CallFunction(m, c, argc, base, FALSE)
    BY <1>2, <1>5 DEF CallValue
  <2>2. m2 = IF bad THEN Fault(m) ELSE PushFrame(m, s2, u, base, c, argc, base - 1, t)
    BY <1>1, <2>1 DEF CallFunction
  <2>3. m2 = PushFrame(m, s2, u, base, c, argc, base - 1, t)
    BY <1>2, <2>2
  <2>4. high \in Nat
    BY <1>3
  <2>5. t <= u /\ u \in {t, high} /\ u \in Nat
    BY <1>3, <2>4, LargerIs
  <2>6. \A x \in Slots : x < u => x < t \/ (t <= x /\ x <= high - 1)
    BY <1>3, <2>4, <2>5
  <2>7. Clean(s2, u, G)
    BY <2>6, CleanClear
  <2> HIDE DEF s2, u
  <2>8. Clean(m2.stack, m2.top, G) /\ m2.top = u
    BY <2>3, <2>7, PushClean
  <2> QED
    BY <2>5, <2>8 DEF CleanAbove, m, m2
<1>6. CASE c.kind = "constructor"
  <2> DEFINE high  == base + c.locals + 1
             bad   == \/ argc + 1 # c.arity \/ t + 1 >= StackSize \/ high > StackSize
                      \/ Len(fs) >= MaxFrames
             next  == base + 1
             moved == CopyDown(s, base, next, argc)
             s1    == [moved EXCEPT ![base] = Object]
             s2    == Clear(s1, t, high - 1)
             u     == Larger(t, high)
  <2>1. m2 = CallConstructor(m, c, argc, base, FALSE)
    BY <1>2, <1>6 DEF CallValue
  <2>2. m2 = IF bad THEN Fault(m) ELSE PushFrame(m, s2, u, base, c, argc + 1, base - 1, t)
    BY <1>1, <2>1 DEF CallConstructor
  <2>3. m2 = PushFrame(m, s2, u, base, c, argc + 1, base - 1, t)
    BY <1>2, <2>2
  <2>4. high \in Nat /\ next \in Nat /\ base <= next
    BY <1>3
  <2>5. t <= u /\ u \in {t, high} /\ u \in Nat
    BY <1>3, <2>4, LargerIs
  <2> HIDE DEF next
  <2>6. Clean(moved, t, G)
    BY <1>3, <2>4, CleanCopies
  <2>7. Object \in G
    BY <1>6 DEF Made
  <2>8. Clean(s1, t, G)
    BY <1>3, <2>6, <2>7, CleanSet
  <2> HIDE DEF s1
  <2>9. \A x \in Slots : x < u => x < t \/ (t <= x /\ x <= high - 1)
    BY <1>3, <2>4, <2>5
  <2>10. Clean(s2, u, G)
    BY <2>8, <2>9, CleanClear
  <2> HIDE DEF s2, u
  <2>11. Clean(m2.stack, m2.top, G) /\ m2.top = u
    BY <2>3, <2>10, PushClean
  <2> QED
    BY <2>5, <2>11 DEF CleanAbove, m, m2
<1>7. CASE c.kind \in {"method", "module"}
  <2>1. m2 = Fault(m)
    BY <1>2, <1>7 DEF CallValue
  <2> QED
    BY <1>2, <2>1
<1> QED
  BY <1>3, <1>4, <1>5, <1>6, <1>7 DEF CallKinds

\* A tail call leaves nothing unclean below the top unless it raises it.
LEMMA CallValueTailClean ==
  ASSUME NEW s, NEW t \in 0 .. StackSize, NEW G, Clean(s, t, G), Nil \in G, NEW fs \in Seq(FrameType),
         fs # <<>>, NEW c \in Callees, c.kind \notin {"native", "class", "instance"}, Made(c) \subseteq G,
         NEW argc \in Nat, NEW base \in Nat \ {0}, Last(fs).base < base, base + argc <= t,
         NEW m2, m2 = CallValue(MachineOf(s, t, fs), c, argc, base, TRUE), Ok(m2), m2.top = t
  PROVE  Clean(m2.stack, t, G)
<1> DEFINE m == MachineOf(s, t, fs)
           dest == Last(fs).base
<1>1. m.frames = fs /\ m.top = t /\ m.stack = s
  BY DEF MachineOf
<1>2. Ok(m2) /\ m2 = CallValue(m, c, argc, base, TRUE) /\ ~Ok(Fault(m))
  BY DEF MachineOf, Fault, Ok
<1> HIDE DEF m
<1>3. /\ StackSize \in Nat /\ c.locals \in Nat /\ c.kind \in CallKinds
      /\ t \in Nat /\ base \in Nat /\ Slots \in SUBSET Int
      /\ Object \in Cell /\ dest \in Nat
  <2>1. Last(fs) \in FrameType
    BY FrontFacts
  <2>2. dest \in Nat
    BY <2>1 DEF FrameType
  <2> HIDE DEF dest
  <2>3. Slots \in SUBSET Int /\ StackSize \in Nat /\ Object \in Cell
    BY SlotFacts
  <2>4. c.locals \in Nat /\ c.kind \in CallKinds
    BY ConstantsAssumption
  <2>5. t \in Nat /\ base \in Nat
    BY <2>3
  <2> QED
    BY <2>2, <2>3, <2>4, <2>5
<1> DEFINE high == dest + c.locals + 1
<1>4. high \in Nat /\ dest <= base /\ dest < base
  BY <1>3
<1>5. CASE c.kind = "function"
  <2> DEFINE bad  == argc # c.arity \/ high > StackSize
             s2   == CopyUp(s, base, dest, argc)
  <2>1. m2 = CallFunction(m, c, argc, base, TRUE)
    BY <1>2, <1>5 DEF CallValue
  <2>2. m2 = IF bad THEN Fault(m) ELSE ReplaceFrame(m, s2, high, c, argc)
    BY <1>1, <2>1 DEF CallFunction
  <2>3. m2 = ReplaceFrame(m, s2, high, c, argc)
    BY <1>2, <2>2
  <2> HIDE DEF dest, high
  <2>4. Clean(s2, t, G)
    <3>1. \A x \in Slots : x < t => x < t \/ (dest <= x /\ x < dest + argc)
      OBVIOUS
    <3> QED
      BY <1>3, <1>4, <3>1, CleanCopies
  <2> HIDE DEF s2
  <2>5. high = t
    <3>1. ReplaceFrame(m, s2, high, c, argc).top = high
      BY ReplaceTop
    <3>2. m2.top = high
      BY <2>3, <3>1
    <3> QED
      BY <3>2
  <2>6. Clean(m2.stack, m2.top, G)
    <3>1. \A x \in Slots : x < high => x < t
      BY <2>5
    <3>2. Clean(ReplaceFrame(m, s2, high, c, argc).stack, ReplaceFrame(m, s2, high, c, argc).top, G)
      BY <2>4, <3>1, ReplaceClean
    <3> QED
      BY <2>3, <3>2
  <2> QED
    BY <2>6
<1>6. CASE c.kind = "constructor"
  <2> DEFINE bad   == argc + 1 # c.arity \/ t + 1 >= StackSize \/ high > StackSize
             next  == dest + 1
             moved == CopyUp(s, base, next, argc)
             s1    == [moved EXCEPT ![dest] = Object]
             s2    == Clear(s1, t, high - 1)
  <2>1. m2 = CallConstructor(m, c, argc, base, TRUE)
    BY <1>2, <1>6 DEF CallValue
  <2>2. m2 = IF bad THEN Fault(m) ELSE ReplaceFrame(m, s2, high, c, argc + 1)
    BY <1>1, <1>4, <2>1 DEF CallConstructor
  <2>3. m2 = ReplaceFrame(m, s2, high, c, argc + 1)
    BY <1>2, <2>2
  <2>4. next \in Nat /\ next <= base
    BY <1>3, <1>4
  <2> HIDE DEF dest, high, next
  <2>5. Clean(moved, t, G)
    <3>1. \A x \in Slots : x < t => x < t \/ (next <= x /\ x < next + argc)
      OBVIOUS
    <3> QED
      BY <1>3, <2>4, <3>1, CleanCopies
  <2>6. Object \in G
    BY <1>6 DEF Made
  <2>7. Clean(s1, t, G)
    BY <1>3, <2>5, <2>6, CleanSet
  <2> HIDE DEF s1
  <2>8. Clean(s2, t, G)
    BY <2>7, CleanClear
  <2> HIDE DEF s2
  <2>9. high = t
    <3>1. ReplaceFrame(m, s2, high, c, argc + 1).top = high
      BY ReplaceTop
    <3>2. m2.top = high
      BY <2>3, <3>1
    <3> QED
      BY <3>2
  <2>10. Clean(m2.stack, m2.top, G)
    <3>1. \A x \in Slots : x < high => x < t
      BY <2>9
    <3>2. Clean(ReplaceFrame(m, s2, high, c, argc + 1).stack, ReplaceFrame(m, s2, high, c, argc + 1).top, G)
      BY <2>8, <3>1, ReplaceClean
    <3> QED
      BY <2>3, <3>2
  <2> QED
    BY <2>10
<1>7. CASE c.kind \in {"method", "module"}
  <2>1. m2 = Fault(m)
    BY <1>2, <1>7 DEF CallValue
  <2> QED
    BY <1>2, <2>1
<1> QED
  BY <1>3, <1>5, <1>6, <1>7 DEF CallKinds

\* The frame of a method is clean if its staged operands are.
LEMMA InvokeMethodClean ==
  ASSUME NEW s, NEW t \in 0 .. StackSize, NEW G, NEW base \in Nat, NEW self \in Cell, NEW total \in Nat,
         Clean([s EXCEPT ![base] = self], Larger(t, base + total), G), Nil \in G, s \in [Slots -> Cell],
         NEW fs \in Seq(FrameType), NEW c \in Callees, c.kind = "method", NEW ret \in Nat,
         Ok(InvokeMethod(MachineOf(s, t, fs), c, self, ret, base, total))
  PROVE  CleanAbove(InvokeMethod(MachineOf(s, t, fs), c, self, ret, base, total), t, G)
<1> DEFINE m == MachineOf(s, t, fs)
           m2 == InvokeMethod(m, c, self, ret, base, total)
           high == base + c.locals + 1
           u == Larger(t, base + total)
           w == Larger(u, high)
           s1 == Clear(s, u, high - 1)
           s2 == [s1 EXCEPT ![base] = self]
           bad == total # c.arity \/ Len(fs) >= MaxFrames \/ high > StackSize
<1>1. m.frames = fs /\ m.top = t /\ m.stack = s
  BY DEF MachineOf
<1>2. Ok(m2) /\ m2 = InvokeMethod(m, c, self, ret, base, total) /\ ~Ok(Fault(m))
  BY DEF MachineOf, Fault, Ok
<1>3. /\ StackSize \in Nat /\ c.locals \in Nat /\ t \in Nat /\ Slots \in SUBSET Int
      /\ c.arity \in Nat /\ c.arity <= c.locals /\ c.arity > 0
  BY ConstantsAssumption, SlotFacts DEF WithSelf
<1> HIDE DEF m, m2
<1>4. m2 = IF bad THEN Fault(m) ELSE PushFrame(m, s2, w, base, c, total, ret, t)
  BY <1>1, <1>2 DEF InvokeMethod
<1>5. m2 = PushFrame(m, s2, w, base, c, total, ret, t) /\ total = c.arity
  BY <1>2, <1>4
<1>6. high \in Nat /\ base + total \in Nat
  BY <1>3
<1>7. t <= u /\ base + total <= u /\ u \in Nat
  BY <1>3, <1>6, LargerIs
<1>8. u <= w /\ w \in {u, high} /\ w \in Nat
  BY <1>6, <1>7, LargerIs
<1>9. Clean([s EXCEPT ![base] = self], u, G)
  OBVIOUS
<1> HIDE DEF u, w
<1>10. Clean(s2, w, G)
  <2>1. s1 \in [Slots -> Cell]
    BY SlotFacts DEF Clear
  <2>2. \A x \in Slots : s1[x] = IF u <= x /\ x <= high - 1 THEN Nil ELSE s[x]
    BY DEF Clear
  <2>3. \A x \in Slots : s2[x] = IF x = base THEN self ELSE s1[x]
    BY <2>1
  <2> HIDE DEF s1
  <2>4. s2 \in [Slots -> Cell]
    BY <2>1
  <2> HIDE DEF s2
  <2>5. \A x \in Slots : x < u => s2[x] \in G
    <3>1. \A x \in Slots : x < u => [s EXCEPT ![base] = self][x] \in G
      BY <1>9 DEF Clean
    <3>2. \A x \in Slots : [s EXCEPT ![base] = self][x] = IF x = base THEN self ELSE s[x]
      OBVIOUS
    <3>3. \A x \in Slots : x < u => ~(u <= x)
      BY <1>3, <1>7
    <3> QED
      BY <2>2, <2>3, <3>1, <3>2, <3>3
  <2>6. ASSUME NEW x \in Slots, ~(x < u), x < w PROVE s2[x] \in G
    <3>1. u <= x /\ x <= high - 1 /\ x # base
      <4>1. x \in Int /\ total > 0
        BY <1>3, <1>5
      <4> QED
        BY <1>3, <1>6, <1>7, <1>8, <2>6, <4>1
    <3> QED
      BY <2>2, <2>3, <3>1
  <2> QED
    BY <2>4, <2>5, <2>6 DEF Clean
<1> HIDE DEF s2
<1>11. Clean(m2.stack, m2.top, G) /\ m2.top = w
  BY <1>5, <1>10, PushClean
<1>12. t <= w
  BY <1>3, <1>7, <1>8
<1> QED
  BY <1>11, <1>12 DEF CleanAbove, m, m2
-----------------------------------------------------------------------------
(* The stack tops that frames and waiting natives restore.                  *)

\* They grow with the depth, and a frame's is above that of a native whose call it serves.
Levels(fs, ns, t) ==
  /\ \A i, j \in 1 .. Len(fs) : i <= j => fs[i].callerTop <= fs[j].callerTop
  /\ \A i \in 1 .. Len(fs) : fs[i].callerTop <= t
  /\ \A k \in 1 .. Len(ns), j \in 1 .. Len(fs) :
       IF j <= ns[k].stop THEN fs[j].callerTop <= ns[k].savedTop
                          ELSE ns[k].savedTop < fs[j].callerTop

\* fs2 restores what fs does, up to frame n.
SameTops(fs2, fs, n) == \A i \in 1 .. n : fs2[i].callerTop = fs[i].callerTop

LEMMA TopsNat ==
  ASSUME NEW fs \in Seq(FrameType), NEW ns \in Seq(NestType)
  PROVE  /\ Len(fs) \in Nat /\ Len(ns) \in Nat
         /\ \A i \in 1 .. Len(fs) : fs[i].callerTop \in Nat
         /\ \A k \in 1 .. Len(ns) : ns[k].savedTop \in Nat /\ ns[k].stop \in Nat
<1>1. \A i \in 1 .. Len(fs) : fs[i] \in FrameType
  BY ElementOfSeq
<1>2. \A k \in 1 .. Len(ns) : ns[k] \in NestType
  BY ElementOfSeq
<1> QED
  BY <1>1, <1>2, LenProperties DEF FrameType, NestType

LEMMA LevelsStay ==
  ASSUME NEW fs \in Seq(FrameType), NEW ns \in Seq(NestType), NEW t \in Nat, Levels(fs, ns, t),
         NEW fs2, Len(fs2) = Len(fs), SameTops(fs2, fs, Len(fs)), NEW t2 \in Nat, t <= t2
  PROVE  Levels(fs2, ns, t2)
<1>1. /\ Len(fs) \in Nat /\ Len(ns) \in Nat
      /\ \A i \in 1 .. Len(fs) : fs[i].callerTop \in Nat /\ fs2[i].callerTop = fs[i].callerTop
      /\ \A k \in 1 .. Len(ns) : ns[k].savedTop \in Nat /\ ns[k].stop \in Nat
  BY TopsNat DEF SameTops
<1>2. \A i, j \in 1 .. Len(fs) : i <= j => fs2[i].callerTop <= fs2[j].callerTop
  BY <1>1 DEF Levels
<1>3. ASSUME NEW i \in 1 .. Len(fs) PROVE fs2[i].callerTop <= t2
  <2>1. fs[i].callerTop \in Nat /\ fs[i].callerTop <= t /\ fs2[i].callerTop = fs[i].callerTop
    BY <1>1 DEF Levels
  <2> QED
    BY <2>1
<1>4. \A k \in 1 .. Len(ns), j \in 1 .. Len(fs) :
        IF j <= ns[k].stop THEN fs2[j].callerTop <= ns[k].savedTop
                           ELSE ns[k].savedTop < fs2[j].callerTop
  BY <1>1 DEF Levels
<1> QED
  BY <1>2, <1>3, <1>4 DEF Levels

LEMMA LevelsPush ==
  ASSUME NEW fs \in Seq(FrameType), NEW ns \in Seq(NestType), NEW t \in Nat, Levels(fs, ns, t),
         \A k \in 1 .. Len(ns) : ns[k].stop < Len(fs),
         NEW fs2, Len(fs2) = Len(fs) + 1, SameTops(fs2, fs, Len(fs)),
         NEW u, u = fs2[Len(fs) + 1].callerTop, u \in Nat, t <= u, NEW t2 \in Nat, u <= t2
  PROVE  Levels(fs2, ns, t2)
<1> DEFINE n == Len(fs)
<1>1. /\ n \in Nat /\ \A i \in 1 .. n : fs[i].callerTop \in Nat /\ fs[i].callerTop <= t
      /\ \A k \in 1 .. Len(ns) : ns[k].savedTop \in Nat /\ ns[k].stop \in Nat
  BY TopsNat DEF Levels
<1>2. \A i \in 1 .. n : fs2[i].callerTop = fs[i].callerTop
  BY DEF SameTops
<1>3. fs2[n + 1].callerTop = u /\ Len(fs2) = n + 1
  OBVIOUS
<1>4. \A k \in 1 .. Len(ns) : ns[k].savedTop < u
  <2> SUFFICES ASSUME NEW k \in 1 .. Len(ns) PROVE ns[k].savedTop < u
    OBVIOUS
  <2>1. n \in 1 .. n /\ ~(n <= ns[k].stop)
    BY <1>1
  <2>2. ns[k].savedTop < fs[n].callerTop
    BY <2>1 DEF Levels
  <2> QED
    BY <1>1, <2>1, <2>2
<1>5. \A i \in 1 .. n + 1 : i \in 1 .. n \/ i = n + 1
  BY <1>1
<1>6. ASSUME NEW i \in 1 .. n + 1, NEW j \in 1 .. n + 1, i <= j
      PROVE  fs2[i].callerTop <= fs2[j].callerTop
  <2>1. CASE j \in 1 .. n
    <3>1. i \in 1 .. n
      BY <1>1, <1>6, <2>1
    <3>2. fs[i].callerTop <= fs[j].callerTop
      BY <1>6, <2>1, <3>1 DEF Levels
    <3> QED
      BY <1>2, <2>1, <3>1, <3>2
  <2>2. CASE j = n + 1 /\ i \in 1 .. n
    BY <1>1, <1>2, <1>3, <2>2
  <2>3. CASE j = n + 1 /\ i = n + 1
    BY <1>3, <2>3
  <2> QED
    BY <1>5, <2>1, <2>2, <2>3
<1>7. ASSUME NEW i \in 1 .. n + 1 PROVE fs2[i].callerTop <= t2
  BY <1>1, <1>2, <1>3, <1>5
<1>8. ASSUME NEW k \in 1 .. Len(ns), NEW j \in 1 .. n + 1
      PROVE  IF j <= ns[k].stop THEN fs2[j].callerTop <= ns[k].savedTop
                                ELSE ns[k].savedTop < fs2[j].callerTop
  <2>1. CASE j \in 1 .. n
    BY <1>2, <2>1 DEF Levels
  <2>2. CASE j = n + 1
    BY <1>1, <1>3, <1>4, <2>2
  <2> QED
    BY <1>5, <2>1, <2>2
<1> QED
  BY <1>3, <1>6, <1>7, <1>8 DEF Levels

LEMMA LevelsPop ==
  ASSUME NEW fs \in Seq(FrameType), NEW ns \in Seq(NestType), NEW t \in Nat, Levels(fs, ns, t),
         fs # <<>>, NEW fs2, Len(fs2) = Len(fs) - 1, SameTops(fs2, fs, Len(fs) - 1)
  PROVE  Levels(fs2, ns, fs[Len(fs)].callerTop) /\ fs[Len(fs)].callerTop <= t
<1>1. Len(fs) \in Nat \ {0} /\ Len(fs) \in 1 .. Len(fs)
  BY EmptySeq
<1>2. \A i \in 1 .. Len(fs) - 1 : i \in 1 .. Len(fs) /\ i <= Len(fs)
  BY <1>1
<1> QED
  BY <1>1, <1>2 DEF Levels, SameTops

LEMMA LevelsEnter ==
  ASSUME NEW fs \in Seq(FrameType), NEW ns \in Seq(NestType), NEW t \in Nat, Levels(fs, ns, t),
         NEW fs2, Len(fs2) = Len(fs) + 1, Levels(fs2, ns, fs2[Len(fs) + 1].callerTop),
         SameTops(fs2, fs, Len(fs)),
         fs2[Len(fs) + 1].callerTop \in Nat, t < fs2[Len(fs) + 1].callerTop,
         NEW x \in NestType, x.stop = Len(fs), x.savedTop = t
  PROVE  Levels(fs2, Append(ns, x), fs2[Len(fs) + 1].callerTop)
<1> DEFINE n  == Len(fs)
           u  == fs2[n + 1].callerTop
           ns2 == Append(ns, x)
<1>1. n \in Nat /\ Len(ns) \in Nat
  BY TopsNat
<1>2. /\ Len(ns2) = Len(ns) + 1 /\ ns2[Len(ns) + 1] = x
      /\ \A k \in 1 .. Len(ns) : ns2[k] = ns[k]
  BY AppendFacts
<1>3. ASSUME NEW k \in 1 .. Len(ns2), NEW j \in 1 .. n + 1
      PROVE  IF j <= ns2[k].stop THEN fs2[j].callerTop <= ns2[k].savedTop
                                 ELSE ns2[k].savedTop < fs2[j].callerTop
  <2>1. CASE k \in 1 .. Len(ns)
    <3>1. ns2[k] = ns[k]
      BY <1>2, <2>1
    <3> HIDE DEF ns2
    <3> QED
      BY <2>1, <3>1 DEF Levels
  <2>2. CASE k = Len(ns) + 1
    <3>1. ns2[k].stop = n /\ ns2[k].savedTop = t
      BY <1>2, <2>2
    <3>2. CASE j \in 1 .. n
      <4>1. fs2[j].callerTop <= t
        BY <3>2 DEF Levels, SameTops
      <4>2. j <= n
        BY <3>2, <1>1
      <4> HIDE DEF ns2, n
      <4> QED
        BY <3>1, <4>1, <4>2
    <3>3. CASE j = n + 1
      <4>1. ~(j <= n)
        BY <3>3, <1>1
      <4> HIDE DEF ns2
      <4> QED
        BY <3>1, <3>3, <4>1
    <3>4. j \in 1 .. n \/ j = n + 1
      BY <1>1
    <3> QED
      BY <3>2, <3>3, <3>4
  <2>3. k \in 1 .. Len(ns) \/ k = Len(ns) + 1
    <3>1. k \in 1 .. Len(ns) + 1
      BY <1>2
    <3> QED
      BY <1>1, <3>1
  <2> QED
    BY <2>1, <2>2, <2>3
<1> HIDE DEF ns2
<1> QED
  BY <1>3 DEF Levels, ns2

LEMMA LevelsLeave ==
  ASSUME NEW fs \in Seq(FrameType), NEW ns \in Seq(NestType), NEW t \in Nat, Levels(fs, ns, t),
         ns # <<>>, Len(fs) = Last(ns).stop
  PROVE  Levels(fs, Front(ns), Last(ns).savedTop)
<1>1. /\ Last(ns) = ns[Len(ns)] /\ Len(ns) \in Nat \ {0} /\ Len(ns) \in 1 .. Len(ns)
      /\ Len(Front(ns)) = Len(ns) - 1
      /\ \A j \in 1 .. Len(ns) - 1 : Front(ns)[j] = ns[j]
  BY FrontFacts
<1>2. \A j \in 1 .. Len(ns) - 1 : j \in 1 .. Len(ns)
  BY <1>1
<1>3. \A i \in 1 .. Len(fs) : fs[i].callerTop <= Last(ns).savedTop
  <2>1. \A i \in 1 .. Len(fs) : i <= ns[Len(ns)].stop
    BY <1>1, TopsNat
  <2> QED
    BY <1>1, <2>1 DEF Levels
<1> QED
  BY <1>1, <1>2, <1>3 DEF Levels
-----------------------------------------------------------------------------
(* The invariant.                                                           *)

\* Whatever the collector or a returning frame can still reach is allocated.
Rooted == /\ Clean(stack, top, heap \cup {Nil})
          /\ Levels(frames, nests, top)
          /\ mode = "native" => Last(nests).savedTop < top

\* The program's function stays in slot 0: nothing is returned below its caller's frame.
Anchored == /\ frames # <<>> => stack[0] = Object
            /\ \A i \in 1 .. Len(frames) : frames[i].base > 0
            /\ \A k \in 1 .. Len(nests) : nests[k].base > 1

RInv == /\ mode \in {"execute", "native"} => Rooted
        /\ Anchored

\* A tail call that replaces the innermost frame leaves the top where it was: the callee has
\* as many registers as the function it replaces.
TailsKeepTop ==
  \A c \in Callees, argc \in ArgCounts : TailCall(c, argc) /\ Len(frames') = Len(frames) => top' = top

LEMMA RunRoots ==
  ASSUME IInv, Contents, RInv, Running
  PROVE  /\ Rooted /\ Anchored /\ Clean(stack, top, heap \cup {Nil}) /\ Levels(frames, nests, top)
         /\ Object \in heap /\ Object \in Cell /\ Nil \in Cell
         /\ top \in Nat /\ top \in 0 .. StackSize /\ StackSize \in Nat
         /\ frames \in Seq(FrameType) /\ nests \in Seq(NestType) /\ frames # <<>>
         /\ Len(frames) \in Nat \ {0} /\ Len(frames) \in 1 .. Len(frames)
         /\ \A k \in 1 .. Len(nests) : nests[k].stop < Len(frames)
         /\ TopFrame = frames[Len(frames)] /\ Last(frames) = TopFrame
         /\ stack \in [Slots -> Cell] /\ heap \subseteq Value \cup {Object}
<1>1. Rooted /\ Anchored
  BY DEF RInv, Running
<1>2. /\ frames \in Seq(FrameType) /\ frames # <<>> /\ top \in 0 .. StackSize /\ StackSize \in Nat
      /\ Len(frames) \in Nat \ {0} /\ TopFrame = frames[Len(frames)] /\ WindowEnd(TopFrame) <= top
      /\ TopFrame \in FrameType /\ Len(frames) > StopDepth /\ StopDepth \in Nat
  BY RunningFacts
<1>3. nests \in Seq(NestType)
  BY DEF IInv, Shape
<1>4. \A k \in 1 .. Len(nests) : nests[k].stop < Len(frames)
  <2> SUFFICES ASSUME NEW k \in 1 .. Len(nests) PROVE nests[k].stop < Len(frames)
    OBVIOUS
  <2>1. nests[k].stop <= StopDepth /\ nests[k].stop \in Nat
    BY StopsBelow DEF IInv
  <2> QED
    BY <1>2, <2>1
<1>5. 0 \in Slots /\ 0 < top
  <2>1. WindowEnd(TopFrame) > 0
    BY <1>2 DEF WindowEnd, FrameType
  <2>2. 0 < top
    BY <1>2, <2>1, WindowEndNat
  <2> QED
    BY <1>2, <2>2 DEF Slots
<1>6. Object \in heap
  <2>1. Object \in heap \cup {Nil}
    BY <1>1, <1>5 DEF Rooted, Anchored, Clean
  <2> QED
    BY <2>1, ConstantsAssumption
<1> QED
  BY <1>1, <1>2, <1>3, <1>4, <1>6, SlotFacts DEF Rooted, Last, TopFrame, Contents

LEMMA StaysRooted ==
  ASSUME IInv, Contents, RInv, Running, NEW n \in Nat, n <= TopFrame.locals, frames' = Relive(n),
         nests' = nests, top' = top, mode' = "execute", Clean(stack', top, heap' \cup {Nil})
  PROVE  Rooted'
<1>1. /\ Len(frames') = Len(frames)
      /\ \A i \in 1 .. Len(frames) - 1 : frames'[i] = frames[i]
      /\ frames'[Len(frames)] = [TopFrame EXCEPT !.live = n]
  BY ReliveFrames
<1>2. frames'[Len(frames)].callerTop = frames[Len(frames)].callerTop
  BY <1>1, RunningFacts DEF FrameType
<1>3. SameTops(frames', frames, Len(frames))
  <2>1. \A i \in 1 .. Len(frames) : i \in 1 .. Len(frames) - 1 \/ i = Len(frames)
    BY RunRoots
  <2> QED
    BY <1>1, <1>2, <2>1 DEF SameTops
<1>4. Levels(frames', nests, top) /\ top <= top
  BY <1>1, <1>3, RunRoots, LevelsStay
<1> QED
  BY <1>4 DEF Rooted

LEMMA PushRooted ==
  ASSUME IInv, Contents, RInv, Running, NEW n \in Nat, n <= TopFrame.locals,
         NEW f \in FrameType, f.callerTop = top, frames' = Append(Relive(n), f),
         nests' = nests, top' \in Nat, top <= top', mode' = "execute",
         Clean(stack', top', heap' \cup {Nil})
  PROVE  Rooted'
<1>1. /\ Relive(n) \in Seq(FrameType) /\ Len(Relive(n)) = Len(frames)
      /\ Relive(n)[Len(frames)] = [TopFrame EXCEPT !.live = n]
      /\ \A i \in 1 .. Len(frames) - 1 : Relive(n)[i] = frames[i]
  BY ReliveFacts, ReliveEach
<1>2. /\ Len(frames') = Len(frames) + 1 /\ frames'[Len(frames) + 1] = f
      /\ \A i \in 1 .. Len(frames) : frames'[i] = Relive(n)[i]
  BY <1>1, AppendFacts
<1>3. Relive(n)[Len(frames)].callerTop = frames[Len(frames)].callerTop
  BY <1>1, RunningFacts DEF FrameType
<1>4. SameTops(frames', frames, Len(frames))
  <2>1. \A i \in 1 .. Len(frames) : i \in 1 .. Len(frames) - 1 \/ i = Len(frames)
    BY RunRoots
  <2> QED
    BY <1>1, <1>2, <1>3, <2>1 DEF SameTops
<1>5. Levels(frames', nests, top')
  <2>1. frames'[Len(frames) + 1].callerTop = top /\ top <= top
    BY <1>2, RunRoots
  <2> QED
    BY <1>2, <1>4, <2>1, RunRoots, LevelsPush
<1> QED
  BY <1>5 DEF Rooted

LEMMA PopRooted ==
  ASSUME IInv, Contents, RInv, Running, frames' = Front(frames), top' = TopFrame.callerTop,
         nests' = nests, mode' = "native" => nests # <<>>, Clean(stack', top, heap' \cup {Nil})
  PROVE  Rooted'
<1>1. /\ Len(frames') = Len(frames) - 1
      /\ \A i \in 1 .. Len(frames) - 1 : frames'[i] = frames[i]
  BY FrontFacts, RunRoots
<1>2. SameTops(frames', frames, Len(frames) - 1)
  BY <1>1 DEF SameTops
<1>3. Levels(frames', nests, top') /\ top' <= top /\ top' \in Nat
  <2>1. frames[Len(frames)].callerTop = top' /\ top' \in Nat
    BY RunRoots, RunningFacts DEF FrameType
  <2> QED
    BY <1>1, <1>2, <2>1, RunRoots, LevelsPop
<1>4. Clean(stack', top', heap' \cup {Nil})
  <2>1. \A x \in Slots : x < top' => x < top
    BY <1>3, RunRoots, SlotFacts
  <2> HIDE DEF Clean
  <2> QED
    BY <2>1, CleanMore
<1>5. ASSUME mode' = "native" PROVE Last(nests).savedTop < top'
  <2>0. nests # <<>> /\ nests \in Seq(NestType)
    BY <1>5, RunRoots
  <2>4. Last(nests) = nests[Len(nests)] /\ Len(nests) \in Nat \ {0}
    BY <2>0, FrontFacts
  <2>1. Last(nests) = nests[Len(nests)] /\ Len(nests) \in 1 .. Len(nests)
    BY <2>4
  <2>2. Len(frames) \in 1 .. Len(frames) /\ ~(Len(frames) <= nests[Len(nests)].stop)
    BY <2>1, RunRoots, TopsNat
  <2>3. nests[Len(nests)].savedTop < frames[Len(frames)].callerTop
    BY <2>1, <2>2, RunRoots DEF Levels
  <2> QED
    BY <2>1, <2>3, RunRoots
<1> QED
  BY <1>3, <1>4, <1>5 DEF Rooted

LEMMA ReplaceRooted ==
  ASSUME IInv, Contents, RInv, Running, NEW f, frames' = Append(Front(frames), f),
         f \in FrameType, f.callerTop = TopFrame.callerTop,
         nests' = nests, top' = top, mode' = "execute", Clean(stack', top, heap' \cup {Nil})
  PROVE  Rooted'
<1>1. /\ Front(frames) \in Seq(FrameType) /\ Len(Front(frames)) = Len(frames) - 1
      /\ \A i \in 1 .. Len(frames) - 1 : Front(frames)[i] = frames[i]
  BY FrontFacts, RunRoots
<1>2. /\ Len(frames') = Len(frames) - 1 + 1 /\ frames'[Len(frames) - 1 + 1] = f
      /\ \A i \in 1 .. Len(frames) - 1 : frames'[i] = frames[i]
  BY <1>1, AppendFacts
<1>3. /\ Len(frames) - 1 + 1 = Len(frames)
      /\ \A i \in 1 .. Len(frames) : i \in 1 .. Len(frames) - 1 \/ i = Len(frames)
  BY RunRoots
<1>4. SameTops(frames', frames, Len(frames))
  BY <1>2, <1>3, RunRoots DEF SameTops
<1>5. Levels(frames', nests, top)
  <2>1. Len(frames') = Len(frames) /\ top <= top
    BY <1>2, <1>3, RunRoots
  <2> QED
    BY <1>4, <2>1, RunRoots, LevelsStay
<1> QED
  BY <1>5 DEF Rooted

\* call_value from an instruction.
LEMMA CallRooted ==
  ASSUME IInv, Contents, RInv, Running, NEW s, Clean(s, top, heap \cup {Nil}),
         NEW n \in Nat, n <= TopFrame.locals, NEW c \in Callees, c.kind # "instance",
         NEW argc \in Nat, NEW base \in Nat \ {0}, base + argc <= top, NEW made \in SUBSET {Object},
         CallOutcome(CallValue(MachineOf(s, top, Relive(n)), c, argc, base, FALSE), made)
  PROVE  Unwind \/ Rooted'
<1> DEFINE m2 == CallValue(MachineOf(s, top, Relive(n)), c, argc, base, FALSE)
           G  == heap \cup {Nil}
<1>1. ASSUME ~Unwind PROVE Ok(m2) /\ Install(m2) /\ heap' = heap /\ nests' = nests /\ mode' = "execute"
  BY <1>1, RunRoots DEF CallOutcome, Running
<1>2. ASSUME Ok(m2) PROVE CleanAbove(m2, top, G)
  <2>1. /\ Relive(n) \in Seq(FrameType) /\ Nil \in G /\ Made(c) \subseteq G
        /\ Clean(s, top, G)
    BY ReliveFacts, RunRoots DEF Made
  <2> HIDE DEF G
  <2> QED
    BY <1>2, <2>1, RunRoots, CallValueClean DEF m2
<1>3. ASSUME Ok(m2) PROVE Answered(m2, Relive(n), top) \/ Pushed(m2, Relive(n), top, base, base - 1)
  <2>1. Relive(n) \in Seq(FrameType) /\ top \in Nat
    BY ReliveFacts, RunRoots
  <2>2. base <= top
    BY <2>1
  <2> QED
    BY <1>3, <2>1, <2>2, RunRoots, CallValueFacts DEF m2
<1> HIDE DEF m2
<1>4. CASE ~Unwind
  <2>1. /\ Ok(m2) /\ heap' = heap /\ nests' = nests /\ mode' = "execute"
        /\ stack' = m2.stack /\ top' = m2.top /\ frames' = m2.frames
    BY <1>1, <1>4 DEF Install
  <2>2. Clean(stack', top', heap' \cup {Nil}) /\ top <= top'
    BY <1>2, <2>1 DEF CleanAbove
  <2>3. CASE Answered(m2, Relive(n), top)
    <3>1. frames' = Relive(n) /\ top' = top
      BY <2>1, <2>3 DEF Answered, MachineOf
    <3> QED
      BY <2>1, <2>2, <3>1, StaysRooted
  <2>4. CASE Pushed(m2, Relive(n), top, base, base - 1)
    <3>1. PICK f \in FrameType : /\ frames' = Append(Relive(n), f) /\ f.callerTop = top
                                /\ top' \in 0 .. StackSize
      BY <2>1, <2>4 DEF Pushed
    <3>2. top' \in Nat
      BY <3>1, RunRoots
    <3> QED
      BY <2>1, <2>2, <3>1, <3>2, PushRooted
  <2> QED
    BY <1>3, <2>1, <2>3, <2>4
<1> QED
  BY <1>4
-----------------------------------------------------------------------------
(* One lemma per action: what it leaves below the top is allocated.         *)

LEMMA MadeIs == \A c : Made(c) \in SUBSET {Object}
  BY DEF Made

\* The operands of an instruction lie below the top.
LEMMA RegisterClean ==
  ASSUME IInv, Contents, RInv, Running
  PROVE  \A r \in Nat : r < TopFrame.locals =>
           /\ Register(r) \in Slots /\ Register(r) < top /\ Register(r) \in Nat
           /\ stack[Register(r)] \in heap \cup {Nil} /\ stack[Register(r)] \in Cell
<1> SUFFICES ASSUME NEW r \in Nat, r < TopFrame.locals
             PROVE  /\ Register(r) \in Slots /\ Register(r) < top /\ Register(r) \in Nat
                    /\ stack[Register(r)] \in heap \cup {Nil} /\ stack[Register(r)] \in Cell
  OBVIOUS
<1>1. Register(r) \in Nat /\ Register(r) < top /\ Register(r) \in Slots
  BY RegisterSlots DEF Register, Slots
<1> QED
  BY <1>1, RunRoots DEF Clean

LEMMA LoadRooted ==
  ASSUME IInv, Contents, RInv, NEW v \in Value, Load(v) PROVE Rooted'
<1>1. /\ Running /\ TopFrame.live < TopFrame.locals /\ top' = top /\ nests' = nests
      /\ stack' = [stack EXCEPT ![Register(TopFrame.live)] = v]
      /\ heap' = heap \cup {v} /\ mode' = "execute"
  BY DEF Load, Running
<1>2. TopFrame.live + 1 \in Nat /\ TopFrame.live + 1 <= TopFrame.locals
  BY <1>1, RegisterSlots
<1>3. frames' = Relive(TopFrame.live + 1)
  BY DEF Load, Relive, TopFrame
<1>4. Clean(stack', top, heap' \cup {Nil})
  <2>1. Clean(stack, top, heap' \cup {Nil})
    BY <1>1, RunRoots, CleanMore
  <2>2. v \in Cell /\ v \in heap' \cup {Nil}
    BY <1>1 DEF Cell
  <2> QED
    BY <1>1, <2>1, <2>2, CleanSet
<1> QED
  BY <1>1, <1>2, <1>3, <1>4, StaysRooted

LEMMA DropRooted ==
  ASSUME IInv, Contents, RInv, Drop PROVE Rooted'
<1>1. /\ Running /\ TopFrame.live > 0 /\ UNCHANGED <<stack, top, nests, heap>> /\ mode' = "execute"
  BY DEF Drop, Running
<1>2. TopFrame.live - 1 \in Nat /\ TopFrame.live - 1 <= TopFrame.locals
  BY <1>1, RegisterSlots
<1>3. frames' = Relive(TopFrame.live - 1)
  BY DEF Drop, Relive, TopFrame
<1> QED
  BY <1>1, <1>2, <1>3, RunRoots, StaysRooted

LEMMA CallStepRooted ==
  ASSUME IInv, Contents, RInv, NEW c \in Callees, c.kind # "instance", NEW argc \in Nat, Call(c, argc)
  PROVE  Unwind \/ Rooted'
<1> DEFINE n    == TopFrame.live - argc
           base == TopFrame.base + n
<1>1. Running /\ argc < TopFrame.live
  BY DEF Call
<1>2. /\ n \in Nat \ {0} /\ n \in Nat /\ n <= TopFrame.locals /\ base + argc <= top
      /\ base \in Nat \ {0} /\ TopFrame.live - argc - 1 + 1 = n
  BY <1>1, RegisterSlots
<1>3. Allocated(n) = MachineOf(stack, top, Relive(n))
  BY <1>1, <1>2, ReliveFacts
<1>4. CallOutcome(CallValue(MachineOf(stack, top, Relive(n)), c, argc, base, FALSE), Made(c))
  BY <1>2, <1>3 DEF Call, Register
<1> HIDE DEF n, base
<1> QED
  BY <1>1, <1>2, <1>4, RunRoots, MadeIs, CallRooted

LEMMA InvokeMemberRooted ==
  ASSUME IInv, Contents, RInv, NEW c \in Callees, c.kind # "instance", NEW argc \in Nat,
         InvokeMember(c, argc)
  PROVE  Unwind \/ Rooted'
<1> DEFINE self == TopFrame.live - argc - 2
           n    == self + 1
           base == TopFrame.base + n
           slid == CopyUp(stack, base + 1, base, argc)
           s    == [slid EXCEPT ![Register(self)] = Object]
           made == Made(c) \cup {Object}
<1>1. Running /\ argc + 1 < TopFrame.live
  BY DEF InvokeMember
<1>2. /\ self \in Nat /\ self < TopFrame.locals /\ n \in Nat \ {0} /\ n \in Nat
      /\ n <= TopFrame.locals /\ base + 1 + argc <= top /\ base + argc <= top
      /\ base \in Nat \ {0} /\ base \in Nat /\ base + 1 \in Nat /\ base <= base + 1
      /\ Register(self + 2) = base + 1 /\ Register(self + 1) = base
      /\ Register(n) = base
  BY <1>1, RegisterSlots DEF Register
<1>3. Allocated(n) = MachineOf(stack, top, Relive(n))
  BY <1>1, <1>2, ReliveFacts
<1>4. [Allocated(n) EXCEPT !.stack = s] = MachineOf(s, top, Relive(n))
  BY <1>1, <1>2, ReliveFacts
<1>5. CallOutcome(CallValue([Allocated(n) EXCEPT !.stack = s], c, argc, base, FALSE), made)
  BY <1>2 DEF InvokeMember
<1>6. CallOutcome(CallValue(MachineOf(s, top, Relive(n)), c, argc, base, FALSE), made)
  <2> HIDE DEF s, n, base, made
  <2> QED
    BY <1>4, <1>5
<1>7. Clean(s, top, heap \cup {Nil})
  <2>1. Clean(slid, top, heap \cup {Nil})
    <3>1. \A x \in Slots : x < top => x < top \/ (base <= x /\ x < base + argc)
      OBVIOUS
    <3> HIDE DEF base, n, self
    <3> QED
      BY <1>1, <1>2, <3>1, RunRoots, CleanCopies
  <2> HIDE DEF slid
  <2> QED
    BY <1>1, <2>1, RunRoots, CleanSet
<1>8. made \in SUBSET {Object}
  BY MadeIs
<1> HIDE DEF s, n, base, made
<1> QED
  BY <1>1, <1>2, <1>6, <1>7, <1>8, CallRooted

LEMMA ReturnRooted ==
  ASSUME IInv, Contents, RInv, NEW v \in Cell, Return(v)
  PROVE  Rooted'
<1> DEFINE w == IF TopFrame.toplevel /\ Len(frames) > 1 THEN Object ELSE v
<1>1. /\ Running /\ v \in {stack[Register(r)] : r \in 0 .. TopFrame.live - 1} \cup {Nil}
      /\ Install(PopFrame(Machine, w)) /\ nests' = nests /\ heap' = heap
      /\ mode' = mode \/ LeaveExecute
  BY DEF Return
<1>2. Machine = MachineOf(stack, top, frames)
  BY <1>1, RunningFacts
<1>3. v \in heap \cup {Nil}
  <2>1. \A r \in 0 .. TopFrame.live - 1 : r \in Nat /\ r < TopFrame.locals
    BY <1>1, RegisterSlots
  <2> QED
    BY <1>1, <2>1, RegisterClean
<1>4. w \in heap \cup {Nil} /\ w \in Cell
  BY <1>1, <1>3, RunRoots
<1> HIDE DEF w
<1>5. frames' = Front(frames) /\ stack' = [stack EXCEPT ![TopFrame.ret] = w] /\ top' = TopFrame.callerTop
  <2>1. PopFrame(MachineOf(stack, top, frames), w)
          = MachineOf([stack EXCEPT ![Last(frames).ret] = w], Last(frames).callerTop, Front(frames))
    BY PopFrameIs
  <2>2. Install(MachineOf([stack EXCEPT ![Last(frames).ret] = w], Last(frames).callerTop, Front(frames)))
    BY <1>1, <1>2, <2>1
  <2> QED
    BY <1>1, <2>2, RunRoots DEF Install, MachineOf
<1>6. Clean(stack', top, heap' \cup {Nil})
  BY <1>1, <1>4, <1>5, RunRoots, CleanSet
<1>7. mode' = "native" => nests # <<>>
  BY <1>1 DEF LeaveExecute, Running
<1> QED
  BY <1>1, <1>5, <1>6, <1>7, PopRooted

\* invoke_method on operands s.
MethodRooted ==
  \A s \in [Slots -> Cell], n \in Nat, c \in Callees, self \in Cell, ret, base, total \in Nat :
    /\ n <= TopFrame.locals /\ c.kind = "method"
    /\ Clean([s EXCEPT ![base] = self], Larger(top, base + total), heap \cup {Nil})
    /\ CallOutcome(InvokeMethod(MachineOf(s, top, Relive(n)), c, self, ret, base, total), {})
    => Unwind \/ Rooted'

LEMMA MethodsRooted == ASSUME IInv, Contents, RInv, Running PROVE MethodRooted
<1> SUFFICES ASSUME NEW s \in [Slots -> Cell], NEW n \in Nat, NEW c \in Callees, NEW self \in Cell,
                    NEW ret \in Nat, NEW base \in Nat, NEW total \in Nat,
                    n <= TopFrame.locals, c.kind = "method",
                    Clean([s EXCEPT ![base] = self], Larger(top, base + total), heap \cup {Nil}),
                    CallOutcome(InvokeMethod(MachineOf(s, top, Relive(n)), c, self, ret, base, total), {}),
                    ~Unwind
             PROVE  Rooted'
  BY DEF MethodRooted
<1> DEFINE m2 == InvokeMethod(MachineOf(s, top, Relive(n)), c, self, ret, base, total)
           G  == heap \cup {Nil}
<1>1. /\ Ok(m2) /\ heap' = heap /\ nests' = nests /\ mode' = "execute"
      /\ stack' = m2.stack /\ top' = m2.top /\ frames' = m2.frames
  BY DEF CallOutcome, Running, Install
<1>2. Relive(n) \in Seq(FrameType) /\ top \in 0 .. StackSize /\ Nil \in G
  BY ReliveFacts, RunRoots
<1>3. CleanAbove(m2, top, G)
  <2>1. Clean([s EXCEPT ![base] = self], Larger(top, base + total), G)
    OBVIOUS
  <2> HIDE DEF G
  <2> QED
    BY <1>1, <1>2, <2>1, InvokeMethodClean DEF m2
<1>4. Pushed(m2, Relive(n), top, base, ret)
  BY <1>1, <1>2, InvokeMethodFacts DEF m2
<1> HIDE DEF m2
<1>5. PICK f \in FrameType : /\ frames' = Append(Relive(n), f) /\ f.callerTop = top
                            /\ top' \in 0 .. StackSize
  BY <1>1, <1>4 DEF Pushed
<1>6. Clean(stack', top', heap' \cup {Nil}) /\ top <= top' /\ top' \in Nat
  BY <1>1, <1>3, <1>5, RunRoots DEF CleanAbove
<1> QED
  BY <1>1, <1>5, <1>6, PushRooted

LEMMA InvokeRooted ==
  ASSUME IInv, Contents, RInv, NEW c \in Callees, c.kind = "method", NEW argc \in Nat, Invoke(c, argc)
  PROVE  Unwind \/ Rooted'
<1> DEFINE self  == TopFrame.live - argc - 2
           n     == self + 1
           base  == Register(n)
           total == argc + 1
           v     == stack[Register(self)]
<1>1. Running /\ argc + 1 < TopFrame.live
  BY DEF Invoke
<1>2. /\ self \in Nat /\ self < TopFrame.locals /\ n \in Nat /\ n <= TopFrame.locals
      /\ base \in Nat /\ base + total <= top /\ total \in Nat /\ Register(self) \in Nat
      /\ base + total \in Nat
  BY <1>1, RegisterSlots DEF Register
<1>3. v \in heap \cup {Nil} /\ v \in Cell
  BY <1>1, <1>2, RegisterClean
<1>4. Larger(top, base + total) = top
  BY <1>1, <1>2, RunRoots DEF Larger
<1>5. Allocated(n) = MachineOf(stack, top, Relive(n))
  BY <1>1, <1>2, ReliveFacts
<1>6. CallOutcome(InvokeMethod(MachineOf(stack, top, Relive(n)), c, v, Register(self), base, total), {})
  BY <1>5 DEF Invoke
<1>7. Clean([stack EXCEPT ![base] = v], top, heap \cup {Nil})
  BY <1>1, <1>3, RunRoots, CleanSet
<1> HIDE DEF n, base, total, v, self
<1> QED
  BY <1>1, <1>2, <1>3, <1>4, <1>6, <1>7, RunRoots, MethodsRooted DEF MethodRooted

LEMMA OperatorRooted ==
  ASSUME IInv, Contents, RInv, NEW c \in Callees, c.kind = "method", NEW lhs \in Nat, NEW rhs \in Nat,
         NEW dst \in Nat, NEW total \in {1, 2}, Operator(c, lhs, rhs, dst, total)
  PROVE  Unwind \/ Rooted'
<1> DEFINE n   == Larger(dst + 1, TopFrame.live)
           x   == stack[Register(lhs)]
           y   == stack[Register(rhs)]
           s   == IF total = 2 THEN [stack EXCEPT ![top + 1] = y] ELSE stack
           G   == heap \cup {Nil}
<1>1. /\ Running /\ lhs < TopFrame.live /\ rhs < TopFrame.live /\ dst <= TopFrame.live
      /\ dst < TopFrame.locals
  BY DEF Operator
<1>2. /\ n \in Nat /\ n <= TopFrame.locals /\ top \in Nat /\ Register(dst) \in Nat /\ total \in Nat
      /\ lhs < TopFrame.locals /\ rhs < TopFrame.locals
  BY <1>1, RegisterSlots DEF Larger, Register
<1>3. x \in G /\ x \in Cell /\ y \in G /\ y \in Cell
  BY <1>1, <1>2, RegisterClean
<1> HIDE DEF n
<1>4. /\ Allocated(n) = MachineOf(stack, top, Relive(n))
      /\ \A z : [Allocated(n) EXCEPT !.stack = z] = MachineOf(z, top, Relive(n))
  BY <1>1, <1>2, ReliveFacts
<1>5. CASE ~Unwind
  <2>1. /\ top + total < StackSize
        /\ CallOutcome(InvokeMethod(IF total = 2
                                    THEN [Allocated(n) EXCEPT !.stack[top + 1] = y]
                                    ELSE Allocated(n),
                                    c, x, Register(dst), top, total), {})
    BY <1>5 DEF Operator, n
  <2>2. Allocated(n).stack = stack
    BY <1>4 DEF MachineOf
  <2>3. (IF total = 2 THEN [Allocated(n) EXCEPT !.stack[top + 1] = y] ELSE Allocated(n))
          = MachineOf(s, top, Relive(n))
    BY <1>4, <2>2
  <2>4. CallOutcome(InvokeMethod(MachineOf(s, top, Relive(n)), c, x, Register(dst), top, total), {})
    BY <2>1, <2>3
  <2> HIDE DEF x, y
  <2>5. Clean(stack, top, G) /\ stack \in [Slots -> Cell]
    BY <1>1, RunRoots
  <2> HIDE DEF G
  <2>6. s \in [Slots -> Cell]
    BY <1>3, <2>5
  <2>7. Clean([s EXCEPT ![top] = x], top + total, G)
    <3>1. CASE total = 1
      <4>1. s = stack
        BY <3>1
      <4>2. \A i \in Slots : i < top + 1 => i < top \/ i = top
        BY <1>2, SlotFacts
      <4> QED
        BY <1>3, <2>5, <3>1, <4>1, <4>2, CleanSet
    <3>2. CASE total = 2
      <4>1. /\ \A i \in Slots : i < top + 2 => i < top + 1 \/ i = top + 1
            /\ \A i \in Slots : i < top + 1 => i < top \/ i = top
        BY <1>2, SlotFacts
      <4>2. Clean([stack EXCEPT ![top] = x], top + 1, G)
        BY <1>3, <2>5, <4>1, CleanSet
      <4>3. Clean([[stack EXCEPT ![top] = x] EXCEPT ![top + 1] = y], top + 2, G)
        BY <1>3, <4>1, <4>2, CleanSet
      <4>4. s = [stack EXCEPT ![top + 1] = y]
        BY <3>2
      <4>5. [[stack EXCEPT ![top + 1] = y] EXCEPT ![top] = x]
              = [[stack EXCEPT ![top] = x] EXCEPT ![top + 1] = y]
        <5>1. top # top + 1
          BY <1>2
        <5> QED
          BY <5>1
      <4> QED
        BY <3>2, <4>3, <4>4, <4>5
    <3> QED
      BY <3>1, <3>2
  <2>8. Larger(top, top + total) = top + total
    BY <1>2 DEF Larger
  <2> HIDE DEF s
  <2>9. Clean([s EXCEPT ![top] = x], Larger(top, top + total), heap \cup {Nil})
    BY <2>7, <2>8 DEF G
  <2> QED
    BY <1>1, <1>2, <1>3, <2>4, <2>6, <2>9, MethodsRooted DEF MethodRooted
<1> QED
  BY <1>5

LEMMA ImportModuleRooted ==
  ASSUME IInv, Contents, RInv, NEW c \in Callees, ImportModule(c)
  PROVE  Unwind \/ Rooted'
<1> DEFINE n    == TopFrame.live + 1
           ret  == Register(TopFrame.live)
           high == top + c.locals + 1
           s    == [stack EXCEPT ![ret] = Object]
           m    == [Allocated(n) EXCEPT !.stack[ret] = Object]
           f    == Frame(top, c.locals, 0, ret, top, TRUE)
           m2   == IF Len(frames) >= MaxFrames \/ high > StackSize THEN Fault(m)
                   ELSE [stack |-> Clear(m.stack, top, high - 1), top |-> high, status |-> "ok",
                         frames |-> Append(m.frames, f)]
           G    == heap \cup {Nil}
<1>1. Running /\ TopFrame.live < TopFrame.locals /\ CallOutcome(m2, {Object})
  BY DEF ImportModule
<1>2. c.locals \in Nat /\ top \in Nat
  BY <1>1, RunRoots, ConstantsAssumption
<1>3. n \in Nat /\ n <= TopFrame.locals /\ ret \in Nat
  BY <1>1, RegisterSlots DEF Register
<1>4. f \in FrameType /\ f.callerTop = top
  BY <1>2, <1>3 DEF Frame, FrameType
<1> HIDE DEF ret
<1>5. m = MachineOf(s, top, Relive(n))
  <2>1. /\ Allocated(n) = MachineOf(stack, top, Relive(n))
        /\ \A z : [Allocated(n) EXCEPT !.stack = z] = MachineOf(z, top, Relive(n))
    BY <1>1, <1>3, ReliveFacts
  <2>2. Allocated(n).stack = stack
    BY <2>1 DEF MachineOf
  <2> QED
    BY <2>1, <2>2
<1>6. m.frames = Relive(n) /\ m.stack = s /\ ~Ok(Fault(m))
  BY <1>5 DEF MachineOf, Fault, Ok
<1> HIDE DEF n, m, f
<1>7. Clean(s, top, G)
  <2>1. Clean(stack, top, G) /\ Object \in Cell /\ Object \in G
    BY <1>1, RunRoots
  <2> HIDE DEF G
  <2> QED
    BY <2>1, CleanSet
<1> HIDE DEF s
<1>8. CASE ~Unwind
  <2>1. Ok(m2) /\ Install(m2) /\ nests' = nests /\ mode' = "execute" /\ heap' = heap
    BY <1>1, <1>8, RunRoots DEF CallOutcome, Running
  <2>2. m2 = [stack |-> Clear(s, top, high - 1), top |-> high, status |-> "ok",
              frames |-> Append(Relive(n), f)]
    BY <1>6, <2>1
  <2>3. stack' = Clear(s, top, high - 1) /\ frames' = Append(Relive(n), f) /\ top' = high
    BY <2>1, <2>2 DEF Install
  <2>4. high \in Nat /\ top <= high
    BY <1>2
  <2>5. \A i \in Slots : i < high => i < top \/ (top <= i /\ i <= high - 1)
    BY <1>2, <2>4, SlotFacts
  <2>6. Clean(stack', high, G)
    <3>1. Nil \in G
      OBVIOUS
    <3> HIDE DEF G, high
    <3> QED
      BY <1>7, <2>3, <2>5, <3>1, CleanClear
  <2> HIDE DEF high
  <2> QED
    BY <1>1, <1>3, <1>4, <2>1, <2>3, <2>4, <2>6, PushRooted
<1> QED
  BY <1>8

\* The innermost frame ends with v, in whatever is left of the slots below the top.
LEMMA CompleteRooted ==
  ASSUME IInv, Contents, RInv, Running, NEW s, NEW t, Clean(s, top, heap \cup {Nil}),
         NEW v \in Cell, v \in heap \cup {Nil},
         TailComplete(PopFrame(MachineOf(s, t, frames), v))
  PROVE  Rooted'
<1> DEFINE m == PopFrame(MachineOf(s, t, frames), v)
<1>1. Install(m) /\ (mode' = mode \/ LeaveExecute) /\ heap' = heap \cup {Object} /\ nests' = nests
  BY DEF TailComplete
<1>2. m = MachineOf([s EXCEPT ![Last(frames).ret] = v], Last(frames).callerTop, Front(frames))
  BY PopFrameIs
<1> HIDE DEF m
<1>3. /\ frames' = Front(frames) /\ stack' = [s EXCEPT ![TopFrame.ret] = v]
      /\ top' = TopFrame.callerTop
  BY <1>1, <1>2, RunRoots DEF Install, MachineOf
<1>4. heap' = heap
  BY <1>1, RunRoots
<1>5. Clean(stack', top, heap' \cup {Nil})
  BY <1>3, <1>4, RunRoots, CleanSet
<1>6. mode' = "native" => nests # <<>>
  BY <1>1 DEF LeaveExecute, Running
<1> QED
  BY <1>1, <1>3, <1>5, <1>6, PopRooted

LEMMA TailCallRooted ==
  ASSUME IInv, Contents, RInv, NEW c \in Callees, c.kind # "instance", NEW argc \in Nat,
         TailCall(c, argc), Len(frames') = Len(frames) => top' = top
  PROVE  Unwind \/ Rooted'
<1> DEFINE base == TopFrame.base + (TopFrame.live - argc)
           m    == CallValue(MachineOf(stack, top, frames), c, argc, base, TRUE)
           G    == heap \cup {Nil}
<1>1. Running /\ argc < TopFrame.live
  BY DEF TailCall
<1>2. Machine = MachineOf(stack, top, frames)
  BY DEF Machine, MachineOf
<1>3. base \in Nat \ {0} /\ TopFrame.base < base /\ base + argc <= top
  <2>1. /\ TopFrame.base \in Nat /\ TopFrame.live \in Nat /\ TopFrame.locals \in Nat
        /\ TopFrame.live <= TopFrame.locals /\ TopFrame.base + TopFrame.locals + 1 <= top
        /\ top \in Nat
    <3> HIDE DEF base, m, G
    <3> QED
      BY <1>1, RegisterSlots
  <2> QED
    BY <1>1, <2>1
<1>4. \/ Unwind
      \/ c.kind # "native" /\ c.kind # "class" /\ CallOutcome(m, Made(c))
      \/ c.kind = "class" /\ Ok(m) /\ TailComplete(m)
      \/ TailComplete(PopFrame(MachineOf(stack, top, frames), Object))
  <2> HIDE DEF m
  <2>1. m = CallValue(Machine, c, argc, Register(TopFrame.live - argc), TRUE)
    BY <1>2 DEF m, Register
  <2> QED
    BY <1>2, <2>1 DEF TailCall
<1>5. Clean(stack, top, G) /\ Nil \in G /\ Made(c) \subseteq G /\ Last(frames) = TopFrame
  BY <1>1, RunRoots DEF Made
<1> HIDE DEF base
<1>6. CASE c.kind # "native" /\ c.kind # "class" /\ CallOutcome(m, Made(c)) /\ ~Unwind
  <2>1. Ok(m) /\ Install(m) /\ nests' = nests /\ mode' = "execute" /\ heap' = heap \cup Made(c)
    BY <1>1, <1>6 DEF CallOutcome, Running
  <2>2. heap' = heap
    BY <1>1, <2>1, RunRoots DEF Made
  <2>3. Replaced(m, frames)
    BY <1>1, <1>3, <1>6, <2>1, RunRoots, CallValueTailFacts
  <2>4. PICK f \in FrameType : frames' = Append(Front(frames), f) /\ f.callerTop = TopFrame.callerTop
    <3> HIDE DEF m
    <3> QED
      BY <1>5, <2>1, <2>3 DEF Replaced, Install
  <2>5. Len(frames') = Len(frames)
    <3>1. Front(frames) \in Seq(FrameType) /\ Len(Front(frames)) = Len(frames) - 1
      BY <1>1, RunRoots, FrontFacts
    <3>2. Len(frames') = Len(frames) - 1 + 1
      BY <2>4, <3>1, AppendFacts
    <3> QED
      BY <1>1, <3>2, RunRoots
  <2>6. top' = top
    BY <2>5
  <2>7. m.top = top
    BY <2>1, <2>6 DEF Install
  <2>8. Clean(m.stack, top, G)
    <3> HIDE DEF G
    <3> QED
      BY <1>1, <1>3, <1>5, <1>6, <2>1, <2>7, RunRoots, CallValueTailClean
  <2> HIDE DEF m
  <2>9. Clean(stack', top, heap' \cup {Nil})
    BY <2>1, <2>2, <2>8 DEF Install
  <2> QED
    BY <1>1, <2>1, <2>4, <2>6, <2>9, ReplaceRooted
<1>7. ASSUME c.kind = "class", Ok(m) PROVE m = PopFrame(MachineOf(stack, top, frames), Object)
  <2>1. m = CallClass(MachineOf(stack, top, frames), argc, base, TRUE)
    BY <1>7 DEF CallValue
  <2>2. ~Ok(Fault(MachineOf(stack, top, frames)))
    BY DEF MachineOf, Fault, Ok
  <2> HIDE DEF m
  <2> QED
    BY <1>7, <2>1, <2>2 DEF CallClass
<1>8. ASSUME TailComplete(PopFrame(MachineOf(stack, top, frames), Object)) PROVE Rooted'
  BY <1>1, <1>8, RunRoots, CompleteRooted
<1> HIDE DEF m
<1> QED
  BY <1>4, <1>6, <1>7, <1>8

\* The frame of a callee that a native runs starts above the top the native restores.
LEMMA EnterRooted ==
  ASSUME IInv, Contents, RInv, Running, NEW n \in Nat, n <= TopFrame.locals,
         NEW f \in FrameType, top < f.callerTop, frames' = Append(Relive(n), f),
         NEW x \in NestType, x.stop = Len(frames), x.savedTop = top, nests' = Append(nests, x),
         top' \in Nat, f.callerTop <= top', mode' = "execute", Clean(stack', top', heap' \cup {Nil})
  PROVE  Rooted'
<1>1. /\ Relive(n) \in Seq(FrameType) /\ Len(Relive(n)) = Len(frames)
      /\ Relive(n)[Len(frames)] = [TopFrame EXCEPT !.live = n]
      /\ \A i \in 1 .. Len(frames) - 1 : Relive(n)[i] = frames[i]
  BY ReliveFacts, ReliveEach
<1>2. /\ Len(frames') = Len(frames) + 1 /\ frames'[Len(frames) + 1] = f /\ frames' \in Seq(FrameType)
      /\ \A i \in 1 .. Len(frames) : frames'[i] = Relive(n)[i]
  BY <1>1, AppendFacts
<1>3. Relive(n)[Len(frames)].callerTop = frames[Len(frames)].callerTop
  BY <1>1, RunningFacts DEF FrameType
<1>4. SameTops(frames', frames, Len(frames))
  <2>1. \A i \in 1 .. Len(frames) : i \in 1 .. Len(frames) - 1 \/ i = Len(frames)
    BY RunRoots
  <2> QED
    BY <1>1, <1>2, <1>3, <2>1 DEF SameTops
<1> DEFINE u == frames'[Len(frames) + 1].callerTop
<1>5. u \in Nat /\ top < u /\ top <= u /\ u <= u /\ u = f.callerTop
  <2>1. f.callerTop \in Nat
    BY DEF FrameType
  <2> QED
    BY <1>2, <2>1, RunRoots
<1>6. Levels(frames', nests, u)
  BY <1>2, <1>4, <1>5, RunRoots, LevelsPush
<1>7. Levels(frames', Append(nests, x), u)
  BY <1>2, <1>4, <1>5, <1>6, RunRoots, LevelsEnter
<1>8. Levels(frames', nests', top')
  <2>1. nests' \in Seq(NestType) /\ SameTops(frames', frames', Len(frames')) /\ u <= top'
    BY <1>5, RunRoots, AppendFacts DEF SameTops
  <2> HIDE DEF u
  <2> QED
    BY <1>2, <1>5, <1>7, <2>1, LevelsStay
<1> QED
  BY <1>8 DEF Rooted

\* call_value_sync ran the callee's first frame, or got the answer at once: for a native
\* that was called, or tail-called.
SyncOutcome(c, argc, tail, n, base) ==
  LET t  == top + argc + 1
      s2 == CopyUp([stack EXCEPT ![top] = stack[base - 1]], base, top + 1, argc)
      m2 == CallValue(MachineOf(s2, t, Relive(n)), c, argc, top + 1, FALSE)
  IN  /\ t <= StackSize /\ Ok(m2)
      /\ \/ /\ Len(m2.frames) > Len(frames)
            /\ Install(m2) /\ nests' = Append(nests, Nest(Len(frames), top, base, tail))
            /\ mode' = "execute" /\ heap' = heap \cup Made(c)
         \/ /\ ~(Len(m2.frames) > Len(frames)) /\ ~tail
            /\ Install([m2 EXCEPT !.stack[base - 1] = m2.stack[top], !.top = top])
            /\ nests' = nests /\ mode' = "execute" /\ heap' = heap \cup Made(c)
         \/ /\ ~(Len(m2.frames) > Len(frames)) /\ tail
            /\ TailComplete(PopFrame([m2 EXCEPT !.top = top], m2.stack[top]))

LEMMA CallSyncCases ==
  ASSUME IInv, Running, NEW c \in Callees, NEW argc \in Nat, NEW tail \in BOOLEAN, CallSync(c, argc, tail),
         ~Unwind, NEW k, k = TopFrame.live - argc, NEW n, n = IF tail THEN TopFrame.live ELSE k,
         NEW base, base = TopFrame.base + k
  PROVE  SyncOutcome(c, argc, tail, n, base)
<1> DEFINE t  == top + argc + 1
           s2 == CopyUp([stack EXCEPT ![top] = stack[base - 1]], base, top + 1, argc)
           g  == IF tail THEN frames ELSE Relive(k)
           mk == IF tail THEN Machine ELSE Allocated(k)
           m2 == CallValue(MachineOf(s2, t, g), c, argc, top + 1, FALSE)
<1>1. argc < TopFrame.live /\ mode = "execute"
  BY DEF CallSync, Running
<1>2. k \in Nat /\ k <= TopFrame.locals /\ TopFrame.live - argc - 1 + 1 = k
  BY <1>1, RegisterSlots
<1>3. Machine = MachineOf(stack, top, frames) /\ Allocated(k) = MachineOf(stack, top, Relive(k))
  BY <1>2, RunningFacts, ReliveFacts
<1>4. mk = MachineOf(stack, top, g)
  BY <1>3
<1>5. g = Relive(n)
  BY ReliveSame
<1> HIDE DEF g, s2, t
<1>6. [mk EXCEPT !.stack = s2, !.top = t] = MachineOf(s2, t, g)
  <2> HIDE DEF mk
  <2>1. [MachineOf(stack, top, g) EXCEPT !.stack = s2, !.top = t]
          = [[MachineOf(stack, top, g) EXCEPT !.stack = s2] EXCEPT !.top = t]
    OBVIOUS
  <2>2. [MachineOf(stack, top, g) EXCEPT !.stack = s2] = MachineOf(s2, top, g)
    BY DEF MachineOf
  <2>3. [MachineOf(s2, top, g) EXCEPT !.top = t] = MachineOf(s2, t, g)
    BY DEF MachineOf
  <2> QED
    BY <1>4, <2>1, <2>2, <2>3
<1>7. /\ t <= StackSize /\ Ok(m2)
      /\ \/ /\ Len(m2.frames) > Len(frames)
            /\ Install(m2) /\ nests' = Append(nests, Nest(Len(frames), top, base, tail))
            /\ mode' = "execute" /\ heap' = heap \cup Made(c)
         \/ /\ ~(Len(m2.frames) > Len(frames)) /\ ~tail
            /\ Install([m2 EXCEPT !.stack[base - 1] = m2.stack[top], !.top = top])
            /\ nests' = nests /\ mode' = "execute" /\ heap' = heap \cup Made(c)
         \/ /\ ~(Len(m2.frames) > Len(frames)) /\ tail
            /\ TailComplete(PopFrame([m2 EXCEPT !.top = top], m2.stack[top]))
  <2> USE DEF s2, t
  <2> QED
    BY <1>1, <1>2, <1>6 DEF CallSync, Register
<1> QED
  BY <1>5, <1>7 DEF s2, t, SyncOutcome

LEMMA StagedClean ==
  ASSUME IInv, Contents, RInv, Running, NEW argc \in Nat, NEW base \in Nat \ {0}, base + argc <= top,
         top + argc + 1 <= StackSize
  PROVE  Clean(CopyUp([stack EXCEPT ![top] = stack[base - 1]], base, top + 1, argc),
               top + argc + 1, heap \cup {Nil})
<1> DEFINE G    == heap \cup {Nil}
           next == top + 1
           t    == top + argc + 1
           v    == stack[base - 1]
           s1   == [stack EXCEPT ![top] = v]
<1>1. /\ top \in Nat /\ StackSize \in Nat /\ next \in Nat /\ t \in 0 .. StackSize /\ base \in Nat
      /\ base + argc <= next /\ base + argc <= t /\ base - 1 \in Slots /\ base - 1 < top
  <2>1. top \in Nat /\ StackSize \in Nat
    BY RunRoots
  <2> QED
    BY <2>1 DEF Slots
<1>2. v \in G /\ v \in Cell /\ Clean(stack, top, G)
  BY <1>1, RunRoots DEF Clean
<1> HIDE DEF G, v
<1>3. Clean(s1, next, G)
  <2>1. \A x \in Slots : x < next => x < top \/ x = top
    BY <1>1, SlotFacts
  <2> QED
    BY <1>2, <2>1, CleanSet
<1> HIDE DEF s1
<1>4. \A x \in Slots : x < t => x < next \/ (next <= x /\ x < next + argc)
  BY <1>1, SlotFacts
<1>5. next \in 0 .. StackSize /\ base + argc <= next
  BY <1>1
<1> HIDE DEF next, t
<1>6. Clean(CopyUp(s1, base, next, argc), t, G)
  BY <1>1, <1>3, <1>4, <1>5, CleanCopies
<1> QED
  BY <1>6 DEF G, v, s1, next, t

LEMMA CallSyncRooted ==
  ASSUME IInv, Contents, RInv, NEW c \in Callees, c.kind # "instance", NEW argc \in Nat,
         NEW tail \in BOOLEAN, CallSync(c, argc, tail)
  PROVE  Unwind \/ Rooted'
<1> SUFFICES ASSUME ~Unwind PROVE Rooted'
  OBVIOUS
<1> DEFINE k    == TopFrame.live - argc
           n    == IF tail THEN TopFrame.live ELSE k
           base == TopFrame.base + k
           slot == top + 1
           t    == top + argc + 1
           s2   == CopyUp([stack EXCEPT ![top] = stack[base - 1]], base, slot, argc)
           m2   == CallValue(MachineOf(s2, t, Relive(n)), c, argc, slot, FALSE)
           G    == heap \cup {Nil}
<1>1. Running /\ argc < TopFrame.live
  BY DEF CallSync
<1>2. /\ n \in Nat /\ n <= TopFrame.locals /\ base \in Nat \ {0} /\ base \in Nat
      /\ base + argc <= top /\ top \in Nat
      /\ StackSize \in Nat /\ slot \in Nat \ {0} /\ slot - 1 = top /\ t \in Nat /\ slot <= t
      /\ slot + argc <= t /\ TopFrame.live \in Nat /\ top < t
  BY <1>1, RegisterSlots
<1>3. /\ t <= StackSize /\ Ok(m2)
      /\ \/ /\ Len(m2.frames) > Len(frames)
            /\ Install(m2) /\ nests' = Append(nests, Nest(Len(frames), top, base, tail))
            /\ mode' = "execute" /\ heap' = heap \cup Made(c)
         \/ /\ ~(Len(m2.frames) > Len(frames)) /\ ~tail
            /\ Install([m2 EXCEPT !.stack[base - 1] = m2.stack[top], !.top = top])
            /\ nests' = nests /\ mode' = "execute" /\ heap' = heap \cup Made(c)
         \/ /\ ~(Len(m2.frames) > Len(frames)) /\ tail
            /\ TailComplete(PopFrame([m2 EXCEPT !.top = top], m2.stack[top]))
  <2>1. k = TopFrame.live - argc /\ n = (IF tail THEN TopFrame.live ELSE k) /\ base = TopFrame.base + k
    OBVIOUS
  <2> HIDE DEF k, n, base
  <2>2. SyncOutcome(c, argc, tail, n, base)
    BY <1>1, <2>1, CallSyncCases
  <2> QED
    BY <2>2 DEF SyncOutcome
<1>4. t \in 0 .. StackSize /\ Relive(n) \in Seq(FrameType) /\ Len(Relive(n)) = Len(frames)
  <2>1. t \in 0 .. StackSize
    <3> HIDE DEF t
    <3> QED
      BY <1>2, <1>3
  <2> HIDE DEF n
  <2>2. Relive(n) \in Seq(FrameType) /\ Len(Relive(n)) = Len(frames)
    BY <1>1, <1>2, ReliveFacts
  <2> QED
    BY <2>1, <2>2
<1>5. Clean(s2, t, G)
  <2> HIDE DEF base
  <2> QED
    BY <1>1, <1>2, <1>3, StagedClean
<1>6. heap \cup Made(c) = heap /\ Made(c) \subseteq G /\ Nil \in G
  BY <1>1, RunRoots DEF Made
<1> HIDE DEF s2, t, n, base, slot, k
<1>7. CleanAbove(m2, t, G)
  <2> HIDE DEF G
  <2> QED
    BY <1>2, <1>3, <1>4, <1>5, <1>6, CallValueClean
<1>8. Answered(m2, Relive(n), t) \/ Pushed(m2, Relive(n), t, slot, slot - 1)
  BY <1>2, <1>3, <1>4, CallValueFacts
<1> HIDE DEF m2
<1>9. CASE Answered(m2, Relive(n), t)
  <2>1. PICK z : m2 = MachineOf(z, t, Relive(n))
    BY <1>9 DEF Answered
  <2>2. m2.stack = z /\ m2.top = t /\ m2.frames = Relive(n)
    BY <2>1 DEF MachineOf
  <2>3. Clean(z, t, G) /\ z \in [Slots -> Cell]
    BY <1>7, <2>2 DEF CleanAbove, Clean
  <2>4. top \in Slots
    BY <1>2, <1>3 DEF Slots
  <2>5. z[top] \in Cell /\ z[top] \in G
    BY <1>2, <2>3, <2>4 DEF Clean
  <2>6. \A x \in Slots : x < top => x < t
    BY <1>2, SlotFacts
  <2>7. Clean(z, top, G)
    <3> HIDE DEF G
    <3> QED
      BY <2>3, <2>6, CleanMore
  <2>8. ~(Len(m2.frames) > Len(frames))
    BY <1>1, <1>4, <2>2, RunRoots
  <2>9. CASE ~tail
    <3> DEFINE y == [z EXCEPT ![base - 1] = z[top]]
    <3>1. /\ Install([m2 EXCEPT !.stack[base - 1] = m2.stack[top], !.top = top])
          /\ nests' = nests /\ mode' = "execute" /\ heap' = heap
      BY <1>3, <1>6, <2>8, <2>9
    <3>2. [m2 EXCEPT !.stack[base - 1] = m2.stack[top], !.top = top]
            = [m2 EXCEPT !.stack = y, !.top = top]
      BY <2>2
    <3>3. Clean(y, top, heap' \cup {Nil})
      <4>1. Clean(y, top, G)
        <5> HIDE DEF G
        <5> QED
          BY <2>5, <2>7, CleanSet
      <4> QED
        BY <3>1, <4>1
    <3> HIDE DEF y
    <3>4. [m2 EXCEPT !.stack = y, !.top = top] = MachineOf(y, top, Relive(n))
      <4>1. [MachineOf(z, t, Relive(n)) EXCEPT !.stack = y, !.top = top]
              = [[MachineOf(z, t, Relive(n)) EXCEPT !.stack = y] EXCEPT !.top = top]
        OBVIOUS
      <4>2. [MachineOf(z, t, Relive(n)) EXCEPT !.stack = y] = MachineOf(y, t, Relive(n))
        BY DEF MachineOf
      <4>3. [MachineOf(y, t, Relive(n)) EXCEPT !.top = top] = MachineOf(y, top, Relive(n))
        BY DEF MachineOf
      <4> QED
        BY <2>1, <4>1, <4>2, <4>3
    <3>5. Install(MachineOf(y, top, Relive(n)))
      BY <3>1, <3>2, <3>4
    <3>6. stack' = y /\ top' = top /\ frames' = Relive(n)
      BY <3>5 DEF Install, MachineOf
    <3> QED
      BY <1>1, <1>2, <3>1, <3>3, <3>6, StaysRooted
  <2>10. CASE tail
    <3>1. TailComplete(PopFrame([m2 EXCEPT !.top = top], m2.stack[top]))
      BY <1>3, <2>8, <2>10
    <3>2. Relive(n) = frames
      BY <1>1, <2>10, ReliveSame DEF n
    <3>3. [m2 EXCEPT !.top = top] = MachineOf(z, top, frames)
      BY <2>1, <3>2 DEF MachineOf
    <3>4. TailComplete(PopFrame(MachineOf(z, top, frames), z[top]))
      BY <2>2, <3>1, <3>3
    <3> QED
      BY <1>1, <2>5, <2>7, <3>4, CompleteRooted
  <2> QED
    BY <2>9, <2>10
<1>10. CASE Pushed(m2, Relive(n), t, slot, slot - 1)
  <2>1. PICK f \in FrameType : /\ m2.frames = Append(Relive(n), f) /\ f.callerTop = t
                              /\ m2.top \in 0 .. StackSize
    BY <1>10 DEF Pushed
  <2>2. Len(m2.frames) > Len(frames)
    <3>1. Len(m2.frames) = Len(Relive(n)) + 1
      BY <1>4, <2>1, AppendFacts
    <3> QED
      BY <1>1, <1>4, <3>1, RunRoots
  <2> DEFINE x == Nest(Len(frames), top, base, tail)
  <2>3. /\ stack' = m2.stack /\ top' = m2.top /\ frames' = m2.frames
        /\ nests' = Append(nests, x) /\ mode' = "execute" /\ heap' = heap
    BY <1>3, <1>6, <2>2 DEF Install
  <2>4. x \in NestType /\ x.stop = Len(frames) /\ x.savedTop = top
    BY <1>1, <1>2, RunRoots DEF Nest, NestType
  <2>5. Clean(stack', top', heap' \cup {Nil}) /\ t <= top' /\ top' \in Nat
    BY <1>2, <1>7, <2>1, <2>3 DEF CleanAbove
  <2> HIDE DEF x
  <2> QED
    BY <1>1, <1>2, <2>1, <2>3, <2>4, <2>5, EnterRooted
<1> QED
  BY <1>8, <1>9, <1>10

LEMMA ResumeRooted ==
  ASSUME SyncTails = FALSE, IInv, Contents, RInv, NEW v, ResumeNative(v)
  PROVE  Rooted'
<1> DEFINE x == Last(nests)
           m == [Machine EXCEPT !.top = x.savedTop]
           G == heap \cup {Nil}
<1>1. mode = "native" /\ v \in {stack[x.savedTop], Object} /\ nests' = Front(nests)
      /\ heap' = IF v = Object THEN heap \cup {Object} ELSE heap
  BY DEF ResumeNative
<1>2. /\ nests # <<>> /\ frames # <<>> /\ Len(frames) = x.stop /\ Len(frames) \in Nat \ {0}
      /\ x \in NestType /\ nests \in Seq(NestType) /\ frames \in Seq(FrameType)
      /\ nests \in Seq(NestType) /\ frames \in Seq(FrameType)
  BY <1>1, NativeFacts
<1>3. Clean(stack, top, G) /\ Levels(frames, nests, top) /\ x.savedTop < top /\ x.savedTop \in Nat
  BY <1>1, <1>2 DEF RInv, Rooted, NestType
<1>4. top \in 0 .. StackSize /\ StackSize \in Nat /\ stack \in [Slots -> Cell] /\ top \in Nat
  BY SlotFacts DEF IInv, Shape, Contents
<1>5. x.savedTop \in Slots /\ \A i \in Slots : i < x.savedTop => i < top
  <2> HIDE DEF x
  <2> QED
    BY <1>3, <1>4, SlotFacts DEF Slots
<1>6. v \in heap' \cup {Nil} /\ v \in Cell /\ G \subseteq heap' \cup {Nil}
  BY <1>1, <1>3, <1>4, <1>5, SlotFacts DEF Clean
<1>7. Clean(stack, x.savedTop, heap' \cup {Nil})
  <2> HIDE DEF G, x
  <2> QED
    BY <1>3, <1>5, <1>6, CleanMore
<1>8. Levels(frames, nests', x.savedTop)
  BY <1>1, <1>2, <1>3, <1>4, LevelsLeave
<1>9. m = MachineOf(stack, x.savedTop, frames)
  BY DEF Machine, MachineOf
<1>10. \/ /\ mode' = "execute"
          /\ Install([m EXCEPT !.stack[x.base - 1] = v])
       \/ /\ Install(PopFrame(m, v))
          /\ mode' = IF Len(frames) > 1 THEN "execute" ELSE IF nests' = <<>> THEN "done" ELSE "native"
          /\ TailMayComplete(Front(nests))
  BY <1>2 DEF ResumeNative
<1>11. StopOf(Front(nests)) < Len(frames) /\ StopOf(Front(nests)) \in Nat
  BY <1>1, NativeFacts
<1> HIDE DEF m, x
<1>12. CASE mode' = "execute" /\ Install([m EXCEPT !.stack[x.base - 1] = v])
  <2> DEFINE y == [stack EXCEPT ![x.base - 1] = v]
  <2>1. m.stack = stack
    BY <1>9 DEF MachineOf
  <2>2. Install([m EXCEPT !.stack = y])
    BY <1>12, <2>1
  <2>3. Clean(y, x.savedTop, heap' \cup {Nil})
    BY <1>6, <1>7, CleanSet
  <2> HIDE DEF y
  <2>4. Install(MachineOf(y, x.savedTop, frames))
    BY <1>9, <2>2, MachineSlots
  <2>5. stack' = y /\ top' = x.savedTop /\ frames' = frames
    BY <2>4 DEF Install, MachineOf
  <2> QED
    BY <1>8, <1>12, <2>3, <2>5 DEF Rooted
<1>13. CASE /\ Install(PopFrame(m, v))
            /\ mode' = IF Len(frames) > 1 THEN "execute" ELSE IF nests' = <<>> THEN "done" ELSE "native"
            /\ TailMayComplete(Front(nests))
  <2> DEFINE y == [stack EXCEPT ![Last(frames).ret] = v]
  <2>1. Install(MachineOf(y, Last(frames).callerTop, Front(frames)))
    <3>1. PopFrame(m, v) = MachineOf(y, Last(frames).callerTop, Front(frames))
      BY <1>9, PopFrameIs
    <3> QED
      BY <1>13, <3>1
  <2>2. Clean(y, x.savedTop, heap' \cup {Nil})
    BY <1>6, <1>7, CleanSet
  <2> HIDE DEF y
  <2>3. stack' = y /\ top' = Last(frames).callerTop /\ frames' = Front(frames)
    BY <2>1 DEF Install, MachineOf
  <2>4. /\ Len(frames') = Len(frames) - 1 /\ Last(frames) = frames[Len(frames)]
        /\ \A i \in 1 .. Len(frames) - 1 : frames'[i] = frames[i]
    BY <1>2, <2>3, FrontFacts
  <2>5. nests' \in Seq(NestType)
    BY <1>1, <1>2, FrontFacts
  <2>6. SameTops(frames', frames, Len(frames) - 1)
    BY <2>4 DEF SameTops
  <2>7. Levels(frames', nests', top') /\ top' <= x.savedTop
    BY <1>2, <1>3, <1>8, <2>3, <2>4, <2>5, <2>6, LevelsPop
  <2>8. top' \in Nat
    <3>1. Last(frames) \in FrameType
      BY <1>2, FrontFacts
    <3> QED
      BY <2>3, <3>1 DEF FrameType
  <2>9. Clean(stack', top', heap' \cup {Nil})
    <3>1. \A i \in Slots : i < top' => i < x.savedTop
      BY <1>3, <2>7, <2>8, SlotFacts
    <3> QED
      BY <2>2, <2>3, <3>1, CleanMore
  <2>10. Len(frames) > 1
    BY <1>2, <1>11, <1>13 DEF TailMayComplete
  <2>11. mode' = "execute"
    BY <1>13, <2>10
  <2> QED
    BY <2>7, <2>9, <2>11 DEF Rooted
<1> QED
  BY <1>10, <1>12, <1>13

LEMMA CollectRooted == ASSUME IInv, Contents, RInv, Collect PROVE Rooted'
<1>1. /\ Running /\ heap' = {stack[i] : i \in 0 .. top - 1} \ {Nil}
      /\ UNCHANGED <<stack, top, frames, nests, mode>>
  BY DEF Collect
<1>2. Clean(stack, top, heap' \cup {Nil})
  <2>1. \A x \in Slots : x < top => x \in 0 .. top - 1
    BY <1>1, RunRoots DEF Slots
  <2> QED
    BY <1>1, <2>1, RunRoots DEF Clean
<1> QED
  BY <1>1, <1>2, RunRoots DEF Rooted
-----------------------------------------------------------------------------
(* Slot 0.                                                                  *)

AnchoredFrames(fs, s) == (fs # <<>> => s[0] = Object) /\ \A i \in 1 .. Len(fs) : fs[i].base > 0

\* A step of the innermost frame.
LEMMA RunShape ==
  ASSUME Calls \/ CallsMethod \/ CallsOperator \/ Imports \/ CallsTail \/ CallsSync \/ Returns
  PROVE  \/ \E n, f : Pushes(n, f)
         \/ \E n : Answers(n)
         \/ \E f : Replaces(f)
         \/ \E v : Pops(v)
<1>1. \A n, argc, skip : CallsWith(n, argc, skip) => (\E f : Pushes(n, f)) \/ Answers(n)
  BY DEF CallsWith
<1>2. CASE Calls \/ CallsMethod
  BY <1>1, <1>2 DEF Calls, CallsMethod
<1>3. CASE CallsOperator \/ Imports
  BY <1>3 DEF CallsOperator, Operates, Imports
<1>4. CASE CallsTail \/ Returns
  BY <1>4 DEF CallsTail, TailCalls, Returns, Ends
<1>5. CASE CallsSync
  BY <1>5 DEF CallsSync, CallsBack, Ends
<1> QED
  BY <1>2, <1>3, <1>4, <1>5

LEMMA AnchoredTop ==
  ASSUME IInv, Contents, Anchored, Running
  PROVE  /\ TopFrame.base \in Nat /\ TopFrame.base > 0 /\ stack[0] = Object /\ 0 \in Slots
         /\ \A i \in 1 .. Len(frames) : frames[i].base > 0
         /\ Len(frames) \in Nat \ {0}
<1>1. Len(frames) \in 1 .. Len(frames) /\ Len(frames) \in Nat \ {0} /\ frames # <<>>
  BY RunningFacts
<1>2. TopFrame.base > 0
  BY <1>1 DEF Anchored, TopFrame
<1>3. TopFrame.base \in Nat /\ 0 \in Slots
  BY RegisterSlots DEF Slots
<1> QED
  BY <1>1, <1>2, <1>3 DEF Anchored

LEMMA AnchoredRelive ==
  ASSUME IInv, Contents, Anchored, Running, NEW n \in Nat, n <= TopFrame.locals, frames' = Relive(n),
         stack'[0] = stack[0]
  PROVE  AnchoredFrames(frames', stack')
<1>1. /\ Len(frames') = Len(frames)
      /\ \A i \in 1 .. Len(frames) - 1 : frames'[i] = frames[i]
      /\ frames'[Len(frames)] = [TopFrame EXCEPT !.live = n]
  BY ReliveFrames
<1>2. [TopFrame EXCEPT !.live = n].base = TopFrame.base
  BY RunningFacts DEF FrameType
<1>3. \A i \in 1 .. Len(frames) : i \in 1 .. Len(frames) - 1 \/ i = Len(frames)
  BY AnchoredTop
<1> QED
  BY <1>1, <1>2, <1>3, AnchoredTop DEF AnchoredFrames

LEMMA AnchoredFramesKeep ==
  ASSUME IInv, Contents, Steps, Anchored, IInv' PROVE AnchoredFrames(frames', stack')
<1>1. ASSUME Running, NEW n, NEW f, Pushes(n, f) PROVE AnchoredFrames(frames', stack')
  <2>1. /\ Len(frames') = Len(frames) + 1 /\ frames'[Len(frames)] = [TopFrame EXCEPT !.live = n]
        /\ \A i \in 1 .. Len(frames) - 1 : frames'[i] = frames[i]
        /\ frames'[Len(frames) + 1] = f
    BY <1>1, PushesFacts
  <2>2. /\ n \in Nat /\ f \in FrameType /\ TopFrame.base + n <= f.base
        /\ \A x \in Slots : x < TopFrame.base + n /\ x # f.ret => stack'[x] = stack[x]
    BY <1>1 DEF Pushes
  <2>3. [TopFrame EXCEPT !.live = n].base = TopFrame.base
    BY <1>1, RunningFacts DEF FrameType
  <2>4. f.base > 0 /\ f.ret > 0
    <3>1. f.base \in Nat /\ f.ret \in Nat
      BY <2>2 DEF FrameType
    <3>2. f.base > 0
      BY <1>1, <2>2, <3>1, AnchoredTop
    <3>3. CallerKeeps(frames'[Len(frames)], frames'[Len(frames) + 1])
      <4>1. Len(frames) \in 1 .. Len(frames') - 1
        BY <1>1, <2>1, AnchoredTop
      <4> QED
        BY <4>1 DEF IInv, FrameWindows, Windows
    <3>4. TopFrame.base <= f.ret
      BY <2>1, <2>3, <3>3 DEF CallerKeeps
    <3> QED
      BY <1>1, <3>1, <3>2, <3>4, AnchoredTop
  <2>5. stack'[0] = stack[0]
    <3>1. 0 \in Slots /\ 0 < TopFrame.base + n /\ 0 # f.ret
      BY <1>1, <2>2, <2>4, AnchoredTop
    <3> QED
      BY <2>2, <3>1
  <2>6. \A i \in 1 .. Len(frames') : i \in 1 .. Len(frames) - 1 \/ i = Len(frames) \/ i = Len(frames) + 1
    BY <1>1, <2>1, AnchoredTop
  <2>7. \A i \in 1 .. Len(frames) - 1 : i \in 1 .. Len(frames)
    BY <1>1, AnchoredTop
  <2> QED
    BY <1>1, <2>1, <2>3, <2>4, <2>5, <2>6, <2>7, AnchoredTop DEF AnchoredFrames
<1>2. ASSUME Running, NEW n, Answers(n) PROVE AnchoredFrames(frames', stack')
  <2>1. /\ n \in Nat \ {0} /\ n \in Nat /\ n <= TopFrame.locals /\ frames' = Relive(n)
        /\ \A x \in Slots : x < TopFrame.base + n - 1 => stack'[x] = stack[x]
    BY <1>2 DEF Answers
  <2>2. stack'[0] = stack[0]
    <3>1. 0 \in Slots /\ 0 < TopFrame.base + n - 1
      BY <1>2, <2>1, AnchoredTop
    <3> QED
      BY <2>1, <3>1
  <2> QED
    BY <1>2, <2>1, <2>2, AnchoredRelive
<1>3. ASSUME Running, NEW f, Replaces(f) PROVE AnchoredFrames(frames', stack')
  <2>1. /\ Len(frames') = Len(frames) /\ frames'[Len(frames)] = f
        /\ \A i \in 1 .. Len(frames) - 1 : frames'[i] = frames[i]
    BY <1>3, ReplacesFrames
  <2>2. f.base = TopFrame.base /\ \A x \in Slots : x < TopFrame.base => stack'[x] = stack[x]
    BY <1>3 DEF Replaces
  <2>3. stack'[0] = stack[0]
    BY <1>3, <2>2, AnchoredTop
  <2>4. \A i \in 1 .. Len(frames) : i \in 1 .. Len(frames) - 1 \/ i = Len(frames)
    BY <1>3, AnchoredTop
  <2> QED
    BY <1>3, <2>1, <2>2, <2>3, <2>4, AnchoredTop DEF AnchoredFrames
<1>4. ASSUME Running, NEW v, Pops(v) PROVE AnchoredFrames(frames', stack')
  <2>1. /\ Len(frames') = Len(frames) - 1 /\ frames' \in Seq(FrameType)
        /\ \A i \in 1 .. Len(frames) - 1 : frames'[i] = frames[i]
    BY <1>4, PopsFrames
  <2>2. \A i \in 1 .. Len(frames) - 1 : i \in 1 .. Len(frames)
    BY <1>4, AnchoredTop
  <2>3. ASSUME frames' # <<>> PROVE stack'[0] = stack[0]
    <3>1. Len(frames) - 1 \in 1 .. Len(frames) - 1 /\ Len(frames) - 1 + 1 = Len(frames)
      <4>1. Len(frames') \in Nat \ {0}
        BY <2>1, <2>3, EmptySeq
      <4> QED
        BY <1>4, <2>1, <4>1, AnchoredTop
    <3>2. CallerKeeps(frames[Len(frames) - 1], frames[Len(frames)])
      BY <3>1 DEF IInv, FrameWindows, Windows
    <3>3. frames[Len(frames) - 1].base <= TopFrame.ret /\ frames[Len(frames) - 1].base > 0
      BY <1>4, <2>2, <3>1, <3>2, AnchoredTop DEF CallerKeeps, TopFrame
    <3>4. frames[Len(frames) - 1].base \in Nat /\ TopFrame.ret \in Nat
      <4>1. frames[Len(frames) - 1] \in FrameType /\ TopFrame \in FrameType
        BY <1>4, <2>2, <3>1, RunningFacts, ElementOfSeq
      <4> QED
        BY <4>1 DEF FrameType
    <3>5. 0 # TopFrame.ret
      BY <3>3, <3>4
    <3> QED
      BY <1>4, <3>5, AnchoredTop DEF Pops
  <2> QED
    BY <1>4, <2>1, <2>2, <2>3, AnchoredTop DEF AnchoredFrames
<1>5. ASSUME NEW v \in Value, Load(v) PROVE AnchoredFrames(frames', stack')
  <2>1. Running /\ TopFrame.live + 1 \in Nat /\ TopFrame.live + 1 <= TopFrame.locals
    BY <1>5, RegisterSlots DEF Load
  <2>2. frames' = Relive(TopFrame.live + 1)
    BY <1>5 DEF Load, Relive, TopFrame
  <2>3. stack' = [stack EXCEPT ![Register(TopFrame.live)] = v]
    BY <1>5 DEF Load
  <2>4. Register(TopFrame.live) # 0
    BY <2>1, RegisterSlots, AnchoredTop DEF Register
  <2>5. stack'[0] = stack[0]
    BY <2>1, <2>3, <2>4, AnchoredTop DEF Contents
  <2> QED
    BY <2>1, <2>2, <2>5, AnchoredRelive
<1>6. ASSUME Drop PROVE AnchoredFrames(frames', stack')
  <2>1. Running /\ TopFrame.live - 1 \in Nat /\ TopFrame.live - 1 <= TopFrame.locals
    BY <1>6, RegisterSlots DEF Drop
  <2>2. frames' = Relive(TopFrame.live - 1) /\ stack' = stack
    BY <1>6 DEF Drop, Relive, TopFrame
  <2> QED
    BY <2>1, <2>2, AnchoredRelive
<1>7. ASSUME NEW v \in Cell, Resumes(v) PROVE AnchoredFrames(frames', stack')
  <2>1. mode = "native" /\ frames # <<>>
    BY <1>7 DEF Resumes
  <2>2. /\ Len(frames) \in Nat \ {0} /\ Last(nests) = nests[Len(nests)] /\ Last(nests) \in NestType
        /\ Len(nests) \in 1 .. Len(nests) /\ frames \in Seq(FrameType)
        /\ StopOf(Front(nests)) \in Nat
    BY <2>1, NativeFacts
  <2>3. stack[0] = Object /\ \A i \in 1 .. Len(frames) : frames[i].base > 0
    BY <2>1 DEF Anchored
  <2>4. Last(nests).base - 1 # 0
    BY <2>2 DEF Anchored
  <2>5. CASE ~Last(nests).tail
    <3>1. frames' = frames /\ stack' = [stack EXCEPT ![Last(nests).base - 1] = v]
      BY <1>7, <2>5 DEF Resumes
    <3> QED
      BY <2>3, <2>4, <3>1 DEF AnchoredFrames, Contents
  <2>6. CASE Last(nests).tail
    <3>1. /\ frames' = Front(frames) /\ stack' = [stack EXCEPT ![TopFrame.ret] = v]
          /\ Len(frames) - 1 > StopOf(Front(nests))
      BY <1>7, <2>6 DEF Resumes
    <3>2. /\ Len(frames) - 1 \in 1 .. Len(frames) - 1 /\ Len(frames) - 1 + 1 = Len(frames)
          /\ Len(frames) - 1 \in 1 .. Len(frames) /\ Len(frames) \in 1 .. Len(frames)
      BY <2>2, <3>1
    <3>3. CallerKeeps(frames[Len(frames) - 1], frames[Len(frames)])
      BY <3>2 DEF IInv, FrameWindows, Windows
    <3>4. frames[Len(frames) - 1] \in FrameType /\ TopFrame \in FrameType
      BY <2>2, <3>2, ElementOfSeq DEF TopFrame
    <3>5. frames[Len(frames) - 1].base <= TopFrame.ret /\ frames[Len(frames) - 1].base > 0
      BY <2>3, <3>2, <3>3 DEF CallerKeeps, TopFrame
    <3>6. TopFrame.ret # 0
      BY <3>4, <3>5 DEF FrameType
    <3>7. stack'[0] = Object
      BY <2>3, <3>1, <3>6 DEF Contents
    <3>8. /\ Len(frames') = Len(frames) - 1
          /\ \A i \in 1 .. Len(frames) - 1 : frames'[i] = frames[i]
      BY <2>1, <2>2, <3>1, FrontFacts
    <3>9. \A i \in 1 .. Len(frames) - 1 : i \in 1 .. Len(frames)
      BY <2>2
    <3> QED
      BY <2>3, <3>7, <3>8, <3>9 DEF AnchoredFrames
  <2> QED
    BY <2>5, <2>6
<1>8. CASE Unwind
  BY <1>8 DEF Unwind, AnchoredFrames
<1>9. CASE UNCHANGED <<stack, frames, nests, mode>>
  BY <1>9 DEF Anchored, AnchoredFrames
<1>10. CASE Running /\ (Calls \/ CallsMethod \/ CallsOperator \/ Imports \/ CallsTail \/ CallsSync \/ Returns)
  BY <1>1, <1>2, <1>3, <1>4, <1>10, RunShape
<1> QED
  BY <1>5, <1>6, <1>7, <1>8, <1>9, <1>10 DEF Steps

\* How a step changes the nested executions.
LEMMA NestShape ==
  ASSUME Steps
  PROVE  \/ nests' = nests
         \/ Unwind
         \/ mode = "native" /\ nests' = Front(nests)
         \/ Running /\ \E c \in Callees, argc \in Nat, tail \in BOOLEAN :
              /\ argc < TopFrame.live
              /\ nests' = Append(nests, Nest(Len(frames), top, TopFrame.base + (TopFrame.live - argc), tail))
<1>1. CASE (\E v \in Value : Load(v)) \/ Drop
  BY <1>1 DEF Load, Drop
<1>2. CASE Calls \/ CallsMethod \/ CallsOperator \/ Imports
  BY <1>2 DEF Calls, CallsMethod, CallsOperator, Imports
<1>3. CASE CallsTail \/ Returns
  BY <1>3 DEF CallsTail, TailCalls, Returns, Ends
<1>4. CASE Running /\ CallsSync
  BY <1>4 DEF CallsSync, CallsBack, Ends
<1>5. CASE \E v \in Cell : Resumes(v)
  BY <1>5 DEF Resumes
<1> QED
  BY <1>1, <1>2, <1>3, <1>4, <1>5 DEF Steps

LEMMA NestBasesKeep ==
  ASSUME IInv, Contents, Steps, Anchored PROVE \A k \in 1 .. Len(nests') : nests'[k].base > 1
<1>1. CASE nests' = nests
  BY <1>1 DEF Anchored
<1>2. CASE Unwind
  BY <1>2 DEF Unwind
<1>3. CASE mode = "native" /\ nests' = Front(nests)
  <2>1. /\ Len(nests') = Len(nests) - 1 /\ Len(nests) \in Nat
        /\ \A k \in 1 .. Len(nests) - 1 : nests'[k] = nests[k]
    BY <1>3, NativeFacts, FrontFacts
  <2> QED
    BY <2>1 DEF Anchored
<1>4. ASSUME Running, NEW argc \in Nat, argc < TopFrame.live, NEW tail \in BOOLEAN,
             nests' = Append(nests, Nest(Len(frames), top, TopFrame.base + (TopFrame.live - argc), tail))
      PROVE  \A k \in 1 .. Len(nests') : nests'[k].base > 1
  <2> DEFINE x == Nest(Len(frames), top, TopFrame.base + (TopFrame.live - argc), tail)
  <2>1. nests \in Seq(NestType) /\ Len(frames) \in Nat /\ top \in Nat
    BY <1>4, RunningFacts DEF IInv, Shape
  <2>2. TopFrame.base \in Nat /\ TopFrame.base > 0 /\ TopFrame.live \in Nat
    BY <1>4, AnchoredTop, RegisterSlots
  <2>3. x.base = TopFrame.base + (TopFrame.live - argc)
    BY DEF Nest
  <2>4. x.base > 1 /\ x.base \in Nat
    BY <1>4, <2>2, <2>3
  <2>5. x \in NestType
    BY <2>1, <2>3, <2>4 DEF Nest, NestType
  <2> HIDE DEF x
  <2>6. nests' = Append(nests, x)
    BY <1>4 DEF x
  <2>7. /\ Len(nests') = Len(nests) + 1 /\ Len(nests) \in Nat /\ nests'[Len(nests) + 1] = x
        /\ \A k \in 1 .. Len(nests) : nests'[k] = nests[k]
    BY <2>1, <2>5, <2>6, AppendFacts
  <2>8. \A k \in 1 .. Len(nests') : k \in 1 .. Len(nests) \/ k = Len(nests) + 1
    BY <2>7
  <2> QED
    BY <2>4, <2>7, <2>8 DEF Anchored
<1> QED
  BY <1>1, <1>2, <1>3, <1>4, NestShape

LEMMA AnchoredKeeps == ASSUME SyncTails = FALSE, IInv, Contents, Anchored, [Next]_vars PROVE Anchored'
<1>1. Steps /\ IInv'
  BY StepIs, NextKeeps
<1> QED
  BY <1>1, AnchoredFramesKeep, NestBasesKeep DEF Anchored, AnchoredFrames

LEMMA StutterRooted == ASSUME RInv, UNCHANGED vars PROVE RInv'
  BY DEF RInv, Rooted, Anchored, vars

\* No program of the model calls an instance: its method's frame would include a slot nothing clears.
NoInstances == \A c \in Callees : c.kind # "instance"

LEMMA RootedKeeps ==
  ASSUME SyncTails = FALSE, NoInstances, IInv, Contents, RInv, Next, TailsKeepTop
  PROVE  Unwind \/ Rooted'
<1>1. ASSUME NEW v \in Value, Load(v) PROVE Rooted'
  BY <1>1, LoadRooted
<1>2. CASE Drop
  BY <1>2, DropRooted
<1>3. ASSUME NEW c \in Callees, NEW argc \in ArgCounts,
             Call(c, argc) \/ InvokeMember(c, argc) \/ TailCall(c, argc)
               \/ \E tail \in BOOLEAN : CallSync(c, argc, tail)
      PROVE  Unwind \/ Rooted'
  <2>1. argc \in Nat /\ c.kind # "instance"
    BY ArgCountsNat DEF NoInstances
  <2>2. CASE Call(c, argc)
    BY <2>1, <2>2, CallStepRooted
  <2>3. CASE InvokeMember(c, argc)
    BY <2>1, <2>3, InvokeMemberRooted
  <2>4. CASE TailCall(c, argc)
    BY <2>1, <2>4, TailCallRooted DEF TailsKeepTop
  <2>5. CASE \E tail \in BOOLEAN : CallSync(c, argc, tail)
    BY <2>1, <2>5, CallSyncRooted
  <2> QED
    BY <1>3, <2>2, <2>3, <2>4, <2>5
<1>4. ASSUME NEW c \in Of("method"), NEW argc \in ArgCounts, Invoke(c, argc) PROVE Unwind \/ Rooted'
  BY <1>4, ArgCountsNat, InvokeRooted DEF Of
<1>5. ASSUME NEW c \in Of("method"), NEW lhs \in 0 .. MainLocals, NEW rhs \in 0 .. MainLocals,
             NEW dst \in 0 .. MainLocals, NEW total \in {1, 2}, Operator(c, lhs, rhs, dst, total)
      PROVE  Unwind \/ Rooted'
  <2>1. lhs \in Nat /\ rhs \in Nat /\ dst \in Nat /\ c \in Callees /\ c.kind = "method"
    BY ConstantsAssumption DEF Of
  <2> QED
    BY <1>5, <2>1, OperatorRooted
<1>6. ASSUME NEW c \in Of("module"), ImportModule(c) PROVE Unwind \/ Rooted'
  BY <1>6, ImportModuleRooted DEF Of
<1>7. ASSUME NEW v \in Value \cup {Object, Nil}, Return(v) \/ ResumeNative(v) PROVE Rooted'
  <2>1. v \in Cell
    BY DEF Cell
  <2> QED
    BY <1>7, <2>1, ReturnRooted, ResumeRooted
<1>8. CASE Fail
  BY <1>8 DEF Fail
<1>9. CASE Collect
  BY <1>9, CollectRooted
<1> QED
  BY <1>1, <1>2, <1>3, <1>4, <1>5, <1>6, <1>7, <1>8, <1>9 DEF Next

LEMMA RInvKeeps ==
  ASSUME SyncTails = FALSE, NoInstances, IInv, Contents, RInv, [Next]_vars, [TailsKeepTop]_vars
  PROVE  RInv'
<1>1. CASE UNCHANGED vars
  BY <1>1, StutterRooted
<1>2. CASE Next /\ TailsKeepTop
  <2>1. Unwind \/ Rooted'
    BY <1>2, RootedKeeps
  <2>2. Unwind => mode' = "error"
    BY DEF Unwind
  <2>3. Anchored'
    BY AnchoredKeeps DEF RInv
  <2> QED
    BY <2>1, <2>2, <2>3 DEF RInv
<1> QED
  BY <1>1, <1>2

LEMMA RInvInit == Init => RInv
<1> SUFFICES ASSUME Init PROVE RInv
  OBVIOUS
<1>1. /\ stack = [i \in Slots |-> IF i = 0 THEN Object ELSE Nil] /\ heap = {Object}
      /\ frames = <<Frame(1, MainLocals, 0, 0, 0, TRUE)>> /\ nests = <<>> /\ mode = "execute"
      /\ 0 \in Slots /\ top = MainLocals + 2
  BY ConstantsAssumption DEF Init, Slots
<1>2. Len(frames) = 1 /\ frames[1].base = 1 /\ frames[1].callerTop = 0 /\ Len(nests) = 0
  BY <1>1 DEF Frame
<1>3. Anchored
  <2>1. \A i \in 1 .. Len(frames) : i = 1
    BY <1>2
  <2>2. \A k \in 1 .. Len(nests) : FALSE
    BY <1>2
  <2>3. stack[0] = Object
    BY <1>1
  <2> QED
    BY <1>2, <2>1, <2>2, <2>3 DEF Anchored
<1>4. Clean(stack, top, heap \cup {Nil})
  <2>1. \A x \in Slots : stack[x] \in {Object, Nil}
    BY <1>1
  <2>2. stack \in [Slots -> Cell]
    BY <1>1, SlotFacts
  <2> QED
    BY <1>1, <2>1, <2>2 DEF Clean
<1>5. Levels(frames, nests, top)
  <2>1. \A i \in 1 .. Len(frames) : i = 1
    BY <1>2
  <2>2. top \in Nat /\ 0 <= 0 /\ 0 <= top
    BY <1>1, ConstantsAssumption
  <2>3. \A k \in 1 .. Len(nests) : FALSE
    BY <1>2
  <2> QED
    BY <1>2, <2>1, <2>2, <2>3 DEF Levels
<1> QED
  BY <1>1, <1>3, <1>4, <1>5 DEF RInv, Rooted

LEMMA RootsSeen == ASSUME IInv, Contents, RInv PROVE RootsAllocated
<1> SUFFICES ASSUME Running, NEW i \in 0 .. top - 1 PROVE stack[i] \in heap \cup {Nil}
  BY DEF RootsAllocated
<1>1. i \in Slots /\ i < top
  BY RunRoots DEF Slots
<1> QED
  BY <1>1, RunRoots DEF Clean
-----------------------------------------------------------------------------
(* Programs whose windows have one size.                                    *)

\* Every function, constructor and method has n registers, and nothing at top level has more
\* than one beyond that.
SameWindows(n) ==
  /\ \A c \in Callees : c.kind \in {"function", "constructor", "method"} => c.locals = n
  /\ \A c \in Callees : c.kind = "module" => c.locals <= n + 1
  /\ MainLocals <= n + 1

Sized(f, n) == IF f.toplevel THEN f.locals <= n + 1 ELSE f.locals = n

\* The top is always the end of the innermost window, and each return restores that of the
\* caller's.
Restores(fs, ns) ==
  /\ \A i \in 1 .. Len(fs) - 1 : \/ \E k \in 1 .. Len(ns) : ns[k].stop = i
                                 \/ fs[i + 1].callerTop = WindowEnd(fs[i])
  /\ \A k \in 1 .. Len(ns) : ns[k].savedTop = WindowEnd(fs[ns[k].stop])

Aligned(n) ==
  /\ \A i \in 1 .. Len(frames) : Sized(frames[i], n)
  /\ Running => top = WindowEnd(TopFrame)
  /\ Restores(frames, nests)

LEMMA AlignedRun ==
  ASSUME NEW n, IInv, Aligned(n), Running
  PROVE  /\ top = WindowEnd(TopFrame) /\ Sized(TopFrame, n) /\ Restores(frames, nests)
         /\ frames \in Seq(FrameType) /\ frames # <<>> /\ nests \in Seq(NestType)
         /\ Len(frames) \in Nat \ {0} /\ TopFrame = frames[Len(frames)] /\ Last(frames) = TopFrame
         /\ TopFrame \in FrameType /\ top \in 0 .. StackSize /\ top \in Nat
         /\ \A k \in 1 .. Len(nests) : nests[k].stop < Len(frames)
         /\ \A k \in 1 .. Len(nests) : nests[k].stop \in 1 .. Len(frames) - 1
         /\ \A i \in 1 .. Len(frames) - 1 : Sized(frames[i], n)
<1>1. /\ frames \in Seq(FrameType) /\ frames # <<>> /\ Len(frames) \in Nat \ {0}
      /\ TopFrame = frames[Len(frames)] /\ TopFrame \in FrameType /\ top \in 0 .. StackSize
      /\ Len(frames) > StopDepth /\ StopDepth \in Nat /\ StackSize \in Nat
  BY RunningFacts
<1>2. nests \in Seq(NestType)
  BY DEF IInv, Shape
<1>3. \A k \in 1 .. Len(nests) : nests[k].stop < Len(frames) /\ nests[k].stop \in 1 .. Len(frames) - 1
  <2> SUFFICES ASSUME NEW k \in 1 .. Len(nests)
               PROVE  nests[k].stop < Len(frames) /\ nests[k].stop \in 1 .. Len(frames) - 1
    OBVIOUS
  <2>1. nests[k].stop <= StopDepth /\ nests[k].stop \in Nat
    BY StopsBelow DEF IInv
  <2>2. nests[k].stop \in 1 .. Len(frames)
    BY DEF IInv, Covered
  <2> QED
    BY <1>1, <2>1, <2>2
<1>4. Sized(TopFrame, n) /\ \A i \in 1 .. Len(frames) - 1 : Sized(frames[i], n)
  BY <1>1 DEF Aligned
<1> QED
  BY <1>1, <1>2, <1>3, <1>4 DEF Aligned, Last

\* The frames below number l are the same windows and restore the same tops.
SameWindow(f, g) == /\ f.base = g.base /\ f.locals = g.locals /\ f.callerTop = g.callerTop
                    /\ f.toplevel = g.toplevel

LEMMA SameWindowIs ==
  ASSUME NEW f, NEW g, SameWindow(f, g), NEW n
  PROVE  WindowEnd(f) = WindowEnd(g) /\ (Sized(g, n) => Sized(f, n)) /\ f.callerTop = g.callerTop
  BY DEF SameWindow, WindowEnd, Sized

LEMMA ReliveWindows ==
  ASSUME IInv, Running, NEW r \in Nat, r <= TopFrame.locals
  PROVE  /\ Relive(r) \in Seq(FrameType) /\ Len(Relive(r)) = Len(frames)
         /\ \A i \in 1 .. Len(frames) : SameWindow(Relive(r)[i], frames[i])
<1>1. /\ Relive(r) \in Seq(FrameType) /\ Len(Relive(r)) = Len(frames)
      /\ Relive(r)[Len(frames)] = [TopFrame EXCEPT !.live = r]
      /\ \A i \in 1 .. Len(frames) - 1 : Relive(r)[i] = frames[i]
  BY ReliveFacts, ReliveEach
<1>2. TopFrame = frames[Len(frames)] /\ TopFrame \in FrameType /\ Len(frames) \in Nat \ {0}
  BY RunningFacts
<1>3. SameWindow(Relive(r)[Len(frames)], frames[Len(frames)])
  BY <1>1, <1>2 DEF SameWindow, FrameType
<1>4. \A i \in 1 .. Len(frames) : i \in 1 .. Len(frames) - 1 \/ i = Len(frames)
  BY <1>2
<1>5. \A i \in 1 .. Len(frames) - 1 : SameWindow(Relive(r)[i], frames[i])
  BY <1>1 DEF SameWindow
<1> QED
  BY <1>1, <1>3, <1>4, <1>5

LEMMA StayAligned ==
  ASSUME NEW n, IInv, Aligned(n), Running, NEW r \in Nat, r <= TopFrame.locals,
         frames' = Relive(r), nests' = nests, top' = top
  PROVE  Aligned(n)'
<1>1. /\ Len(frames') = Len(frames) /\ Len(frames) \in Nat \ {0}
      /\ \A i \in 1 .. Len(frames) : SameWindow(frames'[i], frames[i])
  BY ReliveWindows, RunningFacts
<1>2. \A i \in 1 .. Len(frames) :
        /\ WindowEnd(frames'[i]) = WindowEnd(frames[i]) /\ (Sized(frames[i], n) => Sized(frames'[i], n))
        /\ frames'[i].callerTop = frames[i].callerTop
  BY <1>1, SameWindowIs
<1>3. \A i \in 1 .. Len(frames') : Sized(frames'[i], n)
  BY <1>1, <1>2 DEF Aligned
<1>4. top' = WindowEnd(TopFrame')
  BY <1>1, <1>2, AlignedRun DEF TopFrame
<1>5. Restores(frames', nests')
  <2>1. ASSUME NEW i \in 1 .. Len(frames') - 1
        PROVE  \/ \E k \in 1 .. Len(nests) : nests[k].stop = i
               \/ frames'[i + 1].callerTop = WindowEnd(frames'[i])
    <3>1. i \in 1 .. Len(frames) /\ i + 1 \in 1 .. Len(frames) /\ i \in 1 .. Len(frames) - 1
      BY <1>1
    <3> QED
      BY <1>2, <3>1, AlignedRun DEF Restores
  <2>2. ASSUME NEW k \in 1 .. Len(nests) PROVE nests[k].savedTop = WindowEnd(frames'[nests[k].stop])
    <3>1. nests[k].stop \in 1 .. Len(frames)
      BY <1>1, AlignedRun
    <3> QED
      BY <1>2, <3>1, AlignedRun DEF Restores
  <2> QED
    BY <2>1, <2>2 DEF Restores
<1> QED
  BY <1>3, <1>4, <1>5 DEF Aligned

\* A frame pushed above registers r: what it restores is the top, or the top is in a nest.
LEMMA GrowAligned ==
  ASSUME NEW n, IInv, Aligned(n), Running, NEW r \in Nat, r <= TopFrame.locals,
         NEW f \in FrameType, Sized(f, n), frames' = Append(Relive(r), f), top' = WindowEnd(f),
         \/ nests' = nests /\ f.callerTop = top
         \/ \E x \in NestType : nests' = Append(nests, x) /\ x.stop = Len(frames) /\ x.savedTop = top
  PROVE  Aligned(n)'
<1> DEFINE len == Len(frames)
<1>1. /\ Len(frames') = len + 1 /\ len \in Nat \ {0} /\ frames'[len + 1] = f
      /\ \A i \in 1 .. len : SameWindow(frames'[i], frames[i])
  <2>1. /\ Relive(r) \in Seq(FrameType) /\ Len(Relive(r)) = Len(frames)
        /\ \A i \in 1 .. Len(frames) : SameWindow(Relive(r)[i], frames[i])
    BY ReliveWindows
  <2>2. /\ Len(frames') = Len(Relive(r)) + 1 /\ frames'[Len(Relive(r)) + 1] = f
        /\ \A i \in 1 .. Len(Relive(r)) : frames'[i] = Relive(r)[i]
    BY <2>1, AppendFacts
  <2> QED
    BY <2>1, <2>2, RunningFacts
<1>2. \A i \in 1 .. len :
        /\ WindowEnd(frames'[i]) = WindowEnd(frames[i]) /\ (Sized(frames[i], n) => Sized(frames'[i], n))
        /\ frames'[i].callerTop = frames[i].callerTop
  BY <1>1, SameWindowIs
<1>3. /\ \A i \in 1 .. len + 1 : i \in 1 .. len \/ i = len + 1
      /\ \A i \in 1 .. len + 1 - 1 : i = len \/ (i \in 1 .. len - 1 /\ i \in 1 .. len /\ i + 1 \in 1 .. len)
      /\ len \in 1 .. len
  BY <1>1
<1>4. \A i \in 1 .. Len(frames') : Sized(frames'[i], n)
  <2>1. \A i \in 1 .. len : Sized(frames'[i], n)
    BY <1>2 DEF Aligned
  <2> QED
    BY <1>1, <1>3, <2>1
<1>5. top' = WindowEnd(TopFrame')
  BY <1>1 DEF TopFrame
<1>6. WindowEnd(frames'[len]) = top
  BY <1>2, <1>3, AlignedRun
<1>7. CASE nests' = nests /\ f.callerTop = top
  <2>1. ASSUME NEW i \in 1 .. Len(frames') - 1
        PROVE  \/ \E k \in 1 .. Len(nests) : nests[k].stop = i
               \/ frames'[i + 1].callerTop = WindowEnd(frames'[i])
    <3>1. CASE i = len
      BY <1>1, <1>6, <1>7, <3>1
    <3>2. CASE i \in 1 .. len - 1 /\ i \in 1 .. len /\ i + 1 \in 1 .. len
      BY <1>2, <3>2, AlignedRun DEF Restores
    <3> QED
      BY <1>1, <1>3, <3>1, <3>2
  <2>2. ASSUME NEW k \in 1 .. Len(nests) PROVE nests[k].savedTop = WindowEnd(frames'[nests[k].stop])
    <3>1. nests[k].stop \in 1 .. len
      BY <1>1, AlignedRun
    <3> QED
      BY <1>2, <3>1, AlignedRun DEF Restores
  <2> QED
    BY <1>4, <1>5, <1>7, <2>1, <2>2 DEF Aligned, Restores
<1>8. ASSUME NEW x \in NestType, nests' = Append(nests, x), x.stop = Len(frames), x.savedTop = top
      PROVE  Aligned(n)'
  <2>1. /\ Len(nests') = Len(nests) + 1 /\ Len(nests) \in Nat /\ nests'[Len(nests) + 1] = x
        /\ \A k \in 1 .. Len(nests) : nests'[k] = nests[k]
    BY <1>8, AlignedRun, AppendFacts
  <2>2. /\ \A k \in 1 .. Len(nests') : k \in 1 .. Len(nests) \/ k = Len(nests) + 1
        /\ \A k \in 1 .. Len(nests) : k \in 1 .. Len(nests')
        /\ Len(nests) + 1 \in 1 .. Len(nests')
    BY <2>1
  <2>3. ASSUME NEW i \in 1 .. Len(frames') - 1
        PROVE  \/ \E k \in 1 .. Len(nests') : nests'[k].stop = i
               \/ frames'[i + 1].callerTop = WindowEnd(frames'[i])
    <3>1. CASE i = len
      BY <1>8, <2>1, <2>2, <3>1
    <3>2. CASE i \in 1 .. len - 1 /\ i \in 1 .. len /\ i + 1 \in 1 .. len
      <4>1. \/ \E k \in 1 .. Len(nests) : nests[k].stop = i
            \/ frames[i + 1].callerTop = WindowEnd(frames[i])
        BY <3>2, AlignedRun DEF Restores
      <4> QED
        BY <1>2, <2>1, <2>2, <3>2, <4>1
    <3> QED
      BY <1>1, <1>3, <3>1, <3>2
  <2>4. ASSUME NEW k \in 1 .. Len(nests')
        PROVE  nests'[k].savedTop = WindowEnd(frames'[nests'[k].stop])
    <3>1. CASE k \in 1 .. Len(nests)
      <4>1. nests[k].stop \in 1 .. len
        <5>1. nests[k].stop \in 1 .. len - 1
          BY <3>1, AlignedRun
        <5> QED
          BY <1>1, <5>1
      <4>2. nests'[k] = nests[k]
        BY <2>1, <3>1
      <4>3. nests[k].savedTop = WindowEnd(frames[nests[k].stop])
        BY <3>1, AlignedRun DEF Restores
      <4> QED
        BY <1>2, <4>1, <4>2, <4>3
    <3>2. CASE k = Len(nests) + 1
      BY <1>6, <1>8, <2>1, <3>2
    <3> QED
      BY <2>2, <3>1, <3>2
  <2> QED
    BY <1>4, <1>5, <2>3, <2>4 DEF Aligned, Restores
<1> QED
  BY <1>7, <1>8

\* A callee in the place of its caller.
LEMMA ReplaceAligned ==
  ASSUME NEW n, IInv, Aligned(n), Running, NEW f \in FrameType, Sized(f, n),
         f.callerTop = TopFrame.callerTop, frames' = Append(Front(frames), f), top' = WindowEnd(f),
         nests' = nests
  PROVE  Aligned(n)'
<1> DEFINE len == Len(frames)
<1>1. /\ Len(frames') = len /\ len \in Nat \ {0} /\ frames'[len] = f
      /\ \A i \in 1 .. len - 1 : frames'[i] = frames[i]
  <2>1. /\ Front(frames) \in Seq(FrameType) /\ Len(Front(frames)) = Len(frames) - 1
        /\ \A i \in 1 .. Len(frames) - 1 : Front(frames)[i] = frames[i] /\ len \in Nat \ {0}
    BY FrontFacts, AlignedRun
  <2>2. /\ Len(frames') = Len(frames) - 1 + 1 /\ frames'[Len(frames) - 1 + 1] = f
        /\ \A i \in 1 .. Len(frames) - 1 : frames'[i] = frames[i]
    BY <2>1, AppendFacts
  <2>3. len \in Nat \ {0}
    BY AlignedRun
  <2> QED
    BY <2>2, <2>3
<1>2. /\ \A i \in 1 .. len : i \in 1 .. len - 1 \/ i = len
      /\ \A i \in 1 .. len - 1 : i + 1 = len \/ i + 1 \in 1 .. len - 1
  BY <1>1
<1>3. \A i \in 1 .. Len(frames') : Sized(frames'[i], n)
  BY <1>1, <1>2, AlignedRun
<1>4. top' = WindowEnd(TopFrame')
  BY <1>1 DEF TopFrame
<1>5. ASSUME NEW i \in 1 .. Len(frames') - 1
      PROVE  \/ \E k \in 1 .. Len(nests) : nests[k].stop = i
             \/ frames'[i + 1].callerTop = WindowEnd(frames'[i])
  <2>1. frames'[i + 1].callerTop = frames[i + 1].callerTop /\ frames'[i] = frames[i]
    BY <1>1, <1>2, AlignedRun
  <2> QED
    BY <1>1, <2>1, AlignedRun DEF Restores
<1>6. ASSUME NEW k \in 1 .. Len(nests) PROVE nests[k].savedTop = WindowEnd(frames'[nests[k].stop])
  BY <1>1, AlignedRun DEF Restores
<1> QED
  BY <1>3, <1>4, <1>5, <1>6 DEF Aligned, Restores

\* The innermost frame ends, and either its caller goes on or nothing runs.
LEMMA PopAligned ==
  ASSUME NEW n, IInv, Aligned(n), Running, frames' = Front(frames), top' = TopFrame.callerTop,
         nests' = nests, mode' = "execute" => Len(frames) - 1 > StopDepth
  PROVE  Aligned(n)'
<1> DEFINE len == Len(frames)
<1>1. /\ Len(frames') = len - 1 /\ len \in Nat \ {0}
      /\ \A i \in 1 .. len - 1 : frames'[i] = frames[i]
  BY FrontFacts, AlignedRun
<1>2. \A i \in 1 .. Len(frames') : Sized(frames'[i], n)
  BY <1>1, AlignedRun
<1>3. ASSUME mode' = "execute" PROVE top' = WindowEnd(TopFrame')
  <2>1. len - 1 > StopDepth /\ StopDepth \in Nat
    BY <1>3, RunningFacts
  <2>2. len - 1 \in 1 .. len - 1 /\ len - 1 + 1 = len
    BY <1>1, <2>1
  <2>3. \A k \in 1 .. Len(nests) : nests[k].stop # len - 1
    <3> SUFFICES ASSUME NEW k \in 1 .. Len(nests) PROVE nests[k].stop # len - 1
      OBVIOUS
    <3>1. nests[k].stop <= StopDepth /\ nests[k].stop \in Nat
      BY StopsBelow DEF IInv
    <3> QED
      BY <1>1, <2>1, <3>1
  <2>4. frames[len].callerTop = WindowEnd(frames[len - 1])
    BY <2>2, <2>3, AlignedRun DEF Restores
  <2> QED
    BY <1>1, <2>2, <2>4, AlignedRun DEF TopFrame
<1>4. ASSUME NEW i \in 1 .. Len(frames') - 1
      PROVE  \/ \E k \in 1 .. Len(nests) : nests[k].stop = i
             \/ frames'[i + 1].callerTop = WindowEnd(frames'[i])
  <2>1. i \in 1 .. len - 1 /\ i + 1 \in 1 .. len - 1
    BY <1>1
  <2> QED
    BY <1>1, <2>1, AlignedRun DEF Restores
<1>5. ASSUME NEW k \in 1 .. Len(nests) PROVE nests[k].savedTop = WindowEnd(frames'[nests[k].stop])
  BY <1>1, AlignedRun DEF Restores
<1> QED
  BY <1>2, <1>3, <1>4, <1>5 DEF Aligned, Restores, Running
-----------------------------------------------------------------------------
(* The new windows end where the top is.                                    *)

\* m2 has a new frame for c above those of fs, which restores u, and ends at t.
Opens(m2, fs, c, base, u, t) ==
  \E f \in FrameType :
    /\ m2.frames = Append(fs, f) /\ f.base = base /\ f.locals = c.locals /\ ~f.toplevel
    /\ f.callerTop = u /\ m2.top = t

LEMMA PushFrameOpens ==
  ASSUME NEW m, NEW s, NEW t, NEW base \in Nat, NEW c \in Callees, NEW argc \in Nat, NEW ret \in Nat,
         NEW u \in Nat
  PROVE  Opens(PushFrame(m, s, t, base, c, argc, ret, u), m.frames, c, base, u, t)
<1> DEFINE f == Frame(base, c.locals, argc, ret, u, FALSE)
           p == PushFrame(m, s, t, base, c, argc, ret, u)
<1>1. /\ f.base = base /\ f.locals = c.locals /\ ~f.toplevel /\ f.callerTop = u /\ f \in FrameType
  BY ConstantsAssumption DEF Frame, FrameType
<1>2. p.frames = Append(m.frames, f) /\ p.top = t
  BY DEF PushFrame
<1> HIDE DEF f, p
<1>3. Opens(p, m.frames, c, base, u, t)
  BY <1>1, <1>2 DEF Opens
<1> QED
  BY <1>3 DEF p

LEMMA CallValueOpens ==
  ASSUME NEW s, NEW t \in Nat, NEW fs, NEW c \in Callees, c.kind # "instance", NEW argc \in Nat,
         NEW base \in Nat \ {0},
         Ok(CallValue(MachineOf(s, t, fs), c, argc, base, FALSE))
  PROVE  LET m2 == CallValue(MachineOf(s, t, fs), c, argc, base, FALSE) IN
         \/ Answered(m2, fs, t)
         \/ c.kind \in {"function", "constructor"} /\ argc <= c.locals
            /\ Opens(m2, fs, c, base, t, Larger(t, base + c.locals + 1))
<1> DEFINE m  == MachineOf(s, t, fs)
           m2 == CallValue(m, c, argc, base, FALSE)
<1>1. m.top = t /\ m.frames = fs /\ m.stack = s /\ ~Ok(Fault(m)) /\ Ok(m2)
  BY DEF MachineOf, Fault, Ok
<1>2. CASE c.kind = "function"
  <2>1. m2 = CallFunction(m, c, argc, base, FALSE)
    BY <1>2 DEF CallValue
  <2>2. \E z : m2 = PushFrame(m, z, Larger(m.top, base + c.locals + 1), base, c, argc, base - 1, m.top)
    <3> HIDE DEF m, m2
    <3> QED
      BY <1>1, <2>1 DEF CallFunction
  <2>5. argc <= c.locals
    <3>1. argc = c.arity
      <4> HIDE DEF m, m2
      <4> QED
        BY <1>1, <2>1 DEF CallFunction
    <3>2. c.arity <= c.locals /\ c.locals \in Nat /\ c.arity \in Nat
      BY <1>2, ConstantsAssumption
    <3> QED
      BY <3>1, <3>2
  <2> HIDE DEF m, m2
  <2>3. base - 1 \in Nat /\ base \in Nat /\ argc + 1 \in Nat
    OBVIOUS
  <2>4. Opens(m2, fs, c, base, t, Larger(t, base + c.locals + 1))
    BY <1>1, <2>2, <2>3, PushFrameOpens
  <2> QED
    BY <1>2, <2>4, <2>5 DEF m, m2
<1>3. CASE c.kind = "constructor"
  <2>1. m2 = CallConstructor(m, c, argc, base, FALSE)
    BY <1>3 DEF CallValue
  <2>2. \E z : m2 = PushFrame(m, z, Larger(m.top, base + c.locals + 1), base, c, argc + 1, base - 1, m.top)
    <3> HIDE DEF m, m2
    <3> QED
      BY <1>1, <2>1 DEF CallConstructor
  <2>5. argc <= c.locals
    <3>1. argc + 1 = c.arity
      <4> HIDE DEF m, m2
      <4> QED
        BY <1>1, <2>1 DEF CallConstructor
    <3>2. c.arity <= c.locals /\ c.locals \in Nat /\ c.arity \in Nat
      BY <1>3, ConstantsAssumption
    <3> QED
      BY <3>1, <3>2
  <2> HIDE DEF m, m2
  <2>3. base - 1 \in Nat /\ base \in Nat /\ argc + 1 \in Nat
    OBVIOUS
  <2>4. Opens(m2, fs, c, base, t, Larger(t, base + c.locals + 1))
    BY <1>1, <2>2, <2>3, PushFrameOpens
  <2> QED
    BY <1>3, <2>4, <2>5 DEF m, m2
<1>4. CASE c.kind = "native"
  <2>1. m2 = [m EXCEPT !.stack[base - 1] = Object]
    BY <1>1, <1>4 DEF CallValue, CallNative
  <2>2. m2 = MachineOf([s EXCEPT ![base - 1] = Object], t, fs)
    <3> HIDE DEF m2
    <3> QED
      BY <1>1, <2>1, MachineSlots
  <2> QED
    BY <2>2 DEF Answered
<1>5. CASE c.kind = "class"
  <2>1. m2 = [m EXCEPT !.stack[base - 1] = Object]
    BY <1>1, <1>5 DEF CallValue, CallClass
  <2>2. m2 = MachineOf([s EXCEPT ![base - 1] = Object], t, fs)
    <3> HIDE DEF m2
    <3> QED
      BY <1>1, <2>1, MachineSlots
  <2> QED
    BY <2>2 DEF Answered
<1>6. CASE c.kind \notin {"function", "constructor", "native", "class"}
  BY <1>1, <1>6 DEF CallValue
<1> QED
  BY <1>2, <1>3, <1>4, <1>5, <1>6

\* m2 has a frame for c in the place of the innermost of fs, and ends where it does.
Overtakes(m2, fs, c) ==
  \E f \in FrameType :
    /\ m2.frames = Append(Front(fs), f) /\ f.locals = c.locals /\ f.base = Last(fs).base
    /\ ~f.toplevel /\ f.callerTop = Last(fs).callerTop /\ m2.top = Last(fs).base + c.locals + 1

LEMMA CallValueTailOpens ==
  ASSUME NEW s, NEW t, NEW fs, NEW c \in Callees, c.kind \notin {"instance", "native", "class"},
         NEW argc \in Nat, NEW base, Last(fs) \in FrameType, Ok(CallValue(MachineOf(s, t, fs), c, argc, base, TRUE))
  PROVE  /\ c.kind \in {"function", "constructor"}
         /\ Overtakes(CallValue(MachineOf(s, t, fs), c, argc, base, TRUE), fs, c)
<1> DEFINE m   == MachineOf(s, t, fs)
           m2  == CallValue(m, c, argc, base, TRUE)
           old == Last(fs)
           f   == Frame(old.base, c.locals, argc, old.ret, old.callerTop, FALSE)
           g   == Frame(old.base, c.locals, argc + 1, old.ret, old.callerTop, FALSE)
<1>1. m.top = t /\ m.frames = fs /\ m.stack = s /\ ~Ok(Fault(m)) /\ Ok(m2)
  BY DEF MachineOf, Fault, Ok
<1>2. CASE c.kind = "function"
  <2>1. m2 = CallFunction(m, c, argc, base, TRUE)
    BY <1>2 DEF CallValue
  <2>2. \E z : m2 = ReplaceFrame(m, z, old.base + c.locals + 1, c, argc)
    <3> HIDE DEF m, m2
    <3> QED
      BY <1>1, <2>1 DEF CallFunction
  <2>3. m2.frames = Append(Front(fs), f) /\ m2.top = old.base + c.locals + 1
    <3> HIDE DEF m, m2
    <3>1. PICK z : m2 = ReplaceFrame(m, z, old.base + c.locals + 1, c, argc)
      BY <2>2
    <3>2. m2.top = old.base + c.locals + 1
      BY <3>1 DEF ReplaceFrame
    <3>3. m2.frames = Append(Front(fs), f)
      BY <1>1, <3>1 DEF ReplaceFrame
    <3> QED
      BY <3>2, <3>3
  <2>4. /\ f.locals = c.locals /\ f.base = old.base /\ ~f.toplevel /\ f.callerTop = old.callerTop
        /\ f \in FrameType
    BY ConstantsAssumption DEF Frame, FrameType
  <2> HIDE DEF m, m2, f
  <2>5. Overtakes(m2, fs, c)
    BY <2>3, <2>4 DEF Overtakes
  <2> QED
    BY <1>2, <2>5 DEF m, m2
<1>3. CASE c.kind = "constructor"
  <2>1. m2 = CallConstructor(m, c, argc, base, TRUE)
    BY <1>3 DEF CallValue
  <2>2. \E z : m2 = ReplaceFrame(m, z, old.base + c.locals + 1, c, argc + 1)
    <3> HIDE DEF m, m2
    <3> QED
      BY <1>1, <2>1 DEF CallConstructor
  <2>3. m2.frames = Append(Front(fs), g) /\ m2.top = old.base + c.locals + 1
    <3> HIDE DEF m, m2
    <3>1. PICK z : m2 = ReplaceFrame(m, z, old.base + c.locals + 1, c, argc + 1)
      BY <2>2
    <3>2. m2.top = old.base + c.locals + 1
      BY <3>1 DEF ReplaceFrame
    <3>3. m2.frames = Append(Front(fs), g)
      BY <1>1, <3>1 DEF ReplaceFrame
    <3> QED
      BY <3>2, <3>3
  <2>4. /\ g.locals = c.locals /\ g.base = old.base /\ ~g.toplevel /\ g.callerTop = old.callerTop
        /\ g \in FrameType
    BY ConstantsAssumption DEF Frame, FrameType
  <2> HIDE DEF m, m2, g
  <2>5. Overtakes(m2, fs, c)
    BY <2>3, <2>4 DEF Overtakes
  <2> QED
    BY <1>3, <2>5 DEF m, m2
<1>4. CASE c.kind \notin {"function", "constructor"}
  BY <1>1, <1>4 DEF CallValue
<1> QED
  BY <1>2, <1>3, <1>4

LEMMA InvokeMethodOpens ==
  ASSUME NEW s, NEW t \in Nat, NEW fs, NEW c \in Callees, NEW self, NEW ret \in Nat, NEW base \in Nat,
         NEW total \in Nat,
         Ok(InvokeMethod(MachineOf(s, t, fs), c, self, ret, base, total))
  PROVE  /\ total = c.arity
         /\ Opens(InvokeMethod(MachineOf(s, t, fs), c, self, ret, base, total), fs, c, base, t,
                  Larger(Larger(t, base + total), base + c.locals + 1))
<1> DEFINE m  == MachineOf(s, t, fs)
           m2 == InvokeMethod(m, c, self, ret, base, total)
<1>1. m.top = t /\ m.frames = fs /\ m.stack = s /\ ~Ok(Fault(m)) /\ Ok(m2)
  BY DEF MachineOf, Fault, Ok
<1>2. /\ total = c.arity
      /\ \E z : m2 = PushFrame(m, z, Larger(Larger(m.top, base + total), base + c.locals + 1),
                               base, c, total, ret, m.top)
  <2> HIDE DEF m
  <2> QED
    BY <1>1 DEF InvokeMethod, m2
<1> HIDE DEF m, m2
<1>3. Opens(m2, fs, c, base, t, Larger(Larger(t, base + total), base + c.locals + 1))
  BY <1>1, <1>2, PushFrameOpens
<1> QED
  BY <1>2, <1>3 DEF m, m2

\* A window that starts above the innermost one's base does not end below the top.
LEMMA TopInside ==
  ASSUME NEW n \in Nat, IInv, Aligned(n), Running, NEW base \in Nat, TopFrame.base < base
  PROVE  top <= base + n + 1 /\ top \in Nat
<1>1. TopFrame.base \in Nat /\ TopFrame.locals \in Nat /\ top \in Nat
  BY RegisterSlots
<1>2. TopFrame.locals <= n + 1
  BY <1>1, AlignedRun DEF Sized
<1>3. top = TopFrame.base + TopFrame.locals + 1
  BY AlignedRun DEF WindowEnd
<1> QED
  BY <1>1, <1>2, <1>3

\* call_value from an instruction.
LEMMA CallAligned ==
  ASSUME NEW n \in Nat, SameWindows(n), IInv, Aligned(n), Running, NEW s,
         NEW r \in Nat, r <= TopFrame.locals, NEW c \in Callees, c.kind # "instance",
         NEW argc \in Nat, NEW base \in Nat \ {0}, TopFrame.base < base, NEW made,
         CallOutcome(CallValue(MachineOf(s, top, Relive(r)), c, argc, base, FALSE), made)
  PROVE  Unwind \/ Aligned(n)'
<1> DEFINE m2 == CallValue(MachineOf(s, top, Relive(r)), c, argc, base, FALSE)
<1>1. Unwind \/ (Ok(m2) /\ Install(m2) /\ nests' = nests)
  BY DEF CallOutcome
<1>2. CASE Ok(m2) /\ Install(m2) /\ nests' = nests
  <2>1. \/ Answered(m2, Relive(r), top)
        \/ c.kind \in {"function", "constructor"} /\ Opens(m2, Relive(r), c, base, top, Larger(top, base + c.locals + 1))
    <3>1. top \in Nat
      BY AlignedRun
    <3> QED
      BY <1>2, <3>1, CallValueOpens
  <2> HIDE DEF m2
  <2>2. CASE Answered(m2, Relive(r), top)
    <3>1. frames' = Relive(r) /\ top' = top
      BY <1>2, <2>2 DEF Install, Answered, MachineOf
    <3> QED
      BY <1>2, <3>1, StayAligned
  <2>3. CASE c.kind \in {"function", "constructor"} /\ Opens(m2, Relive(r), c, base, top, Larger(top, base + c.locals + 1))
    <3>1. PICK f \in FrameType :
            /\ m2.frames = Append(Relive(r), f) /\ f.base = base /\ f.locals = c.locals /\ ~f.toplevel
            /\ f.callerTop = top /\ m2.top = Larger(top, base + c.locals + 1)
      BY <2>3 DEF Opens
    <3>2. c.locals = n
      BY <2>3 DEF SameWindows
    <3>3. top <= base + n + 1 /\ top \in Nat
      BY TopInside
    <3>4. Larger(top, base + n + 1) = base + n + 1
      BY <3>3 DEF Larger
    <3>5. frames' = Append(Relive(r), f) /\ top' = WindowEnd(f) /\ Sized(f, n)
      BY <1>2, <3>1, <3>2, <3>4 DEF Install, WindowEnd, Sized
    <3> QED
      BY <1>2, <3>1, <3>5, GrowAligned
  <2> QED
    BY <2>1, <2>2, <2>3
<1> QED
  BY <1>1, <1>2

\* invoke_method, on operands staged at the top or in registers.
LEMMA MethodAligned ==
  ASSUME NEW n \in Nat, SameWindows(n), IInv, Aligned(n), Running, NEW s,
         NEW r \in Nat, r <= TopFrame.locals, NEW c \in Callees, c.kind = "method",
         NEW self, NEW ret \in Nat, NEW base \in Nat, TopFrame.base < base, NEW total \in Nat,
         CallOutcome(InvokeMethod(MachineOf(s, top, Relive(r)), c, self, ret, base, total), {})
  PROVE  Unwind \/ Aligned(n)'
<1> DEFINE m2 == InvokeMethod(MachineOf(s, top, Relive(r)), c, self, ret, base, total)
<1>1. Unwind \/ (Ok(m2) /\ Install(m2) /\ nests' = nests)
  BY DEF CallOutcome
<1>2. CASE Ok(m2) /\ Install(m2) /\ nests' = nests
  <2>1. total = c.arity /\ Opens(m2, Relive(r), c, base, top, Larger(Larger(top, base + total), base + c.locals + 1))
    <3>1. top \in Nat
      BY AlignedRun
    <3> QED
      BY <1>2, <3>1, InvokeMethodOpens
  <2> HIDE DEF m2
  <2>2. PICK f \in FrameType :
          /\ m2.frames = Append(Relive(r), f) /\ f.base = base /\ f.locals = c.locals /\ ~f.toplevel
          /\ f.callerTop = top /\ total = c.arity
          /\ m2.top = Larger(Larger(top, base + total), base + c.locals + 1)
    BY <2>1 DEF Opens
  <2>3. c.locals = n /\ total <= n
    <3>1. c.locals = n
      BY DEF SameWindows
    <3>2. c.arity <= c.locals
      BY ConstantsAssumption
    <3> QED
      BY <2>2, <3>1, <3>2
  <2>4. top <= base + n + 1 /\ top \in Nat
    BY TopInside
  <2>5. Larger(Larger(top, base + total), base + n + 1) = base + n + 1
    BY <2>3, <2>4 DEF Larger
  <2>6. frames' = Append(Relive(r), f) /\ top' = WindowEnd(f) /\ Sized(f, n)
    BY <1>2, <2>2, <2>3, <2>5 DEF Install, WindowEnd, Sized
  <2> QED
    BY <1>2, <2>2, <2>6, GrowAligned
<1> QED
  BY <1>1, <1>2
-----------------------------------------------------------------------------
(* One lemma per action.                                                    *)

LEMMA LoadAligned == ASSUME NEW n \in Nat, IInv, Aligned(n), NEW v, Load(v) PROVE Aligned(n)'
<1>1. Running /\ top' = top /\ nests' = nests /\ TopFrame.live < TopFrame.locals
  BY DEF Load
<1>2. TopFrame.live + 1 \in Nat /\ TopFrame.live + 1 <= TopFrame.locals
  BY <1>1, RegisterSlots
<1>3. frames' = Relive(TopFrame.live + 1)
  BY DEF Load, Relive, TopFrame
<1> QED
  BY <1>1, <1>2, <1>3, StayAligned

LEMMA DropAligned == ASSUME NEW n \in Nat, IInv, Aligned(n), Drop PROVE Aligned(n)'
<1>1. Running /\ top' = top /\ nests' = nests /\ TopFrame.live > 0
  BY DEF Drop
<1>2. TopFrame.live - 1 \in Nat /\ TopFrame.live - 1 <= TopFrame.locals
  BY <1>1, RegisterSlots
<1>3. frames' = Relive(TopFrame.live - 1)
  BY DEF Drop, Relive, TopFrame
<1> QED
  BY <1>1, <1>2, <1>3, StayAligned

LEMMA CallStepAligned ==
  ASSUME NEW n \in Nat, SameWindows(n), IInv, Aligned(n), NEW c \in Callees, c.kind # "instance",
         NEW argc \in Nat, Call(c, argc)
  PROVE  Unwind \/ Aligned(n)'
<1> DEFINE r    == TopFrame.live - argc
           base == TopFrame.base + r
<1>1. Running /\ argc < TopFrame.live
  BY DEF Call
<1>2. /\ r \in Nat /\ r <= TopFrame.locals /\ base \in Nat \ {0} /\ TopFrame.base < base
      /\ TopFrame.live - argc - 1 + 1 = r
  BY <1>1, RegisterSlots
<1>3. Allocated(r) = MachineOf(stack, top, Relive(r))
  BY <1>1, <1>2, ReliveFacts
<1>4. CallOutcome(CallValue(MachineOf(stack, top, Relive(r)), c, argc, base, FALSE), Made(c))
  BY <1>2, <1>3 DEF Call, Register
<1> HIDE DEF r, base
<1> QED
  BY <1>1, <1>2, <1>4, CallAligned

LEMMA InvokeMemberAligned ==
  ASSUME NEW n \in Nat, SameWindows(n), IInv, Aligned(n), NEW c \in Callees, c.kind # "instance",
         NEW argc \in Nat, InvokeMember(c, argc)
  PROVE  Unwind \/ Aligned(n)'
<1> DEFINE self == TopFrame.live - argc - 2
           r    == self + 1
           base == TopFrame.base + r
           s    == [CopyUp(stack, Register(self + 2), Register(self + 1), argc)
                      EXCEPT ![Register(self)] = Object]
           made == Made(c) \cup {Object}
<1>1. Running /\ argc + 1 < TopFrame.live
  BY DEF InvokeMember
<1>2. /\ self \in Nat /\ r \in Nat /\ r <= TopFrame.locals /\ base \in Nat \ {0} /\ TopFrame.base < base
      /\ Register(self + 1) = base
  BY <1>1, RegisterSlots DEF Register
<1>3. [Allocated(r) EXCEPT !.stack = s] = MachineOf(s, top, Relive(r))
  BY <1>1, <1>2, ReliveFacts
<1>4. CallOutcome(CallValue([Allocated(r) EXCEPT !.stack = s], c, argc, base, FALSE), made)
  BY <1>2 DEF InvokeMember
<1>5. CallOutcome(CallValue(MachineOf(s, top, Relive(r)), c, argc, base, FALSE), made)
  <2> HIDE DEF s, r, base, made
  <2> QED
    BY <1>3, <1>4
<1> HIDE DEF s, r, base, made
<1> QED
  BY <1>1, <1>2, <1>5, CallAligned

LEMMA InvokeAligned ==
  ASSUME NEW n \in Nat, SameWindows(n), IInv, Aligned(n), NEW c \in Callees, c.kind = "method",
         NEW argc \in Nat, Invoke(c, argc)
  PROVE  Unwind \/ Aligned(n)'
<1> DEFINE self == TopFrame.live - argc - 2
           r    == self + 1
           v    == stack[Register(self)]
<1>1. Running /\ argc + 1 < TopFrame.live
  BY DEF Invoke
<1>2. /\ r \in Nat /\ r <= TopFrame.locals /\ Register(r) \in Nat /\ TopFrame.base < Register(r)
      /\ Register(self) \in Nat
  BY <1>1, RegisterSlots DEF Register
<1>3. Allocated(r) = MachineOf(stack, top, Relive(r))
  BY <1>1, <1>2, ReliveFacts
<1>4. CallOutcome(InvokeMethod(Allocated(r), c, v, Register(self), Register(r), argc + 1), {})
  BY DEF Invoke
<1>5. CallOutcome(InvokeMethod(MachineOf(stack, top, Relive(r)), c, v, Register(self), Register(r), argc + 1), {})
  <2> HIDE DEF r, v
  <2> QED
    BY <1>3, <1>4
<1> HIDE DEF r, v
<1> QED
  BY <1>1, <1>2, <1>5, MethodAligned

LEMMA OperatorAligned ==
  ASSUME NEW n \in Nat, SameWindows(n), IInv, Aligned(n), NEW c \in Callees, c.kind = "method",
         NEW lhs \in Nat, NEW rhs \in Nat, NEW dst \in Nat, NEW total \in {1, 2},
         Operator(c, lhs, rhs, dst, total)
  PROVE  Unwind \/ Aligned(n)'
<1> DEFINE r == Larger(dst + 1, TopFrame.live)
           s == IF total = 2 THEN [stack EXCEPT ![top + 1] = stack[Register(rhs)]] ELSE stack
           v == stack[Register(lhs)]
<1>1. Running /\ dst < TopFrame.locals
  BY DEF Operator
<1>2. /\ r \in Nat /\ r <= TopFrame.locals /\ Register(dst) \in Nat /\ top \in Nat /\ TopFrame.base < top
      /\ total \in Nat
  <2>1. TopFrame.live \in Nat /\ TopFrame.locals \in Nat /\ TopFrame.live <= TopFrame.locals
    BY <1>1, RegisterSlots
  <2> QED
    BY <1>1, <2>1, RegisterSlots DEF Register, Larger
<1>3. /\ Allocated(r) = MachineOf(stack, top, Relive(r))
      /\ \A y : [Allocated(r) EXCEPT !.stack = y] = MachineOf(y, top, Relive(r))
  <2> HIDE DEF r
  <2> QED
    BY <1>1, <1>2, ReliveFacts
<1>4. (IF total = 2 THEN [Allocated(r) EXCEPT !.stack[top + 1] = stack[Register(rhs)]] ELSE Allocated(r))
        = MachineOf(s, top, Relive(r))
  <2> HIDE DEF r
  <2>1. Allocated(r).stack = stack
    BY <1>3 DEF MachineOf
  <2>2. [Allocated(r) EXCEPT !.stack[top + 1] = stack[Register(rhs)]]
          = [Allocated(r) EXCEPT !.stack = [stack EXCEPT ![top + 1] = stack[Register(rhs)]]]
    BY <2>1
  <2> QED
    BY <1>3, <2>2
<1>5. \/ Unwind
      \/ CallOutcome(InvokeMethod(MachineOf(s, top, Relive(r)), c, v, Register(dst), top, total), {})
  <2> HIDE DEF s
  <2> QED
    BY <1>4 DEF Operator
<1> HIDE DEF r, s, v
<1> QED
  BY <1>1, <1>2, <1>5, MethodAligned

LEMMA ImportModuleAligned ==
  ASSUME NEW n \in Nat, SameWindows(n), IInv, Aligned(n), NEW c \in Callees, c.kind = "module",
         ImportModule(c)
  PROVE  Unwind \/ Aligned(n)'
<1> DEFINE r    == TopFrame.live + 1
           ret  == Register(TopFrame.live)
           high == top + c.locals + 1
           s    == [stack EXCEPT ![ret] = Object]
           m    == [Allocated(r) EXCEPT !.stack[ret] = Object]
           f    == Frame(top, c.locals, 0, ret, top, TRUE)
           m2   == IF Len(frames) >= MaxFrames \/ high > StackSize THEN Fault(m)
                   ELSE [stack |-> Clear(m.stack, top, high - 1), top |-> high, status |-> "ok",
                         frames |-> Append(m.frames, f)]
<1>1. Running /\ TopFrame.live < TopFrame.locals /\ CallOutcome(m2, {Object})
  BY DEF ImportModule
<1>2. c.locals \in Nat /\ top \in Nat
  BY <1>1, RegisterSlots, ConstantsAssumption
<1>3. r \in Nat /\ r <= TopFrame.locals /\ ret \in Nat
  BY <1>1, RegisterSlots DEF Register
<1>4. f \in FrameType /\ f.callerTop = top /\ WindowEnd(f) = high /\ Sized(f, n)
  <2>1. c.locals <= n + 1
    BY DEF SameWindows
  <2> QED
    BY <1>2, <1>3, <2>1 DEF Frame, FrameType, WindowEnd, Sized
<1> HIDE DEF ret
<1>5. m = MachineOf(s, top, Relive(r))
  <2>1. /\ Allocated(r) = MachineOf(stack, top, Relive(r))
        /\ \A z : [Allocated(r) EXCEPT !.stack = z] = MachineOf(z, top, Relive(r))
    BY <1>1, <1>3, ReliveFacts
  <2>2. Allocated(r).stack = stack
    BY <2>1 DEF MachineOf
  <2> QED
    BY <2>1, <2>2
<1>6. m.frames = Relive(r) /\ ~Ok(Fault(m))
  BY <1>5 DEF MachineOf, Fault, Ok
<1> HIDE DEF r, m, f, s
<1>7. CASE ~Unwind
  <2>1. Ok(m2) /\ Install(m2) /\ nests' = nests
    BY <1>1, <1>7 DEF CallOutcome
  <2>2. m2 = [stack |-> Clear(m.stack, top, high - 1), top |-> high, status |-> "ok",
              frames |-> Append(Relive(r), f)]
    BY <1>6, <2>1
  <2>3. frames' = Append(Relive(r), f) /\ top' = high
    BY <2>1, <2>2 DEF Install
  <2> HIDE DEF high
  <2> QED
    BY <1>1, <1>3, <1>4, <2>1, <2>3, GrowAligned
<1> QED
  BY <1>7

\* The innermost frame ends in a tail call; it is not one a native waits for.
LEMMA CompleteAligned ==
  ASSUME NEW n, IInv, Aligned(n), Running, NEW s, NEW t, NEW v,
         Len(frames) # StopDepth + 1, TailComplete(PopFrame(MachineOf(s, t, frames), v))
  PROVE  Aligned(n)'
<1> DEFINE m == PopFrame(MachineOf(s, t, frames), v)
<1>1. Install(m) /\ nests' = nests
  BY DEF TailComplete
<1>2. m = MachineOf([s EXCEPT ![Last(frames).ret] = v], Last(frames).callerTop, Front(frames))
  BY PopFrameIs
<1> HIDE DEF m
<1>3. frames' = Front(frames) /\ top' = TopFrame.callerTop
  BY <1>1, <1>2, AlignedRun DEF Install, MachineOf
<1>4. Len(frames) - 1 > StopDepth
  BY RunningFacts
<1> QED
  BY <1>1, <1>3, <1>4, PopAligned

LEMMA TailCallAligned ==
  ASSUME SyncTails = FALSE, NEW n \in Nat, SameWindows(n), IInv, Aligned(n), NEW c \in Callees,
         c.kind # "instance", NEW argc \in Nat, TailCall(c, argc)
  PROVE  Unwind \/ Aligned(n)'
<1> DEFINE base == TopFrame.base + (TopFrame.live - argc)
           m    == CallValue(MachineOf(stack, top, frames), c, argc, base, TRUE)
<1>1. Running /\ argc < TopFrame.live /\ ~TopFrame.toplevel
  BY DEF TailCall
<1>2. Machine = MachineOf(stack, top, frames) /\ Last(frames) = TopFrame /\ TopFrame \in FrameType
  BY <1>1, RunningFacts, AlignedRun
<1>3. \/ Unwind
      \/ c.kind # "native" /\ c.kind # "class" /\ CallOutcome(m, Made(c))
      \/ c.kind = "class" /\ Ok(m) /\ TailMayComplete(nests) /\ TailComplete(m)
      \/ TailMayComplete(nests) /\ TailComplete(PopFrame(MachineOf(stack, top, frames), Object))
  BY <1>2 DEF TailCall, Register
<1>4. TailMayComplete(nests) => Len(frames) # StopDepth + 1
  BY DEF TailMayComplete, StopDepth
<1> HIDE DEF base
<1>5. CASE c.kind # "native" /\ c.kind # "class" /\ CallOutcome(m, Made(c)) /\ ~Unwind
  <2>1. Ok(m) /\ Install(m) /\ nests' = nests
    BY <1>5 DEF CallOutcome
  <2>2. c.kind \in {"function", "constructor"} /\ Overtakes(m, frames, c)
    <3>1. c.kind \notin {"instance", "native", "class"}
      BY <1>5
    <3> QED
      BY <1>2, <2>1, <3>1, CallValueTailOpens
  <2> HIDE DEF m
  <2>5. PICK f \in FrameType :
          /\ m.frames = Append(Front(frames), f) /\ f.locals = c.locals /\ f.base = TopFrame.base
          /\ ~f.toplevel /\ f.callerTop = TopFrame.callerTop /\ m.top = TopFrame.base + c.locals + 1
    BY <1>2, <2>2 DEF Overtakes
  <2>3. c.locals = n
    BY <2>2 DEF SameWindows
  <2>4. frames' = Append(Front(frames), f) /\ top' = WindowEnd(f) /\ Sized(f, n)
    BY <2>1, <2>3, <2>5 DEF Install, WindowEnd, Sized
  <2> QED
    BY <1>1, <2>1, <2>4, <2>5, ReplaceAligned
<1>6. ASSUME c.kind = "class", Ok(m) PROVE m = PopFrame(MachineOf(stack, top, frames), Object)
  <2>1. m = CallClass(MachineOf(stack, top, frames), argc, base, TRUE)
    BY <1>6 DEF CallValue
  <2>2. ~Ok(Fault(MachineOf(stack, top, frames)))
    BY DEF MachineOf, Fault, Ok
  <2> HIDE DEF m
  <2> QED
    BY <1>6, <2>1, <2>2 DEF CallClass
<1>7. ASSUME TailMayComplete(nests), TailComplete(PopFrame(MachineOf(stack, top, frames), Object))
      PROVE  Aligned(n)'
  BY <1>1, <1>4, <1>7, CompleteAligned
<1> HIDE DEF m
<1> QED
  BY <1>3, <1>5, <1>6, <1>7

LEMMA CallSyncAligned ==
  ASSUME SyncTails = FALSE, NEW n \in Nat, SameWindows(n), IInv, Aligned(n), NEW c \in Callees,
         c.kind # "instance", NEW argc \in Nat, NEW tail \in BOOLEAN, CallSync(c, argc, tail)
  PROVE  Unwind \/ Aligned(n)'
<1> SUFFICES ASSUME ~Unwind PROVE Aligned(n)'
  OBVIOUS
<1> DEFINE k    == TopFrame.live - argc
           r    == IF tail THEN TopFrame.live ELSE k
           base == TopFrame.base + k
           slot == top + 1
           t    == top + argc + 1
           s2   == CopyUp([stack EXCEPT ![top] = stack[base - 1]], base, slot, argc)
           m2   == CallValue(MachineOf(s2, t, Relive(r)), c, argc, slot, FALSE)
<1>1. Running /\ argc < TopFrame.live
  BY DEF CallSync
<1>2. /\ r \in Nat /\ r <= TopFrame.locals /\ base \in Nat /\ top \in Nat /\ slot \in Nat \ {0}
      /\ t \in Nat /\ slot \in Nat /\ slot = top + 1 /\ t = slot + argc
  BY <1>1, RegisterSlots
<1>3. /\ Ok(m2)
      /\ \/ /\ Len(m2.frames) > Len(frames)
            /\ Install(m2) /\ nests' = Append(nests, Nest(Len(frames), top, base, tail))
         \/ /\ ~(Len(m2.frames) > Len(frames)) /\ ~tail
            /\ Install([m2 EXCEPT !.stack[base - 1] = m2.stack[top], !.top = top])
            /\ nests' = nests
         \/ /\ ~(Len(m2.frames) > Len(frames)) /\ tail
            /\ TailComplete(PopFrame([m2 EXCEPT !.top = top], m2.stack[top]))
  <2>1. k = TopFrame.live - argc /\ r = (IF tail THEN TopFrame.live ELSE k) /\ base = TopFrame.base + k
    OBVIOUS
  <2> HIDE DEF k, r, base
  <2>2. SyncOutcome(c, argc, tail, r, base)
    BY <1>1, <2>1, CallSyncCases
  <2> QED
    BY <2>2 DEF SyncOutcome
<1>4. tail /\ nests' = nests => Len(frames) # StopDepth + 1
  <2>1. \/ TailMayComplete(nests) \/ ~tail
        \/ \E x : nests' = Append(nests, Nest(Len(frames), top, x, tail))
    BY DEF CallSync
  <2>2. TailMayComplete(nests) => Len(frames) # StopDepth + 1
    BY DEF TailMayComplete, StopDepth
  <2>3. ASSUME NEW x, nests' = Append(nests, x) PROVE nests' # nests
    <3>1. Len(Append(nests, x)) = Len(nests) + 1 /\ Len(nests) \in Nat
      BY <1>1, AlignedRun, AppendProperties, LenProperties
    <3> QED
      BY <2>3, <3>1
  <2> QED
    BY <2>1, <2>2, <2>3
<1>5. Relive(r) \in Seq(FrameType) /\ Len(Relive(r)) = Len(frames)
  <2> HIDE DEF r
  <2> QED
    BY <1>1, <1>2, ReliveFacts
<1> HIDE DEF r, base, slot, s2, t
<1>6. \/ Answered(m2, Relive(r), t)
      \/ /\ c.kind \in {"function", "constructor"} /\ argc <= c.locals
         /\ Opens(m2, Relive(r), c, slot, t, Larger(t, slot + c.locals + 1))
  BY <1>2, <1>3, CallValueOpens
<1> HIDE DEF m2
<1>7. CASE Answered(m2, Relive(r), t)
  <2>1. PICK z : m2 = MachineOf(z, t, Relive(r))
    BY <1>7 DEF Answered
  <2>2. /\ m2.frames = Relive(r) /\ m2.stack = z
        /\ \A y : [m2 EXCEPT !.stack = y, !.top = top] = MachineOf(y, top, Relive(r))
        /\ [m2 EXCEPT !.top = top] = MachineOf(z, top, Relive(r))
    <3>1. ASSUME NEW y PROVE [m2 EXCEPT !.stack = y, !.top = top] = MachineOf(y, top, Relive(r))
      <4>1. [MachineOf(z, t, Relive(r)) EXCEPT !.stack = y] = MachineOf(y, t, Relive(r))
        BY DEF MachineOf
      <4>2. [MachineOf(y, t, Relive(r)) EXCEPT !.top = top] = MachineOf(y, top, Relive(r))
        BY DEF MachineOf
      <4>3. [m2 EXCEPT !.stack = y, !.top = top] = [[m2 EXCEPT !.stack = y] EXCEPT !.top = top]
        OBVIOUS
      <4> QED
        BY <2>1, <4>1, <4>2, <4>3
    <3>2. m2.frames = Relive(r) /\ m2.stack = z
      BY <2>1 DEF MachineOf
    <3>3. [m2 EXCEPT !.top = top] = MachineOf(z, top, Relive(r))
      BY <2>1 DEF MachineOf
    <3> QED
      BY <3>1, <3>2, <3>3
  <2>3. ~(Len(m2.frames) > Len(frames))
    <3>1. Len(m2.frames) = Len(frames) /\ Len(frames) \in Nat
      BY <1>1, <1>5, <2>2, AlignedRun
    <3> QED
      BY <3>1
  <2>4. CASE ~tail
    <3> DEFINE y == [m2.stack EXCEPT ![base - 1] = m2.stack[top]]
    <3>1. Install([m2 EXCEPT !.stack = y, !.top = top]) /\ nests' = nests
      BY <1>3, <2>3, <2>4
    <3> HIDE DEF y
    <3>2. frames' = Relive(r) /\ top' = top
      BY <2>2, <3>1 DEF Install, MachineOf
    <3> QED
      BY <1>1, <1>2, <3>1, <3>2, StayAligned
  <2>5. CASE tail
    <3>1. TailComplete(PopFrame([m2 EXCEPT !.top = top], z[top])) /\ nests' = nests
      <4>1. m2.stack[top] = z[top]
        BY <2>2
      <4> QED
        BY <1>3, <2>3, <2>5, <4>1 DEF TailComplete
    <3>2. Relive(r) = frames
      BY <1>1, <2>5, ReliveSame DEF r
    <3>3. TailComplete(PopFrame(MachineOf(z, top, frames), z[top]))
      BY <2>2, <3>1, <3>2
    <3> QED
      BY <1>1, <1>4, <2>5, <3>1, <3>3, CompleteAligned
  <2> QED
    BY <2>4, <2>5
<1>8. CASE /\ c.kind \in {"function", "constructor"} /\ argc <= c.locals
           /\ Opens(m2, Relive(r), c, slot, t, Larger(t, slot + c.locals + 1))
  <2>1. PICK f \in FrameType :
          /\ m2.frames = Append(Relive(r), f) /\ f.base = slot /\ f.locals = c.locals /\ ~f.toplevel
          /\ f.callerTop = t /\ m2.top = Larger(t, slot + c.locals + 1)
    BY <1>8 DEF Opens
  <2>2. Len(m2.frames) > Len(frames)
    <3>1. Len(m2.frames) = Len(Relive(r)) + 1
      BY <1>5, <2>1, AppendFacts
    <3> QED
      BY <1>1, <1>5, <3>1, AlignedRun
  <2> DEFINE x == Nest(Len(frames), top, base, tail)
  <2>3. Install(m2) /\ nests' = Append(nests, x)
    BY <1>3, <2>2
  <2>4. x \in NestType /\ x.stop = Len(frames) /\ x.savedTop = top
    BY <1>1, <1>2, AlignedRun DEF Nest, NestType
  <2>5. c.locals = n
    BY <1>8 DEF SameWindows
  <2>6. argc <= n
    BY <1>8, <2>5
  <2>7. Larger(t, slot + n + 1) = slot + n + 1
    BY <1>2, <2>6 DEF Larger
  <2>8. frames' = Append(Relive(r), f) /\ top' = WindowEnd(f) /\ Sized(f, n)
    BY <2>1, <2>3, <2>5, <2>7 DEF Install, WindowEnd, Sized
  <2> HIDE DEF x
  <2> QED
    BY <1>1, <1>2, <2>3, <2>4, <2>8, GrowAligned
<1> QED
  BY <1>6, <1>7, <1>8

LEMMA ReturnAligned == ASSUME NEW n, IInv, Aligned(n), NEW v, Return(v) PROVE Aligned(n)'
<1> DEFINE w == IF TopFrame.toplevel /\ Len(frames) > 1 THEN Object ELSE v
           m == PopFrame(Machine, w)
<1>1. /\ Running /\ Install(m) /\ nests' = nests
      /\ IF Len(m.frames) = StopDepth \/ m.frames = <<>> THEN LeaveExecute ELSE mode' = mode
  BY DEF Return
<1>2. Machine = MachineOf(stack, top, frames)
  BY <1>1, RunningFacts
<1>3. m = MachineOf([stack EXCEPT ![Last(frames).ret] = w], Last(frames).callerTop, Front(frames))
  <2> HIDE DEF w
  <2> QED
    BY <1>2, PopFrameIs
<1> HIDE DEF m, w
<1>4. frames' = Front(frames) /\ top' = TopFrame.callerTop /\ m.frames = Front(frames)
  BY <1>1, <1>3, AlignedRun DEF Install, MachineOf
<1>5. Len(Front(frames)) = Len(frames) - 1 /\ Len(frames) > StopDepth /\ StopDepth \in Nat
      /\ Len(frames) \in Nat
  BY <1>1, AlignedRun, RunningFacts, FrontFacts
<1>6. mode' = "execute" => Len(frames) - 1 > StopDepth
  <2>1. LeaveExecute => mode' # "execute"
    BY DEF LeaveExecute
  <2> QED
    BY <1>1, <1>4, <1>5, <2>1
<1> QED
  BY <1>1, <1>4, <1>6, PopAligned

LEMMA ResumeAligned ==
  ASSUME SyncTails = FALSE, NEW n, IInv, Aligned(n), NEW v, ResumeNative(v) PROVE Aligned(n)'
<1> DEFINE x   == Last(nests)
           m   == [Machine EXCEPT !.top = x.savedTop]
           len == Len(frames)
<1>1. mode = "native" /\ nests' = Front(nests)
  BY DEF ResumeNative
<1>2. /\ nests # <<>> /\ frames # <<>> /\ len = x.stop /\ len \in Nat \ {0}
      /\ x = nests[Len(nests)] /\ Len(nests) \in Nat \ {0} /\ Len(nests) \in 1 .. Len(nests)
      /\ nests \in Seq(NestType) /\ frames \in Seq(FrameType)
      /\ StopOf(Front(nests)) < len /\ StopOf(Front(nests)) \in Nat
  BY <1>1, NativeFacts
<1>3. /\ Len(nests') = Len(nests) - 1 /\ \A k \in 1 .. Len(nests) - 1 : nests'[k] = nests[k]
      /\ \A k \in 1 .. Len(nests') : k \in 1 .. Len(nests) /\ nests'[k] = nests[k] /\ k < Len(nests)
      /\ nests' \in Seq(NestType)
  <2>1. /\ Len(nests') = Len(nests) - 1 /\ \A k \in 1 .. Len(nests) - 1 : nests'[k] = nests[k]
        /\ nests' \in Seq(NestType)
    BY <1>1, <1>2, FrontFacts
  <2>2. \A k \in 1 .. Len(nests') : k \in 1 .. Len(nests) - 1 /\ k \in 1 .. Len(nests) /\ k < Len(nests)
    BY <1>2, <2>1
  <2> QED
    BY <2>1, <2>2
<1>4. /\ \A i \in 1 .. len : Sized(frames[i], n) /\ Restores(frames, nests)
      /\ x.savedTop = WindowEnd(TopFrame)
  BY <1>2 DEF Aligned, Restores, TopFrame
<1>5. \A k \in 1 .. Len(nests') : nests'[k].stop \in 1 .. len - 1 /\ nests'[k].stop <= StopOf(Front(nests))
  <2> SUFFICES ASSUME NEW k \in 1 .. Len(nests')
               PROVE  nests'[k].stop \in 1 .. len - 1 /\ nests'[k].stop <= StopOf(Front(nests))
    OBVIOUS
  <2>1. nests'[k] = nests[k] /\ k \in 1 .. Len(nests) /\ k < Len(nests)
    BY <1>3
  <2>2. nests[k].stop < nests[Len(nests)].stop
    BY <1>2, <2>1 DEF IInv, NestedRunsAboveCaller
  <2>3. nests[k].stop \in 1 .. len
    BY <2>1 DEF IInv, Covered
  <2>4. nests[k].stop \in 1 .. len - 1
    BY <1>2, <2>2, <2>3
  <2>5. nests[k].stop <= StopOf(Front(nests))
    <3>1. Len(nests) - 1 \in 1 .. Len(nests) - 1 /\ Len(nests) - 1 \in 1 .. Len(nests) /\ k <= Len(nests) - 1
      BY <1>2, <2>1
    <3>2. Front(nests) # <<>> /\ Last(Front(nests)) = nests[Len(nests) - 1]
      <4>1. Front(nests) \in Seq(NestType) /\ Len(Front(nests)) = Len(nests) - 1 /\ Len(Front(nests)) # 0
        BY <1>1, <1>3, <3>1
      <4>2. Front(nests) # <<>>
        BY <4>1
      <4> QED
        BY <1>1, <1>3, <3>1, <4>1, <4>2 DEF Last
    <3>3. StopOf(Front(nests)) = nests[Len(nests) - 1].stop
      BY <3>2 DEF StopOf
    <3>4. k # Len(nests) - 1 => nests[k].stop < nests[Len(nests) - 1].stop
      BY <1>2, <2>1, <3>1 DEF IInv, NestedRunsAboveCaller
    <3> QED
      BY <1>2, <2>3, <3>3, <3>4
  <2> QED
    BY <2>1, <2>4, <2>5
<1>6. m = MachineOf(stack, x.savedTop, frames)
  BY DEF Machine, MachineOf
<1>7. \/ Install([m EXCEPT !.stack[x.base - 1] = v])
      \/ Install(PopFrame(m, v)) /\ TailMayComplete(Front(nests))
  BY <1>2 DEF ResumeNative
<1>8. ASSUME NEW i \in 1 .. len - 1
      PROVE  \/ \E k \in 1 .. Len(nests') : nests'[k].stop = i
             \/ frames[i + 1].callerTop = WindowEnd(frames[i])
  <2>1. ASSUME NEW k \in 1 .. Len(nests), nests[k].stop = i
        PROVE  k \in 1 .. Len(nests') /\ nests'[k].stop = i
    <3>1. k # Len(nests)
      BY <1>2, <2>1
    <3> QED
      BY <1>2, <1>3, <2>1, <3>1
  <2> QED
    BY <1>4, <2>1 DEF Restores
<1>9. \A k \in 1 .. Len(nests') : nests'[k].savedTop = WindowEnd(frames[nests'[k].stop])
  <2>1. \A k \in 1 .. Len(nests) : nests[k].savedTop = WindowEnd(frames[nests[k].stop])
    BY DEF Aligned, Restores
  <2> SUFFICES ASSUME NEW k \in 1 .. Len(nests')
               PROVE  nests'[k].savedTop = WindowEnd(frames[nests'[k].stop])
    OBVIOUS
  <2>2. k \in 1 .. Len(nests) /\ nests'[k] = nests[k]
    BY <1>3
  <2> QED
    BY <2>1, <2>2
<1> HIDE DEF m, x
<1>10. CASE Install([m EXCEPT !.stack[x.base - 1] = v])
  <2> DEFINE y == [m.stack EXCEPT ![x.base - 1] = v]
  <2>1. Install([m EXCEPT !.stack = y])
    BY <1>10
  <2> HIDE DEF y
  <2>2. top' = x.savedTop /\ frames' = frames
    BY <1>6, <2>1, MachineSlots DEF Install, MachineOf
  <2>3. Restores(frames', nests')
    BY <1>8, <1>9, <2>2 DEF Restores
  <2> QED
    BY <1>4, <2>2, <2>3 DEF Aligned, TopFrame
<1>11. CASE Install(PopFrame(m, v)) /\ TailMayComplete(Front(nests))
  <2>1. PopFrame(m, v) = MachineOf([stack EXCEPT ![Last(frames).ret] = v], Last(frames).callerTop, Front(frames))
    BY <1>6, PopFrameIs
  <2>2. top' = frames[len].callerTop /\ frames' = Front(frames)
    BY <1>11, <2>1 DEF Install, MachineOf, Last
  <2>3. /\ Len(frames') = len - 1 /\ \A i \in 1 .. len - 1 : frames'[i] = frames[i]
    BY <1>2, <2>2, FrontFacts
  <2>4. len - 1 > StopOf(Front(nests))
    BY <1>2, <1>11 DEF TailMayComplete
  <2>5. len - 1 \in 1 .. len - 1 /\ len - 1 + 1 = len
    BY <1>2, <2>4
  <2>6. \A k \in 1 .. Len(nests') : nests'[k].stop # len - 1
    BY <1>2, <1>5, <2>4
  <2>7. frames[len].callerTop = WindowEnd(frames[len - 1])
    BY <1>8, <2>5, <2>6
  <2>8. top' = WindowEnd(TopFrame')
    BY <2>2, <2>3, <2>5, <2>7 DEF TopFrame
  <2>9. \A i \in 1 .. Len(frames') : Sized(frames'[i], n)
    BY <1>2, <1>4, <2>3
  <2>10. Restores(frames', nests')
    <3>1. ASSUME NEW i \in 1 .. Len(frames') - 1
          PROVE  \/ \E k \in 1 .. Len(nests') : nests'[k].stop = i
                 \/ frames'[i + 1].callerTop = WindowEnd(frames'[i])
      <4>1. i \in 1 .. len - 1 /\ i + 1 \in 1 .. len - 1
        BY <1>2, <2>3
      <4> QED
        BY <1>8, <2>3, <4>1
    <3>2. \A k \in 1 .. Len(nests') : nests'[k].savedTop = WindowEnd(frames'[nests'[k].stop])
      BY <1>5, <1>9, <2>3
    <3> QED
      BY <3>1, <3>2 DEF Restores
  <2> QED
    BY <2>8, <2>9, <2>10 DEF Aligned
<1> QED
  BY <1>7, <1>10, <1>11

LEMMA QuietAligned == ASSUME NEW n, Aligned(n), UNCHANGED <<top, frames, nests, mode>> PROVE Aligned(n)'
  BY DEF Aligned, Running, TopFrame

LEMMA UnwindAligned == ASSUME NEW n, Unwind PROVE Aligned(n)'
<1>1. frames' = <<>> /\ nests' = <<>> /\ mode' = "error"
  BY DEF Unwind
<1>2. Len(frames') = 0 /\ Len(nests') = 0
  BY <1>1
<1> QED
  BY <1>1, <1>2 DEF Aligned, Restores, Running

LEMMA AlignedKeeps ==
  ASSUME SyncTails = FALSE, NoInstances, NEW n \in Nat, SameWindows(n), IInv, Aligned(n), [Next]_vars
  PROVE  Aligned(n)'
<1>1. CASE (\E v \in Value : Load(v)) \/ Drop
  BY <1>1, LoadAligned, DropAligned
<1>2. ASSUME NEW c \in Callees, NEW argc \in ArgCounts,
             Call(c, argc) \/ InvokeMember(c, argc) \/ TailCall(c, argc)
               \/ \E tail \in BOOLEAN : CallSync(c, argc, tail)
      PROVE  Aligned(n)'
  <2>1. argc \in Nat /\ c.kind # "instance"
    BY ArgCountsNat DEF NoInstances
  <2> QED
    BY <1>2, <2>1, CallStepAligned, InvokeMemberAligned, TailCallAligned, CallSyncAligned, UnwindAligned
<1>3. ASSUME NEW c \in Of("method"), NEW argc \in ArgCounts, Invoke(c, argc) PROVE Aligned(n)'
  BY <1>3, ArgCountsNat, InvokeAligned, UnwindAligned DEF Of
<1>4. ASSUME NEW c \in Of("method"), NEW lhs \in 0 .. MainLocals, NEW rhs \in 0 .. MainLocals,
             NEW dst \in 0 .. MainLocals, NEW total \in {1, 2}, Operator(c, lhs, rhs, dst, total)
      PROVE  Aligned(n)'
  <2>1. lhs \in Nat /\ rhs \in Nat /\ dst \in Nat /\ c \in Callees /\ c.kind = "method"
    BY ConstantsAssumption DEF Of
  <2> QED
    BY <1>4, <2>1, OperatorAligned, UnwindAligned
<1>5. ASSUME NEW c \in Of("module"), ImportModule(c) PROVE Aligned(n)'
  BY <1>5, ImportModuleAligned, UnwindAligned DEF Of
<1>6. ASSUME NEW v, Return(v) \/ ResumeNative(v) PROVE Aligned(n)'
  BY <1>6, ReturnAligned, ResumeAligned
<1>7. CASE Fail
  BY <1>7, UnwindAligned DEF Fail
<1>8. CASE Collect \/ UNCHANGED vars
  BY <1>8, QuietAligned DEF Collect, vars
<1> QED
  BY <1>1, <1>2, <1>3, <1>4, <1>5, <1>6, <1>7, <1>8 DEF Next

LEMMA AlignedInit == ASSUME NEW n \in Nat, SameWindows(n), Init PROVE Aligned(n)
<1>1. frames = <<Frame(1, MainLocals, 0, 0, 0, TRUE)>> /\ nests = <<>> /\ top = MainLocals + 2
  BY DEF Init
<1>2. /\ Len(frames) = 1 /\ Len(nests) = 0 /\ TopFrame = frames[1]
      /\ frames[1].base = 1 /\ frames[1].locals = MainLocals /\ frames[1].toplevel
  BY <1>1 DEF Frame, TopFrame
<1>3. top = WindowEnd(TopFrame) /\ Sized(frames[1], n)
  <2>1. WindowEnd(TopFrame) = 1 + MainLocals + 1 /\ MainLocals \in Nat
    BY <1>2, ConstantsAssumption DEF WindowEnd
  <2>2. top = WindowEnd(TopFrame)
    BY <1>1, <2>1
  <2> QED
    BY <1>2, <2>2 DEF Sized, SameWindows
<1>4. \A i \in 1 .. Len(frames) : i = 1
  BY <1>2
<1>5. (\A i \in 1 .. Len(frames) - 1 : FALSE) /\ (\A k \in 1 .. Len(nests) : FALSE)
  BY <1>2
<1> QED
  BY <1>3, <1>4, <1>5 DEF Aligned, Restores

\* A tail call that answers at once pops the frame it was made from.
LEMMA CompletedPops ==
  ASSUME TailComplete(PopFrame(MachineOf(stack, top, frames), Object))
  PROVE  frames' = Front(frames)
<1>1. PopFrame(MachineOf(stack, top, frames), Object).frames = Front(frames)
  <2>1. PopFrame(MachineOf(stack, top, frames), Object)
          = MachineOf([stack EXCEPT ![Last(frames).ret] = Object], Last(frames).callerTop,
                      Front(frames))
    BY PopFrameIs
  <2> QED
    BY <2>1 DEF MachineOf
<1> QED
  BY <1>1 DEF TailComplete, Install

\* A tail call from a frame to another of its size leaves the top where it was.
LEMMA TailKeepsTop ==
  ASSUME NEW n \in Nat, SameWindows(n), NoInstances, IInv, Aligned(n) PROVE TailsKeepTop
<1> SUFFICES ASSUME NEW c \in Callees, NEW argc \in ArgCounts, TailCall(c, argc),
                    Len(frames') = Len(frames)
             PROVE  top' = top
  BY DEF TailsKeepTop
<1> DEFINE base == TopFrame.base + (TopFrame.live - argc)
           m    == CallValue(MachineOf(stack, top, frames), c, argc, base, TRUE)
<1>1. Running /\ ~TopFrame.toplevel /\ argc \in Nat /\ c.kind # "instance"
  BY ArgCountsNat DEF TailCall, NoInstances
<1>2. /\ Machine = MachineOf(stack, top, frames) /\ Last(frames) = TopFrame /\ TopFrame \in FrameType
      /\ frames \in Seq(FrameType) /\ frames # <<>> /\ Len(frames) \in Nat \ {0}
  BY <1>1, RunningFacts, AlignedRun
<1>3. \/ Unwind
      \/ c.kind # "native" /\ c.kind # "class" /\ CallOutcome(m, Made(c))
      \/ c.kind = "class" /\ Ok(m) /\ TailComplete(m)
      \/ TailComplete(PopFrame(MachineOf(stack, top, frames), Object))
  <2> HIDE DEF m
  <2>1. m = CallValue(Machine, c, argc, Register(TopFrame.live - argc), TRUE)
    BY <1>2 DEF m, Register
  <2> QED
    BY <1>2, <2>1 DEF TailCall
<1> HIDE DEF base
<1>4. ~Unwind
  <2>1. Unwind => Len(frames') = 0
    BY DEF Unwind
  <2> QED
    BY <1>2, <2>1
<1>5. ~TailComplete(PopFrame(MachineOf(stack, top, frames), Object))
  <2> HIDE DEF m
  <2>1. TailComplete(PopFrame(MachineOf(stack, top, frames), Object)) => frames' = Front(frames)
    BY CompletedPops
  <2>2. Len(Front(frames)) # Len(frames)
    BY <1>2, FrontFacts
  <2> QED
    BY <2>1, <2>2
<1>6. CASE c.kind # "native" /\ c.kind # "class" /\ CallOutcome(m, Made(c)) /\ ~Unwind
  <2>1. Ok(m) /\ Install(m)
    BY <1>6 DEF CallOutcome
  <2>2. c.kind \in {"function", "constructor"} /\ Overtakes(m, frames, c)
    <3>1. c.kind \notin {"instance", "native", "class"}
      BY <1>1, <1>6
    <3> QED
      BY <1>1, <1>2, <2>1, <3>1, CallValueTailOpens
  <2> HIDE DEF m
  <2>3. c.locals = n /\ TopFrame.locals = n
    BY <1>1, <2>2, AlignedRun DEF SameWindows, Sized
  <2>4. m.top = TopFrame.base + c.locals + 1
    BY <1>2, <2>2 DEF Overtakes
  <2> QED
    BY <1>1, <2>1, <2>3, <2>4, AlignedRun DEF Install, WindowEnd
<1>7. ASSUME c.kind = "class", Ok(m) PROVE m = PopFrame(MachineOf(stack, top, frames), Object)
  <2>1. m = CallClass(MachineOf(stack, top, frames), argc, base, TRUE)
    BY <1>7 DEF CallValue
  <2>2. ~Ok(Fault(MachineOf(stack, top, frames)))
    BY DEF MachineOf, Fault, Ok
  <2> HIDE DEF m
  <2> QED
    BY <1>7, <2>1, <2>2 DEF CallClass
<1> HIDE DEF m
<1> QED
  BY <1>3, <1>4, <1>5, <1>6, <1>7
-----------------------------------------------------------------------------
(* What holds of every run.                                                 *)

\* No frame reaches into another one's registers, whatever the calls, returns,
\* tail calls, nested executions and errors.
THEOREM FrameWindowsHold == ASSUME SyncTails = FALSE PROVE Spec => []FrameWindows
<1>1. IInv => FrameWindows
  BY DEF IInv
<1> QED
  BY <1>1, Invariant, PTL

\* A nested execution ends exactly when the frames of the native's callers are left.
THEOREM NestedRunsHold == ASSUME SyncTails = FALSE PROVE Spec => []NestedRunsAboveCaller
<1>1. IInv => NestedRunsAboveCaller
  BY DEF IInv
<1> QED
  BY <1>1, Invariant, PTL

\* Nothing resumes on an empty frame stack.
THEOREM CallerStaysThere == ASSUME SyncTails = FALSE PROVE Spec => []CallerStillThere
<1>1. IInv => CallerStillThere
  BY DEF IInv, Shape, CallerStillThere
<1> QED
  BY <1>1, Invariant, PTL

\* Every slot holds a value, no frame is pushed above MAX_FRAMES, the top stays on the stack.
THEOREM TypeOKHolds == ASSUME SyncTails = FALSE PROVE Spec => []TypeOK
<1>1. IInv /\ Contents => TypeOK
  BY DEF IInv, Shape, Contents, TypeOK
<1> QED
  BY <1>1, TypedInvariant, PTL

\* What the collector takes as a root (roots of VM::mark_roots: every slot below the live top)
\* is never freed memory, in every run that calls no instance and in which no tail call that
\* goes on in a frame moves the top.
THEOREM RootsAllocatedHolds ==
  ASSUME SyncTails = FALSE, NoInstances
  PROVE  Spec /\ [][TailsKeepTop]_vars => []RootsAllocated
<1>1. Init => IInv /\ Contents /\ RInv
  BY InitHolds, ContentsInit, RInvInit
<1>2. IInv /\ Contents /\ RInv /\ [Next]_vars /\ [TailsKeepTop]_vars => (IInv /\ Contents /\ RInv)'
  BY NextKeeps, ContentsKeeps, RInvKeeps
<1>3. IInv /\ Contents /\ RInv => RootsAllocated
  BY RootsSeen
<1> QED
  BY <1>1, <1>2, <1>3, PTL DEF Spec

\* Where the functions, constructors and methods have windows of one size, and the code at top
\* level has at most one register more, every tail call keeps the top: what the collector takes
\* as a root is never freed memory, whatever the calls, imports, errors and collections.
THEOREM RootsOfSameWindows ==
  ASSUME SyncTails = FALSE, NoInstances, NEW n \in Nat, SameWindows(n)
  PROVE  Spec => []RootsAllocated
<1>1. Init => IInv /\ Aligned(n)
  BY InitHolds, AlignedInit
<1>2. IInv /\ Aligned(n) /\ [Next]_vars => (IInv /\ Aligned(n))' /\ [TailsKeepTop]_vars
  BY NextKeeps, AlignedKeeps, TailKeepsTop
<1>3. Spec => [][TailsKeepTop]_vars
  BY <1>1, <1>2, PTL DEF Spec
<1> QED
  BY <1>3, RootsAllocatedHolds, PTL
=============================================================================
