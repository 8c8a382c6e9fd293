----------------------------- MODULE CallStack -----------------------------
(***************************************************************************)
(* The call machinery of the virtual machine: one value stack shared by    *)
(* all frames, the frame stack, and the native functions that re-enter     *)
(* VM::execute through call_value_sync.  Bytecode is abstracted to what it *)
(* does to registers: an instruction loads a register, releases one, or    *)
(* calls.  A frame's ip is abstracted to live, the number of registers the *)
(* compiler has allocated there (its callee and arguments are always the   *)
(* topmost allocated registers).                                           *)
(*                                                                         *)
(* An operator named ...Fault is no part of the model: it is a bug one     *)
(* could make in the definition after it, and a property has to notice it. *)
(***************************************************************************)
EXTENDS Naturals, Sequences, SequencesExt

CONSTANTS
  Value,         \* what an instruction can load into a register
  Object,        \* an object the machine makes: instance, module, native answer
  Nil,           \* Value::nil()
  StackSize,     \* VM::STACK_SIZE
  MaxFrames,     \* VM::MAX_FRAMES
  Callees,       \* the callables of the program: [kind, arity, locals]
  MainLocals,    \* local_count of the program's own chunk
  SyncTails,     \* may a function run by call_value_sync end in a tail call
                 \* that completes without a frame?
  SyncConstructors, \* may call_value_sync be given a class with a constructor?
  Collecting     \* does memory pressure ever ask for a collection?

CallKinds == {"function", "native", "class", "constructor", "instance", "method", "module"}
WithSelf  == {"constructor", "instance", "method"}

ASSUME ConstantsAssumption ==
  /\ StackSize \in Nat /\ MaxFrames \in Nat \ {0} /\ MainLocals \in Nat
  /\ MainLocals + 2 <= StackSize
  /\ Callees \subseteq [kind : CallKinds, arity : Nat, locals : Nat]
  /\ \A c \in Callees : c.arity <= c.locals \/ c.kind \in {"native", "class"}
  /\ \A c \in Callees : c.kind \in WithSelf => c.arity > 0
  /\ SyncTails \in BOOLEAN /\ SyncConstructors \in BOOLEAN /\ Collecting \in BOOLEAN
  /\ Nil \notin Value \cup {Object} /\ Object \notin Value

Slots == 0 .. StackSize - 1
Cell  == Value \cup {Object, Nil}

VARIABLES
  stack,     \* m_stack
  top,       \* m_stack_top
  frames,    \* m_frames[0 .. m_frames_top), innermost last
  nests,     \* the call_value_sync calls in progress, innermost last
  heap,      \* the objects the collector has not freed
  mode       \* "execute" | "native" | "done" | "error" | "asserted"

vars == <<stack, top, frames, nests, heap, mode>>

\* A CallFrame; toplevel tells the frames of the program and of modules.
Frame(base, locals, live, ret, callerTop, toplevel) ==
  [base |-> base, locals |-> locals, live |-> live, ret |-> ret,
   callerTop |-> callerTop, toplevel |-> toplevel]

\* The depth is read after the callee's frame was pushed.
NestFault(stop, savedTop, base, tail) ==
  [stop |-> stop + 1, savedTop |-> savedTop, base |-> base, tail |-> tail]

\* A call_value_sync in progress: the frames below it, the caller's stack top,
\* and where its native function was called (base) and how (tail).
Nest(stop, savedTop, base, tail) ==
  [stop |-> stop, savedTop |-> savedTop, base |-> base, tail |-> tail]

FrameType == [base : Nat, locals : Nat, live : Nat, ret : Nat, callerTop : Nat,
              toplevel : BOOLEAN]
NestType  == [stop : Nat, savedTop : Nat, base : Nat, tail : BOOLEAN]

TypeOK == /\ stack \in [Slots -> Cell]
          /\ top \in 0 .. StackSize
          /\ frames \in Seq(FrameType) /\ Len(frames) <= MaxFrames
          /\ nests \in Seq(NestType)
          /\ heap \subseteq Value \cup {Object}
          /\ mode \in {"execute", "native", "done", "error", "asserted"}

TopFrame == frames[Len(frames)]
Running  == mode = "execute"

\* The depth at which the current execute() returns to the native that called it.
StopOf(ns) == IF ns = <<>> THEN 0 ELSE Last(ns).stop
StopDepth  == StopOf(nests)
-----------------------------------------------------------------------------
(* Machine states as values: call_value is used by four instructions and by *)
(* call_value_sync, in the middle of their own work.                        *)

Machine == [stack |-> stack, top |-> top, frames |-> frames, status |-> "ok"]
Fault(m) == [m EXCEPT !.status = "error"]
Ok(m)    == m.status = "ok"

Larger(x, y) == IF x >= y THEN x ELSE y

\* Slots lo .. hi set to nil.
Clear(s, lo, hi) == [i \in DOMAIN s |-> IF lo <= i /\ i <= hi THEN Nil ELSE s[i]]

\* The two copying loops, one element at a time: they differ when ranges overlap.
CopyUp(s, from, to, n) ==
  LET c[i \in 0 .. n] == IF i = 0 THEN s
                         ELSE [c[i - 1] EXCEPT ![to + i - 1] = c[i - 1][from + i - 1]]
  IN  c[n]
CopyDown(s, from, to, n) ==
  LET c[i \in 0 .. n] == IF i = 0 THEN s
                         ELSE [c[i - 1] EXCEPT ![to + n - i] = c[i - 1][from + n - i]]
  IN  c[n]

\* The shared shape of every new frame: locals after the arguments are nil.
PushFrame(m, s, t, base, c, argc, ret, callerTop) ==
  [stack |-> Clear(s, base + argc, base + c.locals - 1), top |-> t, status |-> "ok",
   frames |-> Append(m.frames, Frame(base, c.locals, argc, ret, callerTop, FALSE))]

\* A tail call that forgets which slot the caller waits on.
ReplaceFrameFault(m, s, t, c, argc) ==
  LET old == Last(m.frames) IN
  [stack |-> Clear(s, old.base + argc, old.base + c.locals - 1), top |-> t, status |-> "ok",
   frames |-> Append(Front(m.frames),
                     Frame(old.base, c.locals, argc, old.base - 1, old.callerTop, FALSE))]

\* A tail call takes over the frame, its return slot and its caller's top.
ReplaceFrame(m, s, t, c, argc) ==
  LET old == Last(m.frames) IN
  [stack |-> Clear(s, old.base + argc, old.base + c.locals - 1), top |-> t, status |-> "ok",
   frames |-> Append(Front(m.frames),
                     Frame(old.base, c.locals, argc, old.ret, old.callerTop, FALSE))]

\* The stack is cut back to the result instead of the caller's own top.
PopFrameFault(m, v) ==
  LET old == Last(m.frames) IN
  [m EXCEPT !.stack[old.ret] = v, !.frames = Front(@), !.top = old.ret + 1]

\* return_slot gets the value, the frame goes, its caller's top comes back.
PopFrame(m, v) ==
  LET old == Last(m.frames) IN
  [m EXCEPT !.stack[old.ret] = v, !.frames = Front(@), !.top = old.callerTop]

\* The window grows over slots that keep what an earlier call left there.
StaleCallFunctionFault(m, c, argc, base, tail) ==
  LET dest == IF tail THEN Last(m.frames).base ELSE base
      high == dest + c.locals + 1
  IN
  IF argc # c.arity \/ high > StackSize \/ (~tail /\ Len(m.frames) >= MaxFrames) THEN Fault(m)
  ELSE IF tail THEN ReplaceFrame(m, CopyUp(m.stack, base, dest, argc), high, c, argc)
  ELSE PushFrame(m, m.stack, Larger(m.top, high), base, c, argc, base - 1, m.top)

\* The stack limit is compared with the window's base.
LimitCallFunctionFault(m, c, argc, base, tail) ==
  LET dest == IF tail THEN Last(m.frames).base ELSE base
      high == dest + c.locals + 1
  IN
  IF argc # c.arity \/ dest > StackSize \/ (~tail /\ Len(m.frames) >= MaxFrames) THEN Fault(m)
  ELSE IF tail THEN ReplaceFrame(m, CopyUp(m.stack, base, dest, argc), high, c, argc)
  ELSE PushFrame(m, Clear(m.stack, m.top, high - 1), Larger(m.top, high),
                 base, c, argc, base - 1, m.top)

CallFunction(m, c, argc, base, tail) ==
  LET dest == IF tail THEN Last(m.frames).base ELSE base
      high == dest + c.locals + 1
  IN
  IF argc # c.arity \/ high > StackSize \/ (~tail /\ Len(m.frames) >= MaxFrames) THEN Fault(m)
  ELSE IF tail THEN ReplaceFrame(m, CopyUp(m.stack, base, dest, argc), high, c, argc)
  ELSE PushFrame(m, Clear(m.stack, m.top, high - 1), Larger(m.top, high),
                 base, c, argc, base - 1, m.top)

CallNative(m, c, argc, base) ==
  IF argc # c.arity THEN Fault(m) ELSE [m EXCEPT !.stack[base - 1] = Object]

\* A class without a constructor method: the instance is the result.
CallClass(m, argc, base, tail) ==
  IF argc # 0 THEN Fault(m)
  ELSE IF tail THEN PopFrame(m, Object)
  ELSE [m EXCEPT !.stack[base - 1] = Object]

\* The constructor finds the new instance in register 0, the arguments after it.
CallConstructor(m, c, argc, base, tail) ==
  LET dest == IF tail THEN Last(m.frames).base ELSE base
      high == dest + c.locals + 1
      moved == IF tail /\ dest < base THEN CopyUp(m.stack, base, dest + 1, argc)
                                      ELSE CopyDown(m.stack, base, dest + 1, argc)
      s == Clear([moved EXCEPT ![dest] = Object], m.top, high - 1)
  IN
  IF \/ argc + 1 # c.arity \/ m.top + 1 >= StackSize \/ high > StackSize
     \/ (~tail /\ Len(m.frames) >= MaxFrames) THEN Fault(m)
  ELSE IF tail THEN ReplaceFrame(m, s, high, c, argc + 1)
  ELSE PushFrame(m, s, Larger(m.top, high), base, c, argc + 1, base - 1, m.top)

\* A callable instance: its method's frame is staged above the live top.
CallInstance(m, c, argc, base, tail) ==
  LET dest == IF tail THEN Last(m.frames).base ELSE m.top
      high == dest + c.locals + 1
      s == IF tail THEN [CopyUp(m.stack, base, dest + 1, argc) EXCEPT ![dest] = m.stack[base - 1]]
           ELSE CopyUp([m.stack EXCEPT ![dest] = m.stack[base - 1]], base, dest + 1, argc)
  IN
  IF \/ argc + 1 # c.arity \/ high > StackSize
     \/ (~tail /\ Len(m.frames) >= MaxFrames) THEN Fault(m)
  ELSE IF tail THEN ReplaceFrame(m, s, high, c, argc + 1)
  ELSE PushFrame(m, s, high, dest, c, argc + 1, base - 1, m.top)

\* VM::call_value: the arguments are in slots base .. base + argc - 1, the callee
\* in slot base - 1.
CallValue(m, c, argc, base, tail) ==
  CASE c.kind = "function"    -> CallFunction(m, c, argc, base, tail)
    [] c.kind = "native"      -> CallNative(m, c, argc, base)
    [] c.kind = "class"       -> CallClass(m, argc, base, tail)
    [] c.kind = "constructor" -> CallConstructor(m, c, argc, base, tail)
    [] c.kind = "instance"    -> CallInstance(m, c, argc, base, tail)
    [] OTHER                  -> Fault(m)   \* not callable

\* VM::invoke_method: self goes to slot base, the other arguments are there.
InvokeMethod(m, c, self, ret, base, total) ==
  LET high == base + c.locals + 1
      t == Larger(m.top, base + total)
  IN
  IF total # c.arity \/ Len(m.frames) >= MaxFrames \/ high > StackSize
  THEN Fault(m)
  ELSE PushFrame(m, [Clear(m.stack, t, high - 1) EXCEPT ![base] = self],
                 Larger(t, high), base, c, total, ret, m.top)
-----------------------------------------------------------------------------
Install(m) == stack' = m.stack /\ top' = m.top /\ frames' = m.frames

\* VM::unwind, after the error has left every execute() on the C++ stack.
Unwind == /\ stack' = Clear(stack, 0, top - 1)
          /\ top' = 0
          /\ frames' = <<>>
          /\ nests' = <<>>
          /\ mode' = "error"
          /\ UNCHANGED heap

\* A call either leaves a machine to go on with or ends the run.
CallOutcome(m, made) ==
  \/ /\ Ok(m)
     /\ Install(m)
     /\ heap' = heap \cup made
     /\ UNCHANGED <<nests, mode>>
  \/ ~Ok(m) /\ Unwind

Made(c) == IF c.kind \in {"native", "class", "constructor"} THEN {Object} ELSE {}

\* The machine with n registers allocated at the top frame's saved ip.
Allocated(n) == [Machine EXCEPT !.frames[Len(frames)].live = n]

Register(r) == TopFrame.base + r

\* run() found an empty VM: the program's function in slot 0, its frame above.
Init == /\ stack = [i \in Slots |-> IF i = 0 THEN Object ELSE Nil]
        /\ top = MainLocals + 2
        /\ frames = <<Frame(1, MainLocals, 0, 0, 0, TRUE)>>
        /\ nests = <<>>
        /\ heap = {Object}
        /\ mode = "execute"

\* An instruction that loads a value into the next register.
Load(v) == /\ Running
           /\ TopFrame.live < TopFrame.locals
           /\ stack' = [stack EXCEPT ![Register(TopFrame.live)] = v]
           /\ frames' = [frames EXCEPT ![Len(frames)].live = @ + 1]
           /\ heap' = heap \cup {v}
           /\ UNCHANGED <<top, nests, mode>>

\* The compiler rewinds its register allocator: a scope or temporary ends.
Drop == /\ Running
        /\ TopFrame.live > 0
        /\ frames' = [frames EXCEPT ![Len(frames)].live = @ - 1]
        /\ UNCHANGED <<stack, top, nests, heap, mode>>

\* CALL and IC_CALL: the callee's register becomes the result register.
Call(c, argc) ==
  LET fn == TopFrame.live - argc - 1 IN
  /\ Running
  /\ argc < TopFrame.live
  /\ CallOutcome(CallValue(Allocated(fn + 1), c, argc, Register(fn + 1), FALSE), Made(c))

\* INVOKE, and INVOKE_NAMED on an instance: receiver, spare register, arguments.
Invoke(c, argc) ==
  LET self == TopFrame.live - argc - 2 IN
  /\ Running
  /\ argc + 1 < TopFrame.live
  /\ CallOutcome(InvokeMethod(Allocated(self + 1), c, stack[Register(self)], Register(self),
                              Register(self + 1), argc + 1), {})

\* INVOKE_NAMED on a module export or a callable field: the arguments slide down
\* over the spare register and the member is called like a plain value.
InvokeMember(c, argc) ==
  LET self == TopFrame.live - argc - 2
      slid == CopyUp(stack, Register(self + 2), Register(self + 1), argc)
      m    == [Allocated(self + 1) EXCEPT !.stack = [slid EXCEPT ![Register(self)] = Object]]
  IN
  /\ Running
  /\ argc + 1 < TopFrame.live
  /\ CallOutcome(CallValue(m, c, argc, Register(self + 1), FALSE), Made(c) \cup {Object})

\* run_instance_op and OP_NEG: an operator method found on one operand, called on
\* a frame staged above the live top; the result may overwrite an operand.
Operator(c, lhs, rhs, dst, total) ==
  LET m == Allocated(Larger(dst + 1, TopFrame.live))
      staged == IF total = 2 THEN [m EXCEPT !.stack[top + 1] = stack[Register(rhs)]] ELSE m
  IN
  /\ Running
  /\ lhs < TopFrame.live /\ rhs < TopFrame.live
  /\ dst <= TopFrame.live /\ dst < TopFrame.locals
  /\ \/ /\ top + total < StackSize
        /\ CallOutcome(InvokeMethod(staged, c, stack[Register(lhs)], Register(dst), top, total), {})
     \/ top + total >= StackSize /\ Unwind

\* IMPORT_MODULE of a module not yet run: its top level runs above the caller's.
ImportModule(c) ==
  LET dst == TopFrame.live
      high == top + c.locals + 1
      m == [Allocated(dst + 1) EXCEPT !.stack[Register(dst)] = Object]
  IN
  /\ Running
  /\ TopFrame.toplevel                \* compile_import accepts top-level statements only
  /\ dst < TopFrame.locals
  /\ CallOutcome(IF Len(frames) >= MaxFrames \/ high > StackSize THEN Fault(m)
                 ELSE [stack |-> Clear(m.stack, top, high - 1), top |-> high, status |-> "ok",
                       frames |-> Append(m.frames, Frame(top, c.locals, 0, Register(dst),
                                                         top, TRUE))],
                 {Object})
-----------------------------------------------------------------------------
(* Ways a frame ends.                                                       *)

\* The current execute() returns to run(), or to the native that called it.
LeaveExecute == mode' = IF nests = <<>> THEN "done" ELSE "native"

\* RETURN, RETURN1, RETURN_NIL: the caller goes on unless execute() was asked to
\* stop at this depth.
Return(v) ==
  LET m == PopFrame(Machine, IF TopFrame.toplevel /\ Len(frames) > 1 THEN Object ELSE v) IN
  /\ Running
  /\ v \in {stack[Register(r)] : r \in 0 .. TopFrame.live - 1} \cup {Nil}
  /\ Install(m)
  /\ IF Len(m.frames) = StopDepth \/ m.frames = <<>> THEN LeaveExecute ELSE UNCHANGED mode
  /\ UNCHANGED <<nests, heap>>

\* May the top frame end in a tail call that needs no frame?  Always, unless it
\* is the frame call_value_sync pushed and the programs considered avoid that.
TailMayComplete(ns) == SyncTails \/ Len(frames) # StopOf(ns) + 1

\* The frame ends in CALL_TAIL itself: only an empty frame stack leaves execute().
TailComplete(m) ==
  /\ Install(m)
  /\ IF m.frames = <<>> THEN LeaveExecute ELSE UNCHANGED mode
  /\ heap' = heap \cup {Object}
  /\ UNCHANGED nests

\* CALL_TAIL; the compiler emits it in functions and methods only.
TailCall(c, argc) ==
  LET base == Register(TopFrame.live - argc)
      m == CallValue(Machine, c, argc, base, TRUE)
  IN
  /\ Running
  /\ ~TopFrame.toplevel
  /\ argc < TopFrame.live
  /\ \/ c.kind \notin {"native", "class"} /\ CallOutcome(m, Made(c))
     \/ c.kind = "class" /\ Ok(m) /\ TailMayComplete(nests) /\ TailComplete(m)
     \/ c.kind = "class" /\ ~Ok(m) /\ Unwind
     \/ c.kind = "native" /\ argc = c.arity /\ TailMayComplete(nests)
                          /\ TailComplete(PopFrame(Machine, Object))
     \/ c.kind = "native" /\ argc # c.arity /\ Unwind

\* A native (dynamic_call, task_start) runs its argument through call_value_sync:
\* the callee and the listed arguments are staged above the live top, here copied
\* from the native's own argument registers.
CallSync(c, argc, tail) ==
  LET fn   == TopFrame.live - argc - 1
      base == Register(fn + 1)
      slot == top
      m0   == IF tail THEN Machine ELSE Allocated(fn + 1)
      m1   == [m0 EXCEPT !.stack = CopyUp([stack EXCEPT ![slot] = stack[base - 1]],
                                          base, slot + 1, argc),
                         !.top = slot + argc + 1]
      m2   == CallValue(m1, c, argc, slot + 1, FALSE)
      ok   == slot + argc + 1 <= StackSize /\ Ok(m2)
      ran  == Len(m2.frames) > Len(frames)
  IN
  /\ Running
  /\ c.kind = "constructor" => SyncConstructors
  /\ tail => ~TopFrame.toplevel
  /\ argc < TopFrame.live
  /\ \/ /\ ok /\ ran
        /\ Install(m2)
        /\ nests' = Append(nests, Nest(Len(frames), slot, base, tail))
        /\ heap' = heap \cup Made(c)
        /\ UNCHANGED mode
     \/ /\ ok /\ ~ran /\ ~tail
        /\ Install([m2 EXCEPT !.stack[base - 1] = m2.stack[slot], !.top = slot])
        /\ heap' = heap \cup Made(c)
        /\ UNCHANGED <<nests, mode>>
     \/ /\ ok /\ ~ran /\ tail /\ TailMayComplete(nests)
        /\ TailComplete(PopFrame([m2 EXCEPT !.top = slot], m2.stack[slot]))
     \/ ~ok /\ Unwind

\* The nested execute() is over: call_value_sync reads the callee's slot, the
\* native answers with it (dynamic_call) or with a task object (task_start), and
\* the instruction that called the native goes on with the top frame.
ResumeNative(v) ==
  LET n == Last(nests)
      m == [Machine EXCEPT !.top = n.savedTop]
  IN
  /\ mode = "native"
  /\ v \in {stack[n.savedTop], Object}
  /\ nests' = Front(nests)
  /\ heap' = IF v = Object THEN heap \cup {Object} ELSE heap
  /\ \/ /\ frames = <<>>                  \* frame() asserts on an empty frame stack
        /\ mode' = "asserted"
        /\ Install(IF n.tail THEN m ELSE [m EXCEPT !.stack[n.base - 1] = v])
     \/ /\ frames # <<>> /\ ~n.tail
        /\ mode' = "execute"
        /\ Install([m EXCEPT !.stack[n.base - 1] = v])
     \/ /\ frames # <<>> /\ n.tail
        /\ TailMayComplete(Front(nests))
        /\ Install(PopFrame(m, v))
        /\ mode' = IF Len(frames) > 1 THEN "execute"
                   ELSE IF nests' = <<>> THEN "done" ELSE "native"

\* Any instruction may raise a runtime error.
Fail == mode \in {"execute", "native"} /\ Unwind

\* DISPATCH collects before an instruction: objects no slot below the top refers
\* to are freed.
Collect == /\ Collecting /\ Running
           /\ heap' = {stack[i] : i \in 0 .. top - 1} \ {Nil}
           /\ UNCHANGED <<stack, top, frames, nests, mode>>

\* Argument counts worth trying: those the callees take.
ArgCounts == {IF c.kind \in WithSelf THEN c.arity - 1 ELSE c.arity : c \in Callees}
Of(kind) == {c \in Callees : c.kind = kind}

Next == \/ \E v \in Value : Load(v)
        \/ Drop
        \/ \E c \in Callees, argc \in ArgCounts :
             \/ Call(c, argc)
             \/ InvokeMember(c, argc)
             \/ TailCall(c, argc)
             \/ \E tail \in BOOLEAN : CallSync(c, argc, tail)
        \/ \E c \in Of("method") :
             \/ \E argc \in ArgCounts : Invoke(c, argc)
             \/ \E lhs, rhs, dst \in 0 .. MainLocals, total \in {1, 2} :
                  Operator(c, lhs, rhs, dst, total)
        \/ \E c \in Of("module") : ImportModule(c)
        \/ \E v \in Value \cup {Object, Nil} : Return(v) \/ ResumeNative(v)
        \/ Fail
        \/ Collect

Spec == Init /\ [][Next]_vars
-----------------------------------------------------------------------------
(* Properties.                                                              *)

\* The frames share one array without reaching into each other: every register
\* a suspended caller can still read lies below its callee's window, the slot a
\* return writes is the caller's and not the callee's, and when the callee is
\* gone the caller's whole window is again below the stack top.  (call_value,
\* invoke_method and the RETURN opcodes agree on base, return_slot and
\* caller_stack_top, which the compiler and five call paths set up.)
WindowEnd(frame) == frame.base + frame.locals + 1
CallerKeeps(caller, callee) == /\ caller.base + caller.live <= callee.base
                               /\ caller.base <= callee.ret
                               /\ callee.ret < callee.base
                               /\ WindowEnd(caller) <= callee.callerTop
Windows(fs, t) ==
  /\ \A i \in 1 .. Len(fs) : /\ fs[i].live <= fs[i].locals
                            /\ WindowEnd(fs[i]) <= StackSize
                            /\ fs[i].callerTop <= StackSize
  /\ \A i \in 1 .. Len(fs) - 1 : CallerKeeps(fs[i], fs[i + 1])
  /\ fs # <<>> => WindowEnd(fs[Len(fs)]) <= t
FrameWindows == Windows(frames, top)

\* While an execute() started by call_value_sync runs, the frames of the native's
\* callers are still on the frame stack below it, each deeper nested execute()
\* was started by a frame of the one around it, and when it is over exactly the
\* native's callers are left.
NestedRunsAboveCaller ==
  /\ Running => Len(frames) > StopDepth
  /\ \A i, j \in 1 .. Len(nests) : i < j => nests[i].stop < nests[j].stop
  /\ mode = "native" => Len(frames) = StopDepth

\* VM::top_frame asserts "topFrame called with empty frame stack": execution never
\* resumes a caller that is no longer there.
CallerStillThere == mode # "asserted"

\* Whenever DISPATCH may collect, every slot the collector takes as a root holds
\* nil or an object it has not freed.
RootsAllocated == Running => \A i \in 0 .. top - 1 : stack[i] \in heap \cup {Nil}
=============================================================================
