----------------------------- MODULE Collector -----------------------------
(***************************************************************************)
(* The heap of one virtual machine and its mark-and-sweep collector: what  *)
(* programs do to objects, environments and the module cache between two   *)
(* instructions, and collect(), one object at a time.  A collection may    *)
(* start before any instruction: how much memory triggers it is left out.  *)
(* The live stack slots are a set of registers that hold only what was     *)
(* written to them (CallStack is about when that is so).  Every string     *)
(* has the same text; an environment has one slot.                         *)
(*                                                                         *)
(* An operator named ...Fault is no part of the model: it is a bug one     *)
(* could make in the definition after it, and a property has to notice it. *)
(***************************************************************************)
EXTENDS Naturals, Sequences, FiniteSets, SequencesExt

CONSTANTS
  ModulePath,    \* paths of modules
  Limits,        \* bound: what the programs of one machine do; see Limit
  MaxEntries,    \* bound: elements of a list, entries of a dictionary
  None

ASSUME NoneAssumption == None \notin Nat

Type == {"string", "list", "dict", "function", "class", "instance", "module"}

\* The types of objects that programs make, the objects there is memory for, live
\* stack slots, frames, modules (those that failed included), and whether globals
\* are assigned to.
Limit == [makes : SUBSET Type, objects : Nat, registers : Nat, calls : Nat, modules : Nat,
          globals : BOOLEAN]

ASSUME LimitsAssumption == Limits \subseteq Limit

VARIABLES
  heap,        \* the allocated objects, by address
  all, grays,  \* m_all and m_grays
  phase, at,   \* where collect() is; at is sweep's i
  registers,
  calls,       \* m_frames
  slots,       \* the slots of m_root_environment and of m_module_environments
  cached,      \* m_module_cache
  interned,    \* m_string_table
  limit        \* of this machine's programs

collector == <<heap, all, grays, phase, at>>
roots     == <<registers, calls, slots, cached, interned>>
heapVars  == <<collector, roots, limit>>

Address == 1 .. limit.objects
Register == 1 .. limit.registers
RootEnvironment == 1

Object(type) ==
  [type |-> type, marked |-> FALSE,
   refs  |-> {},      \* a list's elements, an instance's field
   klass |-> None,    \* an instance's class, a class's parent
   pairs |-> {},      \* ObjDict::data
   order |-> {},      \* ObjDict::insertion_order
   env   |-> 0,       \* a function's, class's or module's globals
   initialized |-> FALSE]

Nowhere == [r \in Register |-> None]

HeapInit ==
  /\ heap = <<>> /\ all = <<>> /\ grays = <<>> /\ phase = "running" /\ at = 1
  /\ limit \in Limits
  /\ registers = Nowhere
  /\ calls = <<>>
  /\ slots = <<None>>
  /\ cached = [p \in ModulePath |-> None]
  /\ interned = None

Executing   == phase = "running" /\ calls # <<>>
Environment == Last(calls).env
Is(r, type) == registers[r] # None /\ heap[registers[r]].type = type
Its(r)      == heap[registers[r]]
-----------------------------------------------------------------------------
(* What programs do.                                                        *)

\* The worst allocator: memory that was freed is used again at once.
Free == CHOOSE a \in Address \ DOMAIN heap : \A b \in Address \ DOMAIN heap : a <= b

\* make: the object is tracked before anything refers to it.
Make(object) == /\ object.type \in limit.makes
                /\ Address # DOMAIN heap
                /\ heap' = [a \in DOMAIN heap \cup {Free} |-> IF a = Free THEN object ELSE heap[a]]
                /\ all' = Append(all, Free)
                /\ UNCHANGED <<grays, phase, at>>

Hold(r, a) == registers' = [registers EXCEPT ![r] = a]

\* LIST_NEW, a dictionary, a concatenation, CLOSURE, CLASS and a class's instance.
New(r, s) ==
  /\ Executing
  /\ \/ \E type \in {"string", "list", "dict"} : Make(Object(type))
     \/ Make([Object("function") EXCEPT !.env = Environment])
     \/ Make([Object("class") EXCEPT !.env = Environment])
     \/ Is(s, "class") /\ Make([Object("class") EXCEPT !.env = Environment, !.klass = registers[s]])
     \/ Is(s, "class") /\ Make([Object("instance") EXCEPT !.klass = registers[s]])
  /\ Hold(r, Free)
  /\ UNCHANGED <<calls, slots, cached, interned, limit>>

\* A string constant, which intern() has made once for the machine.
Constant(r) ==
  /\ Executing
  /\ \/ interned # None /\ Hold(r, interned) /\ UNCHANGED <<collector, interned>>
     \/ interned = None /\ Make(Object("string")) /\ Hold(r, Free) /\ interned' = Free
  /\ UNCHANGED <<calls, slots, cached, limit>>

Change(a, object) == /\ Cardinality(object.refs) <= MaxEntries /\ Cardinality(object.order) <= MaxEntries
                     /\ heap' = [heap EXCEPT ![a] = object]
                     /\ UNCHANGED <<all, grays, phase, at>>

\* ValueEqual: strings by their text, other objects by identity.
Equal(a, b) == a = b \/ (heap[a].type = "string" /\ heap[b].type = "string")

\* ObjDict::set and insert_or_assign: an equal key that is there stays.
Put(dict, k, v) ==
  IF \E old \in dict.order : Equal(old, k)
  THEN [dict EXCEPT !.pairs = {IF Equal(p[1], k) THEN <<p[1], v>> ELSE p : p \in @}]
  ELSE [dict EXCEPT !.pairs = @ \cup {<<k, v>>}, !.order = @ \cup {k}]

\* ObjDict::erase.
Erased(dict, k) == [dict EXCEPT !.pairs = {p \in @ : ~Equal(p[1], k)},
                                !.order = {old \in @ : ~Equal(old, k)}]

\* An element appended or popped, a field set, a dictionary's entry set or erased.
Write(r, s, v) ==
  /\ Executing /\ registers[s] # None /\ registers[v] # None
  /\ \/ Is(r, "list") /\ Change(registers[r], [Its(r) EXCEPT !.refs = @ \cup {registers[s]}])
     \/ Is(r, "list") /\ Change(registers[r], [Its(r) EXCEPT !.refs = @ \ {registers[s]}])
     \/ Is(r, "instance") /\ Change(registers[r], [Its(r) EXCEPT !.refs = {registers[s]}])
     \/ Is(r, "dict") /\ Change(registers[r], Put(Its(r), registers[s], registers[v]))
     \/ Is(r, "dict") /\ Change(registers[r], Erased(Its(r), registers[s]))
  /\ UNCHANGED <<roots, limit>>

\* STORE_GLOBAL.
StoreGlobal(s) == /\ Executing /\ limit.globals
                  /\ slots' = [slots EXCEPT ![Environment] = registers[s]]
                  /\ UNCHANGED <<collector, registers, calls, cached, interned, limit>>

\* What can be read from an object: elements, a field, values and dict_keys, a
\* module's export.
Readable(o) == o.refs \cup o.order \cup {p[2] : p \in o.pairs}
               \cup (IF o.type = "module" THEN {slots[o.env]} ELSE {})

\* A register is loaded from an object or a global, or with another value that is
\* no object.
Read(r) ==
  /\ Executing
  /\ \/ \E s \in Register : registers[s] # None /\ (\E a \in Readable(Its(s)) : Hold(r, a))
     \/ Hold(r, slots[Environment])
     \/ Hold(r, None)
  /\ UNCHANGED <<collector, calls, slots, cached, interned, limit>>

\* A function, or a method of an instance: it runs in the environment it was
\* defined in.  Only a function's frame holds an object.
Call(r) ==
  /\ Executing /\ Len(calls) < limit.calls
  /\ \/ /\ Is(r, "function")
        /\ calls' = Append(calls, [func |-> registers[r], module |-> None, env |-> Its(r).env])
     \/ /\ Is(r, "instance")
        /\ calls' = Append(calls, [func |-> None, module |-> None, env |-> heap[Its(r).klass].env])
  /\ UNCHANGED <<collector, registers, slots, cached, interned, limit>>

\* An error: the frames and the stack go, and the modules that are not initialized.
Unwound(h, c) ==
  /\ registers' = Nowhere
  /\ calls' = <<>>
  /\ cached' = [p \in ModulePath |-> IF c[p] # None /\ ~h[c[p]].initialized THEN None ELSE c[p]]

\* IMPORT_MODULE: a cached module at once; another gets an environment and a frame,
\* or cannot be compiled.
ImportModule(r, p) ==
  /\ Executing
  /\ \/ /\ cached[p] # None
        /\ Hold(r, cached[p])
        /\ UNCHANGED <<collector, calls, slots, cached>>
     \/ /\ cached[p] = None /\ Len(slots) <= limit.modules
        /\ Make([Object("module") EXCEPT !.env = Len(slots) + 1])
        /\ slots' = Append(slots, None)
        /\ \/ /\ Len(calls) < limit.calls
              /\ Hold(r, Free)
              /\ cached' = [cached EXCEPT ![p] = Free]
              /\ calls' = Append(calls, [func |-> None, module |-> Free, env |-> Len(slots) + 1])
           \/ Unwound(heap', [cached EXCEPT ![p] = Free])
  /\ UNCHANGED <<interned, limit>>

Raise ==
  /\ Executing
  /\ Unwound(heap, cached)
  /\ UNCHANGED <<collector, slots, interned, limit>>

PopFrame ==
  /\ Executing
  /\ calls' = Front(calls)
  /\ registers' = IF Len(calls) = 1 THEN Nowhere ELSE registers
  /\ IF Last(calls).module = None THEN UNCHANGED collector
     ELSE Change(Last(calls).module, [heap[Last(calls).module] EXCEPT !.initialized = TRUE])
  /\ UNCHANGED <<slots, cached, interned, limit>>

\* VM::run: the host runs a program; the frame's own function object, which refers
\* to nothing, is left out, as are those of modules' frames.
RunProgram ==
  /\ phase = "running" /\ calls = <<>>
  /\ calls' = <<[func |-> None, module |-> None, env |-> RootEnvironment]>>
  /\ UNCHANGED <<collector, registers, slots, cached, interned, limit>>
-----------------------------------------------------------------------------
(* The collector.                                                           *)

ValuesOf(f) == {f[x] : x \in DOMAIN f} \ {None}

\* Only cached modules' environments are roots.
RootsFault == ValuesOf(registers) \cup ValuesOf([i \in DOMAIN calls |-> calls[i].func])
              \cup {slots[RootEnvironment]} \cup {slots[heap[m].env] : m \in ValuesOf(cached)}
              \cup ValuesOf(cached) \cup {interned}

\* mark_roots: the stack, the frames' functions, every environment ever made, the
\* cached modules and the interned strings.
Roots == ValuesOf(registers) \cup ValuesOf([i \in DOMAIN calls |-> calls[i].func])
         \cup ValuesOf(slots) \cup ValuesOf(cached) \cup {interned}

\* A class's parent is forgotten.
ChildrenFault(o) ==
  CASE o.type = "instance" -> {o.klass} \cup o.refs
    [] o.type = "list"     -> o.refs
    [] o.type = "dict"     -> {p[1] : p \in o.pairs} \cup {p[2] : p \in o.pairs}
    [] o.type = "module"   -> {slots[o.env]}
    [] OTHER               -> {}

\* What blacken_object marks.  A function's and a class's chunks hold constants
\* only, which are interned.
Children(o) ==
  CASE o.type = "class"    -> {o.klass}
    [] o.type = "instance" -> {o.klass} \cup o.refs
    [] o.type = "list"     -> o.refs
    [] o.type = "dict"     -> {p[1] : p \in o.pairs} \cup {p[2] : p \in o.pairs}
    [] o.type = "module"   -> {slots[o.env]}
    [] OTHER               -> {}

\* mark_object, of each of them: what is marked already is not pushed again.
Mark(objects, below) ==
  LET fresh == {a \in objects \ {None} : ~heap[a].marked} IN
  /\ heap' = [a \in DOMAIN heap |-> IF a \in fresh THEN [heap[a] EXCEPT !.marked = TRUE] ELSE heap[a]]
  /\ grays' = below \o SetToSeq(fresh)

MarkRoots == /\ Executing
             /\ phase' = "tracing"
             /\ Mark(Roots, grays)
             /\ UNCHANGED <<all, at, roots, limit>>

\* trace_references.
Trace == /\ phase = "tracing"
         /\ \/ /\ grays # <<>>
               /\ Mark(Children(heap[Last(grays)]), Front(grays))
               /\ UNCHANGED <<phase, at>>
            \/ /\ grays = <<>>
               /\ phase' = "sweeping" /\ at' = 1
               /\ UNCHANGED <<heap, grays>>
         /\ UNCHANGED <<all, roots, limit>>

\* The object that moves into an erased one's place is passed over.
SweepFault ==
  /\ phase = "sweeping"
  /\ \/ /\ at > Len(all)
        /\ phase' = "running" /\ at' = 1
        /\ UNCHANGED <<heap, all>>
     \/ /\ at <= Len(all) /\ heap[all[at]].marked
        /\ heap' = [heap EXCEPT ![all[at]].marked = FALSE]
        /\ at' = at + 1
        /\ UNCHANGED <<all, phase>>
     \/ /\ at <= Len(all) /\ ~heap[all[at]].marked
        /\ heap' = [a \in DOMAIN heap \ {all[at]} |-> heap[a]]
        /\ all' = RemoveAt(all, at)
        /\ at' = at + 1
        /\ UNCHANGED phase
  /\ UNCHANGED <<grays, roots, limit>>

\* sweep: what is not marked is deleted, the rest is unmarked.
Sweep ==
  /\ phase = "sweeping"
  /\ \/ /\ at > Len(all)
        /\ phase' = "running" /\ at' = 1
        /\ UNCHANGED <<heap, all>>
     \/ /\ at <= Len(all) /\ heap[all[at]].marked
        /\ heap' = [heap EXCEPT ![all[at]].marked = FALSE]
        /\ at' = at + 1
        /\ UNCHANGED <<all, phase>>
     \/ /\ at <= Len(all) /\ ~heap[all[at]].marked
        /\ heap' = [a \in DOMAIN heap \ {all[at]} |-> heap[a]]
        /\ all' = RemoveAt(all, at)
        /\ UNCHANGED <<at, phase>>
  /\ UNCHANGED <<grays, roots, limit>>

HeapNext ==
  \/ \E r, s \in Register : New(r, s)
  \/ \E r, s, v \in Register : Write(r, s, v)
  \/ \E r \in Register : Constant(r) \/ StoreGlobal(r) \/ Read(r) \/ Call(r)
  \/ \E r \in Register, p \in ModulePath : ImportModule(r, p)
  \/ Raise \/ PopFrame \/ RunProgram
  \/ MarkRoots \/ Trace \/ Sweep

HeapSpec == HeapInit /\ [][HeapNext]_heapVars
-----------------------------------------------------------------------------
(* Properties.                                                              *)

\* Everything an object leads a program to: what it holds, and the global of the
\* environment its code runs in.
LeadsTo(o) == o.refs \cup o.order \cup {p[2] : p \in o.pairs} \cup {o.klass}
              \cup (IF o.env = 0 THEN {} ELSE {slots[o.env]})

\* The least set with these objects and with all that its objects lead to.
Closed(s) == \A a \in s \cap DOMAIN heap : LeadsTo(heap[a]) \ {None} \subseteq s

Reached(from) ==
  {a \in Address : \A s \in SUBSET Address : from \ {None} \subseteq s /\ Closed(s) => a \in s}

\* Where a program, or a later run in this machine, can start from.
Reachable ==
  Reached(ValuesOf(registers) \cup ValuesOf(cached) \cup {interned}
          \cup {calls[i].func : i \in DOMAIN calls} \cup {calls[i].module : i \in DOMAIN calls}
          \cup {slots[e] : e \in {RootEnvironment} \cup {calls[i].env : i \in DOMAIN calls}})

\* Nothing a program can still reach is freed: by way of a function's or a class's
\* environment, which blacken_object does not follow, a dictionary's insertion
\* order, which it does not read, or the module of a frame, which is no root.
NothingLost == Reachable \subseteq DOMAIN heap

\* What a collection keeps: all that is reached from the roots, from the
\* environments of modules that were dropped as well.
Kept == Reached(Roots)

\* A collection ends with exactly that, on the heap and in m_all: nothing survives
\* by a mark of an earlier one, and nothing is missed.
CollectedExactly ==
  [][phase = "sweeping" /\ phase' = "running"
     => DOMAIN heap = Kept /\ ToSet(all) = Kept /\ IsInjective(all)
    ]_heapVars

\* While references are traced an object whose references were marked has only
\* marked ones; between collections no object is marked, for one that is would be
\* taken for traced by the next.
Tricolour ==
  /\ phase = "tracing" =>
       \A a \in DOMAIN heap : heap[a].marked /\ ~Contains(grays, a)
          => \A b \in LeadsTo(heap[a]) \ {None} : heap[b].marked
  /\ phase = "running" => grays = <<>> /\ \A a \in DOMAIN heap : ~heap[a].marked
=============================================================================
