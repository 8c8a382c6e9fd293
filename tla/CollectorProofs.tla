--------------------------- MODULE CollectorProofs ---------------------------
(***************************************************************************)
(* For every machine, whatever its memory, registers, frames, modules and  *)
(* paths: the collector frees nothing a program can reach (NothingLost),   *)
(* it traces without leaving a reference behind (Tricolour), and it keeps  *)
(* exactly what its roots lead to (CollectedExactly).                      *)
(***************************************************************************)
EXTENDS Collector, SequenceFacts

ObjectType ==
  [type : Type, marked : BOOLEAN, refs : SUBSET Address, klass : Address \cup {None},
   pairs : SUBSET (Address \X Address), order : SUBSET Address, env : Nat, initialized : BOOLEAN]

Typed ==
  /\ limit \in Limit
  /\ DOMAIN heap \subseteq Address /\ heap \in [DOMAIN heap -> ObjectType]
  /\ all \in Seq(Address) /\ grays \in Seq(Address)
  /\ phase \in {"running", "tracing", "sweeping"} /\ at \in Nat \ {0}

\* Each type has only its own fields; a dictionary's insertion order names its keys.
FitsIn(o, environments) ==
  /\ o.type \notin {"list", "instance"} => o.refs = {}
  /\ o.type # "dict" => o.pairs = {}
  /\ o.order = {p[1] : p \in o.pairs}
  /\ o.type \notin {"class", "instance"} => o.klass = None
  /\ o.type \in {"function", "class", "module"} => o.env # 0
  /\ o.type \notin {"function", "class", "module"} => o.env = 0
  /\ o.env \in 0 .. environments

FitsType(o) == FitsIn(o, Len(slots))

Fits == \A a \in DOMAIN heap : FitsType(heap[a])

\* A frame runs in an environment there is, and a module's only while it is cached.
FramesFit ==
  \A i \in 1 .. Len(calls) :
     /\ calls[i].env \in 1 .. Len(slots)
     /\ calls[i].module # None => \E p \in ModulePath : cached[p] = calls[i].module

\* m_all lists what is allocated, each object once.
AllTracked ==
  /\ \A i \in 1 .. Len(all) : all[i] \in DOMAIN heap
  /\ \A a \in DOMAIN heap : \E i \in 1 .. Len(all) : all[i] = a
  /\ \A i, j \in 1 .. Len(all) : all[i] = all[j] => i = j

\* What a sweep leaves: outside of one, everything.
Survivors ==
  {a \in DOMAIN heap :
     phase = "sweeping" => heap[a].marked \/ \E i \in 1 .. Len(all) : i < at /\ all[i] = a}

\* What programs start from refers to these objects only.
RootsIn(objects) ==
  /\ registers \in [Register -> objects \cup {None}]
  /\ calls \in Seq([func : objects \cup {None}, module : objects \cup {None}, env : Nat])
  /\ slots \in Seq(objects \cup {None}) /\ slots # <<>>
  /\ cached \in [ModulePath -> objects \cup {None}]
  /\ interned \in objects \cup {None}

RootsSurvive == RootsIn(Survivors)

\* What an object holds is among these objects.
Within(o, objects) ==
  /\ o.refs \subseteq objects /\ o.order \subseteq objects
  /\ o.pairs \subseteq objects \X objects
  /\ o.klass \in objects \cup {None}

HasClass(o) == o.type = "instance" => o.klass # None /\ heap[o.klass].type = "class"

SurvivorsHold == \A a \in Survivors : Within(heap[a], Survivors) /\ HasClass(heap[a])

Traced ==
  phase = "tracing" =>
    /\ \A i \in 1 .. Len(grays) : grays[i] \in DOMAIN heap /\ heap[grays[i]].marked
    /\ \A a \in Roots \ {None} : heap[a].marked
    /\ \A a \in DOMAIN heap : heap[a].marked => a \in Kept

Swept ==
  phase = "sweeping" =>
    /\ grays = <<>> /\ at <= Len(all) + 1
    /\ \A i \in 1 .. Len(all) : i < at => ~heap[all[i]].marked
    /\ Survivors \subseteq Kept

IInv == /\ Typed /\ Fits /\ FramesFit /\ AllTracked
        /\ RootsSurvive /\ SurvivorsHold /\ Traced /\ Swept /\ Tricolour
-----------------------------------------------------------------------------
(* Objects and what they lead to.                                           *)

LEMMA FreeIsFree ==
  ASSUME Typed, Address # DOMAIN heap
  PROVE  Free \in Address /\ Free \notin DOMAIN heap
<1>1. Address \ DOMAIN heap \subseteq Nat /\ Address \ DOMAIN heap # {}
  <2>1. limit.objects \in Nat
    BY DEF Typed, Limit
  <2>2. Address \subseteq Nat
    BY <2>1 DEF Address
  <2>3. DOMAIN heap \subseteq Address
    BY DEF Typed
  <2> QED
    BY <2>2, <2>3
<1>2. \E a \in Address \ DOMAIN heap : \A b \in Address \ DOMAIN heap : a <= b
  BY <1>1, LeastNumber
<1> QED
  BY <1>2 DEF Free

\* What a set of objects holds, and what the environments hold, is all they lead to.
LEMMA LeadsWithin ==
  ASSUME NEW o, NEW objects, FitsType(o), Within(o, objects), slots \in Seq(objects \cup {None})
  PROVE  LeadsTo(o) \ {None} \subseteq objects
<1>1. o.env # 0 => slots[o.env] \in objects \cup {None}
  BY ElementOfSeq DEF FitsType, FitsIn
<1>2. \A p \in o.pairs : p[2] \in objects
  BY DEF Within
<1> QED
  BY <1>1, <1>2 DEF LeadsTo, Within

LEMMA ChildrenFacts ==
  ASSUME NEW o, o.type \in Type, FitsType(o)
  PROVE  /\ Children(o) \subseteq LeadsTo(o) \cup {None}
         /\ LeadsTo(o) \subseteq Children(o) \cup {None} \cup {slots[e] : e \in 1 .. Len(slots)}
<1>1. o.env # 0 => o.env \in 1 .. Len(slots)
  BY DEF FitsType, FitsIn
<1> QED
  BY <1>1 DEF Children, LeadsTo, FitsType, FitsIn, Type

LEMMA RootsOfRootsIn ==
  ASSUME NEW objects, RootsIn(objects)
  PROVE  Roots \ {None} \subseteq objects
<1>1. ASSUME NEW i \in DOMAIN calls PROVE calls[i].func \in objects \cup {None}
  <2> DEFINE Frame == [func : objects \cup {None}, module : objects \cup {None}, env : Nat]
  <2>1. calls \in Seq(Frame)
    BY DEF RootsIn
  <2> HIDE DEF Frame
  <2>2. calls[i] \in Frame
    BY <2>1, LenProperties, ElementOfSeq
  <2> QED
    BY <2>2 DEF Frame
<1>2. \A e \in DOMAIN slots : slots[e] \in objects \cup {None}
  BY LenProperties, ElementOfSeq DEF RootsIn
<1> QED
  BY <1>1, <1>2 DEF Roots, ValuesOf, RootsIn
-----------------------------------------------------------------------------
(* Between collections.                                                     *)

Resting ==
  /\ phase = "running" /\ grays = <<>>
  /\ RootsIn(DOMAIN heap)
  /\ \A a \in DOMAIN heap : /\ ~heap[a].marked
                            /\ Within(heap[a], DOMAIN heap) /\ HasClass(heap[a])

LEMMA RunningRests == IInv /\ phase = "running" => Resting
<1> SUFFICES ASSUME IInv, phase = "running" PROVE Resting
  OBVIOUS
<1>1. Survivors = DOMAIN heap
  BY DEF Survivors
<1> QED
  BY <1>1 DEF IInv, Resting, RootsSurvive, SurvivorsHold, Tricolour

LEMMA RestingInv ==
  Typed /\ Fits /\ FramesFit /\ AllTracked /\ Resting => IInv
<1> SUFFICES ASSUME Typed, Fits, FramesFit, AllTracked, Resting PROVE IInv
  OBVIOUS
<1>1. Survivors = DOMAIN heap /\ phase = "running"
  BY DEF Survivors, Resting
<1> QED
  BY <1>1 DEF IInv, Resting, RootsSurvive, SurvivorsHold, Tricolour, Traced, Swept

LEMMA NextRests ==
  Typed' /\ Fits' /\ FramesFit' /\ AllTracked' /\ Resting' => IInv'
  BY RestingInv, PTL

\* A program changes what it starts from, and no object.
LEMMA RootsChange ==
  ASSUME IInv, phase = "running", UNCHANGED <<collector, limit>>,
         RootsIn(DOMAIN heap)', FramesFit', Len(slots) <= Len(slots')
  PROVE  IInv'
<1>1. Resting /\ Typed /\ Fits /\ AllTracked
  BY RunningRests DEF IInv
<1>2. heap' = heap /\ all' = all /\ grays' = grays /\ phase' = phase /\ at' = at /\ limit' = limit
  BY DEF collector
<1>3. Typed'
  BY <1>1, <1>2 DEF Typed, ObjectType, Address
<1>4. Len(slots) \in Nat /\ Len(slots') \in Nat
  BY <1>1, LenProperties DEF Resting, RootsIn
<1>5. Fits'
  BY <1>1, <1>2, <1>4 DEF Fits, FitsType, FitsIn
<1>6. AllTracked'
  BY <1>1, <1>2 DEF AllTracked
<1>7. Resting'
  BY <1>1, <1>2 DEF Resting, HasClass, Within
<1> QED
  BY <1>3, <1>5, <1>6, <1>7, NextRests

\* A program makes an object.
LEMMA Makes ==
  ASSUME IInv, phase = "running", NEW object, Make(object), limit' = limit,
         object \in ObjectType, ~object.marked, FitsIn(object, Len(slots')),
         Within(object, DOMAIN heap), HasClass(object),
         RootsIn(DOMAIN heap)', FramesFit', Len(slots) <= Len(slots')
  PROVE  IInv'
<1>1. Resting /\ Typed /\ Fits /\ AllTracked
  BY RunningRests DEF IInv
<1>2. /\ Free \in Address /\ Free \notin DOMAIN heap
      /\ heap' = [a \in DOMAIN heap \cup {Free} |-> IF a = Free THEN object ELSE heap[a]]
      /\ all' = Append(all, Free)
      /\ UNCHANGED <<grays, phase, at>>
  BY <1>1, FreeIsFree DEF Make
<1>3. /\ DOMAIN heap' = DOMAIN heap \cup {Free}
      /\ heap'[Free] = object
      /\ \A a \in DOMAIN heap : heap'[a] = heap[a]
  BY <1>2
<1>4. Typed'
  <2>1. Address' = Address /\ ObjectType' = ObjectType
    BY DEF Address, ObjectType
  <2>2. heap' \in [DOMAIN heap' -> ObjectType]
    BY <1>1, <1>2, <1>3 DEF Typed
  <2>3. all' \in Seq(Address)
    BY <1>1, <1>2, AppendProperties DEF Typed
  <2> QED
    BY <1>1, <1>2, <1>3, <2>1, <2>2, <2>3 DEF Typed
<1>5. Len(slots) \in Nat /\ Len(slots') \in Nat
  BY <1>1, LenProperties DEF Resting, RootsIn
<1>6. Fits'
  <2>1. ASSUME NEW a \in DOMAIN heap PROVE FitsIn(heap[a], Len(slots'))
    BY <1>1, <1>5 DEF Fits, FitsType, FitsIn
  <2> QED
    BY <1>3, <2>1 DEF Fits, FitsType
<1>7. AllTracked'
  <2>1. /\ Len(all') = Len(all) + 1 /\ Len(all) \in Nat
        /\ \A i \in 1 .. Len(all) : all'[i] = all[i]
        /\ all'[Len(all) + 1] = Free
    BY <1>1, <1>2, AppendProperties, LenProperties DEF Typed
  <2>2. \A i \in 1 .. Len(all') : i \in 1 .. Len(all) \/ i = Len(all) + 1
    BY <2>1
  <2>3. \A i \in 1 .. Len(all) : i \in 1 .. Len(all') /\ i # Len(all) + 1
    BY <2>1
  <2>4. Len(all) + 1 \in 1 .. Len(all')
    BY <2>1
  <2> QED
    BY <1>1, <1>2, <1>3, <2>1, <2>2, <2>3, <2>4 DEF AllTracked
<1>8. Resting'
  <2>1. ASSUME NEW a \in DOMAIN heap'
        PROVE  /\ ~heap'[a].marked /\ Within(heap'[a], DOMAIN heap)
               /\ heap'[a].type = "instance"
                  => heap'[a].klass # None /\ heap[heap'[a].klass].type = "class"
    BY <1>1, <1>3 DEF Resting, HasClass
  <2>2. ASSUME NEW a \in DOMAIN heap' PROVE Within(heap'[a], DOMAIN heap')
    BY <1>3, <2>1 DEF Within
  <2>3. ASSUME NEW a \in DOMAIN heap', heap'[a].type = "instance"
        PROVE  heap'[a].klass # None /\ heap'[heap'[a].klass].type = "class"
    BY <1>3, <2>1, <2>3 DEF Within
  <2> QED
    BY <1>1, <1>2, <2>1, <2>2, <2>3 DEF Resting, HasClass, Within
<1> QED
  BY <1>4, <1>6, <1>7, <1>8, NextRests

\* A program changes an object.
LEMMA Changes ==
  ASSUME IInv, phase = "running", NEW a \in DOMAIN heap, NEW object, Change(a, object),
         limit' = limit, slots' = slots,
         object \in ObjectType, ~object.marked, FitsIn(object, Len(slots)),
         Within(object, DOMAIN heap), HasClass(object), object.type = heap[a].type,
         RootsIn(DOMAIN heap)', FramesFit'
  PROVE  IInv'
<1>1. Resting /\ Typed /\ Fits /\ AllTracked
  BY RunningRests DEF IInv
<1>2. heap' = [heap EXCEPT ![a] = object] /\ UNCHANGED <<all, grays, phase, at>>
  BY DEF Change
<1>3. /\ DOMAIN heap' = DOMAIN heap
      /\ heap'[a] = object
      /\ \A b \in DOMAIN heap : b # a => heap'[b] = heap[b]
      /\ \A b \in DOMAIN heap : heap'[b].type = heap[b].type
  BY <1>2
<1>4. Typed'
  <2>1. Address' = Address /\ ObjectType' = ObjectType
    BY DEF Address, ObjectType
  <2>2. heap' \in [DOMAIN heap' -> ObjectType]
    BY <1>1, <1>2, <1>3 DEF Typed
  <2> QED
    BY <1>1, <1>2, <1>3, <2>1, <2>2 DEF Typed
<1>5. Fits'
  BY <1>1, <1>3 DEF Fits, FitsType
<1>6. AllTracked'
  BY <1>1, <1>2, <1>3 DEF AllTracked
<1>7. Resting'
  <2>1. ASSUME NEW b \in DOMAIN heap'
        PROVE  /\ ~heap'[b].marked /\ Within(heap'[b], DOMAIN heap)
               /\ heap'[b].type = "instance"
                  => heap'[b].klass # None /\ heap[heap'[b].klass].type = "class"
    BY <1>1, <1>3 DEF Resting, HasClass
  <2>2. ASSUME NEW b \in DOMAIN heap', heap'[b].type = "instance"
        PROVE  heap'[b].klass # None /\ heap'[heap'[b].klass].type = "class"
    BY <1>3, <2>1, <2>2 DEF Within
  <2> QED
    BY <1>1, <1>2, <1>3, <2>1, <2>2 DEF Resting, HasClass, Within
<1> QED
  BY <1>4, <1>5, <1>6, <1>7, NextRests
-----------------------------------------------------------------------------
(* The steps of programs.                                                   *)

Frames(objects) == [func : objects \cup {None}, module : objects \cup {None}, env : Nat]

LEMMA ExecutingFacts ==
  ASSUME IInv, Executing
  PROVE  /\ phase = "running" /\ Resting
         /\ calls \in Seq(Frames(DOMAIN heap)) /\ calls # <<>>
         /\ Len(slots) \in Nat /\ slots \in Seq(DOMAIN heap \cup {None})
         /\ Environment \in 1 .. Len(slots) /\ Environment \in Nat \ {0}
         /\ registers \in [Register -> DOMAIN heap \cup {None}]
         /\ \A a \in DOMAIN heap :
              heap[a] \in ObjectType /\ FitsIn(heap[a], Len(slots)) /\ ~heap[a].marked
<1>1. phase = "running" /\ calls # <<>>
  BY DEF Executing
<1>2. Resting /\ RootsIn(DOMAIN heap)
  BY <1>1, RunningRests DEF Resting
<1>3. calls \in Seq(Frames(DOMAIN heap)) /\ slots \in Seq(DOMAIN heap \cup {None})
      /\ registers \in [Register -> DOMAIN heap \cup {None}]
  BY <1>2 DEF RootsIn, Frames
<1>4. Len(slots) \in Nat
  BY <1>3, LenProperties
<1>5. Len(calls) \in Nat \ {0} /\ Last(calls) = calls[Len(calls)]
  BY <1>1, <1>3, FrontFacts
<1>6. Environment \in 1 .. Len(slots)
  BY <1>5 DEF IInv, FramesFit, Environment
<1>7. ASSUME NEW a \in DOMAIN heap
      PROVE  heap[a] \in ObjectType /\ FitsIn(heap[a], Len(slots)) /\ ~heap[a].marked
  BY <1>2 DEF IInv, Typed, Fits, FitsType, Resting
<1> QED
  BY <1>1, <1>2, <1>3, <1>4, <1>6, <1>7

\* Nothing of the frames and environments changes.
LEMMA FramesStay ==
  ASSUME FramesFit, UNCHANGED <<calls, slots>>,
         \A m : (\E p \in ModulePath : cached[p] = m) => \E p \in ModulePath : cached'[p] = m
  PROVE  FramesFit'
  BY DEF FramesFit

\* One more object and a register that holds it, or one that holds another object.
LEMMA RootsHold ==
  ASSUME NEW objects, NEW more, RootsIn(objects), objects \subseteq more,
         NEW r \in Register, NEW a \in more \cup {None},
         registers' = [registers EXCEPT ![r] = a], UNCHANGED <<calls, slots, cached, interned, limit>>
  PROVE  /\ registers' \in [Register' -> more \cup {None}]
         /\ calls' \in Seq(Frames(more))
         /\ slots' \in Seq(more \cup {None}) /\ slots' # <<>>
         /\ cached' \in [ModulePath -> more \cup {None}]
         /\ interned' \in more \cup {None}
<1>1. Register' = Register
  BY DEF Register
<1>2. registers \in [Register -> more \cup {None}] /\ cached \in [ModulePath -> more \cup {None}]
      /\ interned \in more \cup {None}
  BY DEF RootsIn
<1>3. calls \in Seq(Frames(more))
  <2>1. Frames(objects) \subseteq Frames(more) /\ calls \in Seq(Frames(objects))
    BY DEF Frames, RootsIn
  <2> HIDE DEF Frames
  <2> QED
    BY <2>1, SeqMonotonic
<1>4. slots \in Seq(more \cup {None}) /\ slots # <<>>
  BY SeqMonotonic, objects \cup {None} \subseteq more \cup {None} DEF RootsIn
<1> QED
  BY <1>1, <1>2, <1>3, <1>4

\* A new object, with its environment and its class or parent.
IsFresh(o, type, env, klass) ==
  /\ o \in ObjectType
  /\ o.type = type /\ ~o.marked /\ o.refs = {} /\ o.klass = klass /\ o.pairs = {}
  /\ o.order = {} /\ o.env = env

LEMMA FreshObjects ==
  ASSUME NEW type \in Type, NEW env \in Nat, NEW klass \in Address \cup {None}
  PROVE  /\ IsFresh(Object(type), type, 0, None)
         /\ IsFresh([Object(type) EXCEPT !.env = env], type, env, None)
         /\ IsFresh([Object(type) EXCEPT !.klass = klass], type, 0, klass)
         /\ IsFresh([Object(type) EXCEPT !.env = env, !.klass = klass], type, env, klass)
<1> DEFINE o == Object(type)
<1>1. IsFresh(o, type, 0, None)
  BY DEF Object, ObjectType, IsFresh
<1> HIDE DEF o
<1>2. /\ o \in ObjectType /\ o.type = type /\ o.marked = FALSE /\ o.refs = {}
      /\ o.klass = None /\ o.pairs = {} /\ o.order = {} /\ o.env = 0
  BY <1>1 DEF IsFresh, ObjectType
<1>3. IsFresh([o EXCEPT !.env = env], type, env, None)
  BY <1>2 DEF ObjectType, IsFresh
<1>4. IsFresh([o EXCEPT !.klass = klass], type, 0, klass)
  BY <1>2 DEF ObjectType, IsFresh
<1>5. IsFresh([o EXCEPT !.env = env, !.klass = klass], type, env, klass)
  BY <1>2 DEF ObjectType, IsFresh
<1> QED
  BY <1>1, <1>3, <1>4, <1>5 DEF o

LEMMA FreshFits ==
  ASSUME Typed, NEW o, NEW type \in Type, NEW env \in Nat, NEW klass \in DOMAIN heap \cup {None},
         NEW environments \in Nat, IsFresh(o, type, env, klass), env <= environments,
         env # 0 <=> type \in {"function", "class", "module"},
         klass # None => type \in {"class", "instance"},
         type = "instance" => klass # None /\ heap[klass].type = "class"
  PROVE  /\ FitsIn(o, environments) /\ Within(o, DOMAIN heap) /\ HasClass(o)
         /\ o \in ObjectType /\ ~o.marked
<1>1. {p[1] : p \in o.pairs} = {}
  BY DEF IsFresh
<1>2. FitsIn(o, environments)
  BY <1>1 DEF FitsIn, IsFresh
<1>3. Within(o, DOMAIN heap)
  BY DEF Within, IsFresh
<1>4. HasClass(o)
  BY DEF HasClass, IsFresh
<1> QED
  BY <1>2, <1>3, <1>4 DEF IsFresh

LEMMA NewStep ==
  ASSUME IInv, NEW r \in Register, NEW s \in Register, New(r, s)
  PROVE  IInv'
<1>1. Executing /\ Hold(r, Free) /\ UNCHANGED <<calls, slots, cached, interned, limit>>
  BY DEF New
<1>2. Resting /\ phase = "running" /\ Environment \in 1 .. Len(slots) /\ Environment \in Nat \ {0}
      /\ Len(slots) \in Nat /\ Len(slots') = Len(slots)
      /\ registers \in [Register -> DOMAIN heap \cup {None}] /\ Typed
  BY <1>1, ExecutingFacts DEF IInv
<1>3. ASSUME NEW o, NEW type \in Type, NEW env \in Nat, NEW klass \in DOMAIN heap \cup {None},
             Make(o), IsFresh(o, type, env, klass), env <= Len(slots),
             env # 0 <=> type \in {"function", "class", "module"},
             klass # None => type \in {"class", "instance"},
             type = "instance" => klass # None /\ heap[klass].type = "class"
      PROVE  IInv'
  <2>1. /\ FitsIn(o, Len(slots)) /\ Within(o, DOMAIN heap) /\ HasClass(o)
        /\ o \in ObjectType /\ ~o.marked
    BY <1>2, <1>3, FreshFits
  <2>2. DOMAIN heap' = DOMAIN heap \cup {Free}
    BY <1>3 DEF Make
  <2>3. registers' = [registers EXCEPT ![r] = Free]
    BY <1>1 DEF Hold
  <2>4. RootsIn(DOMAIN heap)'
    BY <1>1, <1>2, <2>2, <2>3, RootsHold DEF RootsIn, Frames, Resting
  <2>5. FramesFit'
    BY <1>1, FramesStay DEF IInv
  <2> QED
    BY <1>1, <1>2, <1>3, <2>1, <2>4, <2>5, Makes
<1>4. ASSUME NEW type \in {"string", "list", "dict"}, Make(Object(type)) PROVE IInv'
  <2>1. type \in Type
    BY DEF Type
  <2>2. IsFresh(Object(type), type, 0, None)
    BY <2>1, FreshObjects
  <2> QED
    BY <1>2, <1>3, <1>4, <2>1, <2>2
<1>5. ASSUME NEW type \in {"function", "class"},
             Make([Object(type) EXCEPT !.env = Environment])
      PROVE  IInv'
  <2>1. type \in Type
    BY DEF Type
  <2>2. IsFresh([Object(type) EXCEPT !.env = Environment], type, Environment, None)
    BY <1>2, <2>1, FreshObjects
  <2> QED
    BY <1>2, <1>3, <1>5, <2>1, <2>2
<1>6. ASSUME Is(s, "class"),
             Make([Object("class") EXCEPT !.env = Environment, !.klass = registers[s]])
      PROVE  IInv'
  <2>1. registers[s] \in DOMAIN heap /\ registers[s] \in Address /\ "class" \in Type
    BY <1>2, <1>6 DEF Is, Type, Typed
  <2>2. IsFresh([Object("class") EXCEPT !.env = Environment, !.klass = registers[s]],
                "class", Environment, registers[s])
    BY <1>2, <2>1, FreshObjects
  <2> QED
    BY <1>2, <1>3, <1>6, <2>1, <2>2
<1>7. ASSUME Is(s, "class"), Make([Object("instance") EXCEPT !.klass = registers[s]])
      PROVE  IInv'
  <2>1. registers[s] \in DOMAIN heap /\ registers[s] \in Address /\ registers[s] # None
        /\ heap[registers[s]].type = "class" /\ "instance" \in Type
    BY <1>2, <1>7 DEF Is, Type, Typed
  <2>2. IsFresh([Object("instance") EXCEPT !.klass = registers[s]], "instance", 0, registers[s])
    BY <2>1, FreshObjects
  <2> QED
    BY <1>2, <1>3, <1>7, <2>1, <2>2
<1> QED
  BY <1>4, <1>5, <1>6, <1>7 DEF New

LEMMA RootsGrow ==
  ASSUME NEW objects, NEW more, RootsIn(objects), objects \subseteq more
  PROVE  /\ registers \in [Register -> more \cup {None}]
         /\ calls \in Seq(Frames(more))
         /\ slots \in Seq(more \cup {None}) /\ slots # <<>>
         /\ cached \in [ModulePath -> more \cup {None}]
         /\ interned \in more \cup {None}
<1>1. calls \in Seq(Frames(more))
  <2>1. Frames(objects) \subseteq Frames(more) /\ calls \in Seq(Frames(objects))
    BY DEF Frames, RootsIn
  <2> HIDE DEF Frames
  <2> QED
    BY <2>1, SeqMonotonic
<1>2. slots \in Seq(more \cup {None})
  BY SeqMonotonic, objects \cup {None} \subseteq more \cup {None} DEF RootsIn
<1> QED
  BY <1>1, <1>2 DEF RootsIn

LEMMA ConstantStep ==
  ASSUME IInv, NEW r \in Register, Constant(r)
  PROVE  IInv'
<1>1. Executing /\ UNCHANGED <<calls, slots, cached, limit>>
  BY DEF Constant
<1>2. Resting /\ phase = "running" /\ Len(slots) \in Nat /\ Len(slots') = Len(slots)
      /\ RootsIn(DOMAIN heap) /\ Register' = Register
  BY <1>1, ExecutingFacts DEF Resting, Register
<1>3. FramesFit'
  BY <1>1, FramesStay DEF IInv
<1>4. CASE interned # None /\ Hold(r, interned) /\ UNCHANGED <<collector, interned>>
  <2>1. RootsIn(DOMAIN heap)'
    BY <1>1, <1>2, <1>4, RootsHold DEF RootsIn, Frames, Hold, collector
  <2> QED
    BY <1>1, <1>2, <1>3, <1>4, <2>1, RootsChange
<1>5. CASE interned = None /\ Make(Object("string")) /\ Hold(r, Free) /\ interned' = Free
  <2>1. DOMAIN heap' = DOMAIN heap \cup {Free}
    BY <1>5 DEF Make
  <2>2. /\ registers \in [Register -> DOMAIN heap' \cup {None}]
        /\ calls \in Seq(Frames(DOMAIN heap'))
        /\ slots \in Seq(DOMAIN heap' \cup {None}) /\ slots # <<>>
        /\ cached \in [ModulePath -> DOMAIN heap' \cup {None}]
    BY <1>2, <2>1, RootsGrow
  <2>3. RootsIn(DOMAIN heap)'
    BY <1>1, <1>2, <1>5, <2>1, <2>2 DEF RootsIn, Frames, Hold
  <2>4. "string" \in Type /\ Typed
    BY DEF Type, IInv
  <2>5. IsFresh(Object("string"), "string", 0, None)
    BY <2>4, FreshObjects
  <2>6. LET o == Object("string") IN
        /\ FitsIn(o, Len(slots)) /\ Within(o, DOMAIN heap) /\ HasClass(o)
        /\ o \in ObjectType /\ ~o.marked
    BY <1>2, <2>4, <2>5, FreshFits
  <2> QED
    BY <1>1, <1>2, <1>3, <1>5, <2>3, <2>6, Makes
<1> QED
  BY <1>4, <1>5 DEF Constant

\* A change to one object between instructions that leaves everything else alone.
LEMMA WriteKeeps ==
  ASSUME IInv, Executing, NEW a \in DOMAIN heap, NEW o, Change(a, o), UNCHANGED <<roots, limit>>,
         o \in ObjectType, o.type = heap[a].type, ~o.marked, o.klass = heap[a].klass,
         o.env = heap[a].env,
         o.refs \subseteq DOMAIN heap, o.type \notin {"list", "instance"} => o.refs = {},
         o.pairs \subseteq (DOMAIN heap) \X (DOMAIN heap), o.type # "dict" => o.pairs = {},
         o.order = {p[1] : p \in o.pairs}
  PROVE  IInv'
<1>1. Resting /\ phase = "running" /\ FitsIn(heap[a], Len(slots)) /\ RootsIn(DOMAIN heap)
      /\ Within(heap[a], DOMAIN heap) /\ HasClass(heap[a])
  BY ExecutingFacts DEF Resting
<1>2. DOMAIN heap' = DOMAIN heap /\ Register' = Register
  BY DEF Change, Register
<1>3. RootsIn(DOMAIN heap)'
  BY <1>1, <1>2 DEF RootsIn, roots
<1>4. FramesFit'
  BY FramesStay DEF IInv, roots
<1>5. FitsIn(o, Len(slots))
  BY <1>1 DEF FitsIn
<1>6. Within(o, DOMAIN heap)
  <2>1. \A p \in o.pairs : p[1] \in DOMAIN heap
    OBVIOUS
  <2> QED
    BY <1>1, <2>1 DEF Within
<1>7. HasClass(o)
  BY <1>1 DEF HasClass
<1> QED
  BY <1>1, <1>3, <1>4, <1>5, <1>6, <1>7, Changes DEF roots

LEMMA WriteStep ==
  ASSUME IInv, NEW r \in Register, NEW s \in Register, NEW v \in Register, Write(r, s, v)
  PROVE  IInv'
<1> DEFINE a   == registers[r]
           old == heap[a]
           k   == registers[s]
           w   == registers[v]
<1>1. Executing /\ k # None /\ w # None /\ UNCHANGED <<roots, limit>>
  BY DEF Write
<1>2. Resting /\ k \in DOMAIN heap /\ w \in DOMAIN heap /\ DOMAIN heap \subseteq Address
  BY <1>1, ExecutingFacts DEF IInv, Typed
<1>3. ASSUME a # None
      PROVE  /\ a \in DOMAIN heap /\ old \in ObjectType /\ ~old.marked
             /\ FitsIn(old, Len(slots)) /\ Within(old, DOMAIN heap)
  BY <1>1, <1>3, ExecutingFacts DEF Resting
<1>4. ASSUME NEW X \in SUBSET (DOMAIN heap), a # None, old.type \in {"list", "instance"},
             Change(a, [old EXCEPT !.refs = X])
      PROVE  IInv'
  <2> DEFINE o == [old EXCEPT !.refs = X]
  <2>1. /\ o \in ObjectType /\ o.type = old.type /\ o.marked = old.marked /\ o.klass = old.klass
        /\ o.env = old.env /\ o.refs = X /\ o.pairs = old.pairs /\ o.order = old.order
    BY <1>2, <1>3, <1>4 DEF ObjectType
  <2> HIDE DEF o
  <2>2. o.pairs \subseteq (DOMAIN heap) \X (DOMAIN heap) /\ o.pairs = {} /\ o.order = {p[1] : p \in o.pairs}
    BY <1>3, <1>4, <2>1 DEF FitsIn, Within
  <2>3. Change(a, o)
    BY <1>4 DEF o
  <2> QED
    BY <1>1, <1>3, <1>4, <2>1, <2>2, <2>3, WriteKeeps
<1>5. ASSUME NEW o, a # None, old.type = "dict", Change(a, o),
             NEW P \in SUBSET ((DOMAIN heap) \X (DOMAIN heap)),
             \/ o = [old EXCEPT !.pairs = P] /\ old.order = {p[1] : p \in P}
             \/ o = [old EXCEPT !.pairs = P, !.order = {p[1] : p \in P}]
      PROVE  IInv'
  <2> DEFINE keys == {p[1] : p \in P}
  <2>1. keys \subseteq Address /\ P \subseteq Address \X Address
    BY <1>2
  <2> HIDE DEF keys
  <2>2. /\ o \in ObjectType /\ o.type = old.type /\ o.marked = old.marked /\ o.klass = old.klass
        /\ o.env = old.env /\ o.refs = old.refs /\ o.pairs = P /\ o.order = keys
    <3>1. CASE o = [old EXCEPT !.pairs = P] /\ old.order = keys
      BY <1>3, <1>5, <2>1, <3>1 DEF ObjectType
    <3>2. CASE o = [old EXCEPT !.pairs = P, !.order = keys]
      BY <1>3, <1>5, <2>1, <3>2 DEF ObjectType
    <3> QED
      BY <1>5, <3>1, <3>2 DEF keys
  <2>3. o.refs \subseteq DOMAIN heap /\ o.refs = {}
    BY <1>3, <1>5, <2>2 DEF Within, FitsIn
  <2>4. o.order = {p[1] : p \in o.pairs}
    BY <2>2 DEF keys
  <2> QED
    BY <1>1, <1>3, <1>5, <2>2, <2>3, <2>4, WriteKeeps
<1>6. CASE Is(r, "list") /\ Change(a, [Its(r) EXCEPT !.refs = @ \cup {registers[s]}])
  <2>1. old.refs \cup {k} \subseteq DOMAIN heap /\ a # None /\ old.type = "list"
    BY <1>2, <1>3, <1>6 DEF Is, Within
  <2>2. Change(a, [old EXCEPT !.refs = old.refs \cup {k}])
    BY <1>6 DEF Its
  <2> QED
    BY <1>4, <2>1, <2>2
<1>7. CASE Is(r, "list") /\ Change(a, [Its(r) EXCEPT !.refs = @ \ {registers[s]}])
  <2>1. old.refs \ {k} \subseteq DOMAIN heap /\ a # None /\ old.type = "list"
    BY <1>2, <1>3, <1>7 DEF Is, Within
  <2>2. Change(a, [old EXCEPT !.refs = old.refs \ {k}])
    BY <1>7 DEF Its
  <2> QED
    BY <1>4, <2>1, <2>2
<1>8. CASE Is(r, "instance") /\ Change(a, [Its(r) EXCEPT !.refs = {registers[s]}])
  <2>1. {k} \subseteq DOMAIN heap /\ a # None /\ old.type = "instance"
    BY <1>2, <1>3, <1>8 DEF Is
  <2>2. Change(a, [old EXCEPT !.refs = {k}])
    BY <1>8 DEF Its
  <2> QED
    BY <1>4, <2>1, <2>2
<1>9. CASE Is(r, "dict") /\ Change(a, Put(Its(r), registers[s], registers[v]))
  <2>1. a # None /\ old.type = "dict"
    BY <1>9 DEF Is
  <2>2. Change(a, Put(old, k, w))
    BY <1>9 DEF Its
  <2>3. /\ old.pairs \subseteq (DOMAIN heap) \X (DOMAIN heap) /\ old.order = {p[1] : p \in old.pairs}
    BY <1>3, <2>1 DEF FitsIn, Within
  <2>4. CASE \E key \in old.order : Equal(key, k)
    <3> DEFINE P == {IF Equal(p[1], k) THEN <<p[1], w>> ELSE p : p \in old.pairs}
    <3>1. Put(old, k, w) = [old EXCEPT !.pairs = P]
      BY <2>4 DEF Put
    <3>2. P \in SUBSET ((DOMAIN heap) \X (DOMAIN heap))
      BY <1>2, <2>3
    <3>3. old.order = {p[1] : p \in P}
      <4>1. ASSUME NEW key \in old.order PROVE \E q \in P : q[1] = key
        <5>1. PICK p \in old.pairs : p[1] = key
          BY <2>3
        <5>2. (IF Equal(p[1], k) THEN <<p[1], w>> ELSE p) \in P
          BY <5>1
        <5> QED
          BY <5>1, <5>2
      <4>2. ASSUME NEW q \in P PROVE q[1] \in old.order
        <5>1. PICK p \in old.pairs : q = IF Equal(p[1], k) THEN <<p[1], w>> ELSE p
          OBVIOUS
        <5>2. q[1] = p[1]
          BY <5>1
        <5> QED
          BY <2>3, <5>1, <5>2
      <4> HIDE DEF P
      <4> QED
        BY <4>1, <4>2
    <3> HIDE DEF P
    <3> QED
      BY <1>5, <2>1, <2>2, <3>1, <3>2, <3>3
  <2>5. CASE ~(\E key \in old.order : Equal(key, k))
    <3> DEFINE P == old.pairs \cup {<<k, w>>}
    <3>1. old.order \cup {k} = {p[1] : p \in P}
      <4>1. \A p \in P : p[1] \in old.order \cup {k}
        BY <2>3
      <4>2. <<k, w>> \in P /\ <<k, w>>[1] = k /\ \A p \in old.pairs : p \in P
        OBVIOUS
      <4> HIDE DEF P
      <4> QED
        BY <2>3, <4>1, <4>2
    <3>2. Put(old, k, w) = [old EXCEPT !.pairs = P, !.order = {p[1] : p \in P}]
      <4>1. Put(old, k, w) = [old EXCEPT !.pairs = P, !.order = old.order \cup {k}]
        BY <2>5 DEF Put
      <4> QED
        BY <3>1, <4>1
    <3>3. P \in SUBSET ((DOMAIN heap) \X (DOMAIN heap))
      BY <1>2, <2>3
    <3> HIDE DEF P
    <3> QED
      BY <1>5, <2>1, <2>2, <3>2, <3>3
  <2> QED
    BY <2>4, <2>5
<1>10. CASE Is(r, "dict") /\ Change(a, Erased(Its(r), registers[s]))
  <2>1. a # None /\ old.type = "dict"
    BY <1>10 DEF Is
  <2>2. Change(a, Erased(old, k))
    BY <1>10 DEF Its
  <2>3. old.pairs \subseteq (DOMAIN heap) \X (DOMAIN heap) /\ old.order = {p[1] : p \in old.pairs}
    BY <1>3, <2>1 DEF FitsIn, Within
  <2> DEFINE P == {p \in old.pairs : ~Equal(p[1], k)}
  <2>4. {key \in old.order : ~Equal(key, k)} = {p[1] : p \in P}
    BY <2>3
  <2>5. Erased(old, k) = [old EXCEPT !.pairs = P, !.order = {p[1] : p \in P}]
    <3>1. Erased(old, k) = [old EXCEPT !.pairs = P, !.order = {key \in old.order : ~Equal(key, k)}]
      BY DEF Erased
    <3> QED
      BY <2>4, <3>1
  <2>6. P \in SUBSET ((DOMAIN heap) \X (DOMAIN heap))
    BY <2>3
  <2> HIDE DEF P
  <2> QED
    BY <1>5, <2>1, <2>2, <2>5, <2>6
<1> QED
  BY <1>6, <1>7, <1>8, <1>9, <1>10 DEF Write

LEMMA StoreGlobalStep ==
  ASSUME IInv, NEW s \in Register, StoreGlobal(s)
  PROVE  IInv'
<1>1. Executing /\ slots' = [slots EXCEPT ![Environment] = registers[s]]
      /\ UNCHANGED <<collector, registers, calls, cached, interned, limit>>
  BY DEF StoreGlobal
<1>2. /\ RootsIn(DOMAIN heap) /\ phase = "running" /\ Register' = Register
      /\ slots \in Seq(DOMAIN heap \cup {None}) /\ slots # <<>>
      /\ Environment \in 1 .. Len(slots) /\ registers[s] \in DOMAIN heap \cup {None}
      /\ Len(slots) \in Nat
  BY <1>1, ExecutingFacts DEF Resting, Register
<1>3. slots' \in Seq(DOMAIN heap \cup {None}) /\ Len(slots') = Len(slots)
  <2> DEFINE S == DOMAIN heap \cup {None}
  <2> HIDE DEF S
  <2>1. slots \in Seq(S) /\ registers[s] \in S
    BY <1>2 DEF S
  <2>2. slots' \in Seq(S) /\ Len(slots') = Len(slots)
    BY <1>1, <1>2, <2>1, ExceptSeq
  <2> QED
    BY <2>2 DEF S
<1>4. slots' # <<>>
  BY <1>2, <1>3, EmptySeq
<1>5. RootsIn(DOMAIN heap)'
  BY <1>1, <1>2, <1>3, <1>4 DEF RootsIn, collector
<1>6. FramesFit'
  BY <1>1, <1>3 DEF IInv, FramesFit
<1> QED
  BY <1>1, <1>2, <1>3, <1>5, <1>6, RootsChange

LEMMA ReadStep ==
  ASSUME IInv, NEW r \in Register, Read(r)
  PROVE  IInv'
<1>1. Executing /\ UNCHANGED <<collector, calls, slots, cached, interned, limit>>
  BY DEF Read
<1>2. /\ RootsIn(DOMAIN heap) /\ Resting /\ phase = "running" /\ Register' = Register
      /\ slots \in Seq(DOMAIN heap \cup {None}) /\ Len(slots) \in Nat
      /\ Environment \in 1 .. Len(slots) /\ registers \in [Register -> DOMAIN heap \cup {None}]
  BY <1>1, ExecutingFacts DEF Resting, Register
<1>3. PICK a : Hold(r, a) /\ \/ \E s \in Register : registers[s] # None /\ a \in Readable(Its(s))
                             \/ a = slots[Environment] \/ a = None
  BY DEF Read
<1>4. ASSUME NEW s \in Register, registers[s] # None
      PROVE  Readable(Its(s)) \subseteq DOMAIN heap \cup {None}
  <2> DEFINE o == heap[registers[s]]
  <2>1. registers[s] \in DOMAIN heap
    BY <1>2, <1>4
  <2>2. FitsIn(o, Len(slots)) /\ Within(o, DOMAIN heap)
    BY <1>1, <1>2, <2>1, ExecutingFacts DEF Resting
  <2> HIDE DEF o
  <2>3. o.type = "module" => slots[o.env] \in DOMAIN heap \cup {None}
    <3>1. o.type = "module" => o.env \in 1 .. Len(slots)
      BY <1>2, <2>2 DEF FitsIn
    <3> QED
      BY <1>2, <3>1, ElementOfSeq
  <2>4. \A p \in o.pairs : p[2] \in DOMAIN heap
    BY <2>2 DEF Within
  <2>5. Readable(o) \subseteq DOMAIN heap \cup {None}
    BY <2>2, <2>3, <2>4 DEF Readable, Within
  <2> QED
    BY <2>5 DEF o, Its
<1>5. a \in DOMAIN heap \cup {None}
  BY <1>2, <1>3, <1>4, ElementOfSeq
<1>6. registers' = [registers EXCEPT ![r] = a]
  BY <1>3 DEF Hold
<1>7. RootsIn(DOMAIN heap)'
  BY <1>1, <1>2, <1>5, <1>6, RootsHold DEF RootsIn, Frames, collector
<1>8. FramesFit'
  BY <1>1, FramesStay DEF IInv
<1> QED
  BY <1>1, <1>2, <1>7, <1>8, RootsChange

\* One more frame.
LEMMA FramePushed ==
  ASSUME NEW D, NEW f \in Frames(D), calls \in Seq(Frames(D)), calls' = Append(calls, f)
  PROVE  /\ calls' \in Seq(Frames(D)) /\ Len(calls) \in Nat /\ Len(calls') = Len(calls) + 1
         /\ \A i \in 1 .. Len(calls') : (i \in 1 .. Len(calls) /\ calls'[i] = calls[i]) \/ calls'[i] = f
<1> DEFINE F == Frames(D)
<1> HIDE DEF F
<1>1. calls \in Seq(F) /\ f \in F
  BY DEF F
<1>2. /\ calls' \in Seq(F) /\ Len(calls') = Len(calls) + 1 /\ Len(calls) \in Nat
      /\ \A i \in 1 .. Len(calls) : calls'[i] = calls[i]
      /\ calls'[Len(calls) + 1] = f
  BY <1>1, AppendFacts
<1>3. \A i \in 1 .. Len(calls') : i \in 1 .. Len(calls) \/ i = Len(calls) + 1
  BY <1>2
<1> QED
  BY <1>2, <1>3 DEF F

LEMMA CallStep ==
  ASSUME IInv, NEW r \in Register, Call(r)
  PROVE  IInv'
<1>1. Executing /\ UNCHANGED <<collector, registers, slots, cached, interned, limit>>
  BY DEF Call
<1>2. /\ RootsIn(DOMAIN heap) /\ Resting /\ phase = "running" /\ Register' = Register
      /\ calls \in Seq(Frames(DOMAIN heap)) /\ Len(slots) \in Nat
      /\ registers \in [Register -> DOMAIN heap \cup {None}]
  BY <1>1, ExecutingFacts DEF Resting, Register
<1>3. \E f \in Frames(DOMAIN heap) : /\ calls' = Append(calls, f)
                                     /\ f.env \in 1 .. Len(slots) /\ f.module = None
  <2>1. CASE /\ Is(r, "function")
             /\ calls' = Append(calls, [func |-> registers[r], module |-> None, env |-> Its(r).env])
    <3>1. registers[r] \in DOMAIN heap /\ heap[registers[r]].type = "function"
      BY <1>2, <2>1 DEF Is
    <3>2. Its(r).env \in 1 .. Len(slots)
      BY <1>1, <1>2, <3>1, ExecutingFacts DEF FitsIn, Its
    <3> DEFINE f == [func |-> registers[r], module |-> None, env |-> Its(r).env]
    <3>3. f \in Frames(DOMAIN heap) /\ f.env = Its(r).env /\ f.module = None
      BY <1>2, <3>1, <3>2 DEF Frames
    <3> QED
      BY <2>1, <3>2, <3>3
  <2>2. CASE /\ Is(r, "instance")
             /\ calls' = Append(calls, [func |-> None, module |-> None,
                                        env |-> heap[Its(r).klass].env])
    <3>1. registers[r] \in DOMAIN heap /\ Its(r).type = "instance"
      BY <1>2, <2>2 DEF Is, Its
    <3>2. HasClass(Its(r)) /\ Within(Its(r), DOMAIN heap)
      BY <1>2, <3>1 DEF Resting, Its
    <3>3. Its(r).klass \in DOMAIN heap /\ heap[Its(r).klass].type = "class"
      BY <3>1, <3>2 DEF HasClass, Within
    <3>4. heap[Its(r).klass].env \in 1 .. Len(slots)
      BY <1>1, <1>2, <3>3, ExecutingFacts DEF FitsIn
    <3> DEFINE f == [func |-> None, module |-> None, env |-> heap[Its(r).klass].env]
    <3>5. f \in Frames(DOMAIN heap) /\ f.env = heap[Its(r).klass].env /\ f.module = None
      BY <1>2, <3>4 DEF Frames
    <3> QED
      BY <2>2, <3>4, <3>5
  <2> QED
    BY <2>1, <2>2 DEF Call
<1>4. PICK f \in Frames(DOMAIN heap) : /\ calls' = Append(calls, f)
                                       /\ f.env \in 1 .. Len(slots) /\ f.module = None
  BY <1>3
<1>5. /\ calls' \in Seq(Frames(DOMAIN heap))
      /\ \A i \in 1 .. Len(calls') : (i \in 1 .. Len(calls) /\ calls'[i] = calls[i]) \/ calls'[i] = f
  BY <1>2, <1>4, FramePushed
<1>6. RootsIn(DOMAIN heap)'
  BY <1>1, <1>2, <1>5 DEF RootsIn, Frames, collector
<1>7. FramesFit'
  BY <1>1, <1>4, <1>5 DEF FramesFit, IInv
<1> QED
  BY <1>1, <1>2, <1>6, <1>7, RootsChange

\* After an error nothing is left of the frames, the stack and the unfinished modules.
LEMMA UnwoundFacts ==
  ASSUME NEW h, NEW c, NEW D, c \in [ModulePath -> D \cup {None}], Unwound(h, c), limit' = limit
  PROVE  /\ registers' \in [Register' -> D \cup {None}] /\ calls' \in Seq(Frames(D))
         /\ cached' \in [ModulePath -> D \cup {None}] /\ FramesFit'
<1>1. registers' = Nowhere /\ Register' = Register /\ calls' = <<>>
      /\ cached' = [p \in ModulePath |-> IF c[p] # None /\ ~h[c[p]].initialized THEN None ELSE c[p]]
  BY DEF Unwound, Register
<1>2. registers' \in [Register' -> D \cup {None}]
  BY <1>1 DEF Nowhere
<1>3. calls' \in Seq(Frames(D)) /\ Len(calls') = 0
  BY <1>1, EmptySeq
<1> QED
  BY <1>1, <1>2, <1>3 DEF FramesFit

LEMMA RaiseStep ==
  ASSUME IInv, Raise
  PROVE  IInv'
<1>1. Executing /\ Unwound(heap, cached) /\ UNCHANGED <<collector, slots, interned, limit>>
  BY DEF Raise
<1>2. RootsIn(DOMAIN heap) /\ phase = "running" /\ Len(slots) \in Nat
  BY <1>1, ExecutingFacts DEF Resting
<1>3. /\ registers' \in [Register' -> DOMAIN heap \cup {None}] /\ calls' \in Seq(Frames(DOMAIN heap))
      /\ cached' \in [ModulePath -> DOMAIN heap \cup {None}] /\ FramesFit'
  BY <1>1, <1>2, UnwoundFacts DEF RootsIn
<1>4. RootsIn(DOMAIN heap)'
  BY <1>1, <1>2, <1>3 DEF RootsIn, Frames, collector
<1> QED
  BY <1>1, <1>2, <1>3, <1>4, RootsChange

LEMMA RunProgramStep ==
  ASSUME IInv, RunProgram
  PROVE  IInv'
<1> DEFINE f == [func |-> None, module |-> None, env |-> RootEnvironment]
<1>1. phase = "running" /\ calls' = <<f>>
      /\ UNCHANGED <<collector, registers, slots, cached, interned, limit>>
  BY DEF RunProgram
<1>2. RootsIn(DOMAIN heap)
  BY <1>1, RunningRests DEF Resting
<1>3. f \in Frames(DOMAIN heap) /\ f.env = 1 /\ f.module = None
  BY DEF Frames, RootEnvironment
<1>4. calls' \in Seq(Frames(DOMAIN heap)) /\ Len(calls') = 1 /\ calls'[1] = f
  BY <1>1, <1>3
<1>5. Len(slots) \in Nat /\ 1 \in 1 .. Len(slots)
  BY <1>2, EmptySeq, LenProperties DEF RootsIn
<1>6. RootsIn(DOMAIN heap)'
  BY <1>1, <1>2, <1>4 DEF RootsIn, Frames, collector, Register
<1>7. FramesFit'
  BY <1>1, <1>3, <1>4, <1>5 DEF FramesFit
<1> QED
  BY <1>1, <1>5, <1>6, <1>7, RootsChange

\* One more environment.
LEMMA SlotAdded ==
  ASSUME NEW D, slots \in Seq(D \cup {None}), slots' = Append(slots, None)
  PROVE  /\ slots' \in Seq(D \cup {None}) /\ slots' # <<>>
         /\ Len(slots') = Len(slots) + 1 /\ Len(slots) \in Nat
<1> DEFINE S == D \cup {None}
<1> HIDE DEF S
<1>1. slots \in Seq(S) /\ None \in S
  BY DEF S
<1>2. slots' \in Seq(S) /\ slots' # <<>> /\ Len(slots') = Len(slots) + 1 /\ Len(slots) \in Nat
  BY <1>1, AppendFacts
<1> QED
  BY <1>2 DEF S

LEMMA ImportModuleStep ==
  ASSUME IInv, NEW r \in Register, NEW p \in ModulePath, ImportModule(r, p)
  PROVE  IInv'
<1>1. Executing /\ UNCHANGED <<interned, limit>>
  BY DEF ImportModule
<1>2. /\ RootsIn(DOMAIN heap) /\ Resting /\ phase = "running" /\ Register' = Register
      /\ calls \in Seq(Frames(DOMAIN heap)) /\ Len(slots) \in Nat
      /\ slots \in Seq(DOMAIN heap \cup {None})
      /\ cached \in [ModulePath -> DOMAIN heap \cup {None}]
  BY <1>1, ExecutingFacts DEF Resting, RootsIn, Register
<1>3. CASE cached[p] # None /\ Hold(r, cached[p]) /\ UNCHANGED <<collector, calls, slots, cached>>
  <2>1. registers' = [registers EXCEPT ![r] = cached[p]] /\ cached[p] \in DOMAIN heap \cup {None}
    BY <1>2, <1>3 DEF Hold
  <2>2. RootsIn(DOMAIN heap)'
    BY <1>1, <1>2, <1>3, <2>1, RootsHold DEF RootsIn, Frames, collector
  <2>3. FramesFit'
    BY <1>3, FramesStay DEF IInv
  <2> QED
    BY <1>1, <1>2, <1>3, <2>2, <2>3, RootsChange
<1>4. ASSUME cached[p] = None, Make([Object("module") EXCEPT !.env = Len(slots) + 1]),
             slots' = Append(slots, None),
             \/ /\ Hold(r, Free)
                /\ cached' = [cached EXCEPT ![p] = Free]
                /\ calls' = Append(calls, [func |-> None, module |-> Free, env |-> Len(slots) + 1])
             \/ Unwound(heap', [cached EXCEPT ![p] = Free])
      PROVE  IInv'
  <2> DEFINE o    == [Object("module") EXCEPT !.env = Len(slots) + 1]
             more == DOMAIN heap'
             f    == [func |-> None, module |-> Free, env |-> Len(slots) + 1]
  <2>1. more = DOMAIN heap \cup {Free}
    BY <1>4 DEF Make
  <2> HIDE DEF more
  <2>2. /\ slots \in Seq(more \cup {None}) /\ interned \in more \cup {None}
        /\ registers \in [Register -> more \cup {None}]
        /\ calls \in Seq(Frames(more)) /\ cached \in [ModulePath -> more \cup {None}]
    BY <1>2, <2>1, RootsGrow
  <2>3. slots' \in Seq(more \cup {None}) /\ slots' # <<>> /\ Len(slots') = Len(slots) + 1
    BY <1>4, <2>2, SlotAdded
  <2>4. [cached EXCEPT ![p] = Free] \in [ModulePath -> more \cup {None}]
    BY <2>1, <2>2
  <2>5. /\ registers' \in [Register' -> more \cup {None}] /\ calls' \in Seq(Frames(more))
        /\ cached' \in [ModulePath -> more \cup {None}] /\ FramesFit'
    <3>1. CASE /\ Hold(r, Free)
               /\ cached' = [cached EXCEPT ![p] = Free]
               /\ calls' = Append(calls, f)
      <4>1. f \in Frames(more) /\ f.module = Free /\ f.env = Len(slots) + 1
        BY <1>2, <2>1 DEF Frames
      <4> HIDE DEF f
      <4>2. /\ calls' \in Seq(Frames(more)) /\ Len(calls) \in Nat
            /\ \A i \in 1 .. Len(calls') : (i \in 1 .. Len(calls) /\ calls'[i] = calls[i]) \/ calls'[i] = f
        BY <2>2, <3>1, <4>1, FramePushed
      <4>3. \A m : m # None /\ (\E q \in ModulePath : cached[q] = m)
                   => \E q \in ModulePath : cached'[q] = m
        BY <1>2, <1>4, <3>1
      <4>4. cached'[p] = Free
        BY <1>2, <3>1
      <4>5. FramesFit'
        <5>1. ASSUME NEW i \in 1 .. Len(calls')
              PROVE  /\ calls'[i].env \in 1 .. Len(slots')
                     /\ calls'[i].module # None
                        => \E q \in ModulePath : cached'[q] = calls'[i].module
          <6>1. CASE i \in 1 .. Len(calls) /\ calls'[i] = calls[i]
            <7>1. /\ calls[i].env \in 1 .. Len(slots)
                  /\ calls[i].module # None => \E q \in ModulePath : cached[q] = calls[i].module
              BY <6>1 DEF FramesFit, IInv
            <7>2. calls'[i].env \in 1 .. Len(slots')
              BY <1>2, <2>3, <6>1, <7>1
            <7> QED
              BY <4>3, <6>1, <7>1, <7>2
          <6>2. CASE calls'[i] = f
            BY <1>2, <2>3, <4>1, <4>4, <6>2
          <6> QED
            BY <4>2, <6>1, <6>2
        <5> QED
          BY <5>1 DEF FramesFit
      <4>6. registers' \in [Register' -> more \cup {None}]
        BY <1>2, <2>1, <2>2, <3>1 DEF Hold
      <4> QED
        BY <2>4, <3>1, <4>2, <4>5, <4>6
    <3>2. CASE Unwound(heap', [cached EXCEPT ![p] = Free])
      BY <1>1, <2>4, <3>2, UnwoundFacts
    <3> QED
      BY <1>4, <3>1, <3>2
  <2>6. RootsIn(DOMAIN heap)'
    BY <1>1, <2>2, <2>3, <2>5 DEF RootsIn, Frames, more
  <2>7. "module" \in Type /\ Typed /\ Len(slots) + 1 \in Nat /\ Len(slots) + 1 # 0
    BY <1>2 DEF Type, IInv
  <2>8. IsFresh(o, "module", Len(slots) + 1, None)
    BY <2>7, FreshObjects
  <2> HIDE DEF o
  <2>9. /\ FitsIn(o, Len(slots')) /\ Within(o, DOMAIN heap) /\ HasClass(o)
        /\ o \in ObjectType /\ ~o.marked
    BY <2>3, <2>7, <2>8, FreshFits
  <2>10. Make(o)
    BY <1>4 DEF o
  <2> QED
    BY <1>1, <1>2, <2>3, <2>5, <2>6, <2>9, <2>10, Makes
<1> QED
  BY <1>3, <1>4 DEF ImportModule

LEMMA PopFrameStep ==
  ASSUME IInv, PopFrame
  PROVE  IInv'
<1> DEFINE m == Last(calls).module
<1>1. /\ Executing /\ calls' = Front(calls)
      /\ registers' = IF Len(calls) = 1 THEN Nowhere ELSE registers
      /\ UNCHANGED <<slots, cached, interned, limit>>
      /\ IF m = None THEN UNCHANGED collector
         ELSE Change(m, [heap[m] EXCEPT !.initialized = TRUE])
  BY DEF PopFrame
<1>2. /\ RootsIn(DOMAIN heap) /\ Resting /\ phase = "running" /\ Register' = Register
      /\ calls \in Seq(Frames(DOMAIN heap)) /\ calls # <<>> /\ Len(slots) \in Nat
      /\ registers \in [Register -> DOMAIN heap \cup {None}]
  BY <1>1, ExecutingFacts DEF Resting, Register
<1>3. /\ calls' \in Seq(Frames(DOMAIN heap)) /\ Len(calls') = Len(calls) - 1
      /\ \A i \in 1 .. Len(calls') : calls'[i] = calls[i]
      /\ Last(calls) \in Frames(DOMAIN heap) /\ Len(calls) \in Nat \ {0}
  <2> DEFINE F == Frames(DOMAIN heap)
  <2> HIDE DEF F
  <2>1. calls \in Seq(F)
    BY <1>2 DEF F
  <2>2. /\ calls' \in Seq(F) /\ Len(calls') = Len(calls) - 1
        /\ \A i \in 1 .. Len(calls) - 1 : calls'[i] = calls[i]
        /\ Last(calls) \in F /\ Len(calls) \in Nat \ {0}
    BY <1>1, <1>2, <2>1, FrontFacts
  <2> QED
    BY <2>2 DEF F
<1>4. \A i \in 1 .. Len(calls') : i \in 1 .. Len(calls)
  BY <1>3
<1>5. FramesFit'
  BY <1>1, <1>3, <1>4 DEF FramesFit, IInv
<1>6. DOMAIN heap' = DOMAIN heap
  BY <1>1 DEF collector, Change
<1>7. registers' \in [Register -> DOMAIN heap \cup {None}]
  BY <1>1, <1>2 DEF Nowhere
<1>8. RootsIn(DOMAIN heap)'
  BY <1>1, <1>2, <1>3, <1>6, <1>7 DEF RootsIn, Frames
<1>9. CASE m = None
  BY <1>1, <1>2, <1>5, <1>8, <1>9, RootsChange
<1>10. CASE m # None
  <2> DEFINE o == [heap[m] EXCEPT !.initialized = TRUE]
  <2>1. m \in DOMAIN heap
    BY <1>3, <1>10 DEF Frames
  <2>2. /\ heap[m] \in ObjectType /\ FitsIn(heap[m], Len(slots)) /\ ~heap[m].marked
        /\ Within(heap[m], DOMAIN heap) /\ HasClass(heap[m])
    BY <1>1, <1>2, <2>1, ExecutingFacts DEF Resting
  <2>3. /\ o \in ObjectType /\ o.type = heap[m].type /\ o.marked = heap[m].marked
        /\ o.refs = heap[m].refs /\ o.klass = heap[m].klass /\ o.pairs = heap[m].pairs
        /\ o.order = heap[m].order /\ o.env = heap[m].env
    BY <2>2 DEF ObjectType
  <2>4. Change(m, o)
    BY <1>1, <1>10
  <2> HIDE DEF o
  <2>5. FitsIn(o, Len(slots)) /\ Within(o, DOMAIN heap) /\ HasClass(o) /\ ~o.marked
    BY <2>2, <2>3 DEF FitsIn, Within, HasClass
  <2> QED
    BY <1>1, <1>2, <1>5, <1>8, <2>1, <2>3, <2>4, <2>5, Changes
<1> QED
  BY <1>9, <1>10
-----------------------------------------------------------------------------
(* What is kept.                                                            *)

LEMMA KeptFacts ==
  ASSUME Typed, Fits, RootsIn(DOMAIN heap),
         \A a \in DOMAIN heap : Within(heap[a], DOMAIN heap)
  PROVE  /\ Roots \ {None} \subseteq Kept /\ Kept \subseteq DOMAIN heap
         /\ \A a \in Kept : LeadsTo(heap[a]) \ {None} \subseteq Kept
<1>1. Roots \ {None} \subseteq DOMAIN heap /\ DOMAIN heap \subseteq Address
  BY RootsOfRootsIn DEF Typed
<1>2. \A a \in DOMAIN heap : LeadsTo(heap[a]) \ {None} \subseteq DOMAIN heap
  BY LeadsWithin DEF Fits, RootsIn
<1>3. Kept \subseteq DOMAIN heap
  BY <1>1, <1>2 DEF Kept, Reached, Closed
<1>4. Roots \ {None} \subseteq Kept
  BY <1>1 DEF Kept, Reached
<1>5. ASSUME NEW a \in Kept, NEW b \in LeadsTo(heap[a]) \ {None} PROVE b \in Kept
  <2>1. a \in DOMAIN heap /\ b \in Address
    BY <1>1, <1>2, <1>3, <1>5
  <2>2. ASSUME NEW s \in SUBSET Address, Roots \ {None} \subseteq s, Closed(s) PROVE b \in s
    BY <1>5, <2>1, <2>2 DEF Kept, Reached, Closed
  <2> QED
    BY <2>1, <2>2 DEF Kept, Reached
<1> QED
  BY <1>3, <1>4, <1>5

LEMMA KeptIsLeast ==
  ASSUME NEW s \in SUBSET Address, Roots \ {None} \subseteq s, Closed(s)
  PROVE  Kept \subseteq s
BY DEF Kept, Reached

\* The collector changes nothing but marks.
OnlyMarks ==
  /\ DOMAIN heap' = DOMAIN heap
  /\ heap' \in [DOMAIN heap -> ObjectType]
  /\ \A a \in DOMAIN heap :
       /\ heap'[a].type = heap[a].type /\ heap'[a].refs = heap[a].refs
       /\ heap'[a].klass = heap[a].klass /\ heap'[a].pairs = heap[a].pairs
       /\ heap'[a].order = heap[a].order /\ heap'[a].env = heap[a].env
  /\ UNCHANGED <<roots, limit>>

LEMMA OnlyMarksFacts ==
  ASSUME IInv, OnlyMarks
  PROVE  /\ Fits' /\ FramesFit' /\ Kept' = Kept /\ Roots' = Roots
         /\ \A a \in DOMAIN heap : LeadsTo(heap[a])' = LeadsTo(heap[a])
         /\ \A objects : \A a \in DOMAIN heap : Within(heap'[a], objects) <=> Within(heap[a], objects)
         /\ \A a \in DOMAIN heap : Within(heap[a], DOMAIN heap) /\ HasClass(heap[a]) => HasClass(heap[a])'
<1>1. UNCHANGED <<registers, calls, slots, cached, interned, limit>>
  BY DEF OnlyMarks, roots
<1>2. Fits'
  BY <1>1 DEF IInv, Fits, FitsType, FitsIn, OnlyMarks
<1>3. FramesFit'
  BY <1>1 DEF IInv, FramesFit
<1>4. Roots' = Roots
  BY <1>1 DEF Roots, ValuesOf
<1>5. \A a \in DOMAIN heap : LeadsTo(heap[a])' = LeadsTo(heap[a])
  BY <1>1 DEF LeadsTo, OnlyMarks
<1>6. Kept' = Kept
  <2>1. \A s : Closed(s)' <=> Closed(s)
    BY <1>5 DEF Closed, OnlyMarks
  <2>2. Address' = Address
    BY <1>1 DEF Address
  <2> QED
    BY <1>4, <2>1, <2>2 DEF Kept, Reached
<1>7. \A objects : \A a \in DOMAIN heap : Within(heap'[a], objects) <=> Within(heap[a], objects)
  BY DEF Within, OnlyMarks
<1>8. ASSUME NEW a \in DOMAIN heap, Within(heap[a], DOMAIN heap), HasClass(heap[a])
      PROVE  HasClass(heap[a])'
  BY <1>8 DEF HasClass, Within, OnlyMarks
<1> QED
  BY <1>2, <1>3, <1>4, <1>5, <1>6, <1>7, <1>8

LEMMA MarkFacts ==
  ASSUME Typed, NEW objects, NEW below \in Seq(Address), objects \ {None} \subseteq DOMAIN heap,
         Mark(objects, below), UNCHANGED <<roots, limit>>
  PROVE  /\ OnlyMarks
         /\ \A a \in DOMAIN heap : heap'[a].marked <=> heap[a].marked \/ a \in objects \ {None}
         /\ grays' \in Seq(Address)
         /\ \A i \in 1 .. Len(grays') : \/ \E j \in 1 .. Len(below) : grays'[i] = below[j]
                                        \/ grays'[i] \in objects \ {None}
         /\ \A j \in 1 .. Len(below) : \E i \in 1 .. Len(grays') : grays'[i] = below[j]
         /\ \A a \in DOMAIN heap : heap'[a].marked /\ ~heap[a].marked
                                   => \E i \in 1 .. Len(grays') : grays'[i] = a
<1> DEFINE fresh == {a \in objects \ {None} : ~heap[a].marked}
           more  == SetToSeq(fresh)
<1>1. /\ heap' = [a \in DOMAIN heap |-> IF a \in fresh THEN [heap[a] EXCEPT !.marked = TRUE] ELSE heap[a]]
      /\ grays' = below \o more
  BY DEF Mark
<1>2. fresh \subseteq Address
  BY DEF Typed
<1> HIDE DEF fresh
<1>3. ASSUME NEW a \in DOMAIN heap
      PROVE  /\ heap'[a] \in ObjectType
             /\ heap'[a].type = heap[a].type /\ heap'[a].refs = heap[a].refs
             /\ heap'[a].klass = heap[a].klass /\ heap'[a].pairs = heap[a].pairs
             /\ heap'[a].order = heap[a].order /\ heap'[a].env = heap[a].env
             /\ heap'[a].marked = (heap[a].marked \/ a \in fresh)
  <2>1. heap[a] \in ObjectType
    BY DEF Typed
  <2>2. CASE a \in fresh
    <3>1. heap'[a] = [heap[a] EXCEPT !.marked = TRUE]
      BY <1>1, <2>2
    <3> QED
      BY <2>1, <2>2, <3>1 DEF ObjectType
  <2>3. CASE a \notin fresh
    <3>1. heap'[a] = heap[a]
      BY <1>1, <2>3
    <3> QED
      BY <2>1, <2>3, <3>1 DEF ObjectType
  <2> QED
    BY <2>2, <2>3
<1>4. DOMAIN heap' = DOMAIN heap /\ heap' \in [DOMAIN heap -> ObjectType]
  <2>1. DOMAIN heap' = DOMAIN heap /\ heap' = [a \in DOMAIN heap |-> heap'[a]]
    BY <1>1
  <2> QED
    BY <1>3, <2>1
<1>5. OnlyMarks
  BY <1>3, <1>4 DEF OnlyMarks
<1>6. IsFiniteSet(fresh)
  <2>1. limit.objects \in Nat
    BY DEF Typed, Limit
  <2>2. IsFiniteSet(Address)
    BY <2>1, FS_Interval DEF Address
  <2> QED
    BY <1>2, <2>2, FS_Subset
<1>7. more \in Seq(fresh) /\ \A a \in fresh : \E i \in 1 .. Len(more) : more[i] = a
  BY <1>6, SetToSeqFacts
<1> HIDE DEF more
<1>8. more \in Seq(Address) /\ \A i \in 1 .. Len(more) : more[i] \in fresh
  BY <1>2, <1>7, SeqMonotonic, ElementOfSeq
<1>9. /\ grays' \in Seq(Address) /\ Len(grays') = Len(below) + Len(more)
      /\ Len(below) \in Nat /\ Len(more) \in Nat
      /\ \A i \in 1 .. Len(below) + Len(more) :
           grays'[i] = IF i <= Len(below) THEN below[i] ELSE more[i - Len(below)]
  BY <1>1, <1>8, ConcatProperties, LenProperties
<1>10. \A j \in 1 .. Len(more) : /\ Len(below) + j \in 1 .. Len(grays')
                                 /\ grays'[Len(below) + j] = more[j]
  <2>1. ASSUME NEW j \in 1 .. Len(more), NEW n, n = Len(below) + j
        PROVE  n \in 1 .. Len(grays') /\ ~(n <= Len(below)) /\ n - Len(below) = j
    BY <1>9, <2>1
  <2> QED
    BY <1>9, <2>1
<1>11. \A j \in 1 .. Len(below) : j \in 1 .. Len(grays') /\ grays'[j] = below[j]
  BY <1>9
<1>12. \A i \in 1 .. Len(grays') : \/ i \in 1 .. Len(below) /\ grays'[i] = below[i]
                                   \/ i - Len(below) \in 1 .. Len(more)
                                      /\ grays'[i] = more[i - Len(below)]
  BY <1>9
<1>13. \A a \in DOMAIN heap : heap'[a].marked <=> heap[a].marked \/ a \in objects \ {None}
  BY <1>3 DEF fresh
<1>14. \A a \in DOMAIN heap : heap'[a].marked /\ ~heap[a].marked => a \in fresh
  BY <1>3
<1>15. \A a \in DOMAIN heap : heap'[a].marked /\ ~heap[a].marked
                              => \E i \in 1 .. Len(grays') : grays'[i] = a
  BY <1>7, <1>10, <1>14
<1>16. \A i \in 1 .. Len(more) : more[i] \in objects \ {None}
  BY <1>8 DEF fresh
<1> QED
  BY <1>5, <1>9, <1>11, <1>12, <1>13, <1>15, <1>16
-----------------------------------------------------------------------------
(* The steps of the collector.                                              *)

\* Outside of a sweep everything survives.
LEMMA AllSurvive ==
  ASSUME IInv, phase # "sweeping"
  PROVE  /\ Survivors = DOMAIN heap /\ RootsIn(DOMAIN heap)
         /\ \A a \in DOMAIN heap : Within(heap[a], DOMAIN heap) /\ HasClass(heap[a])
         /\ Roots \ {None} \subseteq Kept /\ Kept \subseteq DOMAIN heap
         /\ \A a \in Kept : LeadsTo(heap[a]) \ {None} \subseteq Kept
<1>1. Survivors = DOMAIN heap
  BY DEF Survivors
<1> QED
  BY <1>1, KeptFacts DEF IInv, RootsSurvive, SurvivorsHold

\* A step of mark_roots or of trace_references marks what is kept, and leaves no
\* object whose references it marked with an unmarked one.
LEMMA Marking ==
  ASSUME IInv, phase # "sweeping", phase' = "tracing", UNCHANGED <<all, at>>,
         NEW objects, NEW below \in Seq(Address), objects \ {None} \subseteq Kept,
         Mark(objects, below), UNCHANGED <<roots, limit>>,
         \A i \in 1 .. Len(below) : below[i] \in DOMAIN heap /\ heap[below[i]].marked,
         \A a \in Roots \ {None} : a \in objects \/ heap[a].marked,
         \A a \in DOMAIN heap : heap[a].marked => a \in Kept,
         \A a \in DOMAIN heap : heap[a].marked /\ (\A i \in 1 .. Len(below) : below[i] # a)
           => \A b \in LeadsTo(heap[a]) \ {None} : b \in objects \/ heap[b].marked
  PROVE  IInv'
<1>1. /\ Survivors = DOMAIN heap /\ RootsIn(DOMAIN heap)
      /\ \A a \in DOMAIN heap : Within(heap[a], DOMAIN heap) /\ HasClass(heap[a])
      /\ Roots \ {None} \subseteq Kept /\ Kept \subseteq DOMAIN heap
      /\ \A a \in Kept : LeadsTo(heap[a]) \ {None} \subseteq Kept
  BY AllSurvive
<1>2. Typed /\ AllTracked /\ objects \ {None} \subseteq DOMAIN heap
  BY <1>1 DEF IInv
<1>3. /\ OnlyMarks
      /\ \A a \in DOMAIN heap : heap'[a].marked <=> heap[a].marked \/ a \in objects \ {None}
      /\ grays' \in Seq(Address)
      /\ \A i \in 1 .. Len(grays') : \/ \E j \in 1 .. Len(below) : grays'[i] = below[j]
                                     \/ grays'[i] \in objects \ {None}
      /\ \A j \in 1 .. Len(below) : \E i \in 1 .. Len(grays') : grays'[i] = below[j]
      /\ \A a \in DOMAIN heap : heap'[a].marked /\ ~heap[a].marked
                                => \E i \in 1 .. Len(grays') : grays'[i] = a
  BY <1>2, MarkFacts
<1>4. /\ Fits' /\ FramesFit' /\ Kept' = Kept /\ Roots' = Roots
      /\ \A a \in DOMAIN heap : LeadsTo(heap[a])' = LeadsTo(heap[a])
      /\ \A x : \A a \in DOMAIN heap : Within(heap'[a], x) <=> Within(heap[a], x)
      /\ \A a \in DOMAIN heap : Within(heap[a], DOMAIN heap) /\ HasClass(heap[a]) => HasClass(heap[a])'
  BY <1>3, OnlyMarksFacts
<1>5. DOMAIN heap' = DOMAIN heap /\ heap' \in [DOMAIN heap -> ObjectType] /\ limit' = limit
      /\ UNCHANGED <<registers, calls, slots, cached, interned>>
  BY <1>3 DEF OnlyMarks, roots
<1>6. Typed'
  <2>1. Address' = Address /\ ObjectType' = ObjectType
    BY <1>5 DEF Address, ObjectType
  <2> QED
    BY <1>2, <1>3, <1>5, <2>1 DEF Typed
<1>7. AllTracked'
  BY <1>2, <1>5 DEF AllTracked
<1>8. Survivors' = DOMAIN heap
  BY <1>5 DEF Survivors
<1>9. RootsSurvive'
  BY <1>1, <1>5, <1>8 DEF RootsSurvive, RootsIn, Register
<1>10. SurvivorsHold'
  BY <1>1, <1>4, <1>8 DEF SurvivorsHold
<1>11. Traced'
  <2>1. \A i \in 1 .. Len(grays') : grays'[i] \in DOMAIN heap /\ heap'[grays'[i]].marked
    BY <1>2, <1>3
  <2>2. \A a \in Roots \ {None} : heap'[a].marked
    BY <1>1, <1>3
  <2>3. \A a \in DOMAIN heap : heap'[a].marked => a \in Kept
    BY <1>3
  <2> QED
    BY <1>4, <1>5, <2>1, <2>2, <2>3 DEF Traced
<1>12. Swept'
  BY DEF Swept
<1>13. Tricolour'
  <2>1. ASSUME NEW a \in DOMAIN heap, heap'[a].marked, ~Contains(grays', a),
               NEW b \in LeadsTo(heap[a]) \ {None}
        PROVE  heap'[b].marked
    <3>1. heap[a].marked /\ \A i \in 1 .. Len(below) : below[i] # a
      BY <1>3, <2>1 DEF Contains
    <3>2. b \in objects \/ heap[b].marked
      BY <2>1, <3>1
    <3>3. b \in DOMAIN heap
      BY <1>1, <3>1
    <3> QED
      BY <1>3, <3>2, <3>3
  <2> QED
    BY <1>4, <1>5, <2>1 DEF Tricolour
<1> QED
  BY <1>4, <1>6, <1>7, <1>9, <1>10, <1>11, <1>12, <1>13 DEF IInv

LEMMA MarkRootsStep ==
  ASSUME IInv, MarkRoots
  PROVE  IInv'
<1>1. /\ Executing /\ phase' = "tracing" /\ Mark(Roots, grays) /\ UNCHANGED <<all, at, roots, limit>>
  BY DEF MarkRoots
<1>2. phase = "running" /\ Resting /\ Roots \ {None} \subseteq Kept
  BY <1>1, ExecutingFacts, AllSurvive
<1>3. grays \in Seq(Address) /\ Len(grays) = 0
  BY <1>2, EmptySeq DEF Resting
<1>4. /\ \A i \in 1 .. Len(grays) : grays[i] \in DOMAIN heap /\ heap[grays[i]].marked
      /\ \A a \in Roots \ {None} : a \in Roots \/ heap[a].marked
      /\ \A a \in DOMAIN heap : ~heap[a].marked
  BY <1>2, <1>3 DEF Resting
<1> DEFINE objects == Roots
<1> HIDE DEF objects
<1>5. /\ objects \ {None} \subseteq Kept /\ Mark(objects, grays)
      /\ \A a \in Roots \ {None} : a \in objects \/ heap[a].marked
  BY <1>1, <1>2 DEF objects
<1> QED
  BY <1>1, <1>2, <1>3, <1>4, <1>5, Marking

LEMMA TraceStep ==
  ASSUME IInv, Trace
  PROVE  IInv'
<1>1. phase = "tracing" /\ UNCHANGED <<all, roots, limit>> /\ Typed /\ Fits /\ Traced /\ Tricolour
      /\ FramesFit /\ AllTracked
  BY DEF Trace, IInv
<1>2. /\ Survivors = DOMAIN heap /\ RootsIn(DOMAIN heap)
      /\ \A a \in DOMAIN heap : Within(heap[a], DOMAIN heap) /\ HasClass(heap[a])
      /\ Roots \ {None} \subseteq Kept /\ Kept \subseteq DOMAIN heap
      /\ \A a \in Kept : LeadsTo(heap[a]) \ {None} \subseteq Kept
  BY <1>1, AllSurvive
<1>3. UNCHANGED <<registers, calls, slots, cached, interned>>
  BY <1>1 DEF roots
<1>4. CASE /\ grays # <<>> /\ Mark(Children(heap[Last(grays)]), Front(grays))
           /\ UNCHANGED <<phase, at>>
  <2> DEFINE g == Last(grays)
             below == Front(grays)
  <2>1. /\ below \in Seq(Address) /\ Len(below) = Len(grays) - 1
        /\ \A i \in 1 .. Len(below) : below[i] = grays[i] /\ i \in 1 .. Len(grays)
        /\ g = grays[Len(grays)] /\ Len(grays) \in Nat \ {0} /\ Len(grays) \in 1 .. Len(grays)
    BY <1>1, <1>4, FrontFacts DEF Typed
  <2>2. g \in DOMAIN heap /\ heap[g].marked /\ g \in Kept
    BY <1>1, <2>1 DEF Traced
  <2>3. heap[g].type \in Type /\ FitsType(heap[g])
    BY <1>1, <2>2 DEF Typed, ObjectType, Fits
  <2>4. /\ Children(heap[g]) \subseteq LeadsTo(heap[g]) \cup {None}
        /\ LeadsTo(heap[g]) \subseteq Children(heap[g]) \cup {None} \cup {slots[e] : e \in 1 .. Len(slots)}
    BY <2>3, ChildrenFacts
  <2>5. Children(heap[g]) \ {None} \subseteq Kept
    BY <1>2, <2>2, <2>4
  <2>6. \A e \in 1 .. Len(slots) : slots[e] \in Roots \cup {None}
    BY <1>2, LenProperties DEF Roots, ValuesOf, RootsIn
  <2>7. \A a \in Roots \ {None} : heap[a].marked
    BY <1>1 DEF Traced
  <2>8. ASSUME NEW a \in DOMAIN heap, heap[a].marked, \A i \in 1 .. Len(below) : below[i] # a,
               NEW b \in LeadsTo(heap[a]) \ {None}
        PROVE  b \in Children(heap[g]) \/ heap[b].marked
    <3>1. CASE a = g
      BY <2>4, <2>6, <2>7, <2>8, <3>1
    <3>2. CASE a # g
      <4>1. \A i \in 1 .. Len(grays) : i \in 1 .. Len(below) \/ i = Len(grays)
        BY <2>1
      <4>2. ~Contains(grays, a)
        BY <2>1, <2>8, <3>2, <4>1 DEF Contains
      <4> QED
        BY <1>1, <2>8, <4>2 DEF Tricolour
    <3> QED
      BY <3>1, <3>2
  <2>9. \A i \in 1 .. Len(below) : below[i] \in DOMAIN heap /\ heap[below[i]].marked
    BY <1>1, <2>1 DEF Traced
  <2>10. \A a \in DOMAIN heap : heap[a].marked => a \in Kept
    BY <1>1 DEF Traced
  <2>11. Mark(Children(heap[g]), below) /\ phase' = "tracing" /\ UNCHANGED <<all, at>>
    BY <1>1, <1>4
  <2> HIDE DEF g, below
  <2> QED
    BY <1>1, <2>1, <2>5, <2>7, <2>8, <2>9, <2>10, <2>11, Marking
<1>5. CASE grays = <<>> /\ phase' = "sweeping" /\ at' = 1 /\ UNCHANGED <<heap, grays>>
  <2> DEFINE marked == {a \in DOMAIN heap : heap[a].marked}
  <2>1. Survivors' = marked
    <3>1. \A i \in 1 .. Len(all) : ~(i < 1)
      BY <1>1, LenProperties DEF Typed
    <3> QED
      BY <1>1, <1>5, <3>1 DEF Survivors
  <2>2. Roots \ {None} \subseteq marked
    BY <1>1, <1>2 DEF Traced
  <2>3. ASSUME NEW a \in marked PROVE LeadsTo(heap[a]) \ {None} \subseteq marked
    <3>1. ~Contains(grays, a)
      BY <1>5 DEF Contains
    <3>2. \A b \in LeadsTo(heap[a]) \ {None} : heap[b].marked
      BY <1>1, <3>1 DEF Tricolour
    <3>3. LeadsTo(heap[a]) \ {None} \subseteq DOMAIN heap
      BY <1>1, <1>2, LeadsWithin DEF Fits, RootsIn
    <3> QED
      BY <3>2, <3>3
  <2>4. marked \subseteq DOMAIN heap /\ marked \subseteq Kept
    BY <1>1 DEF Traced
  <2> HIDE DEF marked
  <2>5. RootsIn(marked)
    <3>1. registers \in [Register -> marked \cup {None}]
      BY <1>2, <2>2 DEF RootsIn, Roots, ValuesOf
    <3>2. cached \in [ModulePath -> marked \cup {None}]
      BY <1>2, <2>2 DEF RootsIn, Roots, ValuesOf
    <3>3. interned \in marked \cup {None}
      BY <2>2 DEF Roots
    <3>4. slots \in Seq(marked \cup {None}) /\ slots # <<>>
      <4>1. \A e \in DOMAIN slots : slots[e] \in marked \cup {None}
        BY <2>2 DEF Roots, ValuesOf
      <4>2. DOMAIN slots = 1 .. Len(slots) /\ slots \in [1 .. Len(slots) -> DOMAIN heap \cup {None}]
            /\ Len(slots) \in Nat
        BY <1>2, LenProperties DEF RootsIn
      <4>3. slots \in [1 .. Len(slots) -> marked \cup {None}]
        BY <4>1, <4>2
      <4> QED
        BY <1>2, <4>2, <4>3, SeqDef DEF RootsIn
    <3>5. calls \in Seq(Frames(marked))
      <4>1. ASSUME NEW i \in DOMAIN calls PROVE calls[i] \in Frames(marked)
        <5>1. i \in 1 .. Len(calls) /\ calls[i] \in Frames(DOMAIN heap)
          <6> DEFINE F == Frames(DOMAIN heap)
          <6>1. calls \in Seq(F)
            BY <1>2 DEF RootsIn, Frames
          <6> HIDE DEF F
          <6>2. i \in 1 .. Len(calls) /\ calls[i] \in F
            BY <6>1, LenProperties, ElementOfSeq
          <6> QED
            BY <6>2 DEF F
        <5>2. calls[i].func \in marked \cup {None}
          BY <2>2 DEF Roots, ValuesOf
        <5>3. calls[i].module \in marked \cup {None}
          <6>1. calls[i].module # None => \E p \in ModulePath : cached[p] = calls[i].module
            BY <1>1, <5>1 DEF FramesFit
          <6> QED
            BY <3>2, <6>1
        <5> QED
          BY <5>1, <5>2, <5>3 DEF Frames
      <4> DEFINE F == Frames(DOMAIN heap)
                 M == Frames(marked)
      <4>2. calls \in Seq(F) /\ \A i \in DOMAIN calls : calls[i] \in M
        BY <1>2, <4>1 DEF RootsIn, Frames
      <4> HIDE DEF F, M
      <4>3. DOMAIN calls = 1 .. Len(calls) /\ calls \in [1 .. Len(calls) -> F] /\ Len(calls) \in Nat
        BY <4>2, LenProperties
      <4>4. calls \in [1 .. Len(calls) -> M]
        BY <4>2, <4>3
      <4>5. calls \in Seq(M)
        BY <4>3, <4>4, SeqDef
      <4> QED
        BY <4>5 DEF M
    <3> QED
      BY <3>1, <3>2, <3>3, <3>4, <3>5 DEF RootsIn, Frames
  <2>6. RootsSurvive'
    BY <1>1, <1>3, <2>1, <2>5 DEF RootsSurvive, RootsIn, Register
  <2>7. SurvivorsHold'
    <3>1. ASSUME NEW a \in marked PROVE Within(heap[a], marked) /\ HasClass(heap[a])
      <4>1. Within(heap[a], DOMAIN heap) /\ HasClass(heap[a]) /\ FitsType(heap[a])
        BY <1>1, <1>2, <2>4 DEF Fits
      <4>2. None \notin DOMAIN heap
        BY <1>1, NoneAssumption DEF Typed, Address
      <4>3. \A p \in heap[a].pairs : p \in marked \X marked
        <5> SUFFICES ASSUME NEW p \in heap[a].pairs PROVE p \in marked \X marked
          OBVIOUS
        <5>1. p \in (DOMAIN heap) \X (DOMAIN heap) /\ p[1] \in heap[a].order
          BY <4>1 DEF Within, FitsType, FitsIn
        <5>2. p[1] \in marked /\ p[2] \in marked
          BY <2>3, <4>2, <5>1 DEF LeadsTo
        <5> QED
          BY <5>1, <5>2
      <4>4. heap[a].refs \subseteq marked /\ heap[a].order \subseteq marked
            /\ heap[a].klass \in marked \cup {None}
        BY <2>3, <4>1, <4>2 DEF LeadsTo, Within
      <4> QED
        BY <4>1, <4>3, <4>4 DEF Within
    <3> QED
      BY <1>5, <2>1, <3>1 DEF SurvivorsHold, HasClass
  <2>8. Typed'
    <3>1. Address' = Address /\ ObjectType' = ObjectType
      BY <1>1 DEF Address, ObjectType
    <3> QED
      BY <1>1, <1>5, <3>1 DEF Typed
  <2>9. Fits' /\ FramesFit' /\ AllTracked'
    BY <1>1, <1>3, <1>5 DEF Fits, FitsType, FitsIn, FramesFit, AllTracked
  <2>10. Kept' = Kept
    BY <1>1, <1>3, <1>5 DEF Kept, Reached, Roots, ValuesOf, Closed, LeadsTo, Address
  <2>11. Swept'
    <3>1. Len(all) \in Nat /\ \A i \in 1 .. Len(all) : ~(i < 1)
      BY <1>1, LenProperties DEF Typed
    <3> QED
      BY <1>1, <1>5, <2>1, <2>4, <2>10, <3>1 DEF Swept
  <2>12. Traced' /\ Tricolour'
    BY <1>5 DEF Traced, Tricolour
  <2> QED
    BY <2>6, <2>7, <2>8, <2>9, <2>11, <2>12 DEF IInv
<1> QED
  BY <1>4, <1>5 DEF Trace

\* The sweep took nothing that survives it.
LEMMA SweptFacts ==
  ASSUME IInv, phase = "sweeping"
  PROVE  /\ Roots \ {None} \subseteq Survivors /\ Survivors \subseteq DOMAIN heap
         /\ \A a \in Survivors : LeadsTo(heap[a]) \ {None} \subseteq Survivors
         /\ at > Len(all) => Survivors = DOMAIN heap
<1>1. Survivors \subseteq DOMAIN heap
  BY DEF Survivors
<1>2. Roots \ {None} \subseteq Survivors
  BY RootsOfRootsIn DEF IInv, RootsSurvive
<1>3. ASSUME NEW a \in Survivors PROVE LeadsTo(heap[a]) \ {None} \subseteq Survivors
  BY <1>1, LeadsWithin DEF IInv, SurvivorsHold, RootsSurvive, RootsIn, Fits
<1>4. ASSUME at > Len(all) PROVE Survivors = DOMAIN heap
  <2>1. Len(all) \in Nat /\ at \in Nat
    BY LenProperties DEF IInv, Typed
  <2>2. \A i \in 1 .. Len(all) : i < at
    BY <1>4, <2>1
  <2> QED
    BY <2>2 DEF IInv, AllTracked, Survivors
<1> QED
  BY <1>1, <1>2, <1>3, <1>4

LEMMA SweepEnds ==
  ASSUME IInv, phase = "sweeping", at > Len(all), phase' = "running", at' = 1,
         UNCHANGED <<heap, all, grays, roots, limit>>
  PROVE  IInv'
<1>1. Typed /\ Fits /\ FramesFit /\ AllTracked /\ Swept /\ RootsSurvive /\ SurvivorsHold
      /\ Survivors = DOMAIN heap
  BY SweptFacts DEF IInv
<1>2. UNCHANGED <<registers, calls, slots, cached, interned>>
  BY DEF roots
<1>3. Typed'
  <2>1. Address' = Address /\ ObjectType' = ObjectType
    BY DEF Address, ObjectType
  <2> QED
    BY <1>1, <2>1 DEF Typed
<1>4. Fits' /\ FramesFit' /\ AllTracked'
  BY <1>1, <1>2 DEF Fits, FitsType, FitsIn, FramesFit, AllTracked
<1>5. \A a \in DOMAIN heap : ~heap[a].marked
  <2>1. Len(all) \in Nat /\ at \in Nat
    BY <1>1, LenProperties DEF Typed
  <2>2. \A i \in 1 .. Len(all) : i < at
    BY <2>1
  <2> QED
    BY <1>1, <2>2 DEF Swept, AllTracked
<1>6. Resting'
  BY <1>1, <1>2, <1>5 DEF Resting, RootsSurvive, RootsIn, SurvivorsHold, Within, HasClass, Register,
                          Swept
<1> QED
  BY <1>3, <1>4, <1>6, NextRests

LEMMA SweepUnmarks ==
  ASSUME IInv, phase = "sweeping", at <= Len(all), heap[all[at]].marked,
         heap' = [heap EXCEPT ![all[at]].marked = FALSE], at' = at + 1,
         UNCHANGED <<all, phase, grays, roots, limit>>
  PROVE  IInv'
<1> DEFINE x == all[at]
<1>1. Typed /\ AllTracked /\ Swept /\ RootsSurvive /\ SurvivorsHold
      /\ Len(all) \in Nat /\ at \in Nat /\ at \in 1 .. Len(all) /\ x \in DOMAIN heap
  BY LenProperties DEF IInv, Typed, AllTracked
<1>2. heap[x] \in ObjectType
  BY <1>1 DEF Typed
<1>3. /\ DOMAIN heap' = DOMAIN heap
      /\ \A a \in DOMAIN heap : a # x => heap'[a] = heap[a]
      /\ heap'[x] = [heap[x] EXCEPT !.marked = FALSE]
  BY <1>1
<1>4. /\ heap'[x] \in ObjectType /\ heap'[x].marked = FALSE
      /\ heap'[x].type = heap[x].type /\ heap'[x].refs = heap[x].refs
      /\ heap'[x].klass = heap[x].klass /\ heap'[x].pairs = heap[x].pairs
      /\ heap'[x].order = heap[x].order /\ heap'[x].env = heap[x].env
  <2>1. ASSUME NEW o \in ObjectType, NEW u, u = [o EXCEPT !.marked = FALSE]
        PROVE  /\ u \in ObjectType /\ u.marked = FALSE /\ u.type = o.type /\ u.refs = o.refs
               /\ u.klass = o.klass /\ u.pairs = o.pairs /\ u.order = o.order /\ u.env = o.env
    BY <2>1 DEF ObjectType
  <2> DEFINE o == heap[x]
             u == heap'[x]
  <2>2. o \in ObjectType /\ u = [o EXCEPT !.marked = FALSE]
    BY <1>2, <1>3
  <2> HIDE DEF o, u
  <2>3. /\ u \in ObjectType /\ u.marked = FALSE /\ u.type = o.type /\ u.refs = o.refs
        /\ u.klass = o.klass /\ u.pairs = o.pairs /\ u.order = o.order /\ u.env = o.env
    BY <2>1, <2>2
  <2> QED
    BY <2>3 DEF o, u
<1>5. heap' \in [DOMAIN heap -> ObjectType]
  <2>1. \A a \in DOMAIN heap : heap'[a] \in ObjectType
    BY <1>1, <1>3, <1>4 DEF Typed
  <2> QED
    BY <2>1
<1>6. OnlyMarks
  BY <1>3, <1>4, <1>5 DEF OnlyMarks
<1>7. /\ Fits' /\ FramesFit' /\ Kept' = Kept /\ Roots' = Roots
      /\ \A o : \A a \in DOMAIN heap : Within(heap'[a], o) <=> Within(heap[a], o)
      /\ \A a \in DOMAIN heap : Within(heap[a], DOMAIN heap) /\ HasClass(heap[a]) => HasClass(heap[a])'
  BY <1>6, OnlyMarksFacts
<1>8. UNCHANGED <<registers, calls, slots, cached, interned>>
  BY DEF roots
<1>9. Survivors' = Survivors
  <2>1. \A i \in 1 .. Len(all) : i < at + 1 <=> i < at \/ i = at
    BY <1>1
  <2> QED
    BY <1>1, <1>3, <2>1 DEF Survivors
<1>10. Typed'
  <2>1. Address' = Address /\ ObjectType' = ObjectType
    BY DEF Address, ObjectType
  <2> QED
    BY <1>1, <1>3, <1>5, <2>1 DEF Typed
<1>11. AllTracked'
  BY <1>1, <1>3 DEF AllTracked
<1>12. RootsSurvive'
  BY <1>1, <1>8, <1>9 DEF RootsSurvive, RootsIn, Register
<1>13. SurvivorsHold'
  <2>1. ASSUME NEW a \in Survivors
        PROVE  Within(heap'[a], Survivors) /\ HasClass(heap[a])'
    <3>1. a \in DOMAIN heap /\ Within(heap[a], Survivors) /\ HasClass(heap[a])
          /\ Survivors \subseteq DOMAIN heap
      BY <1>1 DEF SurvivorsHold, Survivors
    <3>2. Within(heap[a], DOMAIN heap)
      BY <3>1 DEF Within
    <3> QED
      BY <1>7, <3>1, <3>2
  <2> QED
    BY <1>9, <2>1 DEF SurvivorsHold
<1>14. Swept'
  <2>1. \A i \in 1 .. Len(all) : i < at + 1 => i < at \/ i = at
    BY <1>1
  <2>2. \A i \in 1 .. Len(all) : i < at + 1 => ~heap'[all[i]].marked
    BY <1>1, <1>3, <1>4, <2>1 DEF Swept, AllTracked
  <2>3. at + 1 <= Len(all) + 1
    BY <1>1
  <2> QED
    BY <1>1, <1>7, <1>9, <2>2, <2>3 DEF Swept
<1>15. Traced' /\ Tricolour'
  BY DEF Traced, Tricolour
<1> QED
  BY <1>7, <1>10, <1>11, <1>12, <1>13, <1>14, <1>15 DEF IInv

LEMMA SweepDeletes ==
  ASSUME IInv, phase = "sweeping", at <= Len(all), ~heap[all[at]].marked,
         heap' = [a \in DOMAIN heap \ {all[at]} |-> heap[a]], all' = RemoveAt(all, at),
         UNCHANGED <<at, phase, grays, roots, limit>>
  PROVE  IInv'
<1> DEFINE x == all[at]
           n == Len(all)
<1>1. Typed /\ AllTracked /\ Swept /\ RootsSurvive /\ SurvivorsHold
      /\ n \in Nat /\ at \in Nat \ {0} /\ at \in 1 .. n /\ x \in DOMAIN heap
  BY LenProperties DEF IInv, Typed, AllTracked
<1>2. /\ DOMAIN heap' = DOMAIN heap \ {x}
      /\ \A a \in DOMAIN heap' : heap'[a] = heap[a]
  OBVIOUS
<1>3. /\ all' \in Seq(Address) /\ Len(all') = n - 1
      /\ \A j \in 1 .. n - 1 : all'[j] = all[IF j < at THEN j ELSE j + 1]
  BY <1>1, RemoveAtFacts DEF Typed
<1>4. ASSUME NEW j \in 1 .. n - 1
      PROVE  /\ j < at => j \in 1 .. n /\ all'[j] = all[j] /\ j # at
             /\ ~(j < at) => j + 1 \in 1 .. n /\ all'[j] = all[j + 1] /\ j + 1 # at /\ ~(j + 1 < at)
  <2>1. all'[j] = all[IF j < at THEN j ELSE j + 1]
    BY <1>3
  <2> HIDE DEF n
  <2>2. j < at => j \in 1 .. n /\ j # at
    BY <1>1
  <2>3. ~(j < at) => j + 1 \in 1 .. n /\ j + 1 # at /\ ~(j + 1 < at)
    BY <1>1
  <2> QED
    BY <2>1, <2>2, <2>3
<1>5. ASSUME NEW i \in 1 .. n, i # at
      PROVE  /\ i < at => i \in 1 .. n - 1 /\ all'[i] = all[i]
             /\ ~(i < at) => i - 1 \in 1 .. n - 1 /\ all'[i - 1] = all[i] /\ ~(i - 1 < at)
  <2>1. CASE i < at
    BY <1>1, <1>3, <2>1
  <2>2. CASE ~(i < at)
    <3>1. i - 1 \in 1 .. n - 1 /\ ~(i - 1 < at) /\ (i - 1) + 1 = i
      BY <1>1, <1>5, <2>2
    <3> QED
      BY <1>3, <2>2, <3>1
  <2> QED
    BY <2>1, <2>2
<1>6. AllTracked'
  <2>1. \A j \in 1 .. n - 1 : all'[j] \in DOMAIN heap'
    BY <1>1, <1>2, <1>4 DEF AllTracked
  <2>2. \A a \in DOMAIN heap' : \E j \in 1 .. n - 1 : all'[j] = a
    <3> SUFFICES ASSUME NEW a \in DOMAIN heap' PROVE \E j \in 1 .. n - 1 : all'[j] = a
      OBVIOUS
    <3>1. PICK i \in 1 .. n : all[i] = a
      BY <1>1, <1>2 DEF AllTracked
    <3>2. i # at
      BY <1>2, <3>1
    <3> QED
      BY <1>5, <3>1, <3>2
  <2>3. ASSUME NEW j \in 1 .. n - 1, NEW k \in 1 .. n - 1, all'[j] = all'[k] PROVE j = k
    <3>1. \A i, l \in 1 .. n : all[i] = all[l] => i = l
      BY <1>1 DEF AllTracked
    <3>2. j \in Nat /\ k \in Nat
      OBVIOUS
    <3>3. CASE j < at /\ k < at
      BY <1>4, <2>3, <3>1, <3>3
    <3>4. CASE ~(j < at) /\ ~(k < at)
      BY <1>4, <2>3, <3>1, <3>2, <3>4
    <3>5. CASE j < at /\ ~(k < at)
      BY <1>4, <2>3, <3>1, <3>5
    <3>6. CASE ~(j < at) /\ k < at
      BY <1>4, <2>3, <3>1, <3>6
    <3> QED
      BY <3>3, <3>4, <3>5, <3>6
  <2> HIDE DEF n
  <2> QED
    BY <1>3, <2>1, <2>2, <2>3 DEF AllTracked
<1>7. x \notin Survivors
  BY <1>1 DEF Survivors, AllTracked
<1>8. Survivors' = Survivors
  <2>1. ASSUME NEW a \in DOMAIN heap, a # x
        PROVE  (\E j \in 1 .. Len(all') : j < at /\ all'[j] = a) <=> \E i \in 1 .. n : i < at /\ all[i] = a
    <3>1. ASSUME NEW j \in 1 .. Len(all'), j < at, all'[j] = a PROVE \E i \in 1 .. n : i < at /\ all[i] = a
      BY <1>3, <1>4, <3>1
    <3>2. ASSUME NEW i \in 1 .. n, i < at, all[i] = a
          PROVE  \E j \in 1 .. Len(all') : j < at /\ all'[j] = a
      BY <1>1, <1>3, <1>5, <3>2
    <3> QED
      BY <3>1, <3>2
  <2> QED
    BY <1>2, <1>7, <2>1 DEF Survivors
<1>9. UNCHANGED <<registers, calls, slots, cached, interned>>
  BY DEF roots
<1>10. Typed'
  <2>1. Address' = Address /\ ObjectType' = ObjectType
    BY DEF Address, ObjectType
  <2> QED
    BY <1>1, <1>2, <1>3, <2>1 DEF Typed
<1>11. Fits' /\ FramesFit'
  BY <1>2, <1>9 DEF IInv, Fits, FitsType, FitsIn, FramesFit
<1>12. RootsSurvive'
  BY <1>1, <1>8, <1>9 DEF RootsSurvive, RootsIn, Register
<1>13. SurvivorsHold'
  <2>1. ASSUME NEW a \in Survivors PROVE Within(heap'[a], Survivors) /\ HasClass(heap[a])'
    <3>1. a \in DOMAIN heap' /\ Within(heap[a], Survivors) /\ HasClass(heap[a])
          /\ Survivors \subseteq DOMAIN heap'
      BY <1>1, <1>2, <1>7 DEF SurvivorsHold, Survivors
    <3> QED
      BY <1>2, <3>1 DEF HasClass, Within
  <2> QED
    BY <1>8, <2>1 DEF SurvivorsHold
<1>14. Survivors \subseteq Kept'
  <2>1. ASSUME NEW s \in SUBSET Address, Roots \ {None} \subseteq s, Closed(s)'
        PROVE  Kept \subseteq s
    <3> DEFINE t == s \cap Survivors
    <3>1. Roots \ {None} \subseteq t
      BY <2>1, SweptFacts
    <3>2. Closed(t)
      <4> SUFFICES ASSUME NEW a \in t PROVE LeadsTo(heap[a]) \ {None} \subseteq t
        BY DEF Closed
      <4>1. a \in DOMAIN heap' /\ heap'[a] = heap[a]
        BY <1>2, <1>7 DEF Survivors
      <4>2. LeadsTo(heap[a])' = LeadsTo(heap[a])
        BY <1>9, <4>1 DEF LeadsTo
      <4>3. LeadsTo(heap[a]) \ {None} \subseteq s
        BY <2>1, <4>1, <4>2 DEF Closed
      <4> QED
        BY <4>3, SweptFacts
    <3>3. Kept \subseteq t
      BY <3>1, <3>2, KeptIsLeast
    <3> QED
      BY <3>3
  <2>2. Survivors \subseteq Kept /\ Survivors \subseteq Address
    BY <1>1 DEF Swept, Survivors, Typed
  <2>3. Roots' = Roots /\ Address' = Address
    BY <1>9 DEF Roots, ValuesOf, Address
  <2> QED
    BY <2>1, <2>2, <2>3 DEF Kept, Reached
<1>15. Swept'
  <2>1. at <= Len(all') + 1
    BY <1>1, <1>3
  <2>2. ASSUME NEW j \in 1 .. Len(all'), j < at PROVE ~heap'[all'[j]].marked
    BY <1>1, <1>2, <1>3, <1>4, <1>6, <2>2 DEF Swept, AllTracked
  <2> QED
    BY <1>1, <1>8, <1>14, <2>1, <2>2 DEF Swept
<1>16. Traced' /\ Tricolour'
  BY DEF Traced, Tricolour
<1> QED
  BY <1>6, <1>10, <1>11, <1>12, <1>13, <1>15, <1>16 DEF IInv

LEMMA SweepStep ==
  ASSUME IInv, Sweep
  PROVE  IInv'
BY SweepEnds, SweepUnmarks, SweepDeletes DEF Sweep
-----------------------------------------------------------------------------
(* Theorems.                                                                *)

LEMMA InitInv == HeapInit => IInv
<1> SUFFICES ASSUME HeapInit PROVE IInv
  OBVIOUS
<1>1. /\ heap = <<>> /\ all = <<>> /\ grays = <<>> /\ phase = "running" /\ at = 1
      /\ limit \in Limits /\ registers = Nowhere /\ calls = <<>> /\ slots = <<None>>
      /\ cached = [p \in ModulePath |-> None] /\ interned = None
  BY DEF HeapInit
<1>2. DOMAIN heap = {} /\ heap \in [DOMAIN heap -> ObjectType]
  BY <1>1
<1>3. Len(all) = 0 /\ Len(calls) = 0 /\ all \in Seq(Address) /\ grays \in Seq(Address)
  BY <1>1
<1>4. Typed
  BY <1>1, <1>2, <1>3, LimitsAssumption DEF Typed
<1>5. Fits /\ FramesFit /\ AllTracked
  BY <1>2, <1>3 DEF Fits, FramesFit, AllTracked
<1>6. Resting
  BY <1>1, <1>2 DEF Resting, RootsIn, Nowhere
<1> QED
  BY <1>4, <1>5, <1>6, RestingInv

LEMMA NextInv == IInv /\ [HeapNext]_heapVars => IInv'
<1> SUFFICES ASSUME IInv, [HeapNext]_heapVars PROVE IInv'
  OBVIOUS
<1>1. CASE HeapNext
  BY <1>1, NewStep, WriteStep, ConstantStep, StoreGlobalStep, ReadStep, CallStep, ImportModuleStep,
     RaiseStep, PopFrameStep, RunProgramStep, MarkRootsStep, TraceStep, SweepStep DEF HeapNext
<1>2. CASE UNCHANGED heapVars
  <2>1. UNCHANGED <<heap, all, grays, phase, at, registers, calls, slots, cached, interned, limit>>
    BY <1>2 DEF heapVars, collector, roots
  <2>2. Typed' /\ Fits' /\ FramesFit' /\ AllTracked'
    BY <2>1 DEF IInv, Typed, ObjectType, Address, Fits, FitsType, FitsIn, FramesFit, AllTracked
  <2>3. Survivors' = Survivors /\ Kept' = Kept /\ Roots' = Roots
    BY <2>1 DEF Survivors, Kept, Reached, Roots, ValuesOf, Closed, LeadsTo, Address
  <2>4. RootsSurvive' /\ SurvivorsHold'
    BY <2>1, <2>3 DEF IInv, RootsSurvive, RootsIn, SurvivorsHold, Within, HasClass, Register
  <2>5. Traced' /\ Swept' /\ Tricolour'
    BY <2>1, <2>3 DEF IInv, Traced, Swept, Tricolour, LeadsTo
  <2> QED
    BY <2>2, <2>4, <2>5 DEF IInv
<1> QED
  BY <1>1, <1>2

\* The inductive invariant: objects are what their type says, what survives refers to
\* what survives, tracing marks what is kept and sweeping takes the rest.
THEOREM Invariant == HeapSpec => []IInv
  BY InitInv, NextInv, PTL DEF HeapSpec

\* A program never reaches a freed object, however long it runs and whenever
\* collect() comes: through no register, frame, environment, module or string, nor
\* through anything they lead to.
THEOREM NothingLostHolds == HeapSpec => []NothingLost
<1>1. IInv => NothingLost
  <2> SUFFICES ASSUME IInv PROVE Reachable \subseteq Survivors
    BY DEF NothingLost, Survivors
  <2> DEFINE from == ValuesOf(registers) \cup ValuesOf(cached) \cup {interned}
                     \cup {calls[i].func : i \in DOMAIN calls}
                     \cup {calls[i].module : i \in DOMAIN calls}
                     \cup {slots[e] : e \in {RootEnvironment} \cup {calls[i].env : i \in DOMAIN calls}}
  <2>1. RootsIn(Survivors) /\ Survivors \subseteq DOMAIN heap /\ DOMAIN heap \subseteq Address
    BY DEF IInv, RootsSurvive, Survivors, Typed
  <2>2. \A i \in DOMAIN calls : /\ calls[i].func \in Survivors \cup {None}
                                /\ calls[i].module \in Survivors \cup {None}
                                /\ calls[i].env \in 1 .. Len(slots)
    <3> DEFINE F == Frames(Survivors)
    <3>1. calls \in Seq(F)
      BY <2>1 DEF RootsIn, Frames
    <3> HIDE DEF F
    <3>2. \A i \in DOMAIN calls : i \in 1 .. Len(calls) /\ calls[i] \in F
      BY <3>1, LenProperties, ElementOfSeq
    <3> QED
      BY <3>2 DEF F, Frames, IInv, FramesFit
  <2>3. RootEnvironment \in 1 .. Len(slots)
    BY <2>1, EmptySeq, LenProperties DEF RootsIn, RootEnvironment
  <2>4. \A e \in 1 .. Len(slots) : slots[e] \in Survivors \cup {None}
    BY <2>1, ElementOfSeq DEF RootsIn
  <2>5. ValuesOf(registers) \cup ValuesOf(cached) \cup {interned} \subseteq Survivors \cup {None}
    BY <2>1 DEF RootsIn, ValuesOf
  <2>6. from \ {None} \subseteq Survivors
    BY <2>2, <2>3, <2>4, <2>5
  <2>7. Closed(Survivors)
    BY <2>1, LeadsWithin DEF IInv, SurvivorsHold, RootsIn, Fits, Closed
  <2>8. Reachable = Reached(from)
    BY DEF Reachable
  <2> HIDE DEF from
  <2> QED
    BY <2>1, <2>6, <2>7, <2>8 DEF Reached
<1> QED
  BY <1>1, Invariant, PTL

\* While it traces, collect() leaves no object it is done with that leads to an
\* unmarked one, and it leaves no mark behind.
THEOREM TricolourHolds == HeapSpec => []Tricolour
<1>1. IInv => Tricolour
  BY DEF IInv
<1> QED
  BY <1>1, Invariant, PTL

\* A collection that ends has kept exactly what mark_roots leads to, and m_all lists
\* that, each object once.
THEOREM CollectedExactlyHolds == HeapSpec => CollectedExactly
<1> DEFINE Exactly == DOMAIN heap = Kept /\ ToSet(all) = Kept /\ IsInjective(all)
           Ends    == phase = "sweeping" /\ phase' = "running"
<1>1. IInv /\ [HeapNext]_heapVars => [Ends => Exactly]_heapVars
  <2> SUFFICES ASSUME IInv, HeapNext, Ends PROVE Exactly
    OBVIOUS
  <2>1. Sweep
    BY DEF HeapNext, New, Write, Constant, StoreGlobal, Read, Call, ImportModule, Raise, PopFrame,
           RunProgram, MarkRoots, Trace, Executing
  <2>2. at > Len(all)
    BY <2>1 DEF Sweep
  <2>3. Survivors = DOMAIN heap /\ RootsIn(DOMAIN heap) /\ Typed /\ Fits /\ AllTracked
        /\ \A a \in DOMAIN heap : Within(heap[a], DOMAIN heap)
    BY <2>2, SweptFacts DEF IInv, RootsSurvive, SurvivorsHold
  <2>4. DOMAIN heap = Kept
    BY <2>3, KeptFacts DEF IInv, Swept
  <2>5. DOMAIN all = 1 .. Len(all)
    BY <2>3, LenProperties DEF Typed
  <2>6. ToSet(all) = DOMAIN heap
    <3>1. ToSet(all) \subseteq DOMAIN heap
      BY <2>3, <2>5 DEF AllTracked, ToSet
    <3>2. DOMAIN heap \subseteq ToSet(all)
      BY <2>3, <2>5 DEF AllTracked, ToSet
    <3> QED
      BY <3>1, <3>2
  <2>7. IsInjective(all)
    BY <2>3, <2>5 DEF AllTracked, IsInjective
  <2> QED
    BY <2>4, <2>6, <2>7
<1> QED
  BY <1>1, Invariant, PTL DEF HeapSpec, CollectedExactly
=============================================================================
