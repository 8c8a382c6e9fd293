------------------------- MODULE ModuleLoaderProofs -------------------------
(***************************************************************************)
(* For any number of modules, sources, runs and frames: the executing      *)
(* flags are exactly the modules on the frame stack, each of them cached,  *)
(* a name is bound to the cached module only, and the loader implements    *)
(* ImportOnce.                                                             *)
(***************************************************************************)
EXTENDS ModuleLoader, SequenceFacts

\* What load_module keeps true of the objects and the cache in every order of
\* steps, also between publishing a module and giving it a frame.
WellFormed(objs, published) ==
  /\ objs \in Seq(ModuleType)
  /\ published \in [Path -> 0 .. Len(objs)]
  /\ \A p \in Path : published[p] # 0 => objs[published[p]].path = p
  /\ \A o \in 1 .. Len(objs) :
        objs[o].executing => published[objs[o].path] = o /\ ~objs[o].initialized

FrameType(n) == [module : 0 .. n, pc : Nat \ {0}]

\* A module's frame runs a body that was compiled; the first frame is the program's.
FrameBodies ==
  \A i \in 1 .. Len(frames) :
     IF i = 1 THEN frames[i].module = 0
     ELSE frames[i].module # 0 /\ objects[frames[i].module].body # Invalid

\* Between steps no cached module is one that has yet to be started.
NoneUnstarted == \A p \in Path : cache[p] # 0 => AtOnce(objects[cache[p]])

IInv == /\ TypeOK
        /\ WellFormed(objects, cache)
        /\ ExecutingIsOnStack
        /\ FrameBodies
        /\ NoneUnstarted
-----------------------------------------------------------------------------
(* The helpers of the actions.                                              *)

LEMMA ObjectFacts ==
  ASSUME NEW objs \in Seq(ModuleType)
  PROVE  /\ Len(objs) \in Nat
         /\ DOMAIN objs = 1 .. Len(objs)
         /\ \A o \in 1 .. Len(objs) : objs[o] \in ModuleType /\ objs[o].path \in Path
<1>1. Len(objs) \in Nat /\ DOMAIN objs = 1 .. Len(objs)
  BY LenProperties
<1>2. \A o \in 1 .. Len(objs) : objs[o] \in ModuleType
  BY ElementOfSeq
<1>3. \A m \in ModuleType : m.path \in Path
  BY DEF ModuleType
<1> QED
  BY <1>1, <1>2, <1>3

LEMMA FramesGrow ==
  ASSUME NEW m \in Nat, NEW n \in Nat, m <= n, NEW fs \in Seq(FrameType(m))
  PROVE  fs \in Seq(FrameType(n))
<1>1. FrameType(m) \subseteq FrameType(n)
  BY DEF FrameType
<1> QED
  BY <1>1, SeqMonotonic

LEMMA FrameFacts ==
  ASSUME IInv
  PROVE  /\ frames \in Seq(FrameType(Len(objects)))
         /\ Len(frames) \in Nat /\ Len(objects) \in Nat
         /\ \A i \in 1 .. Len(frames) : frames[i] \in FrameType(Len(objects))
         /\ Running <=> Len(frames) > 0
<1>1. frames \in Seq(FrameType(Len(objects))) /\ Len(objects) \in Nat
  BY ObjectFacts DEF IInv, TypeOK, WellFormed, FrameType
<1>2. Len(frames) \in Nat /\ \A i \in 1 .. Len(frames) : frames[i] \in FrameType(Len(objects))
  BY <1>1, LenProperties, ElementOfSeq
<1>3. Running <=> Len(frames) > 0
  BY <1>1, <1>2, EmptySeq DEF Running
<1> QED
  BY <1>1, <1>2, <1>3

\* SAVE_IP moves no frame.
LEMMA AdvancedFacts ==
  ASSUME NEW n \in Nat, NEW fs \in Seq(FrameType(n)), fs # <<>>
  PROVE  /\ Advanced(fs) \in Seq(FrameType(n))
         /\ Len(Advanced(fs)) = Len(fs) /\ Len(fs) \in Nat \ {0}
         /\ \A i \in 1 .. Len(fs) : Advanced(fs)[i].module = fs[i].module
<1> DEFINE k    == Len(fs)
           last == [fs[k] EXCEPT !.pc = @ + 1]
<1>1. k \in Nat \ {0}
  BY EmptySeq
<1>2. fs[k] \in FrameType(n)
  BY <1>1, ElementOfSeq
<1>3. last \in FrameType(n) /\ last.module = fs[k].module
  BY <1>2 DEF FrameType
<1>4. Advanced(fs) = [fs EXCEPT ![k] = last]
  BY DEF Advanced
<1> HIDE DEF last
<1>5. /\ Advanced(fs) \in Seq(FrameType(n)) /\ Len(Advanced(fs)) = k
      /\ \A i \in 1 .. k : Advanced(fs)[i] = IF i = k THEN last ELSE fs[i]
  BY <1>1, <1>3, <1>4, ExceptSeq
<1> QED
  BY <1>1, <1>3, <1>5

\* Two lists of objects that differ only in the names bound in them.
SameButNames(objs, objs2) ==
  /\ Len(objs2) = Len(objs)
  /\ \A o \in 1 .. Len(objs) :
        /\ objs2[o].path = objs[o].path /\ objs2[o].body = objs[o].body
        /\ objs2[o].initialized = objs[o].initialized
        /\ objs2[o].executing = objs[o].executing

LEMMA BindFacts ==
  ASSUME NEW objs \in Seq(ModuleType), Len(objs) = Len(objects),
         root \in [Path -> 0 .. Len(objects)],
         NEW f \in FrameType(Len(objs)), NEW p \in Path, NEW o \in 1 .. Len(objs),
         Bind(objs, f, p, o)
  PROVE  /\ objects' \in Seq(ModuleType)
         /\ SameButNames(objs, objects')
         /\ root' \in [Path -> 0 .. Len(objs)]
<1>1. CASE f.module = 0
  BY <1>1, ObjectFacts DEF Bind, SameButNames
<1>2. CASE f.module # 0
  <2> DEFINE k == f.module
             e == [objs[k] EXCEPT !.names[p] = o]
  <2>1. k \in 1 .. Len(objs)
    BY <1>2, ObjectFacts DEF FrameType
  <2>2. objs[k] \in ModuleType /\ o \in Nat
    BY <2>1, ObjectFacts
  <2>3. /\ e \in ModuleType /\ e.path = objs[k].path /\ e.body = objs[k].body
        /\ e.initialized = objs[k].initialized /\ e.executing = objs[k].executing
    BY <2>2 DEF ModuleType
  <2>4. objects' = [objs EXCEPT ![k] = e] /\ UNCHANGED root
    BY <1>2 DEF Bind
  <2> HIDE DEF e, k
  <2>5. /\ objects' \in Seq(ModuleType) /\ Len(objects') = Len(objs)
        /\ \A j \in 1 .. Len(objs) : objects'[j] = IF j = k THEN e ELSE objs[j]
    BY <2>1, <2>3, <2>4, ExceptSeq
  <2> QED
    BY <2>3, <2>4, <2>5 DEF SameButNames
<1> QED
  BY <1>1, <1>2

\* What load_module made of the objects and the cache initialized no module, and
\* replaced none that was cached.
SameDone(objs, published) ==
  \A q \in Path : /\ (published[q] # 0 /\ objs[published[q]].initialized)
                     <=> (cache[q] # 0 /\ objects[cache[q]].initialized)
                  /\ cache[q] # 0 => published[q] = cache[q]

\* The ways a step ends: an error, a name bound in a frame that goes on, ...
Failed == \E objs, published : /\ WellFormed(objs, published) /\ Len(objects) <= Len(objs)
                               /\ SameDone(objs, published)
                               /\ Fails(objs, published)

Moves == /\ UNCHANGED <<files, cache, code, runs, saves>>
         /\ objects' \in Seq(ModuleType) /\ SameButNames(objects, objects')
         /\ root' \in [Path -> 0 .. Len(objects)]
         /\ Running /\ frames' = Advanced(frames)

\* What load_module hands to IMPORT_MODULE.
LEMMA PublishedFacts ==
  ASSUME IInv, NEW p \in Path, files[p] # Missing
  PROVE  LET l == Published(p) IN
         /\ WellFormed(l.objects, l.cache)
         /\ l.module \in 1 .. Len(l.objects)
         /\ l.cache[p] = l.module /\ l.objects[l.module].path = p
         /\ cache[p] # 0 => l = [objects |-> objects, cache |-> cache, module |-> cache[p]]
         /\ cache[p] = 0 =>
              /\ Len(l.objects) = Len(objects) + 1 /\ l.module = Len(objects) + 1
              /\ l.cache = [cache EXCEPT ![p] = Len(objects) + 1]
              /\ l.objects[l.module] = ModuleObject(p, files[p])
              /\ \A o \in 1 .. Len(objects) : l.objects[o] = objects[o]
<1> DEFINE l == Published(p)
           new == ModuleObject(p, files[p])
<1>1. objects \in Seq(ModuleType) /\ Len(objects) \in Nat /\ WellFormed(objects, cache)
  BY ObjectFacts DEF IInv, WellFormed
<1>2. CASE cache[p] # 0
  <2>1. l = [objects |-> objects, cache |-> cache, module |-> cache[p]]
    BY <1>2 DEF Published
  <2>2. cache[p] \in 1 .. Len(objects) /\ objects[cache[p]].path = p
    BY <1>1, <1>2 DEF WellFormed
  <2> QED
    BY <1>1, <1>2, <2>1, <2>2
<1>3. CASE cache[p] = 0
  <2>1. /\ l.objects = Append(objects, new)
        /\ l.cache = [cache EXCEPT ![p] = Len(objects) + 1]
        /\ l.module = Len(objects) + 1
    BY <1>3 DEF Published
  <2>2. /\ new \in ModuleType /\ new.path = p /\ new.executing = FALSE
    BY DEF IInv, TypeOK, ModuleType, ModuleObject, Unbound
  <2> HIDE DEF l, new
  <2>3. /\ l.objects \in Seq(ModuleType) /\ Len(l.objects) = Len(objects) + 1
        /\ l.objects[Len(objects) + 1] = new
        /\ \A o \in 1 .. Len(objects) : l.objects[o] = objects[o]
    BY <1>1, <2>1, <2>2, AppendFacts
  <2>4. l.cache \in [Path -> 0 .. Len(l.objects)]
    BY <1>1, <2>1, <2>3 DEF WellFormed
  <2>5. ASSUME NEW q \in Path, l.cache[q] # 0
        PROVE  l.objects[l.cache[q]].path = q
    BY <1>1, <2>1, <2>2, <2>3, <2>5 DEF WellFormed
  <2>6. ASSUME NEW o \in 1 .. Len(l.objects), l.objects[o].executing
        PROVE  l.cache[l.objects[o].path] = o /\ ~l.objects[o].initialized
    <3>1. o \in 1 .. Len(objects) /\ l.objects[o] = objects[o]
      BY <1>1, <2>2, <2>3, <2>6
    <3>2. cache[objects[o].path] = o /\ ~objects[o].initialized /\ objects[o].path \in Path
      BY <1>1, <2>6, <3>1, ObjectFacts DEF WellFormed
    <3>3. objects[o].path # p
      BY <1>3, <3>1, <3>2
    <3> QED
      BY <1>1, <2>1, <3>1, <3>2, <3>3 DEF WellFormed
  <2>7. WellFormed(l.objects, l.cache)
    BY <2>3, <2>4, <2>5, <2>6 DEF WellFormed
  <2>8. /\ l.module \in 1 .. Len(l.objects)
        /\ l.cache[p] = l.module /\ l.objects[l.module].path = p
    BY <1>1, <2>1, <2>2, <2>3 DEF WellFormed
  <2>9. l.objects[l.module] = new
    BY <2>1, <2>3
  <2> QED
    BY <1>3, <2>1, <2>3, <2>7, <2>8, <2>9 DEF l, new
<1> QED
  BY <1>2, <1>3
-----------------------------------------------------------------------------
(* Each way a step ends keeps the invariant.                                *)

LEMMA TypeKept ==
  ASSUME IInv, UNCHANGED <<files, code, runs, saves>>,
         objects' \in Seq(ModuleType),
         cache' \in [Path -> 0 .. Len(objects')], root' \in [Path -> 0 .. Len(objects')],
         frames' \in Seq(FrameType(Len(objects'))), Len(frames') <= MaxFrames
  PROVE  TypeOK'
<1>1. /\ files' \in [Path -> Source] /\ code' \in Programs \cup {<<>>}
      /\ runs' \in 0 .. MaxRuns /\ saves' \in 0 .. MaxSaves
  BY DEF IInv, TypeOK
<1> QED
  BY <1>1 DEF TypeOK, FrameType

\* An error leaves no frame, no running module and no cached one half done.
LEMMA FailedKeeps == ASSUME IInv, Failed PROVE IInv'
<1> PICK objs, published : /\ WellFormed(objs, published) /\ Len(objects) <= Len(objs)
                           /\ Fails(objs, published)
  BY DEF Failed
<1> DEFINE partial(q) == published[q] # 0 /\ ~objs[published[q]].initialized
           reset(o) == partial(objs[o].path) /\ published[objs[o].path] = o
<1>1. /\ objs \in Seq(ModuleType) /\ Len(objs) \in Nat /\ DOMAIN objs = 1 .. Len(objs)
      /\ \A o \in 1 .. Len(objs) : objs[o] \in ModuleType /\ objs[o].path \in Path
      /\ published \in [Path -> 0 .. Len(objs)]
  BY ObjectFacts DEF WellFormed
<1>2. /\ cache' = [q \in Path |-> IF partial(q) THEN 0 ELSE published[q]]
      /\ objects' = [o \in 1 .. Len(objs) |->
                       IF reset(o) THEN [objs[o] EXCEPT !.executing = FALSE] ELSE objs[o]]
      /\ frames' = <<>>
      /\ UNCHANGED <<files, root, code, runs, saves>>
  BY <1>1 DEF Fails, Unwind
<1>3. \A o \in 1 .. Len(objs) : ~reset(o) => objs[o].executing = FALSE
  <2>1. \A m \in ModuleType : m.executing \in BOOLEAN
    BY DEF ModuleType
  <2>2. ASSUME NEW o \in 1 .. Len(objs), ~reset(o), objs[o].executing
        PROVE  FALSE
    <3>1. published[objs[o].path] = o /\ ~objs[o].initialized
      BY <2>2 DEF WellFormed
    <3> QED
      BY <2>2, <3>1
  <2> QED
    BY <1>1, <2>1, <2>2
<1>4. \A o \in 1 .. Len(objs) : /\ objects'[o] \in ModuleType
                                /\ objects'[o].executing = FALSE
                                /\ objects'[o].path = objs[o].path
                                /\ objects'[o].initialized = objs[o].initialized
  <2> SUFFICES ASSUME NEW o \in 1 .. Len(objs)
               PROVE  /\ objects'[o] \in ModuleType /\ objects'[o].executing = FALSE
                      /\ objects'[o].path = objs[o].path
                      /\ objects'[o].initialized = objs[o].initialized
    OBVIOUS
  <2>1. objs[o] \in ModuleType
    BY <1>1
  <2>2. CASE reset(o)
    <3>1. objects'[o] = [objs[o] EXCEPT !.executing = FALSE]
      BY <1>2, <2>2
    <3> QED
      BY <2>1, <3>1 DEF ModuleType
  <2>3. CASE ~reset(o)
    <3>1. objects'[o] = objs[o]
      BY <1>2, <2>3
    <3> QED
      BY <1>3, <2>1, <2>3, <3>1
  <2> QED
    BY <2>2, <2>3
<1>5. objects' \in Seq(ModuleType) /\ Len(objects') = Len(objs)
  <2>1. DOMAIN objects' = 1 .. Len(objs) /\ objects' = [o \in 1 .. Len(objs) |-> objects'[o]]
    BY <1>2
  <2>2. objects' \in [1 .. Len(objs) -> ModuleType]
    BY <1>4, <2>1
  <2>3. objects' \in Seq(ModuleType)
    BY <1>1, <2>2, SeqDef
  <2> QED
    BY <1>1, <2>1, <2>3, LenProperties
<1>6. WellFormed(objects', cache')
  <2>1. cache' \in [Path -> 0 .. Len(objs)]
    BY <1>1, <1>2
  <2>2. ASSUME NEW q \in Path, cache'[q] # 0 PROVE objects'[cache'[q]].path = q
    <3>1. cache'[q] = published[q] /\ published[q] \in 1 .. Len(objs)
      BY <1>1, <1>2, <2>2
    <3>2. objs[published[q]].path = q
      BY <2>2, <3>1 DEF WellFormed
    <3> QED
      BY <1>4, <3>1, <3>2
  <2> QED
    BY <1>4, <1>5, <2>1, <2>2 DEF WellFormed
<1>7. NoneUnstarted'
  <2> SUFFICES ASSUME NEW q \in Path, cache'[q] # 0
               PROVE  objects'[cache'[q]].initialized
    BY DEF NoneUnstarted, AtOnce
  <2>1. ~partial(q) /\ cache'[q] = published[q] /\ published[q] \in 1 .. Len(objs)
    BY <1>1, <1>2
  <2> QED
    BY <1>4, <2>1
<1>8. Len(objects') \in Nat /\ Len(frames') = 0
  BY <1>1, <1>2, <1>5, EmptySeq
<1>9. ExecutingIsOnStack' /\ FrameBodies'
  BY <1>1, <1>4, <1>5, <1>8, ObjectFacts DEF ExecutingIsOnStack, FrameBodies
<1>10. TypeOK'
  <2>1. root' \in [Path -> 0 .. Len(objects')]
    BY <1>1, <1>2, <1>5, ObjectFacts DEF IInv, TypeOK
  <2>2. frames' \in Seq(FrameType(Len(objects')))
    BY <1>2, EmptySeq
  <2>3. cache' \in [Path -> 0 .. Len(objects')]
    BY <1>6 DEF WellFormed
  <2>4. Len(frames') <= MaxFrames
    BY <1>8, ConstantsAssumption
  <2> QED
    BY <1>2, <1>5, <2>1, <2>2, <2>3, <2>4, TypeKept
<1> QED
  BY <1>6, <1>7, <1>9, <1>10 DEF IInv

\* A step that only binds names and moves on in a frame.
LEMMA MovesKeep == ASSUME IInv, Moves PROVE IInv'
<1> USE DEF Moves
<1>1. /\ frames \in Seq(FrameType(Len(objects))) /\ frames # <<>>
      /\ Len(frames) \in Nat /\ Len(objects) \in Nat
  BY FrameFacts DEF Running
<1>2. /\ frames' \in Seq(FrameType(Len(objects))) /\ Len(frames') = Len(frames)
      /\ \A i \in 1 .. Len(frames) : frames'[i].module = frames[i].module
  BY <1>1, AdvancedFacts
<1>3. /\ Len(objects') = Len(objects)
      /\ \A o \in 1 .. Len(objects) :
            /\ objects'[o].path = objects[o].path /\ objects'[o].body = objects[o].body
            /\ objects'[o].initialized = objects[o].initialized
            /\ objects'[o].executing = objects[o].executing
            /\ objects[o].path \in Path
  BY ObjectFacts DEF SameButNames, IInv, WellFormed
<1>11. \A o \in 1 .. Len(objects) :
          /\ objects'[o].initialized <=> objects[o].initialized
          /\ objects'[o].executing <=> objects[o].executing
  BY <1>3, Zenon
<1>4. /\ cache' = cache /\ cache \in [Path -> 0 .. Len(objects)]
      /\ \A p \in Path : cache[p] # 0 => objects[cache[p]].path = p /\ AtOnce(objects[cache[p]])
      /\ \A o \in 1 .. Len(objects) :
            objects[o].executing => cache[objects[o].path] = o /\ ~objects[o].initialized
  BY DEF IInv, WellFormed, NoneUnstarted
<1>5. \A i \in 1 .. Len(frames) : frames[i].module \in 0 .. Len(objects)
  BY FrameFacts DEF FrameType
<1>6. TypeOK'
  <2>1. Len(frames) <= MaxFrames
    BY DEF IInv, TypeOK
  <2> QED
    BY <1>2, <1>3, <1>4, <2>1, TypeKept
<1>7. WellFormed(objects', cache')
  BY <1>3, <1>4 DEF WellFormed
<1>8. NoneUnstarted'
  <2> SUFFICES ASSUME NEW p \in Path, cache[p] # 0
               PROVE  objects'[cache[p]].initialized \/ objects'[cache[p]].executing
    BY <1>4 DEF NoneUnstarted, AtOnce
  <2>1. cache[p] \in 1 .. Len(objects)
    BY <1>1, <1>4
  <2>2. objects[cache[p]].initialized \/ objects[cache[p]].executing
    BY <1>4 DEF AtOnce
  <2> QED
    BY <2>1, <2>2, <1>11, Zenon
<1>9. FrameBodies'
  <2> SUFFICES ASSUME NEW i \in 1 .. Len(frames)
               PROVE  IF i = 1 THEN frames'[i].module = 0
                      ELSE frames'[i].module # 0 /\ objects'[frames'[i].module].body # Invalid
    BY <1>2 DEF FrameBodies
  <2>1. IF i = 1 THEN frames[i].module = 0
        ELSE frames[i].module # 0 /\ objects[frames[i].module].body # Invalid
    BY DEF IInv, FrameBodies
  <2> QED
    BY <1>2, <1>3, <1>5, <2>1
<1>10. ExecutingIsOnStack'
  <2>1. DOMAIN objects = 1 .. Len(objects) /\ DOMAIN objects' = 1 .. Len(objects)
    BY <1>3, ObjectFacts DEF IInv, WellFormed
  <2>2. ASSUME NEW o \in 1 .. Len(objects)
        PROVE  objects'[o].executing <=> \E i \in 2 .. Len(frames') : frames'[i].module = o
    <3>1. objects[o].executing <=> \E i \in 2 .. Len(frames) : frames[i].module = o
      BY <2>1 DEF IInv, ExecutingIsOnStack
    <3>2. (\E i \in 2 .. Len(frames') : frames'[i].module = o)
            <=> \E i \in 2 .. Len(frames) : frames[i].module = o
      <4>1. 2 .. Len(frames') = 2 .. Len(frames)
        BY <1>2
      <4>2. \A i \in 2 .. Len(frames) : frames'[i].module = frames[i].module
        BY <1>1, <1>2
      <4> QED
        BY <4>1, <4>2, Zenon
    <3> QED
      BY <1>11, <3>1, <3>2, Zenon
  <2>3. ASSUME NEW i \in 2 .. Len(frames), NEW j \in 2 .. Len(frames)
        PROVE  /\ i # j => frames'[i].module # frames'[j].module
               /\ cache[objects'[frames'[i].module].path] = frames'[i].module
    <3>1. /\ i # j => frames[i].module # frames[j].module
          /\ cache[objects[frames[i].module].path] = frames[i].module
      BY DEF IInv, ExecutingIsOnStack
    <3>2. frames[i].module \in 1 .. Len(objects)
      BY <1>1, <1>5 DEF IInv, FrameBodies
    <3> QED
      BY <1>1, <1>2, <1>3, <3>1, <3>2
  <2> QED
    BY <1>2, <1>4, <2>1, <2>2, <2>3 DEF ExecutingIsOnStack
<1> QED
  BY <1>6, <1>7, <1>8, <1>9, <1>10 DEF IInv
-----------------------------------------------------------------------------
(* The actions.                                                             *)

\* The statement a frame has reached is one.
LEMMA NowFacts ==
  ASSUME IInv, Running, ~AtEnd
  PROVE  /\ Top \in FrameType(Len(objects)) /\ Now \in Statement
         /\ Now.op \in {"import", "use"} => Now.path \in Path
<1>1. /\ Len(frames) \in Nat \ {0} /\ Len(objects) \in Nat
      /\ Top \in FrameType(Len(objects))
  BY FrameFacts DEF Top
<1>2. Body(Top) \in Seq(Statement)
  <2>1. CASE Top.module = 0
    <3>1. code \in Seq(Statement)
      BY ConstantsAssumption, EmptySeq DEF IInv, TypeOK
    <3> QED
      BY <2>1, <3>1 DEF Body
  <2>2. CASE Top.module # 0
    <3>1. Top.module \in 1 .. Len(objects) /\ objects[Top.module].body # Invalid
      BY <1>1, <2>2 DEF IInv, FrameBodies, Top, FrameType
    <3>2. objects[Top.module] \in ModuleType
      BY <3>1, ObjectFacts DEF IInv, WellFormed
    <3>3. objects[Top.module].body \in Source \ {Missing}
      BY <3>2 DEF ModuleType
    <3>4. objects[Top.module].body \in Seq(Statement)
      BY <3>1, <3>3, ConstantsAssumption
    <3> QED
      BY <2>2, <3>4 DEF Body
  <2> QED
    BY <2>1, <2>2
<1>3. Len(Body(Top)) \in Nat /\ Top.pc \in Nat \ {0}
  BY <1>1, <1>2, LenProperties DEF FrameType
<1>4. Top.pc \in 1 .. Len(Body(Top))
  BY <1>3 DEF AtEnd
<1>5. Now \in Statement
  BY <1>2, <1>4, ElementOfSeq DEF Now
<1>6. Now.op \in {"import", "use"} => Now.path \in Path
  BY <1>5 DEF Statement
<1> QED
  BY <1>1, <1>5, <1>6

LEMMA InitHolds == Init => IInv
<1> SUFFICES ASSUME Init PROVE IInv
  OBVIOUS
<1>1. /\ objects = <<>> /\ objects \in Seq(ModuleType) /\ Len(objects) = 0
      /\ DOMAIN objects = 1 .. 0
      /\ frames = <<>> /\ frames \in Seq([module : 0 .. Len(objects), pc : Nat \ {0}])
      /\ Len(frames) = 0
  BY EmptySeq, LenProperties DEF Init
<1>2. cache = [p \in Path |-> 0] /\ root = [p \in Path |-> 0]
  BY DEF Init, Unbound
<1>3. TypeOK
  BY <1>1, <1>2, ConstantsAssumption DEF Init, TypeOK
<1>4. WellFormed(objects, cache)
  BY <1>1, <1>2 DEF WellFormed
<1> QED
  BY <1>1, <1>2, <1>3, <1>4 DEF IInv, ExecutingIsOnStack, FrameBodies, NoneUnstarted

LEMMA RunKeeps == ASSUME IInv, NEW program \in Programs, Run(program) PROVE IInv'
<1> DEFINE main == [module |-> 0, pc |-> 1]
<1>1. Len(frames) = 0 /\ Len(objects) \in Nat /\ frames = <<>>
  BY FrameFacts, EmptySeq DEF Run, Running
<1>2. /\ frames' = <<main>> /\ Len(frames') = 1 /\ frames'[1] = main
      /\ frames' \in Seq([module : 0 .. Len(objects), pc : Nat \ {0}])
  <2>1. main \in [module : 0 .. Len(objects), pc : Nat \ {0}] /\ frames' = <<main>>
    BY <1>1 DEF Run
  <2> HIDE DEF main
  <2> QED
    BY <2>1
<1>3. UNCHANGED <<files, objects, cache, root, saves>> /\ code' = program /\ runs' = runs + 1
  BY DEF Run
<1>4. TypeOK'
  <2>1. runs' \in 0 .. MaxRuns
    BY <1>3, ConstantsAssumption DEF IInv, TypeOK, Run
  <2> QED
    BY <1>2, <1>3, <2>1, ConstantsAssumption DEF IInv, TypeOK
<1>5. WellFormed(objects', cache') /\ NoneUnstarted'
  BY <1>3 DEF IInv, NoneUnstarted
<1>6. FrameBodies'
  BY <1>2 DEF FrameBodies
<1>7. ExecutingIsOnStack'
  BY <1>1, <1>2, <1>3 DEF IInv, ExecutingIsOnStack
<1> QED
  BY <1>4, <1>5, <1>6, <1>7 DEF IInv

LEMMA SaveKeeps ==
  ASSUME IInv, NEW p \in Path, NEW source \in Source, Save(p, source) PROVE IInv'
<1>1. TypeOK'
  BY ConstantsAssumption DEF Save, IInv, TypeOK
<1>2. UNCHANGED <<objects, cache, frames>>
  BY DEF Save
<1> QED
  BY <1>1, <1>2 DEF IInv, ExecutingIsOnStack, FrameBodies, NoneUnstarted

LEMMA FailCase == ASSUME IInv, Fails(objects, cache) PROVE Failed
<1>1. WellFormed(objects, cache) /\ Len(objects) <= Len(objects) /\ SameDone(objects, cache)
  BY FrameFacts DEF IInv, SameDone
<1> QED
  BY <1>1 DEF Failed

LEMMA ExportCase == ASSUME IInv, Export PROVE Moves
<1>1. Running /\ ~AtEnd /\ frames' = Advanced(frames) /\ UNCHANGED <<files, cache, root, code, runs, saves>>
  BY DEF Export, At
<1>2. Top \in FrameType(Len(objects)) /\ objects \in Seq(ModuleType)
  BY <1>1, NowFacts DEF IInv, WellFormed
<1>3. objects' \in Seq(ModuleType) /\ SameButNames(objects, objects')
  <2>1. CASE Top.module = 0
    BY <1>2, <2>1 DEF Export, SameButNames
  <2>2. CASE Top.module # 0
    <3> DEFINE k == Top.module
               e == [objects[k] EXCEPT !.exported = TRUE]
    <3>1. k \in 1 .. Len(objects)
      BY <1>2, <2>2, FrameFacts DEF FrameType
    <3>2. objects[k] \in ModuleType
      BY <1>2, <3>1, ObjectFacts
    <3>3. /\ e \in ModuleType /\ e.path = objects[k].path /\ e.body = objects[k].body
          /\ e.initialized = objects[k].initialized /\ e.executing = objects[k].executing
      BY <3>2 DEF ModuleType
    <3>4. objects' = [objects EXCEPT ![k] = e]
      BY <2>2 DEF Export
    <3> HIDE DEF e, k
    <3>5. /\ objects' \in Seq(ModuleType) /\ Len(objects') = Len(objects)
          /\ \A j \in 1 .. Len(objects) : objects'[j] = IF j = k THEN e ELSE objects[j]
      BY <1>2, <3>1, <3>3, <3>4, ExceptSeq
    <3> QED
      BY <3>3, <3>5 DEF SameButNames
  <2> QED
    BY <2>1, <2>2
<1>4. root' \in [Path -> 0 .. Len(objects)]
  BY <1>1 DEF IInv, TypeOK
<1> QED
  BY <1>1, <1>3, <1>4 DEF Moves

LEMMA UseCases == ASSUME IInv, Use PROVE Failed \/ Moves
<1>1. CASE Fails(objects, cache)
  BY <1>1, FailCase
<1>2. CASE frames' = Advanced(frames) /\ UNCHANGED <<files, objects, cache, root, code, runs, saves>>
  <2>1. Running /\ objects' \in Seq(ModuleType) /\ SameButNames(objects, objects')
    BY <1>2 DEF Use, At, IInv, WellFormed, SameButNames
  <2>2. root' \in [Path -> 0 .. Len(objects)]
    BY <1>2 DEF IInv, TypeOK
  <2> QED
    BY <1>2, <2>1, <2>2 DEF Moves
<1> QED
  BY <1>1, <1>2 DEF Use

\* IMPORT_MODULE's last branch: p is published and its top level gets a frame.
Starts(p) ==
  LET l == Published(p) IN
  /\ files[p] # Missing /\ l.objects[l.module].body # Invalid
  /\ ~AtOnce(l.objects[l.module])
  /\ FramesLeft
  /\ cache' = l.cache
  /\ objects' = [l.objects EXCEPT ![l.module].executing = TRUE]
  /\ frames' = Append(frames, [module |-> l.module, pc |-> 1])
  /\ UNCHANGED <<files, root, code, runs, saves>>

\* Only a path that is not cached is started, and then the invariant holds again.
LEMMA StartKeeps ==
  ASSUME IInv, Running, NEW p \in Path,
         NEW k, k = Len(objects) + 1,
         Starts(p)
  PROVE  /\ cache[p] = 0
         /\ Len(objects') = k
         /\ objects'[k].path = p
         /\ ~objects'[k].initialized
         /\ cache' = [cache EXCEPT ![p] = k]
         /\ \A o \in 1 .. Len(objects) : objects'[o] = objects[o]
         /\ frames' = Append(frames, [module |-> k, pc |-> 1])
         /\ IInv'
<1> DEFINE l == Published(p)
           new == [ModuleObject(p, files[p]) EXCEPT !.executing = TRUE]
           fresh == [module |-> k, pc |-> 1]
<1>1. cache[p] = 0
  <2>1. cache[p] # 0 => AtOnce(objects[cache[p]])
    BY DEF IInv, NoneUnstarted
  <2>2. cache[p] # 0 => l = [objects |-> objects, cache |-> cache, module |-> cache[p]]
    BY PublishedFacts DEF Starts
  <2>3. ~AtOnce(l.objects[l.module])
    BY DEF Starts
  <2> HIDE DEF l
  <2> QED
    BY <2>1, <2>2, <2>3
<1>2. /\ WellFormed(l.objects, l.cache) /\ Len(l.objects) = k /\ l.module = k
      /\ l.cache = [cache EXCEPT ![p] = k]
      /\ l.objects[k] = ModuleObject(p, files[p])
      /\ \A o \in 1 .. Len(objects) : l.objects[o] = objects[o]
  BY <1>1, PublishedFacts DEF Starts
<1>3. Len(objects) \in Nat /\ Len(frames) \in Nat \ {0} /\ k \in Nat /\ k = Len(objects) + 1
  BY FrameFacts DEF Running
<1>15. /\ frames \in Seq(FrameType(Len(objects))) /\ frames # <<>>
       /\ \A i \in 1 .. Len(frames) : frames[i] \in FrameType(Len(objects))
  BY FrameFacts DEF Running
<1>16. DOMAIN objects = 1 .. Len(objects)
  BY ObjectFacts DEF IInv, WellFormed
<1>4. /\ new \in ModuleType /\ new.path = p /\ new.body = files[p]
      /\ new.executing = TRUE /\ new.initialized = FALSE
  <2>1. files[p] \in Source \ {Missing}
    BY DEF IInv, TypeOK, Starts
  <2> QED
    BY <2>1 DEF ModuleType, ModuleObject, Unbound
<1>5. /\ objects' \in Seq(ModuleType) /\ Len(objects') = k
      /\ objects'[k] = new
      /\ \A o \in 1 .. Len(objects) : objects'[o] = objects[o]
  <2>1. objects' = [l.objects EXCEPT ![k] = new]
    BY <1>2 DEF Starts
  <2>2. l.objects \in Seq(ModuleType) /\ k \in 1 .. Len(l.objects) /\ Len(l.objects) = k
    BY <1>2, <1>3 DEF WellFormed
  <2> HIDE DEF l, new
  <2>3. /\ objects' \in Seq(ModuleType) /\ Len(objects') = Len(l.objects)
        /\ \A o \in 1 .. Len(l.objects) : objects'[o] = IF o = k THEN new ELSE l.objects[o]
    BY <1>4, <2>1, <2>2, ExceptSeq
  <2>4. l.objects[k] = ModuleObject(p, files[p]) /\ \A o \in 1 .. Len(objects) : l.objects[o] = objects[o]
    BY <1>2
  <2>5. Len(objects') = k /\ objects'[k] = new
    BY <2>2, <2>3
  <2>6. \A o \in 1 .. Len(objects) : objects'[o] = objects[o]
    BY <1>3, <2>2, <2>3, <2>4
  <2> QED
    BY <2>3, <2>5, <2>6
<1>6. cache' = [cache EXCEPT ![p] = k] /\ cache \in [Path -> 0 .. Len(objects)]
  BY <1>2 DEF IInv, WellFormed, Starts
<1>7. files[p] # Invalid
  BY <1>2 DEF ModuleObject, Starts
<1>8. /\ frames' = Append(frames, fresh) /\ Len(frames') = Len(frames) + 1
      /\ frames' \in Seq(FrameType(k))
      /\ frames'[Len(frames) + 1] = fresh
      /\ \A i \in 1 .. Len(frames) : frames'[i] = frames[i]
  <2>1. frames \in Seq(FrameType(k))
    BY <1>3, <1>15, FramesGrow
  <2>3. fresh \in FrameType(k)
    BY <1>3 DEF FrameType
  <2>2. frames' = Append(frames, fresh)
    BY <1>2 DEF Starts
  <2> HIDE DEF fresh
  <2> QED
    BY <2>1, <2>2, <2>3, AppendFacts
<1> HIDE DEF l, new
<1>9. /\ \A q \in Path : cache[q] # 0 => cache[q] \in 1 .. Len(objects) /\ objects[cache[q]].path = q
      /\ \A o \in 1 .. Len(objects) : objects[o].executing =>
                              cache[objects[o].path] = o /\ ~objects[o].initialized
      /\ \A o \in 1 .. Len(objects) : objects[o].path \in Path
  BY <1>6, ObjectFacts DEF IInv, WellFormed
<1>10. WellFormed(objects', cache')
  <2>1. cache' \in [Path -> 0 .. Len(objects')]
    BY <1>3, <1>5, <1>6
  <2>2. ASSUME NEW q \in Path, cache'[q] # 0 PROVE objects'[cache'[q]].path = q
    <3>1. CASE q = p
      <4>1. cache'[q] = k
        BY <1>6, <3>1
      <4> QED
        BY <1>4, <1>5, <3>1, <4>1
    <3>2. CASE q # p
      <4>1. cache'[q] = cache[q]
        BY <1>6, <3>2
      <4>2. cache[q] \in 1 .. Len(objects) /\ objects[cache[q]].path = q
        BY <1>9, <2>2, <4>1
      <4> QED
        BY <1>5, <4>1, <4>2
    <3> QED
      BY <3>1, <3>2
  <2>3. ASSUME NEW o \in 1 .. Len(objects'), objects'[o].executing
        PROVE  cache'[objects'[o].path] = o /\ ~objects'[o].initialized
    <3>1. CASE o = k
      BY <1>4, <1>5, <1>6, <3>1
    <3>2. CASE o # k
      <4>11. Len(objects') = k /\ Len(objects) \in Nat
        BY <1>3, <1>5
      <4>12. o \in 1 .. Len(objects)
        BY <4>11, <3>2
      <4>1. o \in 1 .. Len(objects) /\ objects'[o] = objects[o]
        BY <4>12, <1>5
      <4>2. cache[objects[o].path] = o /\ ~objects[o].initialized /\ objects[o].path \in Path
        BY <1>9, <2>3, <4>1
      <4>3. objects[o].path # p
        BY <1>1, <4>1, <4>2
      <4> QED
        BY <1>6, <4>1, <4>2, <4>3
    <3> QED
      BY <3>1, <3>2
  <2> QED
    BY <1>5, <2>1, <2>2, <2>3 DEF WellFormed
<1>11. NoneUnstarted'
  <2> SUFFICES ASSUME NEW q \in Path, cache'[q] # 0 PROVE AtOnce(objects'[cache'[q]])
    BY DEF NoneUnstarted, AtOnce
  <2>1. CASE q = p
    BY <1>4, <1>5, <1>6, <2>1 DEF AtOnce
  <2>2. CASE q # p
    <3>1. cache'[q] = cache[q] /\ cache[q] \in 1 .. Len(objects)
      BY <1>6, <1>9, <2>2
    <3>2. AtOnce(objects[cache[q]])
      BY <3>1, <1>3 DEF IInv, NoneUnstarted
    <3> QED
      BY <1>5, <3>1, <3>2
  <2> QED
    BY <2>1, <2>2
<1>12. FrameBodies'
  <2> SUFFICES ASSUME NEW i \in 1 .. Len(frames) + 1
               PROVE  IF i = 1 THEN frames'[i].module = 0
                      ELSE frames'[i].module # 0 /\ objects'[frames'[i].module].body # Invalid
    BY <1>8 DEF FrameBodies
  <2>1. CASE i = Len(frames) + 1
    BY <1>3, <1>4, <1>5, <1>7, <1>8, <2>1
  <2>2. CASE i # Len(frames) + 1
    <3>1. /\ frames'[i] = frames[i] /\ frames[i].module \in 0 .. Len(objects)
          /\ IF i = 1 THEN frames[i].module = 0
             ELSE frames[i].module # 0 /\ objects[frames[i].module].body # Invalid
      BY <1>3, <1>15, <1>8, <2>2 DEF FrameType, IInv, FrameBodies
    <3> QED
      BY <1>3, <1>5, <3>1
  <2> QED
    BY <2>1, <2>2
<1>13. ExecutingIsOnStack'
  <2>1. \A i \in 2 .. Len(frames) :
           /\ frames[i].module \in 1 .. Len(objects) /\ frames'[i] = frames[i]
           /\ cache[objects[frames[i].module].path] = frames[i].module
    BY <1>3, <1>15, <1>8 DEF FrameType, IInv, FrameBodies, ExecutingIsOnStack
  <2>2. /\ DOMAIN objects' = 1 .. k
        /\ 2 .. Len(frames') = 2 .. (Len(frames) + 1)
        /\ frames'[Len(frames) + 1].module = k
    BY <1>3, <1>5, <1>8, ObjectFacts
  <2>3. ASSUME NEW o \in 1 .. k
        PROVE  objects'[o].executing <=> \E i \in 2 .. Len(frames') : frames'[i].module = o
    <3>1. CASE o = k
      BY <1>3, <1>4, <1>5, <2>2, <3>1
    <3>2. CASE o # k
      <4>11. Len(objects') = k /\ Len(objects) \in Nat
        BY <1>3, <1>5
      <4>12. o \in 1 .. Len(objects)
        BY <4>11, <3>2
      <4>1. o \in 1 .. Len(objects) /\ objects'[o] = objects[o]
        BY <4>12, <1>5
      <4>2. objects[o].executing <=> \E i \in 2 .. Len(frames) : frames[i].module = o
        BY <1>16, <4>1 DEF IInv, ExecutingIsOnStack
      <4>3. (\E i \in 2 .. Len(frames') : frames'[i].module = o)
              <=> \E i \in 2 .. Len(frames) : frames[i].module = o
        <5>1. \A i \in 2 .. Len(frames') :
                 frames'[i].module = o => i \in 2 .. Len(frames) /\ frames[i].module = o
          BY <1>3, <2>1, <2>2, <3>2
        <5>2. \A i \in 2 .. Len(frames) :
                 frames[i].module = o => i \in 2 .. Len(frames') /\ frames'[i].module = o
          BY <1>3, <2>1, <2>2
        <5> QED
          BY <5>1, <5>2, Zenon
      <4> QED
        BY <4>1, <4>2, <4>3, Zenon
    <3> QED
      BY <3>1, <3>2
  <2>4. ASSUME NEW i \in 2 .. Len(frames')
        PROVE  cache'[objects'[frames'[i].module].path] = frames'[i].module
    <3>1. CASE i = Len(frames) + 1
      <4>1. frames'[i].module = k /\ objects'[k].path = p /\ cache'[p] = k
        BY <1>4, <1>5, <1>6, <2>2, <3>1
      <4> QED
        BY <4>1
    <3>2. CASE i # Len(frames) + 1
      <4>1. i \in 2 .. Len(frames)
        BY <1>3, <2>2, <3>2
      <4>2. objects'[frames'[i].module] = objects[frames[i].module]
        BY <1>5, <2>1, <4>1
      <4>3. /\ objects[frames[i].module].path # p
            /\ objects[frames[i].module].path \in Path
        BY <1>1, <1>9, <2>1, <4>1
      <4>4. cache'[objects[frames[i].module].path] = cache[objects[frames[i].module].path]
        BY <1>6, <4>3
      <4> QED
        BY <2>1, <4>1, <4>2, <4>4
    <3> QED
      BY <3>1, <3>2
  <2>5. ASSUME NEW i \in 2 .. Len(frames'), NEW j \in 2 .. Len(frames'), i # j
        PROVE  frames'[i].module # frames'[j].module
    <3>1. ASSUME NEW m \in 2 .. Len(frames'), m # Len(frames) + 1
          PROVE  /\ m \in 2 .. Len(frames)
                 /\ frames'[m].module \in 1 .. Len(objects) /\ frames'[m].module = frames[m].module
      BY <1>3, <2>1, <2>2, <3>1
    <3>2. CASE i # Len(frames) + 1 /\ j # Len(frames) + 1
      BY <2>5, <3>1, <3>2 DEF IInv, ExecutingIsOnStack
    <3>3. CASE i = Len(frames) + 1 \/ j = Len(frames) + 1
      BY <1>3, <2>2, <2>5, <3>1, <3>3
    <3> QED
      BY <3>2, <3>3
  <2> QED
    BY <2>2, <2>3, <2>4, <2>5 DEF ExecutingIsOnStack
<1>14. TypeOK'
  <2>1. root' \in [Path -> 0 .. Len(objects')]
    <3>1. root' = root /\ root \in [Path -> 0 .. Len(objects)]
      BY DEF IInv, TypeOK, Starts
    <3> QED
      BY <1>3, <1>5, <3>1
  <2>2. Len(frames') <= MaxFrames
    BY <1>3, <1>8, ConstantsAssumption DEF FramesLeft, Starts
  <2>3. frames' \in Seq(FrameType(Len(objects')))
    BY <1>5, <1>8
  <2> QED
    BY <1>5, <1>10, <2>1, <2>2, <2>3, TypeKept DEF WellFormed, Starts
<1> QED
  BY <1>1, <1>4, <1>5, <1>6, <1>8, <1>10, <1>11, <1>12, <1>13, <1>14 DEF IInv

\* Importing what is initialized or running only binds a name.
LEMMA BoundAtOnce ==
  ASSUME IInv, Running, NEW p \in Path, files[p] # Missing,
         AtOnce(Published(p).objects[Published(p).module])
  PROVE  /\ cache[p] \in 1 .. Len(objects)
         /\ Published(p) = [objects |-> objects, cache |-> cache, module |-> cache[p]]
<1> DEFINE l == Published(p)
<1>1. cache[p] # 0
  <2>1. ~AtOnce(ModuleObject(p, files[p]))
    BY DEF AtOnce, ModuleObject
  <2>2. cache[p] = 0 => l.objects[l.module] = ModuleObject(p, files[p])
    BY PublishedFacts
  <2>3. AtOnce(l.objects[l.module])
    OBVIOUS
  <2> HIDE DEF l
  <2> QED
    BY <2>1, <2>2, <2>3
<1>2. cache[p] \in 0 .. Len(objects) /\ Len(objects) \in Nat
  BY FrameFacts DEF IInv, TypeOK
<1> QED
  BY <1>1, <1>2 DEF Published

LEMMA ImportCases ==
  ASSUME IInv, Import
  PROVE  Failed \/ Moves \/ (Running /\ Now.path \in Path /\ Starts(Now.path))
<1> DEFINE p == Now.path
           l == Published(p)
           m == l.objects[l.module]
           started == [l.objects EXCEPT ![l.module].executing = TRUE]
<1>1. Running /\ ~AtEnd /\ Now.op = "import"
  BY DEF Import, At
<1>2. p \in Path /\ Top \in FrameType(Len(objects))
  BY <1>1, NowFacts
<1>3. Len(objects) \in Nat /\ objects \in Seq(ModuleType)
  BY FrameFacts DEF IInv, WellFormed
<1>4. CASE files[p] = Missing /\ Fails(objects, cache)
  BY <1>4, FailCase
<1>5. ASSUME files[p] # Missing
      PROVE  /\ WellFormed(l.objects, l.cache) /\ l.module \in 1 .. Len(l.objects)
             /\ l.cache[p] = l.module /\ m.path = p
             /\ Len(objects) <= Len(l.objects) /\ SameDone(l.objects, l.cache)
  <2>1. /\ WellFormed(l.objects, l.cache) /\ l.module \in 1 .. Len(l.objects)
        /\ l.cache[p] = l.module /\ m.path = p
        /\ cache[p] # 0 => l = [objects |-> objects, cache |-> cache, module |-> cache[p]]
        /\ cache[p] = 0 => /\ Len(l.objects) = Len(objects) + 1 /\ l.module = Len(objects) + 1
                           /\ l.cache = [cache EXCEPT ![p] = Len(objects) + 1]
                           /\ l.objects[l.module] = ModuleObject(p, files[p])
                           /\ \A o \in 1 .. Len(objects) : l.objects[o] = objects[o]
    BY <1>2, <1>5, PublishedFacts
  <2>6. ~ModuleObject(p, files[p]).initialized
    BY DEF ModuleObject
  <2>2. cache[p] # 0 => l.objects = objects /\ l.cache = cache
    BY <2>1
  <2>4. p \in Path /\ cache \in [Path -> 0 .. Len(objects)]
    BY <1>2 DEF IInv, TypeOK
  <2> HIDE DEF l, p, m
  <2>3. Len(objects) <= Len(l.objects)
    BY <1>3, <2>1, <2>2
  <2>5. SameDone(l.objects, l.cache)
    <3>1. CASE cache[p] = 0
      <4> SUFFICES ASSUME NEW q \in Path
                   PROVE  /\ (l.cache[q] # 0 /\ l.objects[l.cache[q]].initialized)
                             <=> (cache[q] # 0 /\ objects[cache[q]].initialized)
                          /\ cache[q] # 0 => l.cache[q] = cache[q]
        BY DEF SameDone
      <4>1. CASE q = p
        BY <1>3, <2>1, <2>4, <2>6, <3>1, <4>1
      <4>2. CASE q # p
        <5>1. l.cache[q] = cache[q]
          BY <2>1, <2>4, <3>1, <4>2
        <5>2. cache[q] # 0 => l.objects[cache[q]] = objects[cache[q]]
          BY <1>3, <2>1, <2>4, <3>1
        <5> QED
          BY <5>1, <5>2
      <4> QED
        BY <4>1, <4>2
    <3>2. CASE cache[p] # 0
      BY <2>2, <3>2 DEF SameDone
    <3> QED
      BY <3>1, <3>2
  <2> QED
    BY <2>1, <2>3, <2>5 DEF m
<1>6. CASE files[p] # Missing /\ Fails(l.objects, l.cache)
  <2>1. WellFormed(l.objects, l.cache) /\ Len(objects) <= Len(l.objects)
        /\ SameDone(l.objects, l.cache)
    BY <1>5, <1>6
  <2>2. Fails(l.objects, l.cache)
    BY <1>6
  <2> HIDE DEF l
  <2> QED
    BY <2>1, <2>2 DEF Failed
<1>7. CASE /\ files[p] # Missing /\ AtOnce(m)
           /\ cache' = l.cache
           /\ Bind(l.objects, Top, p, l.module)
           /\ frames' = Advanced(frames)
           /\ UNCHANGED <<files, code, runs, saves>>
  <2>1. /\ l = [objects |-> objects, cache |-> cache, module |-> cache[p]]
        /\ cache[p] \in 1 .. Len(objects)
    BY <1>1, <1>2, <1>7, BoundAtOnce
  <2>2. Bind(objects, Top, p, cache[p]) /\ cache' = cache
    BY <1>7, <2>1
  <2>3. root \in [Path -> 0 .. Len(objects)]
    BY DEF IInv, TypeOK
  <2> HIDE DEF p, l, m
  <2>4. /\ objects' \in Seq(ModuleType) /\ SameButNames(objects, objects')
        /\ root' \in [Path -> 0 .. Len(objects)]
    BY <1>2, <1>3, <2>1, <2>2, <2>3, BindFacts
  <2> QED
    BY <1>1, <1>7, <2>2, <2>4 DEF Moves
<1>8. CASE files[p] # Missing /\ ~AtOnce(m) /\ Fails(started, l.cache)
  <2>1. /\ WellFormed(l.objects, l.cache) /\ l.module \in 1 .. Len(l.objects)
        /\ l.cache[p] = l.module /\ m.path = p
        /\ Len(objects) <= Len(l.objects) /\ SameDone(l.objects, l.cache)
    BY <1>5, <1>8
  <2>2. Fails(started, l.cache) /\ ~m.initialized
    BY <1>8 DEF AtOnce
  <2> DEFINE e == [m EXCEPT !.executing = TRUE]
  <2>3. started = [l.objects EXCEPT ![l.module] = e] /\ m = l.objects[l.module]
    OBVIOUS
  <2> HIDE DEF l, m, started
  <2>4. l.objects \in Seq(ModuleType) /\ m \in ModuleType
    BY <2>1, <2>3, ObjectFacts DEF WellFormed
  <2>5. e \in ModuleType /\ e.path = p /\ ~e.initialized
    BY <2>1, <2>2, <2>4 DEF ModuleType
  <2> HIDE DEF e, p
  <2>6. /\ started \in Seq(ModuleType) /\ Len(started) = Len(l.objects)
        /\ \A o \in 1 .. Len(l.objects) : started[o] = IF o = l.module THEN e ELSE l.objects[o]
    BY <2>1, <2>3, <2>4, <2>5, ExceptSeq
  <2>7. WellFormed(started, l.cache)
    <3>1. l.cache \in [Path -> 0 .. Len(started)]
      BY <2>1, <2>6 DEF WellFormed
    <3>2. \A q \in Path : l.cache[q] # 0 => started[l.cache[q]].path = q
      <4> SUFFICES ASSUME NEW q \in Path, l.cache[q] # 0 PROVE started[l.cache[q]].path = q
        OBVIOUS
      <4>1. l.cache[q] \in 1 .. Len(l.objects) /\ l.objects[l.cache[q]].path = q
        BY <2>1, <2>4, ObjectFacts DEF WellFormed
      <4> QED
        BY <2>1, <2>3, <2>5, <2>6, <4>1
    <3>3. \A o \in 1 .. Len(started) :
             started[o].executing => l.cache[started[o].path] = o /\ ~started[o].initialized
      BY <2>1, <2>5, <2>6 DEF WellFormed
    <3> QED
      BY <2>6, <3>1, <3>2, <3>3 DEF WellFormed
  <2>8. SameDone(started, l.cache)
    <3> SUFFICES ASSUME NEW q \in Path, l.cache[q] # 0
                 PROVE  started[l.cache[q]].initialized <=> l.objects[l.cache[q]].initialized
      BY <2>1 DEF SameDone
    <3>1. l.cache[q] \in 1 .. Len(l.objects)
      BY <2>1, <2>4, ObjectFacts DEF WellFormed
    <3> QED
      BY <2>2, <2>3, <2>5, <2>6, <3>1
  <2> QED
    BY <2>1, <2>2, <2>6, <2>7, <2>8 DEF Failed
<1>9. CASE Starts(p)
  BY <1>1, <1>2, <1>9
<1> QED
  BY <1>4, <1>6, <1>7, <1>8, <1>9 DEF Import, Starts

\* A module's top level ends: what Return does besides the first frame's end.
Ends(k) ==
  /\ Len(frames) > 1 /\ Top.module = k /\ k \in 1 .. Len(objects)
  /\ frames' = Advanced(Front(frames))
  /\ Bind([objects EXCEPT ![k].executing = FALSE, ![k].initialized = TRUE],
          frames[Len(frames) - 1], objects[k].path, k)
  /\ UNCHANGED <<files, cache, code, runs, saves>>

\* It is initialized, no other flag changes, and its frame is gone.
LEMMA EndKeeps ==
  ASSUME IInv, NEW k, Ends(k)
  PROVE  /\ Len(frames') = Len(frames) - 1 /\ Len(objects') = Len(objects)
         /\ \A i \in 1 .. Len(frames) - 1 : frames'[i].module = frames[i].module
         /\ \A o \in 1 .. Len(objects) :
               /\ objects'[o].path = objects[o].path
               /\ objects'[o].executing <=> o # k /\ objects[o].executing
               /\ objects'[o].initialized <=> o = k \/ objects[o].initialized
         /\ IInv'
<1> DEFINE objs == [objects EXCEPT ![k].executing = FALSE, ![k].initialized = TRUE]
           e == [objects[k] EXCEPT !.executing = FALSE, !.initialized = TRUE]
           n == Len(frames) - 1
<1>1. /\ n \in Nat \ {0} /\ Len(frames) = n + 1 /\ Len(objects) \in Nat
      /\ k \in 1 .. Len(objects) /\ frames[n + 1].module = k
      /\ frames \in Seq(FrameType(Len(objects))) /\ objects \in Seq(ModuleType)
      /\ frames # <<>>
  BY FrameFacts, EmptySeq DEF Ends, Top, IInv, WellFormed
<1>2. /\ DOMAIN objects = 1 .. Len(objects)
      /\ \A o \in 1 .. Len(objects) : objects[o] \in ModuleType /\ objects[o].path \in Path
  BY <1>1, ObjectFacts
<1>3. /\ Front(frames) \in Seq(FrameType(Len(objects))) /\ Len(Front(frames)) = n
      /\ \A i \in 1 .. n : Front(frames)[i] = frames[i]
  BY <1>1, FrontFacts
<1>4. /\ frames' \in Seq(FrameType(Len(objects))) /\ Len(frames') = n
      /\ \A i \in 1 .. n : frames'[i].module = frames[i].module
  <2>1. Front(frames) # <<>> /\ frames' = Advanced(Front(frames))
    BY <1>1, <1>3, EmptySeq DEF Ends
  <2>2. /\ frames' \in Seq(FrameType(Len(objects))) /\ Len(frames') = Len(Front(frames))
        /\ \A i \in 1 .. Len(Front(frames)) : frames'[i].module = Front(frames)[i].module
    BY <1>1, <1>3, <2>1, AdvancedFacts
  <2> QED
    BY <1>3, <2>2
<1>5. /\ e \in ModuleType /\ e.path = objects[k].path /\ e.body = objects[k].body
      /\ e.executing = FALSE /\ e.initialized = TRUE
  BY <1>1, <1>2 DEF ModuleType
<1>6. objs = [objects EXCEPT ![k] = e]
  BY <1>1, <1>2
<1>7. frames[n] \in FrameType(Len(objects))
  BY <1>1, ElementOfSeq
<1>8. Bind(objs, frames[n], objects[k].path, k) /\ UNCHANGED <<files, cache, code, runs, saves>>
  BY DEF Ends
<1> HIDE DEF e, objs, n
<1>9. /\ objs \in Seq(ModuleType) /\ Len(objs) = Len(objects)
      /\ \A o \in 1 .. Len(objects) : objs[o] = IF o = k THEN e ELSE objects[o]
  BY <1>1, <1>5, <1>6, ExceptSeq
<1>10. /\ objects' \in Seq(ModuleType) /\ SameButNames(objs, objects')
       /\ root' \in [Path -> 0 .. Len(objects)]
  <2>1. root \in [Path -> 0 .. Len(objects)] /\ objects[k].path \in Path
    BY <1>1, <1>2 DEF IInv, TypeOK
  <2> QED
    BY <1>1, <1>7, <1>8, <1>9, <2>1, BindFacts
<1>11. /\ Len(objects') = Len(objects)
       /\ \A o \in 1 .. Len(objects) : /\ objects'[o].path = objects[o].path
                                       /\ objects'[o].body = objects[o].body
  BY <1>5, <1>9, <1>10 DEF SameButNames
<1>12. \A o \in 1 .. Len(objects) :
          /\ objects'[o].executing <=> o # k /\ objects[o].executing
          /\ objects'[o].initialized <=> o = k \/ objects[o].initialized
  <2>1. /\ objects'[k].executing = FALSE /\ objects'[k].initialized = TRUE
        /\ \A o \in 1 .. Len(objects) :
              o # k => /\ objects'[o].executing = objects[o].executing
                       /\ objects'[o].initialized = objects[o].initialized
    BY <1>1, <1>5, <1>9, <1>10 DEF SameButNames
  <2> QED
    BY <2>1, Zenon
<1>13. /\ cache' = cache /\ cache \in [Path -> 0 .. Len(objects)]
       /\ \A p \in Path : cache[p] # 0 => /\ cache[p] \in 1 .. Len(objects)
                                          /\ objects[cache[p]].path = p
                                          /\ AtOnce(objects[cache[p]])
       /\ \A o \in 1 .. Len(objects) :
             objects[o].executing => cache[objects[o].path] = o /\ ~objects[o].initialized
  BY <1>1, <1>8 DEF IInv, WellFormed, NoneUnstarted
<1>14. WellFormed(objects', cache')
  BY SMTT(30), <1>10, <1>11, <1>12, <1>13 DEF WellFormed
<1>15. NoneUnstarted'
  <2> SUFFICES ASSUME NEW p \in Path, cache[p] # 0
               PROVE  objects'[cache[p]].initialized \/ objects'[cache[p]].executing
    BY <1>13 DEF NoneUnstarted, AtOnce
  <2>1. cache[p] \in 1 .. Len(objects) /\ (objects[cache[p]].initialized \/ objects[cache[p]].executing)
    BY <1>13 DEF AtOnce
  <2> QED
    BY <1>12, <2>1
<1>16. \A i \in 1 .. n : frames[i].module \in 0 .. Len(objects)
  BY <1>1, FrameFacts DEF FrameType
<1>17. FrameBodies'
  <2>1. \A i \in 1 .. n : IF i = 1 THEN frames[i].module = 0
                          ELSE frames[i].module # 0 /\ objects[frames[i].module].body # Invalid
    BY <1>1 DEF IInv, FrameBodies
  <2>2. ASSUME NEW i \in 1 .. n
        PROVE  IF i = 1 THEN frames'[i].module = 0
               ELSE frames'[i].module # 0 /\ objects'[frames'[i].module].body # Invalid
    <3>1. frames'[i].module = frames[i].module /\ frames[i].module \in 0 .. Len(objects)
      BY <1>4, <1>16
    <3>2. frames[i].module # 0 => objects'[frames[i].module].body = objects[frames[i].module].body
      BY <1>1, <1>11, <3>1
    <3> QED
      BY <2>1, <3>1, <3>2
  <2> QED
    BY <1>4, <2>2 DEF FrameBodies
<1>18. /\ \A i \in 2 .. n + 1 : frames[i].module \in 1 .. Len(objects)
       /\ \A i, j \in 2 .. n + 1 : /\ i # j => frames[i].module # frames[j].module
                                   /\ cache[objects[frames[i].module].path] = frames[i].module
       /\ \A o \in 1 .. Len(objects) :
             objects[o].executing <=> \E i \in 2 .. n + 1 : frames[i].module = o
  <2>1. \A i \in 2 .. n + 1 : frames[i].module \in 1 .. Len(objects)
    <3>1. \A i \in 1 .. n + 1 : frames[i].module \in 0 .. Len(objects)
      BY <1>1, FrameFacts DEF FrameType
    <3>2. \A i \in 1 .. n + 1 : i # 1 => frames[i].module # 0
      BY <1>1 DEF IInv, FrameBodies
    <3>3. \A i \in 2 .. n + 1 : i \in 1 .. n + 1 /\ i # 1
      BY <1>1
    <3> QED
      BY <1>1, <3>1, <3>2, <3>3
  <2> QED
    BY <1>1, <1>2, <2>1 DEF IInv, ExecutingIsOnStack
<1>19. ExecutingIsOnStack'
  <2>1. ASSUME NEW o \in 1 .. Len(objects)
        PROVE  objects'[o].executing <=> \E i \in 2 .. n : frames'[i].module = o
    <3>1. objects'[o].executing <=> o # k /\ \E i \in 2 .. n + 1 : frames[i].module = o
      BY <1>12, <1>18, Zenon
    <3>2. (o # k /\ \E i \in 2 .. n + 1 : frames[i].module = o)
             <=> \E i \in 2 .. n : frames'[i].module = o
      <4>1. ASSUME o # k, NEW i \in 2 .. n + 1, frames[i].module = o
            PROVE  i \in 2 .. n /\ frames'[i].module = o
        BY <1>1, <1>4, <4>1
      <4>2. ASSUME NEW i \in 2 .. n, frames'[i].module = o
            PROVE  o # k /\ i \in 2 .. n + 1 /\ frames[i].module = o
        <5>1. i \in 2 .. n + 1 /\ n + 1 \in 2 .. n + 1 /\ i # n + 1 /\ frames[i].module = o
          BY <1>1, <1>4, <4>2
        <5> QED
          BY <1>1, <1>18, <5>1
      <4> QED
        BY <4>1, <4>2, Zenon
    <3> QED
      BY <3>1, <3>2, Zenon
  <2>2. \A i \in 2 .. n : /\ i \in 2 .. n + 1 /\ i \in 1 .. n
                          /\ frames'[i].module = frames[i].module
                          /\ frames[i].module \in 1 .. Len(objects)
    BY <1>1, <1>4, <1>18
  <2>3. \A i, j \in 2 .. n :
           /\ i # j => frames'[i].module # frames'[j].module
           /\ cache'[objects'[frames'[i].module].path] = frames'[i].module
    BY <1>11, <1>13, <1>18, <2>2
  <2>4. DOMAIN objects' = 1 .. Len(objects)
    BY <1>10, <1>11, ObjectFacts
  <2> QED
    BY <1>4, <2>1, <2>3, <2>4 DEF ExecutingIsOnStack
<1>20. TypeOK'
  <2>1. Len(frames') <= MaxFrames
    <3>1. Len(frames) <= MaxFrames
      BY DEF IInv, TypeOK
    <3> QED
      BY <1>1, <1>4, <3>1, ConstantsAssumption
  <2> QED
    BY <1>4, <1>8, <1>10, <1>11, <1>13, <2>1, TypeKept
<1> QED
  BY <1>4, <1>11, <1>12, <1>14, <1>15, <1>17, <1>19, <1>20 DEF IInv, n

\* The program's own top level is over.
Finishes == /\ Len(frames) = 1 /\ frames' = <<>>
            /\ UNCHANGED <<files, objects, cache, root, code, runs, saves>>

LEMMA ReturnCases == ASSUME IInv, Return PROVE Finishes \/ Ends(Top.module)
<1>1. /\ Len(frames) \in Nat /\ Len(frames) > 0 /\ Len(objects) \in Nat
      /\ frames \in Seq(FrameType(Len(objects)))
  BY FrameFacts DEF Return
<1>2. \A n \in Nat : n > 0 => n = 1 \/ (n > 1 /\ n # 1)
  OBVIOUS
<1>3. CASE Len(frames) = 1
  BY <1>1, <1>3 DEF Return, IInv, FrameBodies, Top, Finishes
<1>4. CASE Len(frames) > 1 /\ Len(frames) # 1
  <2>1. Top.module \in 1 .. Len(objects)
    BY <1>1, <1>4, FrameFacts DEF FrameType, IInv, FrameBodies, Top
  <2>2. Top.module # 0
    BY <1>1, <2>1
  <2> QED
    BY <1>4, <2>1, <2>2 DEF Return, Ends
<1> QED
  BY <1>1, <1>2, <1>3, <1>4

LEMMA ReturnKeeps == ASSUME IInv, Return PROVE IInv'
<1>1. CASE Finishes
  <2>1. TypeOK'
    <3>1. /\ objects' \in Seq(ModuleType)
          /\ cache' \in [Path -> 0 .. Len(objects')] /\ root' \in [Path -> 0 .. Len(objects')]
      BY <1>1 DEF IInv, TypeOK, Finishes
    <3>2. frames' \in Seq(FrameType(Len(objects'))) /\ Len(frames') <= MaxFrames
      BY <1>1, EmptySeq, ConstantsAssumption DEF Finishes
    <3> QED
      BY <1>1, <3>1, <3>2, TypeKept DEF Finishes
  <2>2. Len(frames') = 0
    BY <1>1, EmptySeq DEF Finishes
  <2>3. ExecutingIsOnStack' /\ FrameBodies'
    BY <1>1, <2>2 DEF IInv, ExecutingIsOnStack, FrameBodies, Finishes
  <2> QED
    BY <1>1, <2>1, <2>3 DEF IInv, NoneUnstarted, Finishes
<1>2. CASE Ends(Top.module)
  BY <1>2, EndKeeps
<1> QED
  BY <1>1, <1>2, ReturnCases

LEMMA NextKeeps == ASSUME IInv, [Next]_vars PROVE IInv'
<1>1. ASSUME NEW program \in Programs, Run(program) PROVE IInv'
  BY <1>1, RunKeeps
<1>2. CASE Import
  BY <1>2, ImportCases, FailedKeeps, MovesKeep, StartKeeps
<1>3. CASE Export
  BY <1>3, ExportCase, MovesKeep
<1>4. CASE Use
  BY <1>4, UseCases, FailedKeeps, MovesKeep
<1>5. CASE Fail
  BY <1>5, FailCase, FailedKeeps DEF Fail
<1>6. CASE Return
  BY <1>6, ReturnKeeps
<1>7. ASSUME NEW p \in Path, NEW source \in Source, Save(p, source) PROVE IInv'
  BY <1>7, SaveKeeps
<1>8. CASE UNCHANGED vars
  BY <1>8 DEF vars, IInv, TypeOK, ExecutingIsOnStack, FrameBodies, NoneUnstarted, Top
<1> QED
  BY <1>1, <1>2, <1>3, <1>4, <1>5, <1>6, <1>7, <1>8 DEF Next

\* In every behaviour of the loader the strengthened invariant holds.
THEOREM Invariant == Spec => []IInv
<1> QED
  BY InitHolds, NextKeeps, PTL DEF Spec

\* The objects, the cache, the environments and the frames have their types.
THEOREM TypeOKHolds == Spec => []TypeOK
<1>1. IInv => TypeOK
  BY DEF IInv
<1> QED
  BY <1>1, Invariant, PTL

\* The executing flag of a module, which breaks an import cycle, is set exactly
\* while its top level is on the frame stack, whatever fails in between; no module
\* is on the stack twice, and a running one is the one its path is cached as.
THEOREM ExecutingIsOnStackHolds == Spec => []ExecutingIsOnStack
<1>1. IInv => ExecutingIsOnStack
  BY DEF IInv
<1> QED
  BY <1>1, Invariant, PTL
-----------------------------------------------------------------------------
(* What the names are bound to.                                             *)

\* The program's names are bound to initialized modules: an error leaves them.
RootDone == \A p \in Path : root[p] # 0 => root[p] = cache[p] /\ objects[root[p]].initialized

FramesBound ==
  \A i \in 2 .. Len(frames), p \in Path :
     LET o == objects[frames[i].module].names[p] IN
     o # 0 => o = cache[p] /\ AtOnce(objects[o])

Bound == RootDone /\ FramesBound

\* The objects of the frames above the program's.
LEMMA ImporterFacts ==
  ASSUME IInv
  PROVE  /\ \A i \in 2 .. Len(frames) : /\ frames[i].module \in 1 .. Len(objects)
                                        /\ i \in 1 .. Len(frames) /\ i # 1
         /\ \A p \in Path : cache[p] # 0 => cache[p] \in 1 .. Len(objects)
         /\ Len(objects) \in Nat /\ Len(frames) \in Nat
<1>1. Len(objects) \in Nat /\ Len(frames) \in Nat
  BY FrameFacts
<1>2. \A i \in 2 .. Len(frames) : i \in 1 .. Len(frames) /\ i # 1
  BY <1>1
<1>3. \A i \in 2 .. Len(frames) : frames[i].module \in 1 .. Len(objects)
  BY <1>1, <1>2, FrameFacts DEF FrameType, IInv, FrameBodies
<1>4. \A p \in Path : cache[p] # 0 => cache[p] \in 1 .. Len(objects)
  BY <1>1 DEF IInv, TypeOK
<1> QED
  BY <1>1, <1>2, <1>3, <1>4

\* A step within the frames that are there: modules only get further, and a name
\* that changes becomes the cached module, if that is importable at once.
LEMMA BoundGrows ==
  ASSUME IInv, Bound, cache' = cache,
         \A m \in 1 .. Len(objects) : /\ objects[m].initialized => objects'[m].initialized
                                      /\ AtOnce(objects[m]) => AtOnce(objects'[m]),
         \A i \in 2 .. Len(frames') : \E j \in 2 .. Len(frames) : frames'[i].module = frames[j].module,
         \A m \in 1 .. Len(objects), q \in Path :
            \/ objects'[m].names[q] = objects[m].names[q]
            \/ objects'[m].names[q] = cache[q] /\ AtOnce(objects'[cache[q]]),
         \A q \in Path : \/ root'[q] = root[q]
                         \/ root'[q] = cache[q] /\ objects'[cache[q]].initialized
  PROVE  Bound'
<1>1. RootDone'
  BY ImporterFacts DEF Bound, RootDone
<1>2. FramesBound'
  <2> SUFFICES ASSUME NEW i \in 2 .. Len(frames'), NEW q \in Path,
                      NEW o, o = objects'[frames'[i].module].names[q], o # 0
               PROVE  o = cache'[q] /\ AtOnce(objects'[o])
    BY DEF FramesBound, AtOnce
  <2>1. PICK j \in 2 .. Len(frames) : frames'[i].module = frames[j].module
    OBVIOUS
  <2> DEFINE m == frames[j].module
  <2>2. m \in 1 .. Len(objects) /\ o = objects'[m].names[q]
    BY <2>1, ImporterFacts
  <2>3. CASE objects'[m].names[q] = objects[m].names[q]
    <3>1. o = cache[q] /\ AtOnce(objects[o])
      BY <2>2, <2>3 DEF Bound, FramesBound
    <3>2. o \in 1 .. Len(objects)
      BY <3>1, ImporterFacts
    <3> QED
      BY <3>1, <3>2
  <2>4. CASE objects'[m].names[q] = cache[q] /\ AtOnce(objects'[cache[q]])
    BY <2>2, <2>4
  <2> QED
    BY <2>2, <2>3, <2>4
<1> QED
  BY <1>1, <1>2 DEF Bound

\* A binding changes one name.
LEMMA BindNames ==
  ASSUME NEW objs \in Seq(ModuleType), NEW f, NEW p \in Path, NEW o,
         root \in [Path -> 0 .. Len(objects)], Bind(objs, f, p, o), f.module \in 0 .. Len(objs)
  PROVE  /\ \A m \in 1 .. Len(objs), q \in Path :
              \/ objects'[m].names[q] = objs[m].names[q]
              \/ q = p /\ objects'[m].names[q] = o
         /\ \A m \in 1 .. Len(objs) : /\ objects'[m].initialized = objs[m].initialized
                                      /\ objects'[m].executing = objs[m].executing
         /\ \A q \in Path : \/ root'[q] = root[q]
                            \/ q = p /\ f.module = 0 /\ root'[q] = o
<1>1. CASE f.module = 0
  BY <1>1 DEF Bind
<1>2. CASE f.module # 0
  <2> DEFINE k == f.module
             e == [objs[k] EXCEPT !.names[p] = o]
  <2>1. /\ Len(objs) \in Nat /\ DOMAIN objs = 1 .. Len(objs) /\ k \in 1 .. Len(objs)
        /\ objs[k] \in ModuleType
    BY <1>2, ObjectFacts
  <2>2. /\ e.initialized = objs[k].initialized /\ e.executing = objs[k].executing
        /\ \A q \in Path : e.names[q] = IF q = p THEN o ELSE objs[k].names[q]
    BY <2>1 DEF ModuleType
  <2>3. objects' = [objs EXCEPT ![k] = e] /\ root' = root
    BY <1>2 DEF Bind
  <2> HIDE DEF e, k
  <2>4. \A m \in 1 .. Len(objs) : objects'[m] = IF m = k THEN e ELSE objs[m]
    BY <2>1, <2>3
  <2> QED
    BY <2>2, <2>3, <2>4
<1> QED
  BY <1>1, <1>2

LEMMA FailedBound == ASSUME IInv, Bound, Failed PROVE Bound'
<1> PICK objs, published : /\ WellFormed(objs, published)
                           /\ SameDone(objs, published)
                           /\ Fails(objs, published)
  BY DEF Failed
<1> DEFINE partial(q) == published[q] # 0 /\ ~objs[published[q]].initialized
           reset(o) == partial(objs[o].path) /\ published[objs[o].path] = o
<1>1. /\ objs \in Seq(ModuleType) /\ Len(objs) \in Nat /\ DOMAIN objs = 1 .. Len(objs)
      /\ published \in [Path -> 0 .. Len(objs)]
      /\ \A o \in 1 .. Len(objs) : objs[o] \in ModuleType
  BY ObjectFacts DEF WellFormed
<1>2. /\ cache' = [q \in Path |-> IF partial(q) THEN 0 ELSE published[q]]
      /\ objects' = [o \in 1 .. Len(objs) |->
                       IF reset(o) THEN [objs[o] EXCEPT !.executing = FALSE] ELSE objs[o]]
      /\ frames' = <<>> /\ root' = root
  BY <1>1 DEF Fails, Unwind
<1>3. ASSUME NEW q \in Path, root[q] # 0 PROVE root[q] = cache'[q] /\ objects'[root[q]].initialized
  <2> DEFINE o == root[q]
  <2>1. o = cache[q] /\ objects[cache[q]].initialized /\ cache[q] # 0
    BY <1>3 DEF Bound, RootDone
  <2>2. o = published[q] /\ objs[o].initialized
    BY <2>1 DEF SameDone
  <2>3. o \in 1 .. Len(objs) /\ ~partial(q)
    BY <1>1, <1>3, <2>2
  <2>4. objects'[o].initialized
    <3>1. CASE reset(o)
      BY <1>1, <1>2, <2>2, <2>3, <3>1 DEF ModuleType
    <3>2. CASE ~reset(o)
      BY <1>2, <2>2, <2>3, <3>2
    <3> QED
      BY <3>1, <3>2
  <2> QED
    BY <1>2, <2>2, <2>3, <2>4
<1>4. Len(frames') = 0
  BY <1>2
<1>5. RootDone'
  BY <1>2, <1>3 DEF RootDone
<1>6. FramesBound'
  BY <1>4 DEF FramesBound
<1> QED
  BY <1>5, <1>6 DEF Bound

\* The frames go on, and no name and no flag changes.
LEMMA StayBound ==
  ASSUME IInv, Bound, Running, frames' = Advanced(frames), UNCHANGED <<cache, root>>,
         \A m \in 1 .. Len(objects) : /\ objects'[m].initialized = objects[m].initialized
                                      /\ objects'[m].executing = objects[m].executing
                                      /\ objects'[m].names = objects[m].names
  PROVE  Bound'
<1>1. /\ Len(frames') = Len(frames) /\ Len(frames) \in Nat
      /\ \A i \in 1 .. Len(frames) : frames'[i].module = frames[i].module
  BY FrameFacts, AdvancedFacts DEF Running
<1>2. \A i \in 2 .. Len(frames') : \E j \in 2 .. Len(frames) : frames'[i].module = frames[j].module
  BY <1>1
<1> QED
  BY <1>2, BoundGrows DEF AtOnce

LEMMA ExportBound == ASSUME IInv, Bound, Export PROVE Bound'
<1>1. Running /\ ~AtEnd /\ frames' = Advanced(frames) /\ UNCHANGED <<cache, root>>
  BY DEF Export, At
<1>2. CASE Top.module = 0
  BY <1>1, <1>2, StayBound DEF Export
<1>3. CASE Top.module # 0
  <2> DEFINE k == Top.module
             e == [objects[k] EXCEPT !.exported = TRUE]
  <2>1. /\ k \in 1 .. Len(objects) /\ objects[k] \in ModuleType
        /\ DOMAIN objects = 1 .. Len(objects)
    BY <1>1, <1>3, NowFacts, FrameFacts, ObjectFacts DEF FrameType, IInv, WellFormed
  <2>2. /\ e.initialized = objects[k].initialized /\ e.executing = objects[k].executing
        /\ e.names = objects[k].names
    BY <2>1 DEF ModuleType
  <2>3. objects' = [objects EXCEPT ![k] = e]
    BY <1>3 DEF Export
  <2> HIDE DEF e, k
  <2>4. \A m \in 1 .. Len(objects) : objects'[m] = IF m = k THEN e ELSE objects[m]
    BY <2>1, <2>3
  <2>5. \A m \in 1 .. Len(objects) : /\ objects'[m].initialized = objects[m].initialized
                                     /\ objects'[m].executing = objects[m].executing
                                     /\ objects'[m].names = objects[m].names
    BY <2>2, <2>4
  <2> QED
    BY <1>1, <2>5, StayBound
<1> QED
  BY <1>2, <1>3

LEMMA UseBound == ASSUME IInv, Bound, Use PROVE Bound'
<1>1. CASE Fails(objects, cache)
  BY <1>1, FailCase, FailedBound
<1>2. CASE frames' = Advanced(frames) /\ UNCHANGED <<files, objects, cache, root, code, runs, saves>>
  BY <1>2, StayBound DEF Use, At
<1> QED
  BY <1>1, <1>2 DEF Use

\* A module that is imported at once is initialized, if the program imports it:
\* nothing is executing then.
LEMMA BindBound ==
  ASSUME IInv, Bound, Running, NEW p \in Path, AtOnce(objects[cache[p]]),
         cache[p] \in 1 .. Len(objects), Top \in FrameType(Len(objects)),
         Bind(objects, Top, p, cache[p]), cache' = cache, frames' = Advanced(frames)
  PROVE  Bound'
<1>1. /\ Len(frames') = Len(frames) /\ Len(frames) \in Nat \ {0}
      /\ \A i \in 1 .. Len(frames) : frames'[i].module = frames[i].module
  BY FrameFacts, AdvancedFacts DEF Running
<1>2. \A i \in 2 .. Len(frames') : \E j \in 2 .. Len(frames) : frames'[i].module = frames[j].module
  BY <1>1
<1>3. /\ \A m \in 1 .. Len(objects), q \in Path :
            \/ objects'[m].names[q] = objects[m].names[q]
            \/ q = p /\ objects'[m].names[q] = cache[p]
      /\ \A m \in 1 .. Len(objects) : /\ objects'[m].initialized = objects[m].initialized
                                      /\ objects'[m].executing = objects[m].executing
      /\ \A q \in Path : \/ root'[q] = root[q]
                         \/ q = p /\ Top.module = 0 /\ root'[q] = cache[p]
  <2>1. /\ objects \in Seq(ModuleType) /\ root \in [Path -> 0 .. Len(objects)]
        /\ Top.module \in 0 .. Len(objects)
    BY DEF IInv, TypeOK, WellFormed, FrameType
  <2> QED
    BY <2>1, BindNames
<1>4. Top.module = 0 => objects[cache[p]].initialized
  <2> SUFFICES ASSUME Top.module = 0, objects[cache[p]].executing PROVE FALSE
    BY DEF AtOnce
  <2>1. Len(frames) = 1
    BY <1>1 DEF IInv, FrameBodies, Top
  <2>2. DOMAIN objects = 1 .. Len(objects)
    BY ObjectFacts DEF IInv, WellFormed
  <2>3. \E i \in 2 .. Len(frames) : frames[i].module = cache[p]
    BY <2>2 DEF IInv, ExecutingIsOnStack
  <2> QED
    BY <2>1, <2>3
<1>5. /\ \A m \in 1 .. Len(objects) : /\ objects[m].initialized => objects'[m].initialized
                                      /\ AtOnce(objects[m]) => AtOnce(objects'[m])
      /\ \A m \in 1 .. Len(objects), q \in Path :
            \/ objects'[m].names[q] = objects[m].names[q]
            \/ objects'[m].names[q] = cache[q] /\ AtOnce(objects'[cache[q]])
      /\ \A q \in Path : \/ root'[q] = root[q]
                         \/ root'[q] = cache[q] /\ objects'[cache[q]].initialized
  BY <1>3, <1>4 DEF AtOnce
<1> QED
  BY <1>2, <1>5, BoundGrows

\* The new module has bound nothing yet.
LEMMA StartBound == ASSUME IInv, Bound, Running, NEW p \in Path, Starts(p) PROVE Bound'
<1> DEFINE k == Len(objects) + 1
           n == Len(frames)
<1>1. /\ cache[p] = 0 /\ cache' = [cache EXCEPT ![p] = k] /\ root' = root
      /\ \A o \in 1 .. Len(objects) : objects'[o] = objects[o]
      /\ frames' = Append(frames, [module |-> k, pc |-> 1])
  <2>1. k = Len(objects) + 1
    OBVIOUS
  <2> HIDE DEF k
  <2> QED
    BY SMTT(30), <2>1, StartKeeps DEF Starts
<1>2. objects'[k].names = Unbound
  <2> DEFINE l == Published(p)
  <2>1. /\ WellFormed(l.objects, l.cache) /\ Len(l.objects) = k /\ l.module = k
        /\ l.objects[k] = ModuleObject(p, files[p])
    BY <1>1, PublishedFacts DEF Starts
  <2>2. objects' = [l.objects EXCEPT ![l.module].executing = TRUE]
    BY DEF Starts
  <2> HIDE DEF l
  <2>3. k \in 1 .. Len(l.objects) /\ DOMAIN l.objects = 1 .. Len(l.objects)
    BY <2>1, FrameFacts, ObjectFacts DEF WellFormed
  <2> HIDE DEF k
  <2>4. objects'[k] = [ModuleObject(p, files[p]) EXCEPT !.executing = TRUE]
    BY <2>1, <2>2, <2>3
  <2> QED
    BY <2>4 DEF ModuleObject
<1>3. n \in Nat /\ Len(objects) \in Nat /\ frames \in Seq(FrameType(Len(objects)))
  BY FrameFacts
<1>4. /\ Len(frames') = n + 1
      /\ \A i \in 1 .. n : frames'[i] = frames[i]
      /\ frames'[n + 1].module = k
  BY <1>1, <1>3, AppendProperties
<1>5. \A q \in Path : cache[q] # 0 => cache'[q] = cache[q] /\ cache[q] \in 1 .. Len(objects)
  BY <1>1, ImporterFacts DEF IInv, TypeOK
<1>6. RootDone'
  BY <1>1, <1>5 DEF Bound, RootDone
<1>7. ASSUME NEW i \in 2 .. Len(frames'), NEW q \in Path,
             NEW o, o = objects'[frames'[i].module].names[q], o # 0
      PROVE  o = cache'[q] /\ AtOnce(objects'[o])
  <2>1. CASE i = n + 1
    BY <1>2, <1>4, <1>7, <2>1 DEF Unbound
  <2>2. CASE i # n + 1
    <3>1. i \in 2 .. n /\ i \in 1 .. n
      BY <1>3, <1>4, <2>2
    <3>2. frames'[i].module = frames[i].module /\ frames[i].module \in 1 .. Len(objects)
      BY <1>4, <3>1, ImporterFacts
    <3>3. o = objects[frames[i].module].names[q]
      BY <1>1, <1>7, <3>2
    <3>4. o = cache[q] /\ AtOnce(objects[o])
      BY <1>7, <3>1, <3>3 DEF Bound, FramesBound
    <3> QED
      BY <1>1, <1>5, <1>7, <3>4
  <2> QED
    BY <2>1, <2>2
<1>8. FramesBound'
  BY <1>7 DEF FramesBound, AtOnce
<1> QED
  BY <1>6, <1>8 DEF Bound

\* A module's top level is over: its importer binds it.
LEMMA EndBound == ASSUME IInv, Bound, NEW k, Ends(k) PROVE Bound'
<1> DEFINE objs == [objects EXCEPT ![k].executing = FALSE, ![k].initialized = TRUE]
           e == [objects[k] EXCEPT !.executing = FALSE, !.initialized = TRUE]
           n == Len(frames) - 1
           p == objects[k].path
<1>1. /\ n \in Nat \ {0} /\ Len(frames) = n + 1 /\ Len(objects) \in Nat
      /\ k \in 1 .. Len(objects) /\ frames[n + 1].module = k
      /\ objects \in Seq(ModuleType) /\ DOMAIN objects = 1 .. Len(objects)
      /\ objects[k] \in ModuleType /\ p \in Path
  BY FrameFacts, ObjectFacts DEF Ends, Top, IInv, WellFormed
<1>2. /\ Len(frames') = n /\ cache' = cache
      /\ \A i \in 1 .. n : frames'[i].module = frames[i].module
  BY EndKeeps DEF Ends
<1>3. \A i \in 2 .. Len(frames') : \E j \in 2 .. Len(frames) : frames'[i].module = frames[j].module
  BY <1>1, <1>2
<1>4. cache[p] = k
  <2>1. n + 1 \in 2 .. Len(frames)
    BY <1>1
  <2> QED
    BY <1>1, <2>1 DEF IInv, ExecutingIsOnStack
<1>5. e \in ModuleType /\ e.initialized = TRUE /\ e.names = objects[k].names
  BY <1>1 DEF ModuleType
<1>6. objs = [objects EXCEPT ![k] = e]
  BY <1>1
<1>7. Bind(objs, frames[n], p, k)
  BY DEF Ends
<1>8. frames[n].module \in 0 .. Len(objects)
  BY <1>1, FrameFacts DEF FrameType
<1> HIDE DEF objs, e, n
<1>9. /\ objs \in Seq(ModuleType) /\ Len(objs) = Len(objects)
      /\ \A m \in 1 .. Len(objects) : objs[m] = IF m = k THEN e ELSE objects[m]
  BY <1>1, <1>5, <1>6, ExceptSeq
<1> HIDE DEF p
<1>10. /\ \A m \in 1 .. Len(objects), q \in Path :
             \/ objects'[m].names[q] = objs[m].names[q]
             \/ q = p /\ objects'[m].names[q] = k
       /\ \A m \in 1 .. Len(objects) : /\ objects'[m].initialized = objs[m].initialized
                                       /\ objects'[m].executing = objs[m].executing
       /\ \A q \in Path : \/ root'[q] = root[q]
                          \/ q = p /\ root'[q] = k
  <2>1. root \in [Path -> 0 .. Len(objs)] /\ frames[n].module \in 0 .. Len(objs)
    BY <1>8, <1>9 DEF IInv, TypeOK
  <2> DEFINE f == frames[n]
  <2>2. Bind(objs, f, p, k) /\ f.module \in 0 .. Len(objs)
    BY <1>7, <2>1
  <2> HIDE DEF f
  <2> QED
    BY SMTT(30), <1>1, <1>9, <2>1, <2>2, BindNames
<1>11. objects'[k].initialized
  BY <1>1, <1>5, <1>9, <1>10
<1>12. ASSUME NEW m \in 1 .. Len(objects)
       PROVE  /\ objects[m].initialized => objects'[m].initialized
              /\ AtOnce(objects[m]) => AtOnce(objects'[m])
  <2>1. CASE m = k
    BY <1>11, <2>1 DEF AtOnce
  <2>2. CASE m # k
    BY <1>9, <1>10, <2>2 DEF AtOnce
  <2> QED
    BY <2>1, <2>2
<1>13. /\ \A m \in 1 .. Len(objects), q \in Path :
             \/ objects'[m].names[q] = objects[m].names[q]
             \/ objects'[m].names[q] = cache[q] /\ AtOnce(objects'[cache[q]])
       /\ \A q \in Path : \/ root'[q] = root[q]
                          \/ root'[q] = cache[q] /\ objects'[cache[q]].initialized
  BY <1>4, <1>5, <1>9, <1>10, <1>11 DEF AtOnce
<1> QED
  BY <1>2, <1>3, <1>12, <1>13, BoundGrows

LEMMA ImportBound == ASSUME IInv, Bound, Import PROVE Bound'
<1> DEFINE p == Now.path
           l == Published(p)
           m == l.objects[l.module]
<1>1. Running /\ ~AtEnd /\ p \in Path /\ Top \in FrameType(Len(objects))
  BY NowFacts DEF Import, At
<1>2. CASE Failed
  BY <1>2, FailedBound
<1>3. CASE Starts(p)
  BY <1>1, <1>3, StartBound
<1>4. CASE /\ files[p] # Missing /\ AtOnce(m)
           /\ cache' = l.cache
           /\ Bind(l.objects, Top, p, l.module)
           /\ frames' = Advanced(frames)
  <2>1. /\ l = [objects |-> objects, cache |-> cache, module |-> cache[p]]
        /\ cache[p] \in 1 .. Len(objects)
    BY <1>1, <1>4, BoundAtOnce
  <2>2. /\ Bind(objects, Top, p, cache[p]) /\ cache' = cache /\ frames' = Advanced(frames)
        /\ AtOnce(objects[cache[p]])
    BY <1>4, <2>1
  <2> HIDE DEF p
  <2> QED
    BY <1>1, <2>1, <2>2, BindBound
<1>5. \/ frames' = <<>> \/ Starts(p)
      \/ /\ files[p] # Missing /\ AtOnce(m)
         /\ cache' = l.cache
         /\ Bind(l.objects, Top, p, l.module)
         /\ frames' = Advanced(frames)
  BY DEF Import, Fails, Unwind, Starts
<1>6. frames' = <<>> => ~Moves
  <2>1. Len(Advanced(frames)) = Len(frames) /\ Len(frames) \in Nat \ {0}
    BY <1>1, FrameFacts, AdvancedFacts DEF Running
  <2> QED
    BY <2>1 DEF Moves
<1>7. Failed \/ Moves \/ Starts(p)
  BY ImportCases
<1> QED
  BY <1>2, <1>3, <1>4, <1>5, <1>6, <1>7

LEMMA NextBound == ASSUME IInv, Bound, [Next]_vars PROVE Bound'
<1>1. ASSUME NEW program \in Programs, Run(program) PROVE Bound'
  <2>1. UNCHANGED <<objects, cache, root>> /\ Len(frames') = 1
    BY <1>1 DEF Run
  <2> QED
    BY <2>1 DEF Bound, RootDone, FramesBound
<1>2. CASE Import
  BY <1>2, ImportBound
<1>3. CASE Export
  BY <1>3, ExportBound
<1>4. CASE Use
  BY <1>4, UseBound
<1>5. CASE Fail
  BY <1>5, FailCase, FailedBound DEF Fail
<1>6. CASE Return
  <2>1. CASE Finishes
    <3>1. UNCHANGED <<objects, cache, root>> /\ Len(frames') = 0
      BY <2>1 DEF Finishes
    <3> QED
      BY <3>1 DEF Bound, RootDone, FramesBound
  <2>2. CASE Ends(Top.module)
    BY <2>2, EndBound
  <2> QED
    BY <1>6, <2>1, <2>2, ReturnCases
<1>7. CASE UNCHANGED <<objects, cache, root, frames>>
  BY <1>7 DEF Bound, RootDone, FramesBound, AtOnce
<1> QED
  BY <1>1, <1>2, <1>3, <1>4, <1>5, <1>6, <1>7 DEF Next, Save, vars

\* Whatever running code can import under a path is one object, the cached one, and
\* it is initialized or running, also after runs that failed.
THEOREM NamesAreCachedHolds == Spec => []NamesAreCached
<1>1. Init => Bound
  BY DEF Init, Unbound, Bound, RootDone, FramesBound
<1>2. IInv /\ Bound /\ [Next]_vars => Bound'
  BY NextBound
<1>3. IInv /\ Bound => NamesAreCached
  <2> SUFFICES ASSUME IInv, Bound, NEW i \in 1 .. Len(frames), NEW p \in Path,
                      NEW o, o = Names(frames[i])[p], o # 0
               PROVE  o = cache[p] /\ (objects[o].initialized \/ objects[o].executing)
    BY DEF NamesAreCached
  <2>1. CASE i = 1
    BY <2>1 DEF IInv, FrameBodies, Names, Bound, RootDone
  <2>2. CASE i # 1
    <3>1. i \in 2 .. Len(frames) /\ frames[i].module # 0
      BY <2>2, FrameFacts DEF IInv, FrameBodies
    <3> QED
      BY <3>1 DEF Names, Bound, FramesBound, AtOnce
  <2> QED
    BY <2>1, <2>2
<1> QED
  BY <1>1, <1>2, <1>3, Invariant, PTL DEF Spec
-----------------------------------------------------------------------------
(* The loader implements ImportOnce.                                        *)

\* The import stack, index by index.
StackShape ==
  /\ ImportStack \in Seq(Path)
  /\ Len(ImportStack) = IF Running THEN Len(frames) - 1 ELSE 0
  /\ \A i \in 1 .. Len(ImportStack) :
        /\ frames[i + 1].module \in 1 .. Len(objects)
        /\ ImportStack[i] = objects[frames[i + 1].module].path

LEMMA StackFacts == IInv => StackShape
<1> SUFFICES ASSUME IInv PROVE StackShape
  OBVIOUS
<1> DEFINE n == IF Running THEN Len(frames) - 1 ELSE 0
<1>1. /\ n \in Nat /\ 1 .. Len(frames) - 1 = 1 .. n
      /\ \A i \in 1 .. n : i + 1 \in 1 .. Len(frames) /\ i + 1 # 1
  BY FrameFacts
<1> HIDE DEF n
<1>2. \A i \in 1 .. n : frames[i + 1].module \in 1 .. Len(objects)
  <2> SUFFICES ASSUME NEW i \in 1 .. n PROVE frames[i + 1].module \in 1 .. Len(objects)
    OBVIOUS
  <2> DEFINE j == i + 1
  <2>1. j \in 1 .. Len(frames) /\ j # 1
    BY <1>1
  <2> HIDE DEF j
  <2>2. frames[j].module \in 0 .. Len(objects) /\ frames[j].module # 0
    BY <2>1, FrameFacts DEF FrameType, IInv, FrameBodies
  <2>3. Len(objects) \in Nat
    BY FrameFacts
  <2> QED
    BY <2>2, <2>3 DEF j
<1>3. \A i \in 1 .. n : objects[frames[i + 1].module].path \in Path
  BY <1>2, ObjectFacts DEF IInv, WellFormed
<1>4. ImportStack = [i \in 1 .. n |-> objects[frames[i + 1].module].path]
  BY <1>1 DEF ImportStack
<1>5. ImportStack \in [1 .. n -> Path]
  BY <1>3, <1>4
<1>6. ImportStack \in Seq(Path)
  BY <1>1, <1>5, SeqDef
<1>7. Len(ImportStack) = n
  BY <1>1, <1>5, <1>6, LenProperties
<1>8. \A i \in 1 .. n : ImportStack[i] = objects[frames[i + 1].module].path
  BY <1>4
<1> QED
  BY <1>2, <1>6, <1>7, <1>8 DEF n, StackShape

\* The state of a path, and the object it is read from.
StateShape ==
  /\ \A p \in Path : cache[p] # 0 => /\ cache[p] \in 1 .. Len(objects)
                                     /\ objects[cache[p]].path = p
  /\ \A p \in Path : ImportState[p] = IF cache[p] = 0 THEN "absent"
                                      ELSE IF objects[cache[p]].initialized
                                           THEN "done" ELSE "running"
  /\ ImportState = [p \in Path |-> ImportState[p]]

LEMMA StateFacts == IInv => StateShape
<1> SUFFICES ASSUME IInv PROVE StateShape
  OBVIOUS
<1>1. \A p \in Path : cache[p] # 0 => cache[p] \in 1 .. Len(objects) /\ objects[cache[p]].path = p
  BY FrameFacts DEF IInv, WellFormed
<1> QED
  BY <1>1 DEF ImportState, StateShape

\* A step that neither starts nor ends a top level is no step of ImportOnce.
LEMMA MovesStutters == ASSUME IInv, Moves PROVE UNCHANGED Once!vars
<1>1. /\ frames' \in Seq(FrameType(Len(objects))) /\ Len(frames') = Len(frames)
      /\ \A i \in 1 .. Len(frames) : frames'[i].module = frames[i].module
      /\ Len(frames) \in Nat \ {0}
  BY FrameFacts, AdvancedFacts DEF Moves, Running
<1>2. \A o \in 1 .. Len(objects) :
         /\ objects'[o].path = objects[o].path
         /\ objects'[o].initialized <=> objects[o].initialized
  <2>1. \A o \in 1 .. Len(objects) : /\ objects'[o].path = objects[o].path
                                     /\ objects'[o].initialized = objects[o].initialized
    BY DEF Moves, SameButNames
  <2> QED
    BY <2>1, Zenon
<1>3. cache' = cache /\ \A p \in Path : cache[p] # 0 => cache[p] \in 1 .. Len(objects)
  BY StateFacts DEF Moves, StateShape
<1>4. ImportState' = ImportState
  BY <1>2, <1>3 DEF ImportState
<1>5. \A i \in 1 .. Len(frames) - 1 :
         objects'[frames'[i + 1].module].path = objects[frames[i + 1].module].path
  <2>1. Running /\ Len(ImportStack) = Len(frames) - 1
    BY StackFacts DEF Moves, StackShape
  <2>2. \A i \in 1 .. Len(frames) - 1 : i + 1 \in 1 .. Len(frames)
    BY <1>1
  <2>3. \A i \in 1 .. Len(frames) - 1 : frames[i + 1].module \in 1 .. Len(objects)
    BY <2>1, StackFacts DEF StackShape
  <2> QED
    BY <1>1, <1>2, <2>2, <2>3
<1>6. ImportStack' = ImportStack
  BY <1>1, <1>5 DEF ImportStack
<1> QED
  BY <1>4, <1>6 DEF Once!vars

\* An error aborts every import that is going on.
LEMMA FailedAborts == ASSUME IInv, StackShape', Failed PROVE Once!Abort
<1> PICK objs, published : /\ WellFormed(objs, published) /\ Len(objects) <= Len(objs)
                           /\ SameDone(objs, published)
                           /\ Fails(objs, published)
  BY DEF Failed
<1> DEFINE partial(q) == published[q] # 0 /\ ~objs[published[q]].initialized
           reset(o) == partial(objs[o].path) /\ published[objs[o].path] = o
<1>1. frames' = <<>> /\ cache' = [q \in Path |-> IF partial(q) THEN 0 ELSE published[q]]
  BY DEF Fails, Unwind
<1>2. ImportStack' = <<>>
  <2>1. ~Running'
    BY <1>1 DEF Running
  <2>2. ImportStack' \in Seq(Path) /\ Len(ImportStack') = 0
    BY <2>1 DEF StackShape
  <2> QED
    BY <2>2, EmptySeq
<1>3. /\ objs \in Seq(ModuleType) /\ DOMAIN objs = 1 .. Len(objs) /\ Len(objs) \in Nat
      /\ \A o \in 1 .. Len(objs) : objs[o] \in ModuleType
      /\ published \in [Path -> 0 .. Len(objs)]
  BY ObjectFacts DEF WellFormed
<1>4. objects' = [o \in 1 .. Len(objs) |->
                    IF reset(o) THEN [objs[o] EXCEPT !.executing = FALSE] ELSE objs[o]]
  BY <1>3 DEF Fails, Unwind
<1>5. \A q \in Path : ImportState'[q] = IF ImportState[q] = "running" THEN "absent"
                                        ELSE ImportState[q]
  <2> SUFFICES ASSUME NEW q \in Path
               PROVE  ImportState'[q] = IF ImportState[q] = "running" THEN "absent"
                                        ELSE ImportState[q]
    OBVIOUS
  <2>1. ImportState[q] = IF cache[q] = 0 THEN "absent"
                         ELSE IF objects[cache[q]].initialized THEN "done" ELSE "running"
    BY DEF ImportState
  <2>2. ImportState'[q] = IF cache'[q] = 0 THEN "absent"
                          ELSE IF objects'[cache'[q]].initialized THEN "done" ELSE "running"
    BY DEF ImportState
  <2>3. (published[q] # 0 /\ objs[published[q]].initialized)
          <=> (cache[q] # 0 /\ objects[cache[q]].initialized)
    BY DEF SameDone
  <2>4. CASE published[q] # 0 /\ objs[published[q]].initialized
    <3>1. cache'[q] = published[q] /\ published[q] \in 1 .. Len(objs) /\ published[q] # 0
      BY <1>1, <1>3, <2>4
    <3>2. objects'[published[q]].initialized
      <4>1. CASE reset(published[q])
        BY <1>3, <1>4, <2>4, <3>1, <4>1 DEF ModuleType
      <4>2. CASE ~reset(published[q])
        BY <1>4, <2>4, <3>1, <4>2
      <4> QED
        BY <4>1, <4>2
    <3> QED
      BY <2>1, <2>2, <2>3, <2>4, <3>1, <3>2
  <2>5. CASE ~(published[q] # 0 /\ objs[published[q]].initialized)
    <3>1. cache'[q] = 0
      BY <1>1, <2>5
    <3> QED
      BY <2>1, <2>2, <2>3, <2>5, <3>1
  <2> QED
    BY <2>4, <2>5
<1>6. ImportState' = [q \in Path |-> ImportState'[q]]
  BY DEF ImportState
<1>7. ImportState' = [q \in Path |-> IF ImportState[q] = "running" THEN "absent"
                                     ELSE ImportState[q]]
  BY <1>5, <1>6
<1> QED
  BY <1>2, <1>7 DEF Once!Abort

\* A module's frame is pushed: its import begins.
LEMMA StartBegins ==
  ASSUME IInv, StackShape', Running, NEW p \in Path, Starts(p) PROVE Once!Begin(p)
<1> PICK k : k = Len(objects) + 1
  OBVIOUS
<1>1. /\ cache[p] = 0 /\ Len(objects') = k
      /\ objects'[k].path = p /\ ~objects'[k].initialized
      /\ cache' = [cache EXCEPT ![p] = k]
      /\ \A o \in 1 .. Len(objects) : objects'[o] = objects[o]
      /\ frames' = Append(frames, [module |-> k, pc |-> 1])
  BY StartKeeps
<1>2. /\ Len(objects) \in Nat /\ k \in Nat \ {0} /\ Len(frames) \in Nat \ {0}
      /\ cache \in [Path -> 0 .. Len(objects)]
      /\ frames \in Seq(FrameType(Len(objects)))
  BY FrameFacts DEF IInv, TypeOK
<1>3. StateShape /\ StackShape
  BY StateFacts, StackFacts
<1>4. ImportState[p] = "absent"
  BY <1>1, <1>3 DEF StateShape
<1>5. \A q \in Path : ImportState'[q] = IF q = p THEN "running" ELSE ImportState[q]
  <2> SUFFICES ASSUME NEW q \in Path
               PROVE  ImportState'[q] = IF q = p THEN "running" ELSE ImportState[q]
    OBVIOUS
  <2>1. ImportState'[q] = IF cache'[q] = 0 THEN "absent"
                          ELSE IF objects'[cache'[q]].initialized THEN "done" ELSE "running"
    BY DEF ImportState
  <2>2. CASE q = p
    <3>1. cache'[q] = k
      BY <1>1, <1>2, <2>2
    <3> QED
      BY <1>1, <1>2, <2>1, <2>2, <3>1
  <2>3. CASE q # p
    <3>1. cache'[q] = cache[q]
      BY <1>1, <2>3
    <3>2. cache[q] # 0 => objects'[cache[q]] = objects[cache[q]]
      BY <1>1, <1>3 DEF StateShape
    <3>3. ImportState[q] = IF cache[q] = 0 THEN "absent"
                           ELSE IF objects[cache[q]].initialized THEN "done" ELSE "running"
      BY DEF ImportState
    <3> QED
      BY <2>1, <2>3, <3>1, <3>2, <3>3
  <2> QED
    BY <2>2, <2>3
<1>6. ImportState' = [ImportState EXCEPT ![p] = "running"]
  <2>1. /\ ImportState' = [q \in Path |-> ImportState'[q]]
        /\ ImportState = [q \in Path |-> ImportState[q]]
    BY DEF ImportState
  <2> QED
    BY <1>5, <2>1
<1>7. /\ Running' /\ Len(frames') = Len(frames) + 1
      /\ frames'[Len(frames) + 1].module = k
      /\ \A i \in 1 .. Len(frames) : frames'[i] = frames[i]
  <2>1. [module |-> k, pc |-> 1] \in FrameType(k)
    BY <1>2 DEF FrameType
  <2>2. frames \in Seq(FrameType(k))
    BY <1>2, FramesGrow
  <2> DEFINE fresh == [module |-> k, pc |-> 1]
  <2>3. fresh.module = k /\ fresh \in FrameType(k) /\ frames' = Append(frames, fresh)
    BY <1>1, <2>1
  <2> HIDE DEF fresh
  <2> QED
    BY <2>2, <2>3, AppendFacts DEF Running
<1>8. ImportStack' = Append(ImportStack, p)
  <2> DEFINE s == ImportStack
             t == ImportStack'
             a == Append(ImportStack, p)
             n == Len(frames)
  <2>1. /\ s \in Seq(Path) /\ Len(s) = n - 1 /\ n \in Nat \ {0}
        /\ t \in Seq(Path) /\ Len(t) = n
        /\ \A i \in 1 .. n - 1 : /\ frames[i + 1].module \in 1 .. Len(objects)
                                 /\ s[i] = objects[frames[i + 1].module].path
        /\ \A i \in 1 .. n : t[i] = objects'[frames'[i + 1].module].path
    BY <1>2, <1>3, <1>7 DEF StackShape
  <2>2. /\ \A i \in 1 .. n - 1 : frames'[i + 1] = frames[i + 1]
        /\ frames'[n + 1].module = k
    BY <1>2, <1>7
  <2> HIDE DEF s, t, n
  <2>3. /\ a \in Seq(Path) /\ Len(a) = Len(s) + 1
        /\ \A i \in 1 .. Len(s) : a[i] = s[i]
        /\ a[Len(s) + 1] = p
    BY <2>1, AppendFacts DEF s
  <2> HIDE DEF a
  <2>4. ASSUME NEW i \in 1 .. n PROVE t[i] = a[i]
    <3>1. CASE i = n
      <4>1. t[n] = objects'[frames'[n + 1].module].path
        BY <2>1
      <4>2. t[n] = p
        BY <1>1, <2>2, <4>1
      <4>3. a[n] = p
        BY <2>1, <2>3
      <4> QED
        BY <3>1, <4>2, <4>3
    <3>2. CASE i # n
      <4>1. i \in 1 .. n - 1
        BY <2>1, <3>2
      <4>2. t[i] = objects[frames[i + 1].module].path
        <5>1. t[i] = objects'[frames'[i + 1].module].path
          BY <2>1
        <5>2. frames'[i + 1] = frames[i + 1] /\ frames[i + 1].module \in 1 .. Len(objects)
          BY <2>1, <2>2, <4>1
        <5>3. \A o \in 1 .. Len(objects) : objects'[o] = objects[o]
          BY <1>1
        <5> QED
          BY <5>1, <5>2, <5>3
      <4> QED
        BY <2>1, <2>3, <4>1, <4>2
    <3> QED
      BY <3>1, <3>2
  <2>5. Len(t) = Len(a) /\ \A i \in 1 .. Len(t) : t[i] = a[i]
    BY <2>1, <2>3, <2>4
  <2>6. t = a
    BY <2>1, <2>3, <2>5, SeqEqual
  <2> QED
    BY <2>6 DEF t, a
<1> QED
  BY <1>4, <1>6, <1>8 DEF Once!Begin

\* A module's frame is popped: its import has come to its end.
LEMMA EndEnds ==
  ASSUME IInv, StackShape', NEW k, Ends(k) PROVE Once!End
<1> DEFINE s == ImportStack
           t == ImportStack'
           n == Len(frames) - 1
<1>1. /\ Len(frames') = Len(frames) - 1 /\ Len(objects') = Len(objects)
      /\ \A i \in 1 .. Len(frames) - 1 : frames'[i].module = frames[i].module
      /\ \A o \in 1 .. Len(objects) :
            /\ objects'[o].path = objects[o].path
            /\ objects'[o].initialized <=> o = k \/ objects[o].initialized
      /\ cache' = cache
  BY EndKeeps DEF Ends
<1>2. /\ n \in Nat \ {0} /\ Len(frames) = n + 1 /\ Len(frames) \in Nat /\ Running
      /\ Len(objects) \in Nat /\ k \in 1 .. Len(objects) /\ frames[n + 1].module = k
  BY FrameFacts DEF Ends, Top
<1>3. StateShape /\ StackShape
  BY StateFacts, StackFacts
<1>4. Running'
  BY <1>1, <1>2, EmptySeq DEF Running
<1>5. /\ s \in Seq(Path) /\ Len(s) = n
      /\ t \in Seq(Path) /\ Len(t) = n - 1
      /\ \A i \in 1 .. n : /\ frames[i + 1].module \in 1 .. Len(objects)
                           /\ s[i] = objects[frames[i + 1].module].path
      /\ \A i \in 1 .. n - 1 : t[i] = objects'[frames'[i + 1].module].path
  BY <1>1, <1>2, <1>3, <1>4 DEF StackShape
<1>6. objects[k].path \in Path /\ cache[objects[k].path] = k
  <2>1. Len(frames) \in 2 .. Len(frames) /\ frames[Len(frames)].module = k
    BY <1>2
  <2> QED
    BY <1>2, <2>1, ObjectFacts DEF IInv, WellFormed, ExecutingIsOnStack
<1>7. s[n] = objects[k].path
  BY <1>2, <1>5
<1>8. \A q \in Path : ImportState'[q] = IF q = objects[k].path THEN "done" ELSE ImportState[q]
  <2> SUFFICES ASSUME NEW q \in Path
               PROVE  ImportState'[q] = IF q = objects[k].path THEN "done" ELSE ImportState[q]
    OBVIOUS
  <2>1. ImportState'[q] = IF cache[q] = 0 THEN "absent"
                          ELSE IF objects'[cache[q]].initialized THEN "done" ELSE "running"
    BY <1>1 DEF ImportState
  <2>2. ImportState[q] = IF cache[q] = 0 THEN "absent"
                         ELSE IF objects[cache[q]].initialized THEN "done" ELSE "running"
    BY DEF ImportState
  <2>3. CASE q = objects[k].path
    BY <1>1, <1>2, <1>6, <2>1, <2>3
  <2>4. CASE q # objects[k].path
    <3>1. cache[q] # 0 => /\ cache[q] \in 1 .. Len(objects) /\ cache[q] # k
      BY <1>3, <2>4 DEF StateShape
    <3>2. cache[q] # 0 => (objects'[cache[q]].initialized <=> objects[cache[q]].initialized)
      BY <1>1, <3>1
    <3> QED
      BY <2>1, <2>2, <2>4, <3>2
  <2> QED
    BY <2>3, <2>4
<1>9. ImportState' = [ImportState EXCEPT ![s[n]] = "done"]
  <2>1. /\ ImportState' = [q \in Path |-> ImportState'[q]]
        /\ ImportState = [q \in Path |-> ImportState[q]]
    BY DEF ImportState
  <2>2. ImportState' = [ImportState EXCEPT ![objects[k].path] = "done"]
    BY <1>8, <2>1
  <2> QED
    BY <1>7, <2>2
<1>10. \A i \in 1 .. n - 1 : t[i] = s[i]
  <2> SUFFICES ASSUME NEW i \in 1 .. n - 1 PROVE t[i] = s[i]
    OBVIOUS
  <2>1. i \in 1 .. n /\ i + 1 \in 1 .. Len(frames) - 1
    BY <1>2
  <2>2. frames[i + 1].module \in 1 .. Len(objects) /\ s[i] = objects[frames[i + 1].module].path
    BY <1>5, <2>1
  <2>3. t[i] = objects'[frames'[i + 1].module].path
    BY <1>5
  <2>4. frames'[i + 1].module = frames[i + 1].module
    BY <1>1, <2>1
  <2>5. objects'[frames[i + 1].module].path = objects[frames[i + 1].module].path
    BY <1>1, <2>2
  <2> QED
    BY <2>2, <2>3, <2>4, <2>5
<1> HIDE DEF s, t, n
<1>11. s # <<>>
  BY <1>2, <1>5, EmptySeq
<1>12. Front(s) \in Seq(Path) /\ Len(Front(s)) = n - 1 /\ \A i \in 1 .. n - 1 : Front(s)[i] = s[i]
  BY <1>5, <1>11, FrontFacts
<1>13. t = Front(s)
  BY <1>5, <1>10, <1>12, SeqEqual
<1>14. t = SubSeq(s, 1, Len(s) - 1)
  BY <1>13 DEF Front
<1> QED
  BY <1>5, <1>9, <1>11, <1>14 DEF Once!End, s, t, n

LEMMA OnceInit == Init => Once!Init
<1> SUFFICES ASSUME Init PROVE Once!Init
  OBVIOUS
<1>1. ImportState = [p \in Path |-> "absent"]
  BY DEF Init, Unbound, ImportState
<1>2. IInv /\ ~Running
  BY InitHolds DEF Init, Running
<1>3. ImportStack = <<>>
  BY <1>2, StackFacts, EmptySeq DEF StackShape
<1> QED
  BY <1>1, <1>3 DEF Once!Init

\* Neither the program's first frame nor its last is an import.
LEMMA IdleStutters ==
  ASSUME StackShape, StackShape', UNCHANGED <<objects, cache>>,
         \/ frames = <<>> /\ Len(frames') = 1
         \/ Len(frames) = 1 /\ frames' = <<>>
  PROVE  UNCHANGED Once!vars
<1>1. Len(<<>>) = 0
  BY EmptySeq
<1>2. ImportStack \in Seq(Path) /\ Len(ImportStack) = 0
  BY <1>1 DEF StackShape, Running
<1>3. ImportStack' \in Seq(Path) /\ Len(ImportStack') = 0
  BY <1>1 DEF StackShape, Running
<1>4. ImportStack = <<>> /\ ImportStack' = <<>>
  BY <1>2, <1>3, EmptySeq
<1> QED
  BY <1>4 DEF Once!vars, ImportState

\* Every step of the loader is one of ImportOnce, or leaves its variables alone.
LEMMA OnceStep == ASSUME IInv, StackShape', [Next]_vars PROVE [Once!Next]_(Once!vars)
<1>1. CASE Failed
  BY <1>1, FailedAborts DEF Once!Next
<1>2. CASE Moves
  BY <1>2, MovesStutters
<1>3. CASE Import
  BY <1>1, <1>2, <1>3, ImportCases, StartBegins DEF Once!Next
<1>4. CASE Export
  BY <1>2, <1>4, ExportCase
<1>5. CASE Use
  BY <1>1, <1>2, <1>5, UseCases
<1>6. CASE Fail
  BY <1>1, <1>6, FailCase DEF Fail
<1>7. CASE Return
  <2>1. CASE Finishes
    <3>1. UNCHANGED <<objects, cache>> /\ Len(frames) = 1 /\ frames' = <<>>
      BY <2>1 DEF Finishes
    <3> QED
      BY <3>1, StackFacts, IdleStutters
  <2>2. CASE Ends(Top.module)
    BY <2>2, EndEnds DEF Once!Next
  <2> QED
    BY <1>7, <2>1, <2>2, ReturnCases
<1>8. ASSUME NEW program \in Programs, Run(program) PROVE UNCHANGED Once!vars
  <2>1. UNCHANGED <<objects, cache>> /\ frames = <<>> /\ Len(frames') = 1
    BY <1>8 DEF Run, Running
  <2> QED
    BY <2>1, StackFacts, IdleStutters
<1>9. CASE UNCHANGED <<objects, cache, frames>>
  BY <1>9 DEF Once!vars, ImportState, ImportStack
<1> QED
  BY <1>3, <1>4, <1>5, <1>6, <1>7, <1>8, <1>9 DEF Next, Save, vars

\* A module's top level runs once to its end, an import cycle does not start it a
\* second time, and a run that fails leaves no module half done in the cache: the
\* cache, the flags and the frames implement ImportOnce.
THEOREM ImportedOnceHolds == Spec => ImportedOnce
<1>1. IInv => StackShape
  BY StackFacts
<1>2. IInv /\ StackShape' /\ [Next]_vars => [Once!Next]_(Once!vars)
  BY OnceStep
<1> QED
  BY <1>1, <1>2, OnceInit, Invariant, PTL DEF ImportedOnce, Once!Spec, Spec
=============================================================================
