---------------------------- MODULE ModuleLoader ----------------------------
(***************************************************************************)
(* Modules of one virtual machine: load_module and its cache, the          *)
(* IMPORT_MODULE instruction, the frames of modules' top levels, and what  *)
(* an error leaves behind for the next run.  A module's source is a        *)
(* sequence of top-level statements; every module exports one name.        *)
(* Finding a module's path from its name is abstracted: a statement names  *)
(* the path.                                                               *)
(*                                                                         *)
(* An operator named ...Fault is no part of the model: it is a bug one     *)
(* could make in the definition after it, and a property has to notice it. *)
(***************************************************************************)
EXTENDS Naturals, Sequences, SequencesExt

CONSTANTS
  Path,          \* paths of modules
  Source,        \* what a file can hold: a sequence of statements, Missing or Invalid
  Missing,       \* there is no such file
  Invalid,       \* a file that cannot be read, parsed or compiled
  Programs,      \* the programs the host runs
  MaxFrames,     \* VM::MAX_FRAMES
  MaxRuns,       \* bound: runs of the host
  MaxSaves       \* bound: times a file is changed

Statement == [op : {"import", "use"}, path : Path] \cup [op : {"export", "fail"}]

ASSUME ConstantsAssumption ==
  /\ Missing \in Source /\ Invalid \in Source
  /\ Programs \cup (Source \ {Missing, Invalid}) \subseteq Seq(Statement)
  /\ MaxFrames \in Nat \ {0} /\ MaxRuns \in Nat /\ MaxSaves \in Nat

VARIABLES
  files,     \* the file system, as far as modules go
  objects,   \* every ObjModule made, with its environment; in order of creation
  cache,     \* m_module_cache: the index of a path's object, 0 for none
  root,      \* m_root_environment: the modules the programs' names are bound to
  frames,    \* top-level frames, innermost last; module 0 is the program's own
  code,      \* the chunk of the running program
  runs, saves

vars == <<files, objects, cache, root, frames, code, runs, saves>>

Unbound == [p \in Path |-> 0]

ModuleObject(path, body) ==
  [path |-> path, body |-> body, initialized |-> FALSE, executing |-> FALSE,
   exported |-> FALSE, names |-> Unbound]

Init == /\ files \in [Path -> Source]
        /\ objects = <<>>
        /\ cache = Unbound
        /\ root = Unbound
        /\ frames = <<>>
        /\ code = <<>>
        /\ runs = 0 /\ saves = 0

Top     == frames[Len(frames)]
Running == frames # <<>>

Body(frame) == IF frame.module = 0 THEN code ELSE objects[frame.module].body
AtEnd       == Top.pc > Len(Body(Top))
Now         == Body(Top)[Top.pc]
At(op)      == Running /\ ~AtEnd /\ Now.op = op

\* The modules a frame's names are bound to.
Names(frame) == IF frame.module = 0 THEN root ELSE objects[frame.module].names

Advanced(fs) == [fs EXCEPT ![Len(fs)].pc = @ + 1]
-----------------------------------------------------------------------------
\* The host runs a program in this machine.
Run(program) == /\ ~Running
                /\ runs < MaxRuns
                /\ runs' = runs + 1
                /\ code' = program
                /\ frames' = <<[module |-> 0, pc |-> 1]>>
                /\ UNCHANGED <<files, objects, cache, root, saves>>

\* Only modules that are running when the error is raised are forgotten; one
\* that was published and never got to run stays.
PublishedUnwindFault(objs, published) ==
  LET partial(p) == published[p] # 0 /\ objs[published[p]].executing
  IN
  /\ cache' = [p \in Path |-> IF partial(p) THEN 0 ELSE published[p]]
  /\ objects' = [o \in DOMAIN objs |-> IF partial(objs[o].path) /\ published[objs[o].path] = o
                                       THEN [objs[o] EXCEPT !.executing = FALSE] ELSE objs[o]]
  /\ frames' = <<>>

\* An error: every frame goes, and with them the cached modules that are not
\* initialized; objs and published are what load_module had made of them.
Unwind(objs, published) ==
  LET partial(p) == published[p] # 0 /\ ~objs[published[p]].initialized
  IN
  /\ cache' = [p \in Path |-> IF partial(p) THEN 0 ELSE published[p]]
  /\ objects' = [o \in DOMAIN objs |-> IF partial(objs[o].path) /\ published[objs[o].path] = o
                                       THEN [objs[o] EXCEPT !.executing = FALSE] ELSE objs[o]]
  /\ frames' = <<>>

Fails(objs, published) == Unwind(objs, published) /\ UNCHANGED <<files, root, code, runs, saves>>

\* STORE_GLOBAL of the imported module o, in the environment of frame f.
Bind(objs, f, p, o) ==
  IF f.module = 0
  THEN /\ root' = [root EXCEPT ![p] = o]
       /\ objects' = objs
  ELSE /\ objects' = [objs EXCEPT ![f.module].names[p] = o]
       /\ UNCHANGED root

\* The module is published only when its top level has been run.
LatePublishedFault(p) ==
  IF cache[p] # 0 THEN [objects |-> objects, cache |-> cache, module |-> cache[p]]
  ELSE [objects |-> Append(objects, ModuleObject(p, files[p])),
        cache   |-> cache,
        module  |-> Len(objects) + 1]

\* load_module: the object is in the cache before its source is read.
Published(p) ==
  IF cache[p] # 0 THEN [objects |-> objects, cache |-> cache, module |-> cache[p]]
  ELSE [objects |-> Append(objects, ModuleObject(p, files[p])),
        cache   |-> [cache EXCEPT ![p] = Len(objects) + 1],
        module  |-> Len(objects) + 1]

\* Is importing m done at once, without running its top level?
AtOnce(m) == m.initialized \/ m.executing

\* The last frame is taken twice.
FramesLeftFault == Len(frames) <= MaxFrames

FramesLeft == Len(frames) < MaxFrames

Import ==
  LET p == Now.path
      l == Published(p)
      m == l.objects[l.module]
  IN
  /\ At("import")
  /\ \/ files[p] = Missing /\ Fails(objects, cache)       \* resolve_module_path finds nothing
     \/ /\ files[p] # Missing
        /\ m.body = Invalid                               \* load_module returns the error
        /\ Fails(l.objects, l.cache)
     \/ /\ files[p] # Missing /\ m.body # Invalid
        /\ AtOnce(m)
        /\ cache' = l.cache
        /\ Bind(l.objects, Top, p, l.module)
        /\ frames' = Advanced(frames)
        /\ UNCHANGED <<files, code, runs, saves>>
     \/ /\ files[p] # Missing /\ m.body # Invalid
        /\ ~AtOnce(m)
        /\ LET started == [l.objects EXCEPT ![l.module].executing = TRUE] IN
           \/ ~FramesLeft /\ Fails(started, l.cache)
           \/ /\ FramesLeft
              /\ cache' = l.cache
              /\ objects' = started
              /\ frames' = Append(frames, [module |-> l.module, pc |-> 1])
              /\ UNCHANGED <<files, root, code, runs, saves>>

\* A module's definition of the name it exports.
Export == /\ At("export")
          /\ objects' = IF Top.module = 0 THEN objects
                        ELSE [objects EXCEPT ![Top.module].exported = TRUE]
          /\ frames' = Advanced(frames)
          /\ UNCHANGED <<files, cache, root, code, runs, saves>>

\* A member of an imported module, or a from-import: GET_FIELD on the module.
Use == LET o == Names(Top)[Now.path] IN
       /\ At("use")
       /\ IF o = 0 \/ ~objects[o].exported          \* no such name, or no such export yet
          THEN Fails(objects, cache)
          ELSE /\ frames' = Advanced(frames)
               /\ UNCHANGED <<files, objects, cache, root, code, runs, saves>>

Fail == At("fail") /\ Fails(objects, cache)

\* The module's frame goes, but the module is not marked as initialized.
ForgetfulReturnFault ==
  /\ Running /\ AtEnd
  /\ frames' = IF Len(frames) = 1 THEN <<>> ELSE Advanced(Front(frames))
  /\ IF Top.module = 0 THEN UNCHANGED <<objects, root>>
     ELSE Bind([objects EXCEPT ![Top.module].executing = FALSE],
               frames[Len(frames) - 1], objects[Top.module].path, Top.module)
  /\ UNCHANGED <<files, cache, code, runs, saves>>

\* The top level is over: a module is initialized and its importer, which goes on
\* after its IMPORT_MODULE, binds it.
Return ==
  /\ Running /\ AtEnd
  /\ frames' = IF Len(frames) = 1 THEN <<>> ELSE Advanced(Front(frames))
  /\ IF Top.module = 0 THEN UNCHANGED <<objects, root>>
     ELSE Bind([objects EXCEPT ![Top.module].executing = FALSE, ![Top.module].initialized = TRUE],
               frames[Len(frames) - 1], objects[Top.module].path, Top.module)
  /\ UNCHANGED <<files, cache, code, runs, saves>>

\* A file is written, or removed.
Save(p, source) == /\ saves < MaxSaves
                   /\ saves' = saves + 1
                   /\ files' = [files EXCEPT ![p] = source]
                   /\ UNCHANGED <<objects, cache, root, frames, code, runs>>

Next == \/ \E program \in Programs : Run(program)
        \/ Import \/ Export \/ Use \/ Fail \/ Return
        \/ \E p \in Path, source \in Source : Save(p, source)

Spec == Init /\ [][Next]_vars
-----------------------------------------------------------------------------
(* Properties.                                                              *)

ModuleType == [path : Path, body : Source \ {Missing}, initialized : BOOLEAN,
               executing : BOOLEAN, exported : BOOLEAN, names : [Path -> Nat]]

TypeOK == /\ files \in [Path -> Source]
          /\ objects \in Seq(ModuleType)
          /\ \A n \in {cache, root} : n \in [Path -> 0 .. Len(objects)]
          /\ frames \in Seq([module : 0 .. Len(objects), pc : Nat \ {0}])
          /\ Len(frames) <= MaxFrames
          /\ code \in Programs \cup {<<>>}
          /\ runs \in 0 .. MaxRuns /\ saves \in 0 .. MaxSaves

\* The executing flag, which breaks import cycles, is set exactly for the modules
\* whose top level is on the frame stack; no module is there twice; and each is
\* the one its path is cached as.
ExecutingIsOnStack ==
  /\ \A o \in DOMAIN objects :
        objects[o].executing <=> \E i \in 2 .. Len(frames) : frames[i].module = o
  /\ \A i, j \in 2 .. Len(frames) :
        /\ i # j => frames[i].module # frames[j].module
        /\ cache[objects[frames[i].module].path] = frames[i].module

\* Everything running code can import under one path is one object: a name bound
\* by a module that is running, or by a program, is the module cached for the
\* path, and that module is initialized or running.
NamesAreCached ==
  Running => \A i \in 1 .. Len(frames), p \in Path :
     LET o == Names(frames[i])[p] IN
     o # 0 => o = cache[p] /\ (objects[o].initialized \/ objects[o].executing)

\* The cache, the flags and the frames implement ImportOnce.
ImportState == [p \in Path |-> IF cache[p] = 0 THEN "absent"
                               ELSE IF objects[cache[p]].initialized THEN "done" ELSE "running"]
ImportStack == [i \in 1 .. Len(frames) - 1 |-> objects[frames[i + 1].module].path]

Once == INSTANCE ImportOnce WITH Path <- Path, state <- ImportState, running <- ImportStack

\* A module runs once to its end, cycles do not start it again, and a failed run
\* leaves no module half done in the cache.
ImportedOnce == Once!Spec

\* error_handler.cc: a partially initialized module "is useful only while breaking
\* an active import cycle. It must never masquerade as a successful import on
\* retry."  Between runs no initialized module holds a partial one.
NoPartialSurvives ==
  ~Running => \A p, q \in Path :
     LET o == IF cache[p] = 0 THEN 0 ELSE objects[cache[p]].names[q] IN
     o # 0 => objects[o].initialized
=============================================================================
