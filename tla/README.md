# A verification project for Fairuz

Fairuz is an Arabic programming language: a lexer, parser and compiler to
register bytecode, a virtual machine with a collector and natives, a module
system, and a right-to-left VS Code editor. This directory holds TLA+ models of
the parts of it that are hard to test, TLC configurations that check them on
small instances, and proofs, checked by TLAPS, of what matters most about them
for every size. Paths below are relative to the repository's root unless they
name a module of this directory.

Contents: [inventory](#inventory), [plan](#plan), then one section per modelled
component ([call stack](#the-call-stack), [editor](#the-editors-two-copies),
[editor services](#the-editors-services), [modules](#the-module-loader),
[collector](#the-collector), [data structures and
numbers](#table-numbers-and-blocks)), [disagreements found](#disagreements-found),
[what is proved](#what-is-proved), [limits](#limits).

## Inventory

| Component | State it keeps | Operations | Interacts with |
|---|---|---|---|
| VM call stack and execute loop (`lib/Interpreter/call.cc`, `execute.cc`, `vm.cc`, `error_handler.cc`) | one value stack and its live top, the frame stack, `stop_frame_depth` of nested `execute()` calls | calls of six kinds of callable, tail calls, operator methods, returns, `call_value_sync`, `unwind` | natives re-enter it; the collector reads its stack; the compiler promises it the register layout |
| Editor synchronisation (`documentSync.js`, `webviewEditor.js`, `rtleditorprovider.js`) | webview: base, local, version, flight, conflict, queued action, stored recovery text; provider: promise queue, `expectedText`, `lastSentVersion` | edit, acknowledge, snapshot, resolve, save and run, recovery by timer and by hand, reload | messages between two processes; VS Code's document, which others change |
| Module loader (`module.cc`, `IMPORT_MODULE`) | cache by path, `initialized` and `executing` flags, environments | import, run of a top level, failure, retry | frames of the call stack, the files, `unwind` |
| Garbage collector (`gc.cc`) | all objects, gray list, sizes, marks | allocate, mark roots, trace, sweep | roots from stack, frames, environments, cache, interned strings; runs only between instructions |
| Objects, values, integers (`object.cc`, `value.cc`, `integer.cc`) | NaN-boxed values; limbs and sign | arithmetic, comparison, conversion, dictionaries in insertion order | natives, opcodes |
| Natives and tasks (`lib/Interpreter/builtins`) | task objects (a result or an error), file handles | `dynamic_call`, `task_start` and pure functions | `call_value_sync` |
| Compiler (`lib/Compiler`) | scopes, registers in use, loop patches, deferred function bodies | compile a statement or expression, defer a body, patch a jump | chunks used by the VM; compiled again at a function's first call |
| Lexer (`lexer.cc`) | two indentation stacks, token buffer | next token | the parser |
| Parser and AST | token cursor | recursive descent, lazy bodies | compiler |
| Diagnostics (`diagnostic.cc`) | one process-wide list | report, dump, reset | everything |
| Protected runner (`VMRunner.cc`) | the host's allocator and diagnostics, saved | run a file, translate every error, restore | arena, diagnostics, VM |
| Support (arena, table, arrays) | blocks; buckets of an open addressing table | allocate, insert, erase | dictionaries, environments, interned strings |
| Language services (`compilerService.js`, `semanticHighlighter.js`, `extension.js`, and their ends in the webview and the provider) | request counters and timers, one cancellation source per service, child processes, temporary directories, lists of diagnostics, colours | check, format, highlight, run, stop | webview, provider, compiler executable, VS Code's tasks |
| Editor's own tools (`languageTools.js`, `webviewEditor.js`, `documentSync.js`) | none that outlives a call | outline, layout, local colours, places, changes | the webview |
| Command line, formatter, highlighter | none that outlives a call | sequential | |
| Library, documentation, packaging, Monaco | | | programs, prose, third-party code |

What makes each correct, and where it is hard:

* **Call stack.** Five pieces of code lay out a frame by hand. A callee's window
  must not reach into a live register of a suspended caller; a return must
  restore all of the caller's window; a nested `execute()` must stop exactly
  when its callee's frame is gone, whichever instruction ended it; whatever lies
  below the live top must be initialised, because the collector reads it.
  Violations need a sequence of calls of several kinds. *Modelled.*
* **Editor.** Messages are lost and late, `applyEdit` is awaited while others
  change the document, the webview dies in the middle of an edit. No draft may
  be lost, no foreign text silently overwritten, no save or run may act on
  another text than the one the writer saw, and the last draft has to reach the
  file in the end. *Modelled.*
* **Module loader.** A module is published before it has run, so that cycles
  end; an error must take exactly the half-done ones out again. *Modelled.*
* **Collector.** Everything a program can still reach survives, by whichever way
  it is reached; everything else goes; no mark outlives a collection. *Modelled.*
* **Compiler.** A register is not handed out twice while in use, marks are
  rewound in order, every jump is patched to a place inside its chunk, a failed
  lazy compilation leaves a stub. *Not modelled; the call stack's model states
  which register discipline it assumes.*
* **Integers.** Results agree with mathematical integers at limb boundaries and
  where a small integer becomes a big one. *Modelled.*
* **Hash table.** It is a map, also after a hole in a cluster was closed.
  *Modelled.*
* **Lexer.** INDENT and DEDENT balance; a line is refused exactly when tabs make
  it ambiguous. *Modelled; scanning of tokens is not.*
* **Language services.** Every request ends, without a process or a directory
  left behind; what is shown belongs to the text that is there; formatting
  overwrites no typing; the stop button goes with the program. *Modelled.*
* **Editor's own tools.** Places, ranges and changes computed on UTF-16 units
  fall between characters and inside the text. *Modelled.*
* **Protected runner.** Every exit restores the host. *Not modelled:
  straight-line code, a destructor does it.*
* Parser, diagnostics, command line, formatter: sequential code whose behaviour
  is data, better served by the repository's own tests. *Not modelled.*

`PROJECT.json` lists every component and every hazard at its line.

## Plan

In order of importance; all of these exist.

| Module | Role | Checked | Proved or to be proved |
|---|---|---|---|
| PrivateFrames | abstract: activations with private registers | | |
| CallStack | frames, windows, calls, natives, unwinding, roots | five runs | **types, windows, nesting and roots, for all sizes** |
| CallStackRefinement | CallStack implements PrivateFrames | two of them | **the refinement, for all sizes** |
| SharedText | abstract: what the editor promises its writer | | |
| EditorSync | webview, provider, channels, document | three runs | **all its safety properties, SharedText is implemented, for all bounds** |
| ImportOnce | abstract: a module runs once | | |
| ModuleLoader | cache, flags, frames, errors, changing files | two runs | **all its properties, ImportOnce is implemented, for all sizes** |
| CurrentAnswers | abstract: what is shown belongs to the text that is there | | |
| LanguageServices | requests, timers, processes, cancellations; implements CurrentAnswers | one run | **all its safety properties, CurrentAnswers is implemented, for all bounds** |
| ProgramRun | a task's start, stop and end | the same | **its safety property, for all bounds** |
| LanguageTools | the editor's own reading of texts | the same, and a run of its own | **the computed change, for texts of any length** |
| Collector | heap, roots, marking, tracing, sweeping | with the loader's run | **all its properties, for all sizes** |
| HashTable | probing, growing, closing holes | with the loader's run | **it is a map, for all sizes** |
| BigInteger | words, payloads, limbs | the same | **sums, differences, products, order, for all integers and widths** |
| BitPatterns | bitwise operations and shifts | the same | |
| Indentation | two readings of tabs, one stack each | the same | **its property, for files of any length and depth** |

The MC modules `MCCallStack`, `MCEditorSync`, `MCModuleLoader`, `MCLanguage` and
`MCRuntime` give the constants their values. The last two put components that
share nothing into one run: a variable `subject` says which of them a behaviour
is about, and the others rest in their initial state, so the
states of a run are the union and not the product of its parts' states.
`MCCallStackMachines` does the same with two instances of CallStack, which differ
in their constants.

Composition: CallStack is refined into PrivateFrames by CallStackRefinement; it
models which stack slots the collector reads, and Collector takes these for
given. ModuleLoader and Collector use the frame stack in the abstracted form of
CallStack's `ImportModule`, Collector with as much of the loader as puts modules
into the heap and drops them. EditorSync is about the two copies of a text,
LanguageServices about what is computed from either of them.

What would come next: the compiler's register allocator and its lazily compiled
functions, which need a model of the syntax tree they follow; several runs of one
machine in CallStack (see the hazard at `vm.cc:168`).

Each module is written so that it can be proved about: parameters are constants
with named assumptions, no recursive operators, one action per operation, named
invariants. (BitPatterns is the exception: it uses the community module Bitwise,
whose operators are recursive, and is for TLC only; that is why it is apart from
BigInteger.) The proofs are in `CallStackProofs`, `CallStackRefinementProofs`,
`EditorSyncProofs`, `EditorToolsProofs` (LanguageServices, ProgramRun,
LanguageTools), `ModuleLoaderProofs`, `CollectorProofs` and `RuntimeProofs`
(HashTable, Indentation, BigInteger); `SequenceFacts` has what they share.

An operator called `...Fault` in a module is not part of the model. It is a bug
that could plausibly be made in the definition that follows it, kept to show
that a property notices it; `PROJECT.json` says which property.

## The call stack

`CallStack` models `VM::execute`, `call_value`, `invoke_method`,
`run_instance_op`, `call_value_sync` and `unwind`.

| In the model | In the code |
|---|---|
| `stack`, `top` | `m_stack`, `m_stack_top` |
| `frames` (`base`, `locals`, `ret`, `callerTop`, `toplevel`) | `m_frames` (`base`, `local_count`, `return_slot`, `caller_stack_top`, `module` or main) |
| `live` of a frame | the registers the compiler holds allocated at that frame's `ip` |
| `nests` (`stop`, `savedTop`, `base`, `tail`) | the `call_value_sync` activations on the C++ stack and their `stop_frame_depth` |
| `mode` | which C++ function runs: `execute()`, a native that gets its answer, or none |
| `heap` | the objects not yet freed |
| `Load`, `Drop` | any instruction that writes the next register; the compiler's rewinding |
| `Call`, `Invoke`, `InvokeMember`, `Operator`, `TailCall`, `ImportModule`, `Return` | the opcodes of these names; all six kinds of callable, arguments copied with the code's own loops and directions |
| `CallSync`, `ResumeNative` | a native that calls back, before and after the nested `execute()` |
| `Fail`, and the failing branch of each action | `raise_runtime_error` and `unwind` |
| `Collect` | `DISPATCH`'s safepoint |

Bytecode is abstracted to what it does to registers. The program is arbitrary:
at each instruction any load, drop, call with any number of registers as
arguments, or return may happen, subject to what the compiler guarantees (an
argument list is the topmost registers; tail calls occur in functions only;
imports at top level only). A dropped register keeps its value and stays below
the top, as in the code. A native's own C++ work is atomic, since nothing else
runs meanwhile.

Properties: `FrameWindows` (no window reaches into another's live part, and a
return restores all of the caller's), `NestedRunsAboveCaller` (a nested
`execute()` stops at its native's callers), `CallerStillThere` (the assertion in
`top_frame`), `RootsAllocated` (no root refers to a freed object), and
`RegistersArePrivate`: the whole machine implements `PrivateFrames`, in which
every activation has registers of its own and calls pass lists of values. The
refinement mapping reads each frame's registers out of its window, hiding the
one that awaits a result.

| Run | Instance | Shows |
|---|---|---|
| `callstack`, machine `calls` | 11 slots, 3 frames, one callable of each of function, native, constructor, instance | `TypeOK`, `FrameWindows`, `NestedRunsAboveCaller`, `RegistersArePrivate` |
| `callstack`, machine `methods` | 8 slots, 3 frames, methods, operators, members, plain classes, modules, callables of one window size, collections at any instruction | the same, with `RegistersArePrivate` for frames staged in other ways, and `RootsAllocated` |
| `callstack_stale_root`, `callstack_tail_root`, `callstack_nested_tail`, `callstack_sync_constructor` | 8 to 12 slots | four disagreements, below |

A behaviour of `callstack` is about one of the two machines; that of the methods has
its limit at slot 8 (`MethodSlots`) of an array of 11. No object is freed on the
machine `calls`, where `RootsAllocated` says nothing.
Three frames are the least with a suspended caller that itself has a caller and
with a native between them; the stack sizes are the least on which three windows
fit while the next one overflows, so the limits are met. The proofs remove both
bounds for all of these properties. Some constants separate what the code gets
right from what it does not: `SyncTails` (a function run by
`call_value_sync` may end in a tail call that needs no frame) and
`SyncConstructors` (`call_value_sync` may be given a class with a constructor)
are FALSE in the passing runs. `RootsAllocated` is checked where no instance is
called, the functions, constructors and methods have windows of one size and the
code at top level has at most one register more; a tail call then leaves the live
top where it was. Each violation run lifts one of these. `CHECK_DEADLOCK` is off
because a program ends.

Not in the model: `call_special_sync`, which nothing calls; a native called
directly by `call_value_sync` that itself calls back; what instructions compute.

## The editor's two copies

`EditorSync` models the webview (`DocumentSync` and its driver), the provider and
the two channels between them, with VS Code's document as environment.

| In the model | In the code |
|---|---|
| `web.version`, `base`, `local`, `flight`, `conflict`, `sequence` | the fields of `DocumentSync`; version 0 for null |
| `web.queued`, `web.recovery`, `saved` | `queuedAction`, `savedView.recovery`, the state given to `setState` |
| `toHost` | posted messages, and the provider's promise queue, which handles one at a time |
| `toWeb` | the provider's posted messages |
| `doc` | every text the document has had; `document.version` is its length |
| `host.busy` | the `await` the provider stands in: `applyEdit`, or saving and starting a run |
| `Type`, `Press`, `Resolve` | `handleEditorUpdate`, `command`, the conflict buttons |
| `GetText`, `GetAck` | the message handler with `receive` and `acknowledge` |
| `Timeout`, `AskAgain` | `watchConnection`, the status button |
| `HandleReady`, `HandleSync`, `HandleEdit`, `FinishEdit`, `HandleAction`, `FinishAction` | `handleMessage` up to and after each `await` |
| `ApplyEdit`, `RefuseEdit`, `External`, `Show`, `Reload`, `Lose` | what VS Code, other programs and the process boundary do |

A handler that awaits is split at the `await` and nowhere else: JavaScript runs
the rest without interruption. Texts are values; a change message names the text
it was computed from, and applied to any other text it gives `Garbled`, which
belongs to no type, so any application to a wrong text shows. Environment events
are taken from one budget (`MaxDisturbances`) over the kinds in `Disturbances`,
so that every combination of that many is met.

`SharedText` is the promise: a writer with a draft on a version seen; whole
drafts are submitted one at a time and enter the file only as the direct
successor of that version; a draft the file does not have is replaced only by
the writer; a foreign text is never passed over without asking. `KeepsPromises`
says that EditorSync implements it. `VersionsAgree` is the invariant behind it
(base and version, conflict text and version belong together),
`ActionsSeeDraft` relates a queued save or run to what the writer saw.

| Run | Instance | Shows |
|---|---|---|
| `editor_shared` | 3 texts (interchangeable, so symmetry is sound), 2 strokes, 1 press of run, any 2 of external change, refused edit, failing run, lost message, reload | `TypeOK`, `VersionsAgree`, `ActionsSeeDraft`, `KeepsPromises` |
| `editor_alone` | 3 texts, 2 strokes, any 2 of lost message, panel shown, click while opening; no foreign changes; fair | `AloneAgrees`, `DraftReachesFile` |
| `editor_stale_offer` | failing runs | a disagreement, below |

Three texts are the least with a base, a draft and a foreign text that differ;
two strokes the least with an edit under way and a newer draft behind it; two
disturbances the least in which a fault strikes during the recovery from
another. `MaxRequests` bounds recovery requests under way, which the code does not
bound; with one request the second can be asked when the first is answered.
No symmetry is used where liveness is checked.

Fairness (`FairSpec`): delivered messages are handled and the promise queue goes
on (the event loops), `applyEdit` settles (VS Code), the timer fires while an
answer is missing. Typing, choosing, saving dialogs and every disturbance are not
fair. `DraftReachesFile` therefore allows a conflict nobody resolves; with nobody
else changing the file the only such conflict is a recovered draft
(`AloneAgrees`).

Not in the model: metadata, settings, line ends (the document's texts are taken
after `normalize`); Unicode offsets in changes (LanguageTools has them), format,
check and highlighting requests (LanguageServices), a run's task once it is
started (ProgramRun). A click before the file arrives
combined with two reloads can lose a recovered draft; the passing runs do not
combine these two (see the hazard at `webviewEditor.js:356`).

## The editor's services

`LanguageServices` models checking, highlighting and formatting from the
webview's timer or command to what is shown, and VS Code's own formatting
command; `ProgramRun` a program's run; `LanguageTools` the functions by which the
editor reads programs without the compiler.

| In the model | In the code |
|---|---|
| `view`, `file`, `version` | the webview's document; the `TextDocument` and its version |
| `check`, `colour`, `format` | `checkRequestId`, `latestSemanticRequest`, `formatRequestId` with their timers, `pendingLexicalTokens`, `pendingFormat` |
| `panel`, `problems`, `shown` | the text whose diagnostics the panel lists, or VS Code's collection; the text and origin of the decorations |
| `field` | `checkCancellation`, `semanticCancellation`, `formatCancellation` |
| `requests` (`stage`, `cancelled`, `process`, `directory`, `result`) | one invocation of `checkSource`, `formatSource` or `highlight` with its child process and temporary directory |
| `Prepare`, `DiskFails`, `Exit`, `TimeOut`, `Die`, `RemoveDirectory` | `compilerService.js`, up to and after each `await`, and what ends a process |
| `FireCheck`, `FireHighlight`, `AskFormat`, `AskNative` | the timers and commands, with the host's handling up to its first `await` |
| `Answer`, `AnswerNative` | the rest of the host's handler with its `finally` |
| `GetDiagnostics`, `GetTokens`, `GetFormatted`, `FireFallback` | the webview's handlers and the fallback timer |
| `Type`, `FileEvent`, `Metadata`, `Close` | typing, a change or save of the document, trust and settings, closing |
| ProgramRun's `queue`, `phase`, `execution`, `task` | the provider's promise queue, the `await` in `runDocument`, `state.execution`, VS Code's tasks |
| ProgramRun's `messages`, `running` | `runState` messages, the webview's button |

View and document are independent here: any text may come into either at any
time, which is more than EditorSync allows. Answers are a set and may overtake
each other. The services do not touch each other's state, so a behaviour asks for
one of them (`Mixes`), with two requests under way (`Slot`), the least in which
one is cancelled by its successor; request counters go to 3 (`MaxId`), so that an
answer can be two requests late; the document changes twice (`MaxVersion`).
Three texts, of which the formatter turns one into another: the least with a
text to format, its layout and a third one typed meanwhile. `ProgramRun` has
three tasks and three clicks (`MaxTasks`, `MaxClicks`): one program that ends,
one that is stopped and one after it.

`CurrentAnswers` is the promise: diagnostics and colours, once shown, belong to
the text that is there, and the parser's colours are not replaced by guessed
ones. `AnswersAreCurrent` says that LanguageServices implements it.
`Cancellable`: a request that nobody cancelled is still the one its service's
field names, so the next request or closing can cancel it. `FormatKeepsTyping`:
a formatter's answer changes only the layout of what is there when it arrives.
`RequestsEnd` and `Coloured` are liveness. For ProgramRun, `ButtonAgrees`,
`StopEndsProgram` (also when stop is pressed while the program is being started)
and `CloseEndsLaunch`.

Fairness: work of a request that can go on goes on, since disk operations end
and a process ends or is stopped by the five second limit; a process told to die
dies; timers fire; promises settle; VS Code reports a task's end, and after
`executeTask` has resolved (this order is assumed). Typing, the document,
messages to the webview and a program's own end are not fair.

`LanguageTools` keeps of a UTF-16 code unit its class. TLC enumerates texts of up
to four units and of up to three lines from a vocabulary with strings, escapes,
comments, declarations, tabs and surrogate pairs, reports and token lists of up
to three entries (with lines and columns outside the text), and pairs of texts of
up to three characters that share halves of surrogate pairs:

* `OutlineIsNesting`: the outline equals one read off the lines: a declaration is
  inside another if no line of code since is indented as little as that one
* `FormatIsLayout`: formatting twice is formatting once; strings, code and the
  outline's structure stay
* `ColoursFit`, `DecorationsInOrder`: local tokens tile the text, and whatever
  tokens arrive, the ranges are in order, apart and inside lines
* `PlacesComeBack`, `DiagnosticsHaveAPlace`: line and column shown for a caret
  lead back to it, and each diagnostic starts at a character of the text
* `ChangesApply`: the text that the provider expects of the computed change
  (`rtleditorprovider.js:183`) is the second text, a change is empty only between
  equal texts and does not begin inside a surrogate pair. That it does not end
  inside one either, as `documentSync.js:10` says, is `ChangesKeepPairs`, which does
  not hold

| Run | Shows |
|---|---|
| `editor_tools` | all of the above except `ChangesKeepPairs`; one `subject` per behaviour |
| `editor_split_pair` | finding 7: `ChangesKeepPairs` on the same texts |

Not in the model: completion, folding, indentation and hover, VS Code's semantic
token provider, the outline dialog, the 8 MB limit's size (its outcome is the
error branch of `Prepare`), branches for an untrusted workspace that the webview
does not let anything reach, messages' wording. A check that the host cancels
because the document changed is not answered at all: the list stays empty until
the next edit or command asks. `problems` is emptied by a save and not filled
again until then. An editor that is closed leaves a program it has started
running. `formatWhitespace` is used by the repository's tests only.

## The module loader

`ModuleLoader` models `load_module`, `IMPORT_MODULE`, the frames of modules'
top levels and `unwind` over several runs of a host in one machine, while files
change.

| In the model | In the code |
|---|---|
| `objects` (`path`, `body`, `initialized`, `executing`, `exported`, `names`) | every `ObjModule` with its chunk and environment |
| `cache`, `root` | `m_module_cache`, the names in `m_root_environment` |
| `frames`, `code` | `m_frames` as far as they are top levels, the program's chunk |
| `files`, `Save` | the files; changed by others |
| `Run` | `VM::run` |
| `Import` | `load_module` and `IMPORT_MODULE` with all their early returns |
| `Export`, `Use` | `STORE_GLOBAL` in a module; `GET_FIELD` on a module |
| `Fail`, `Unwind` | an error anywhere; `unwind` |
| `Return` | the end of a top level |

A source is a sequence of statements over import, use, export and fail, or is
missing or unreadable; every module exports one name, because one is enough to
tell a half-done module from a whole one. The name bound by an import is written
in the same step as the instruction that finds the object, since nothing runs
between the two.

`ExecutingIsOnStack` ties flags, cache and frames; `NamesAreCached` says that
running code sees one object per path; `ImportedOnce` that the machine implements
`ImportOnce`. `runtime` checks them with three paths, six sources (a
two-module cycle, a chain, failing ones), two runs, two saves and three frames,
so that the frame limit, failure in a chain, and a retry after a file was
repaired are all met. `CHECK_DEADLOCK` is off because a host stops running
programs. `module_partial` is a disagreement. The proofs remove the bounds for
all four properties of the passing run.

## The collector

`Collector` models what programs do to the heap between two instructions, and
`collect()`, one object at a time.

| In the model | In the code |
|---|---|
| `heap`, `all`, `grays` | the allocated objects, `m_all`, `m_grays` |
| `phase`, `at` | where `collect()` is; `sweep`'s index |
| `registers`, `calls` | the live stack slots that were written; the frames, as far as the collector or a program reaches objects by them |
| `slots` | one slot for each environment ever made: the root's and `m_module_environments` |
| `cached`, `interned` | `m_module_cache`, `m_string_table` |
| an object's `refs`, `klass`, `pairs`, `order`, `env` | elements or fields; class or parent; `ObjDict::data`; `insertion_order`; the environment code runs in |
| `New`, `Constant`, `Write`, `Read`, `StoreGlobal`, `Call`, `ImportModule`, `PopFrame`, `Raise`, `RunProgram` | the instructions that make, change and read objects; `intern`; imports that succeed or fail; `unwind` |
| `MarkRoots`, `Trace`, `Sweep` | `mark_roots`, `trace_references` with `blacken_object`, `sweep` |

A collection starts at a dispatch (`execute.cc:25`) or at the start of a run
(`vm.cc:175`) and nowhere else, so natives and the other C++ locals need no
roots; in the model it may start before any instruction, whatever the sizes.
Freed memory is used again at once, the worst case for a dangling reference.
All strings have one text, so dictionary keys that are equal but not the same
object occur. Constants of chunks are interned and therefore roots; the function
object of a program's own frame, natives, file handles and big integers lead to
nothing and are left out; so are sizes and the threshold.

`NothingLost` is the promise: what a program can reach, by *every* way the code
has (a function's or class's environment, which `blacken_object` does not follow,
a dictionary's insertion order, which it does not read, the module of a frame,
which is no root), is allocated. It holds because every environment ever made is
a root, also of modules an error dropped; `insertion_order` only ever names keys
of `data` since `set` keeps the key it finds; and a running module is cached.
`Tricolour` is the invariant behind it. `CollectedExactly` says that a collection
leaves exactly what the roots lead to; environments of dropped modules are among
them, so what those hold stays for good.

The run `runtime` has four kinds of machine (`Machines`), each with what it takes
to be interesting: lists and strings; dictionaries with equal keys; functions,
classes, instances and methods in two frames; modules that fail after another has
taken a function from them. Three objects, one entry each, at most three frames; in
the same run are the loader's instances and those of the next section. `MCRuntime`'s `subject` says which.

## Table, numbers and blocks

Three parts of the interpreter are sequential and hard for their data. They share
the run `runtime` with the loader and the heap.

`HashTable` is the open addressing table with its hash codes and buckets:
`Slot` probes, `Grown` doubles and inserts again, `Rehashed` takes the cluster
behind an erased entry out and puts it back entry by entry, through the same
insertion that may grow. `IsMap` says over any sequence of insertions, erasures
and clearings that it is a map: an operation changes its key and no other, the
iteration lists what is found, the count is right, and one bucket stays free,
without which a search would not end. Four keys with codes 0 and 7 (the first
and last bucket of both capacities that occur) under capacities 4 and 8 collide,
wrap around and grow.

`BigInteger` has the three representations: a payload of 48 bits, a machine word
of 64 and limbs of 32, scaled to 3, 4 and 2 bits, so that all integers from -30
to 30, in pairs, pass each boundary, with up to three limbs and products of six.
`ArithmeticAgrees`: sums, differences, products, negation and comparison are those
of mathematical integers, and results are in the one form their value may have
(else equal numbers would compare different). `DivisionAgrees` (`DivisionExact`): so are exact
quotients and powers, a remainder has the dividend's sign, and digits are read back
as the number. `BitPatterns` adds the bitwise operators and shifts, and `BitsAgree`
says that they are those of endless two's complements. Digits have the radix 3, since
the code needs a radix no greater than a limb's base. Left out: the limit of 2^24
bits, reals as operands or results' values, the build without NaN boxing.

`Indentation` is `next_line` and the end of the file: a line is its white space
and whether its text opens or closes a bracket. Both readings of tabs, form feed
and backslash are as in the code; the first line's indentation is never looked at.
`BlocksAgree` compares the tokens with a definition that knows no stack: a line is
accepted exactly when the widths 4 and 8 of a tab, each taken alone, put it into
the same blocks, and INDENT and DEDENT leave exactly these open. Five lines with
eleven kinds of white space and three levels (`MaxIndent`; 100 in the code) hold
every error, a dedent over several levels and the limit. Brackets are one level
deep; their matching is the parser's model and not this one's.

## Disagreements found

Each is a run that must fail.

1. **A nested `execute()` runs on** (`callstack_nested_tail`). `CALL_TAIL` to a
   native or plain class pops its frame and leaves `execute()` only when the
   frame stack is empty (`execute.cc:926`, `940`), whereas `RETURN` also leaves
   at `stop_frame_depth`. A function run by `dynamic_call` that ends so lets the
   nested loop run its caller's code, and the native resumes on an empty frame
   stack: the assertion at `vm.hpp:256` fails. Seen in a build of this source.
2. **A stale root** (`callstack_stale_root`). The callable-instance path sets the
   top one slot above what it cleared (`call.cc:254`, `261`); a stale reference
   there becomes a root. AddressSanitizer reports the use after free.
3. **A root that comes back** (`callstack_tail_root`). A tail call to a smaller
   function lowers the live top below registers of the frame it replaces
   (`call.cc:121`), and the return raises it again over them without clearing them
   (`execute.cc:992`); in between, what only they hold was freed. With a
   larger callee one slot above the old top is not cleared. AddressSanitizer reports
   the use after free.
4. **A constructor loses its argument** (`callstack_sync_constructor`). Called
   through `call_value_sync`, the argument is shifted past the live top and then
   cleared (`call.cc:200`, `206`). Seen in a build of this source.
5. **A rejected snapshot ends the wrong edit** (`editor_stale_offer`). The
   snapshot sent for a failing run makes the webview drop its flight; the edit is
   applied all the same, its acknowledgement ignored, and the version offered as
   the file's is not the file's (`rtleditorprovider.js:78`).
6. **A partial module survives** (`module_partial`). In an import cycle whose
   first module fails after the second is done, the second stays in the cache
   with a name bound to the dropped object; a retry with the repaired file fails
   ("has no export") where a fresh machine succeeds (`error_handler.cc:27`). Seen
   in a build of this source.
7. **A change splits a pair** (`editor_split_pair`). The comment in `textChange` says
   "Never split a surrogate pair" (`documentSync.js:10`), but only the start of a
   change is moved out of a pair, not its end (`documentSync.js:9`): U+1F600 typed
   right before U+1F601, which begins with the same unit, replaces the units from 0
   to 1 of the old letter's two. In the string the result is right
   (`ChangesApply`). The provider turns the offsets into a range of VS Code, which
   widens a range that ends inside a pair (VS Code is not modelled); the
   document can then differ from the text expected, and `rtleditorprovider.js:191`
   rejects the edit with a full sync: a conflict although nobody else wrote.

## What is proved

`CallStackProofs`, for every stack size, frame limit, set of callables and value
set that satisfy `ConstantsAssumption`, and under the stated assumption
`SyncTails = FALSE` (finding 1 shows that it is needed):

* `FrameWindowsHold`: `Spec => []FrameWindows`
* `NestedRunsHold`: `Spec => []NestedRunsAboveCaller`
* `CallerStaysThere`: `Spec => []CallerStillThere`

The inductive invariant `IInv` is `Shape` (the types of top, frames, nests and
mode), `FrameWindows`, `NestedRunsAboveCaller`, that a native in progress has
an entry in `nests`, and `Covered`: the frame each nested activation
stops at exists, its window ends at or below the `savedTop` the activation will
restore, and `savedTop` lies in the stack. `FrameWindows` alone is not inductive: when a native resumes, the top
falls back to `savedTop`, and only `Covered` says that this is above the window of
the frame that goes on. The proof has lemmas about windows (`WindowsPush`,
`WindowsPop`, `WindowsReplace`, `WindowsRelive`), about what `call_value` and
`invoke_method` do to the machine for each kind of callable (`CallValueFacts`,
`CallValueTailFacts`, `InvokeMethodFacts`), one lemma per action, and the
induction in `Invariant`. The slots' contents do not occur in it. Those are the
second half of the module:

* `TypeOKHolds`: `Spec => []TypeOK`

The invariant is `IInv` and `Contents` (the slots hold values, so do the
references the collector knows, and no more than `MaxFrames` frames exist). For it
and for the refinement every step is first brought to one of a few kinds
(`StepIs`): a call pushes a frame that got its arguments from the caller's staged
registers (`Pushes`, `Gets`) or answers in the caller's register (`Answers`), a
tail call replaces the frame (`Replaces`), a return writes the one slot its caller
waits on (`Pops`, `Ends`), a native goes on (`Resumes`). This is where the
two copying loops are brought into closed form (`CopyUpIs`, `CopyDownIs`): each is
right only in the direction and the overlap in which `call_value` uses it.

The last part is about the slots the collector reads, where no callable is an
instance (finding 2):

* `RootsAllocatedHolds`: `Spec /\ [][TailsKeepTop]_vars => []RootsAllocated`;
  `TailsKeepTop` says that a tail call that goes on in a frame leaves the top where
  it is, and finding 3 shows that it is needed
* `RootsOfSameWindows`: `ASSUME SameWindows(n) PROVE Spec => []RootsAllocated`: it
  is so where functions, constructors and methods have `n` registers each and code at
  top level has at most `n + 1`

That no slot below the top is freed memory is not inductive, since a return or a
native's end sets the top to one kept earlier. The invariant `RInv` adds that none of
the tops kept, in frames (`callerTop`) and nested runs (`savedTop`), is above the top
now, and in which order they lie (`Levels`): what comes into force again was below the top all the
time, and so was never freed. A tail call that lowered the top would break
exactly this. `Anchored` adds the program's own object in the lowest slot, which frames
never overwrite. For the second
theorem, `Aligned` says that each of these tops is the end of a window of the known
size.

`CallStackRefinementProofs`, under the further assumption
`SyncConstructors = FALSE` (finding 4 shows that it is needed):

* `RegistersArePrivateHolds`: `Spec => RegistersArePrivate`, the refinement of
  `PrivateFrames`

A third invariant, `Waits`, relates the return slots, which only the frames above
know, to the registers their callers reserved: a frame's return slot is a live
register of its caller (`FrameWaits`), or the slot that the native below it will
read, and the native was called from a live register (`NestWaits`). With it
each kind of step is one of `PrivateFrames`: activations below the innermost two
are untouched (`ActsBelow`), the caller's register is overwritten only where it
is awaited (`Delivered`, `DeliverPop`), the callee's registers are the arguments
in order (`GetsRegs`).

`ModuleLoaderProofs`, for every set of paths, sources and programs, every frame
limit and any number of runs and saves, from `ConstantsAssumption` alone:

* `TypeOKHolds`: `Spec => []TypeOK`
* `ExecutingIsOnStackHolds`: `Spec => []ExecutingIsOnStack`
* `ImportedOnceHolds`: `Spec => ImportedOnce`, the refinement of `ImportOnce`
* `NamesAreCachedHolds`: `Spec => []NamesAreCached`

The inductive invariant is `TypeOK`, `ExecutingIsOnStack` and three facts more.
`WellFormed` (a cached object has the path it is cached under, an executing one
is cached and not initialized) is what a step has to know of the objects and the
cache between publishing a module and giving it a frame, where the other
invariants do not hold; `FrameBodies` says that frames run bodies that were
compiled, and that the first is the program's; `NoneUnstarted` that no cached
module waits to be started, which makes the last branch of `IMPORT_MODULE` a step
of `ImportOnce` that begins an absent path. Every step is first shown to be one
of a few kinds (`Failed`, `Moves`, `Starts`, `Ends`, `Finishes`); each kind keeps
the invariant, and each maps to `Abort`, nothing, `Begin`, `End` and nothing.
`Bound`, on top of these, says that names of the program are bound to initialized
cached objects (an error leaves these) and names of a module on the stack to
cached ones that are initialized or running.

`CollectorProofs`, for any memory, registers, frames, modules, paths and
programs, from `NoneAssumption` (None is no number) and `LimitsAssumption` (each
of the machines checked is given by numbers):

* `NothingLostHolds`: `HeapSpec => []NothingLost`
* `TricolourHolds`: `HeapSpec => []Tricolour`
* `CollectedExactlyHolds`: `HeapSpec => CollectedExactly`

None of these is inductive, since each is about a path of any length from a root.
The inductive invariant says it step by step: everything that a root
(`RootsSurvive`) or a surviving object (`SurvivorsHold`) names survives, where
`Survivors` is the whole heap outside of a sweep, and in one what is marked or
was passed by the index. `Traced` and `Swept` tie the marks to `Kept`, the
smallest set with the roots that is closed under what `blacken_object` follows,
fixed while a collection runs; when the gray list is empty the marked objects are such
a set, by `Tricolour`, and so all of `Kept`. `Fits` and `FramesFit` are needed for what the collector
does *not* follow: a dictionary's insertion order is that of its keys, an object's
environment is one of the slots, which are roots, a frame's module is cached. Each
instruction is shown to make, change or drop things of this kind only
(`Makes`, `Changes`, `FramesStay`, `RootsChange`, `RootsGrow`), each part of a collection is a lemma of its own.

`EditorSyncProofs`, for any texts, bounds, actions and disturbances that satisfy
`ConstantsAssumption`:

* `TypeOKHolds`, `VersionsAgreeHolds`, `ActionsSeeDraftHolds`: these hold always
* `KeepsPromisesHolds`: `ASSUME DraftsKept PROVE Spec => KeepsPromises`, the
  refinement of `SharedText`

`VersionsAgree` is not inductive: what a webview believes is right only if the
messages under way are. The inductive invariant `IInv` therefore says of every
request, answer and edit being applied how it fits the webview and the document:
an edit leads from the text of the version it names, and has the identifier of
the flight only if it is the flight (`RequestSound`); a text is that of its
version, and an acknowledgement of the flight names a version with the flight's
text (`AnswerSound`, `BusySound`); a webview in a conflict awaits no edit, and
one that has not received the file has sent nothing but `ready` (`WebSound`).
The handlers are functions from a webview to a webview and its messages, so
there is one lemma for each about what it may do (`Continues`, `Moved`), and the
actions are put together from these. `DraftsKept` is that clicks before the file
arrives and reloads do not both occur, the hazard at `webviewEditor.js:356`; the
passing runs leave the same pair out, TLC finds a lost draft with it.

The second half of `EditorSyncProofs`, from `ConstantsAssumption` and `Alone` (the only things to go wrong
are lost messages, a panel shown again and clicks before the file arrives;
nobody else changes the file, refuses an edit or closes the editor):

* `AloneAgreesHolds`: `Spec => []AloneAgrees`, however many of these there are

On top of `IInv` the invariant `AInv` says that there is at most one edit under
way, it is the flight and for the latest version; that no save or run is behind
it, and no request that names the flight before it; and that an answer to such a
request found the edit lost or applied, never still to come. The last is what
makes it safe to send an edit again.

`EditorToolsProofs`, first part, for any texts, formatter, mix of services, number of
requests under way, counters and versions, from `ServicesAssumption` alone:

* `CancellableHolds`: `Spec => []Cancellable`
* `AnswersAreCurrentHolds`: `Spec => AnswersAreCurrent`, the refinement of
  `CurrentAnswers`
* `FormatKeepsTypingHolds`: `Spec => FormatKeepsTyping`
* `Invariant`, `TypeOKHolds`

The inductive invariant speaks of the questions that are asked or answered and
not yet received (`Pending`), wherever they are: in a slot, on the way, overtaken
or cancelled. A question has the number of some request made before, and one
with the service's latest number is about the text in view (`CheckInv`,
`ColourInv`), or about the text the webview waits to replace (`FormatInv`), or about the
document, if VS Code asked (`NativeIsFile`); that is why a number is all the webview
has to compare. `FieldsName` says that a service's field names a request of
its own, cancelled only by closing or by a change, and `AnswersOnce` that the
parser's colours for one number come once and after them no guess: without it a
second answer or the fallback timer could undo what is shown. `Sound` is what is
known of one request at each stage. A step that touches nothing of this
(`Quiet`) is treated once; there is a lemma for each of the others and for the
host's handlers (`HandleFacts`, `CancelFacts`).

Its second part, for the specification of the run `editor_tools`, with any
number of tasks and of messages waiting (`RunAssumption`):

* `ButtonAgreesHolds`: `MCSpec => []ButtonAgrees`
* `TypesAgreeHolds`: `MCSpec => []TypesAgree`, also of the services' variables

`ButtonAgrees` says what the button shows when nothing is under way;
`ButtonWill` adds that otherwise the last word under way says it.
`OneProgram` names the one program that may be alive in each phase: the task
`execution` names or, while it is being launched, the one started last, which
`StartedInOrder` tells from the earlier ones. `MessagesFit` counts: each task's
beginning and end is told at most once.

Its third part, for texts of any length and any classes of code units:

* `ChangesApplyHolds`: `MCSpec => []ChangesApply`: the change between two texts, put
  in the place of the part it names, gives the second text, and it does not begin
  inside a surrogate pair (where it ends, finding 7)

`textChange` counts equal units from the front, steps back out of a pair and counts
from the end, not past the start; both counts are shown to be the greatest of their
kind (that a set of numbers has a greatest one stands in for the loops), and the
three parts of each text are compared unit by unit.

`RuntimeProofs`, first part, for any keys, values, hash codes, first capacity and
load percentage with `TableAssumption` (the first capacity has room for an entry, and
no capacity may be filled entirely):

* `TableInvariant`: `TableInit /\ [][TableNext]_table => []TInv`
* `IsMapHolds`: `TableInit /\ [][TableNext]_table => IsMap`

`TInv` says of every entry that all buckets on the way from its key's home to it are
occupied (`Reached`), that no key has two entries, and what the size is. `IsMap` is
about what a search finds, which follows only when a search ends at a key's entry
and nowhere before it; that is what `Reached` and the unoccupied bucket give.
`Vacated` breaks `Reached` and `Rehashed` mends it: after each entry it has put back,
the only entries that may be out of reach are those in the rest of the cluster. Loads are
compared in natural numbers; the code's products of 32 bits agree with them up to 2^25
buckets.

Second part, for any white space, widths of a tab and depth that satisfy
`BlocksAssumption`:

* `LexerInvariant`: `LexerInit /\ [][LexerNext]_lexing => []LexerInv`
* `BlocksAgreeHolds`: `LexerInit /\ [][LexerNext]_lexing => []BlocksAgree`

`BlocksAgree` reads the layout off all lines at once and the lexer one line after
another, so the invariant describes the stacks by the lines read: their entries are the
columns, narrow and wide, of the *outer* lines, the ones that only deeper lines
follow. A dedent that pops the right number of entries leaves the outer lines of
the file with one line more; where the readings disagree on that number, or the new
column is that of no outer line, is where the definition refuses the line too.

Third part, for all integers and any limbs, payloads and words that satisfy
`NumbersAssumption` (a word has the bits of two limbs, a payload fewer):

* `ArithmeticAgreesHolds`: `ASSUME lhs \in Int, rhs \in Int PROVE ArithmeticAgrees`

What limbs amount to is defined from the highest down and the code computes from the
lowest up, so sums, differences and rows of a product are compared place by place: the
amount of the lowest places of a result, with the carry or the borrow that goes on, is
that of the operands' lowest places. A product is that of the multiplier's lowest
places after as many rows. Comparison goes by the highest place that differs, which
outweighs all the lower ones; a normalized number has a highest limb that is not
zero, so three limbs exceed every payload, and `Finish` has to look at two of them only.

`SequenceFacts` holds lemmas about sequences, numbers and recursive functions that
several of these modules use.

## Limits

Only model-checked, on the instances above:

* `DivisionAgrees` and `BitsAgree`: long division, powers and bit operations go
  bit by bit, through powers of two and Bitwise's recursive operators, of which the
  provers know nothing.
* `OutlineIsNesting`, `FormatIsLayout`, `ColoursFit`, `PlacesComeBack`,
  `DiagnosticsHaveAPlace`, `DecorationsInOrder`: they go through sorting, selection
  and splitting of sequences, which the prover cannot expand.
* Liveness under fairness (`DraftReachesFile`, `RequestsEnd`, `Coloured`,
  `StopEndsProgram`, `CloseEndsLaunch`) and anything about ENABLED.

`RootsAllocated` is proved under conditions, because without them it is false
(findings 2 and 3). The library's induction theorems are out of the provers' reach.
Where a proof needs induction over data it uses that a set of numbers that is not
empty has a least one (`LeastNumber`); from this `SequenceFacts` gets that recursive
functions and folds have the values their definitions say.

### Not modelled

* The compiler: its registers, jumps and lazily compiled bodies follow the syntax
  tree of a whole program, a model of which would be a second compiler. CallStack
  states the discipline it relies on.
* The parser, rendering of diagnostics, command line, source formatter and
  highlighter: functions from text to text without state or concurrency.
* The protected runner: straight-line code whose restoring is a destructor.
* Natives, beyond what they do to the call stack: pure functions and I/O.
* The library written in Fairuz, packaging and documentation.
* Vendored Monaco, which is nearly all JavaScript of the repository by lines (its
  TypeScript worker alone has 51,000); the extension's own sources have some
  1,300, of which the editor's modules here cover most, and the interpreter is
  C++.
