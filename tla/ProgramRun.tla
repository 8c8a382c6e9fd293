----------------------------- MODULE ProgramRun -----------------------------
(***************************************************************************)
(* Running the program in an editor: FairuzRtlEditorProvider's queue of    *)
(* messages, runDocument, VS Code's task and the events of its end, and    *)
(* the webview's `running`, which shows or hides the stop button.          *)
(*                                                                         *)
(* A message of the queue is handled to its end before the next one, so a  *)
(* stop waits for the launch before it; closing the editor and the end of  *)
(* a task wait for nothing.  One task is one number; the program of a task *)
(* is external and ends whenever it likes.                                 *)
(***************************************************************************)
EXTENDS Naturals, Sequences, SequencesExt

CONSTANTS
  MaxTasks,    \* bound on the tasks started
  MaxClicks    \* bound on the messages waiting

VARIABLES
  queue,      \* state.queue: the run and stop messages not yet handled
  phase,      \* where runDocument is; not "idle" is state.startingRun
  execution,  \* state.execution, or 0
  task,       \* what became of each task
  notified,   \* the tasks whose end the host has been told of
  disposed,   \* state.disposed
  messages,   \* runState messages under way, in order
  running     \* the webview's running

vars == <<queue, phase, execution, task, notified, disposed, messages, running>>

Task == 1 .. MaxTasks

TypeOK ==
  /\ queue \in BoundedSeq({"run", "stop"}, MaxClicks)
  /\ phase \in {"idle", "saving", "launching"}
  /\ execution \in Task \cup {0}
  /\ task \in [Task -> {"none", "alive", "ending", "ended"}]
  /\ notified \in SUBSET Task
  /\ disposed \in BOOLEAN /\ running \in BOOLEAN
  /\ messages \in BoundedSeq(BOOLEAN, 2 * MaxTasks)

Init ==
  /\ queue = <<>> /\ phase = "idle"
  /\ execution = 0
  /\ task = [t \in Task |-> "none"] /\ notified = {}
  /\ disposed = FALSE
  /\ messages = <<>> /\ running = FALSE

Live == {t \in Task : task[t] \in {"alive", "ending"}}

\* post() is silent once the editor is closed.
Post(flag) == messages' = IF disposed THEN messages ELSE Append(messages, flag)

\* ProgramRun's external world: terminate() asks, the process ends later.
Terminated(t) == IF t # 0 /\ task[t] = "alive" THEN [task EXCEPT ![t] = "ending"] ELSE task
-----------------------------------------------------------------------------
\* A button, a key or a command of VS Code, whatever the button shows.
Click(action) ==
  /\ ~disposed /\ Len(queue) < MaxClicks
  /\ queue' = Append(queue, action)
  /\ UNCHANGED <<phase, execution, task, notified, disposed, messages, running>>

Take(action) == /\ phase = "idle"
                /\ queue # <<>> /\ Head(queue) = action
                /\ queue' = Tail(queue)

HandleStopFault ==
  /\ \E i \in DOMAIN queue : queue[i] = "stop" /\ queue' = RemoveAt(queue, i)
  /\ task' = IF disposed THEN task ELSE Terminated(execution)
  /\ UNCHANGED <<phase, execution, notified, disposed, messages, running>>
HandleStop ==
  /\ Take("stop")
  /\ task' = IF disposed THEN task ELSE Terminated(execution)
  /\ UNCHANGED <<phase, execution, notified, disposed, messages, running>>

\* A run may be refused: the editor is closed, the workspace is not trusted, the
\* file has changed, or a program is running.
HandleRunFault ==
  /\ Take("run")
  /\ phase' \in IF disposed THEN {"idle"} ELSE {"idle", "saving"}
  /\ UNCHANGED <<execution, task, notified, disposed, messages, running>>
HandleRun ==
  /\ Take("run")
  /\ phase' \in IF disposed \/ execution # 0 THEN {"idle"} ELSE {"idle", "saving"}
  /\ UNCHANGED <<execution, task, notified, disposed, messages, running>>

\* The save fails, the file is not a local one, or the task is handed over.
Saved ==
  /\ phase = "saving"
  /\ \/ phase' = "idle" /\ UNCHANGED task
     \/ /\ phase' = "launching"
        /\ \E t \in Task : /\ task[t] = "none"
                           /\ \A u \in Task : u < t => task[u] # "none"
                           /\ task' = [task EXCEPT ![t] = "alive"]
  /\ UNCHANGED <<queue, execution, notified, disposed, messages, running>>

\* executeTask resolves.  The task may have ended; VS Code tells of the end later.
LaunchedFault ==
  /\ phase = "launching"
  /\ phase' = "idle"
  /\ \E t \in Task : /\ task[t] # "none" /\ \A u \in Task : u > t => task[u] = "none"
                     /\ execution' = t
  /\ Post(TRUE)
  /\ UNCHANGED <<queue, task, notified, disposed, running>>
Launched ==
  /\ phase = "launching"
  /\ phase' = "idle"
  /\ \E t \in Task :
       /\ task[t] # "none" /\ \A u \in Task : u > t => task[u] = "none"
       /\ execution' = t
       /\ task' = IF disposed THEN Terminated(t) ELSE task
  /\ Post(TRUE)
  /\ UNCHANGED <<queue, notified, disposed, running>>

\* External: a program ends by itself, or because it was told to.
ProgramEnds(t) ==
  /\ task[t] \in {"alive", "ending"}
  /\ task' = [task EXCEPT ![t] = "ended"]
  /\ UNCHANGED <<queue, phase, execution, notified, disposed, messages, running>>

\* onDidEndTask.  External: it is fired after executeTask has resolved.  A closed
\* editor is no longer in the map.
TaskEnded(t) ==
  /\ task[t] = "ended" /\ t \notin notified
  /\ phase # "launching"
  /\ notified' = notified \cup {t}
  /\ IF execution = t /\ ~disposed THEN execution' = 0 /\ Post(FALSE)
     ELSE UNCHANGED <<execution, messages>>
  /\ UNCHANGED <<queue, phase, task, disposed, running>>

\* The webview hears of it.
RunState ==
  /\ ~disposed /\ messages # <<>>
  /\ running' = Head(messages)
  /\ messages' = Tail(messages)
  /\ UNCHANGED <<queue, phase, execution, task, notified, disposed>>

\* cleanupEditor: a program that runs goes on running.
Close ==
  /\ ~disposed
  /\ disposed' = TRUE
  /\ UNCHANGED <<queue, phase, execution, task, notified, messages, running>>

Next == \/ \E action \in {"run", "stop"} : Click(action)
        \/ HandleStop \/ HandleRun \/ Saved \/ Launched \/ RunState \/ Close
        \/ \E t \in Task : ProgramEnds(t) \/ TaskEnded(t)

Spec == Init /\ [][Next]_vars

\* Promises settle and messages arrive; the end of a task is told, and a program
\* that was told to end does end.
Fairness ==
  /\ WF_vars(HandleStop \/ HandleRun \/ Saved \/ Launched \/ RunState)
  /\ WF_vars(\E t \in Task : TaskEnded(t) \/ (task[t] = "ending" /\ ProgramEnds(t)))

FairSpec == Spec /\ Fairness
-----------------------------------------------------------------------------
\* Once every message has been heard, the stop button is there exactly while the
\* editor's own program has not been reported as ended; there is never a second
\* program beside it, and the one that is named is not one that is over for good.
ButtonAgrees ==
  ~disposed =>
    /\ messages = <<>> => (running <=> execution # 0)
    /\ execution # 0 => execution \notin notified
    /\ phase # "launching" => Live \subseteq {execution}
    /\ phase = "launching" => execution = 0

\* A stop that is waiting ends the program, also one that was still being started
\* when the button was pressed.
StopEndsProgram ==
  (\E i \in DOMAIN queue : queue[i] = "stop") ~> (disposed \/ (phase = "idle" /\ Live = {}))

\* An editor that is closed while its program is being started leaves no program.
CloseEndsLaunch == (disposed /\ phase # "idle") ~> (phase = "idle" /\ Live = {})
=============================================================================
