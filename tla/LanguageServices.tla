-------------------------- MODULE LanguageServices --------------------------
(***************************************************************************)
(* The compiler at the editor's service: checking, highlighting and        *)
(* formatting.  The webview asks after a pause or on a command and numbers *)
(* its requests; the extension host keeps one cancellation source per      *)
(* service, writes the text to a temporary directory and runs a compiler   *)
(* process on it, which may end, hang, flood its output or be cancelled.   *)
(* VS Code's own formatting command takes the same path.                   *)
(*                                                                         *)
(* The view and the document are independent here: any text may appear in  *)
(* either at any time (EditorSync says how they follow each other).        *)
(* A request is handled in the step that posts it, for nothing the host    *)
(* does before it arrives can be seen by it; answers travel on their own   *)
(* and may be overtaken.                                                   *)
(***************************************************************************)
EXTENDS Naturals

CONSTANTS
  Text,         \* what a program may read
  NoText,       \* no text at all
  FormatOf,     \* what `fairuz format` makes of a text
  Mixes,        \* sets of services that are asked for together
  Slot,         \* requests the host can have under way
  MaxId,        \* bound on each of the webview's request counters
  MaxVersion    \* bound on the document's versions

Service == {"check", "semanticTokens", "format", "native"}

ASSUME ServicesAssumption ==
  /\ NoText \notin Text
  /\ FormatOf \in [Text -> Text]
  /\ \A t \in Text : FormatOf[FormatOf[t]] = FormatOf[t]
  /\ Mixes \subseteq SUBSET Service
  /\ Slot \subseteq Nat \ {0} /\ MaxId \in Nat \ {0} /\ MaxVersion \in Nat

VARIABLES
  asked,     \* the services that are asked for
  \* the webview
  view,      \* the editor's text
  trusted,   \* the workspace trust it has been told of
  live,      \* settings.liveDiagnostics
  check,     \* checkRequestId and whether checkTimer is set
  panel,     \* the text whose diagnostics are listed, or NoText
  colour,    \* latestSemanticRequest, highlightTimer, lexicalFallbackTimer and
             \* the text of pendingLexicalTokens
  shown,     \* the request, text and origin of the decorations
  format,    \* formatRequestId and the text of pendingFormat, or NoText
  \* the host
  file,      \* the document's text
  version,   \* the document's version
  problems,  \* the text whose diagnostics the collection holds, or NoText
  checkText, \* the text last sent for checking, or NoText
  field,     \* checkCancellation, semanticCancellation, formatCancellation
  closed,    \* state.disposed
  requests,  \* the requests under way
  replies    \* answers posted and not yet received

web  == <<view, trusted, live, check, panel, colour, shown, format>>
host == <<file, version, problems, checkText, field, closed, requests>>
vars == <<asked, web, host, replies>>

NoRequest == [service |-> "none", id |-> 0, text |-> NoText, stage |-> "free",
              cancelled |-> FALSE, process |-> "none", directory |-> FALSE,
              result |-> "none"]

New(service, id, text) ==
  [NoRequest EXCEPT !.service = service, !.id = id, !.text = text, !.stage = "preparing"]

Request == [service   : Service \cup {"none"},
            id        : 0 .. MaxId + MaxVersion,
            text      : Text \cup {NoText},
            stage     : {"free", "preparing", "compiling", "settled"},
            cancelled : BOOLEAN,
            process   : {"none", "alive", "dying"},
            directory : BOOLEAN,
            result    : {"none", "ok", "error", "cancelled", "thrown"}]

Reply == [service : Service, id : 1 .. MaxId, text : Text, result : {"ok", "error"}]

TypeOK ==
  /\ asked \in Mixes
  /\ view \in Text /\ file \in Text
  /\ trusted \in BOOLEAN /\ live \in BOOLEAN /\ closed \in BOOLEAN
  /\ check \in [id : 0 .. MaxId, armed : BOOLEAN]
  /\ colour \in [id : 0 .. MaxId, armed : BOOLEAN, fallback : 0 .. MaxId,
                 lexical : Text \cup {NoText}]
  /\ shown \in [id : 0 .. MaxId, text : Text \cup {NoText},
                source : {"outdated", "lexical", "parser"}]
  /\ format \in [id : 0 .. MaxId, text : Text \cup {NoText}]
  /\ {panel, problems, checkText} \subseteq Text \cup {NoText}
  /\ version \in 0 .. MaxVersion
  /\ field \in [Service \ {"native"} -> Slot \cup {0}]
  /\ requests \in [Slot -> Request]
  /\ replies \subseteq Reply
-----------------------------------------------------------------------------
(* runCompiler, checkSource, formatSource and highlight.                    *)

\* finish() settles a request once; what the process does later goes unheard.
Settle(r, result) == [r EXCEPT !.stage = "settled", !.result = result]

\* stop(): the process is told to go.
Kill(r, result) == [Settle(r, result) EXCEPT !.process = "dying"]

\* runCompiler's start: a cancelled request launches nothing, spawn may throw.
Launches(r) == IF r.cancelled THEN {Settle(r, "cancelled")}
               ELSE {[r EXCEPT !.stage = "compiling", !.process = "alive"],
                     Settle(r, "error")}

\* token.cancel(): heard at once by a running process, else by the next start.
Cancelled(r) ==
  LET c == [r EXCEPT !.cancelled = TRUE]
  IN  IF r.stage = "compiling" THEN Kill(c, "cancelled") ELSE c

Cancel(rs, slots) == [s \in Slot |-> IF s \in slots THEN Cancelled(rs[s]) ELSE rs[s]]

\* The first free slot; slots stand for the requests' closures.
Free(s) == /\ requests[s] = NoRequest
           /\ \A q \in Slot : q < s => requests[q] # NoRequest

Change(s, r) == requests' = [requests EXCEPT ![s] = r]
HostRest == UNCHANGED <<file, version, problems, checkText, field, closed>>
Working == HostRest /\ UNCHANGED <<asked, web, replies>>

\* mkdtemp and writeFile are done, the compiler starts; or the text is too large.
Prepare(s) ==
  /\ requests[s].stage = "preparing"
  /\ \/ \E r \in Launches(requests[s]) : Change(s, [r EXCEPT !.directory = TRUE])
     \/ Change(s, Settle(requests[s], "error"))
  /\ Working

\* mkdtemp or writeFile fails: checkSource throws, formatSource answers an error.
DiskFails(s) ==
  /\ requests[s].stage = "preparing"
  /\ \E made \in BOOLEAN :
       Change(s, [Settle(requests[s], IF requests[s].service = "check" THEN "thrown"
                                      ELSE "error") EXCEPT !.directory = made])
  /\ Working

\* The process ends by itself, or could not be started after all.
Exit(s) ==
  /\ requests[s].stage = "compiling"
  /\ \E result \in {"ok", "error"} :
       Change(s, [Settle(requests[s], result) EXCEPT !.process = "none"])
  /\ Working

\* The five seconds are over, or the output limit is passed.
TimeOutFault(s) ==
  /\ requests[s].stage = "compiling"
  /\ Change(s, Settle(requests[s], "error"))
  /\ Working
TimeOut(s) ==
  /\ requests[s].stage = "compiling"
  /\ Change(s, Kill(requests[s], "error"))
  /\ Working

Die(s) ==
  /\ requests[s].process = "dying"
  /\ Change(s, [requests[s] EXCEPT !.process = "none"])
  /\ Working

\* The finally block, after the formatted text has been read.
RemoveDirectory(s) ==
  /\ requests[s].stage = "settled" /\ requests[s].directory
  /\ Change(s, [requests[s] EXCEPT !.directory = FALSE])
  /\ Working

\* The slot of an ended request is free again once its process is gone.
Ended(r) == [NoRequest EXCEPT !.process = r.process]
-----------------------------------------------------------------------------
(* The webview.                                                             *)

Init ==
  /\ asked \in Mixes
  /\ view \in Text /\ file = view
  /\ trusted = FALSE /\ live = TRUE
  /\ check = [id |-> 1, armed |-> FALSE]
  /\ panel = NoText
  /\ colour = [id |-> 1, armed |-> TRUE, fallback |-> 0, lexical |-> NoText]
  /\ shown = [id |-> 0, text |-> NoText, source |-> "outdated"]
  /\ format = [id |-> 0, text |-> NoText]
  /\ version = 0
  /\ problems = NoText /\ checkText = NoText
  /\ field = [s \in Service \ {"native"} |-> 0]
  /\ closed = FALSE
  /\ requests = [s \in Slot |-> NoRequest]
  /\ replies = {}

\* scheduleHighlighting: both its timers are cleared, the first is set again.
ScheduleHighlighting ==
  IF "semanticTokens" \in asked
  THEN /\ colour.id < MaxId
       /\ colour' = [colour EXCEPT !.id = @ + 1, !.armed = TRUE, !.fallback = 0]
  ELSE UNCHANGED colour

\* scheduleCheck: what is listed goes at once.
ScheduleCheck(allowed) ==
  IF "check" \in asked
  THEN /\ check.id < MaxId
       /\ check' = [id |-> check.id + 1, armed |-> allowed]
       /\ panel' = NoText
  ELSE UNCHANGED <<check, panel>>

\* handleEditorUpdate and replaceDocument.
Rewrite(t) == /\ view' = t
              /\ ScheduleHighlighting
              /\ ScheduleCheck(trusted /\ live)

\* The writer types, or the document's text is adopted.
Type(t) == /\ ~closed /\ asked # {"native"}
           /\ t # view
           /\ Rewrite(t)
           /\ UNCHANGED <<asked, trusted, live, shown, format, host, replies>>

\* Settings or trust change; trust is never taken back.
Metadata(tr, lv) ==
  /\ ~closed /\ asked # {"native"}
  /\ <<tr, lv>> # <<trusted, live>> /\ (trusted => tr)
  /\ trusted' = tr /\ live' = lv
  /\ ScheduleHighlighting
  /\ ScheduleCheck(tr /\ lv)
  /\ UNCHANGED <<asked, view, shown, format, host, replies>>

\* handleMessage: the service's earlier request is cancelled and replaced.
Handle(service, s, r) ==
  /\ Free(s)
  /\ requests' = [Cancel(requests, {field[service]}) EXCEPT ![s] = r]
  /\ field' = [field EXCEPT ![service] = s]
  /\ UNCHANGED <<asked, trusted, live, view, panel, shown, file, version, problems, closed, replies>>

AskCheck == /\ ~closed /\ "check" \in asked
            /\ ScheduleCheck(trusted)
            /\ UNCHANGED <<asked, view, trusted, live, colour, shown, format, host, replies>>

FireCheck(s) == /\ ~closed /\ "check" \in asked
                /\ check.armed
                /\ check' = [check EXCEPT !.armed = FALSE]
                /\ checkText' = view
                /\ Handle("check", s, New("check", check.id, view))
                /\ UNCHANGED <<colour, format>>

\* The lexical colours are ready now and used if the parser's do not come soon.
FireHighlight(s) ==
  /\ ~closed /\ "semanticTokens" \in asked
  /\ colour.armed
  /\ colour' = [colour EXCEPT !.armed = FALSE, !.fallback = colour.id, !.lexical = view]
  /\ \/ /\ trusted
        /\ \E r \in Launches(New("semanticTokens", colour.id, view)) :
             Handle("semanticTokens", s, r)
        /\ UNCHANGED <<check, format, checkText>>
     \/ /\ ~trusted
        /\ UNCHANGED <<asked, view, trusted, live, check, panel, shown, format, host, replies>>

FireFallback ==
  /\ ~closed
  /\ colour.fallback # 0
  /\ colour' = [colour EXCEPT !.fallback = 0]
  /\ shown' = IF colour.fallback = colour.id
              THEN [id |-> colour.id, text |-> colour.lexical, source |-> "lexical"]
              ELSE shown
  /\ UNCHANGED <<asked, view, trusted, live, check, panel, format, host, replies>>

AskFormat(s) ==
  /\ ~closed /\ "format" \in asked
  /\ trusted
  /\ format.id + 1 < MaxId
  /\ format' = [id |-> format.id + 1, text |-> view]
  /\ Handle("format", s, New("format", format.id + 1, view))
  /\ UNCHANGED <<check, colour, checkText>>

Receive(m) == /\ ~closed
              /\ replies' = replies \ {m}
              /\ UNCHANGED <<asked, trusted, live, host>>

GetDiagnosticsFault(m) ==
  /\ m.service = "check"
  /\ panel' = IF m.result = "ok" THEN m.text ELSE NoText
  /\ Receive(m)
  /\ UNCHANGED <<view, check, colour, shown, format>>
GetDiagnostics(m) ==
  /\ m.service = "check"
  /\ panel' = IF m.id # check.id THEN panel ELSE IF m.result = "ok" THEN m.text ELSE NoText
  /\ Receive(m)
  /\ UNCHANGED <<view, check, colour, shown, format>>

GetTokensFault(m) ==
  /\ m.service = "semanticTokens"
  /\ colour' = [colour EXCEPT !.fallback = IF m.id = colour.id THEN 0 ELSE @]
  /\ shown' = IF m.id = colour.id /\ m.result = "ok"
              THEN [id |-> m.id, text |-> m.text, source |-> "parser"] ELSE shown
  /\ Receive(m)
  /\ UNCHANGED <<view, check, panel, format>>
GetTokens(m) ==
  /\ m.service = "semanticTokens"
  /\ \/ /\ m.id = colour.id
        /\ colour' = [colour EXCEPT !.fallback = 0]
        /\ shown' = IF m.result = "ok"
                    THEN [id |-> m.id, text |-> m.text, source |-> "parser"]
                    ELSE [id |-> m.id, text |-> colour.lexical, source |-> "lexical"]
     \/ m.id # colour.id /\ UNCHANGED <<colour, shown>>
  /\ Receive(m)
  /\ UNCHANGED <<view, check, panel, format>>

GetFormattedFault(m) ==
  /\ m.service = "format"
  /\ \/ m.id # format.id /\ UNCHANGED <<view, check, panel, colour, format>>
     \/ /\ m.id = format.id
        /\ format' = [format EXCEPT !.text = NoText]
        /\ \/ m.result = "ok" /\ FormatOf[m.text] # view /\ Rewrite(FormatOf[m.text])
           \/ UNCHANGED <<view, check, panel, colour>>
  /\ Receive(m)
  /\ UNCHANGED shown

\* The formatted text replaces the view it was made from, unless a conflict stands.
GetFormatted(m) ==
  /\ m.service = "format"
  /\ \/ m.id # format.id /\ UNCHANGED <<view, check, panel, colour, format>>
     \/ /\ m.id = format.id
        /\ format' = [format EXCEPT !.text = NoText]
        /\ \/ m.result = "ok" /\ view = format.text /\ FormatOf[m.text] # view
              /\ Rewrite(FormatOf[m.text])
           \/ UNCHANGED <<view, check, panel, colour>>
  /\ Receive(m)
  /\ UNCHANGED shown
-----------------------------------------------------------------------------
(* The host.                                                                *)

\* onDidChangeTextDocument, which VS Code also fires for a save.
DocumentBecomes(t, rs) ==
  /\ file' = t
  /\ version' = IF t = file THEN version ELSE version + 1
  /\ problems' = NoText
  /\ requests' = IF closed \/ t = checkText THEN rs ELSE Cancel(rs, {field["check"]})
  /\ UNCHANGED checkText

FileEvent(t) == /\ asked \cap {"check", "native"} # {}
                /\ t # file => version < MaxVersion
                /\ DocumentBecomes(t, requests)
                /\ UNCHANGED <<asked, web, field, closed, replies>>

WantedFault(s) == LET r == requests[s] IN
                  ~closed /\ field[r.service] = s /\ r.result # "thrown"

\* What the host still owes an answer: a later request, a cancelled token or a
\* closed editor make the result stale (highlight does not look at its token).
Wanted(s) == LET r == requests[s] IN
             /\ ~closed
             /\ field[r.service] = s
             /\ r.cancelled => r.service = "semanticTokens"
             /\ r.result # "thrown"

AnswerFault(s) ==
  LET r == requests[s] IN
  /\ r.stage = "settled" /\ ~r.directory
  /\ r.service # "native"
  /\ replies' = IF Wanted(s)
                THEN replies \cup {[service |-> r.service, id |-> r.id, text |-> r.text,
                                    result |-> r.result]}
                ELSE replies
  /\ field' = [field EXCEPT ![r.service] = 0]
  /\ Change(s, Ended(r))
  /\ UNCHANGED <<asked, web, file, version, problems, checkText, closed>>
Answer(s) ==
  LET r == requests[s] IN
  /\ r.stage = "settled" /\ ~r.directory
  /\ r.service # "native"
  /\ problems' = IF Wanted(s) /\ r.service = "check" /\ file = r.text
                 THEN IF r.result = "ok" THEN r.text ELSE NoText
                 ELSE problems
  /\ replies' = IF Wanted(s)
                THEN replies \cup {[service |-> r.service, id |-> r.id, text |-> r.text,
                                    result |-> r.result]}
                ELSE replies
  /\ field' = IF field[r.service] = s THEN [field EXCEPT ![r.service] = 0] ELSE field
  /\ Change(s, Ended(r))
  /\ UNCHANGED <<asked, web, file, version, checkText, closed>>

\* VS Code's Format Document, its token, and the edit it gets.
AskNative(s) == /\ "native" \in asked
                /\ Free(s) /\ version < MaxVersion
                /\ Change(s, New("native", version, file))
                /\ Working

CancelNative(s) == /\ requests[s].service = "native" /\ ~requests[s].cancelled
                   /\ requests' = Cancel(requests, {s})
                   /\ Working

AnswerNative(s) ==
  LET r == requests[s] IN
  /\ r.service = "native"
  /\ r.stage = "settled" /\ ~r.directory
  /\ IF r.result = "ok" /\ ~r.cancelled /\ version = r.id
     THEN DocumentBecomes(FormatOf[r.text], [requests EXCEPT ![s] = Ended(r)])
     ELSE Change(s, Ended(r)) /\ UNCHANGED <<file, version, problems, checkText>>
  /\ UNCHANGED <<asked, web, field, closed, replies>>

\* cleanupEditor.
Close == /\ ~closed
         /\ closed' = TRUE
         /\ requests' = Cancel(requests, {field[s] : s \in DOMAIN field})
         /\ problems' = NoText
         /\ UNCHANGED <<asked, web, file, version, checkText, field, replies>>
-----------------------------------------------------------------------------
Work(s) == Prepare(s) \/ Exit(s) \/ TimeOut(s) \/ RemoveDirectory(s) \/ Answer(s)
           \/ AnswerNative(s)

Next == \/ \E t \in Text : Type(t) \/ FileEvent(t)
        \/ \E tr, lv \in BOOLEAN : Metadata(tr, lv)
        \/ AskCheck \/ FireFallback \/ Close
        \/ \E s \in Slot : \/ FireCheck(s) \/ FireHighlight(s) \/ AskFormat(s)
                           \/ AskNative(s) \/ CancelNative(s)
                           \/ Work(s) \/ DiskFails(s) \/ Die(s)
        \/ \E m \in replies : GetDiagnostics(m) \/ GetTokens(m) \/ GetFormatted(m)

Spec == Init /\ [][Next]_vars

\* A request that can go on goes on, for disk operations end, a process ends or is
\* stopped, and a stopped one goes; and a timer that is set fires.  Nothing obliges
\* the writer, the document or a message to move.
Fairness == /\ \A s \in Slot : WF_vars(Work(s) \/ Die(s))
            /\ WF_vars(FireFallback \/ \E s \in Slot : FireHighlight(s))

FairSpec == Spec /\ Fairness
-----------------------------------------------------------------------------
(* Properties.                                                              *)

Current == INSTANCE CurrentAnswers WITH
  view <- view, file <- file, panel <- panel, problems <- problems,
  colours <- IF shown.id # colour.id THEN "outdated"
             ELSE IF shown.text = view THEN shown.source ELSE "misplaced"

\* Whatever is listed or coloured belongs to the text that is there now: webview,
\* host and processes keep what CurrentAnswers promises.
AnswersAreCurrent == Current!Spec

\* A request under way that nobody has cancelled is the one its service's field
\* names: an earlier one that ends late has not cleared it, so that the next request,
\* an edit or closing the editor can still cancel it.
Cancellable ==
  \A s \in Slot : requests[s].stage # "free" /\ requests[s].service # "native"
                    /\ ~requests[s].cancelled => field[requests[s].service] = s

\* A formatter's answer changes nothing but the layout of what is there when it
\* arrives: typing since the request is never overwritten, in the view or the file.
FormatKeepsTyping ==
  [][/\ \A m \in replies \ replies' :
          m.service = "format" /\ view' # view => view' = FormatOf[view]
     /\ \A s \in Slot :
          requests[s].service = "native" /\ requests'[s].service = "none" /\ file' # file
             => file' = FormatOf[file]]_vars

\* Every request ends, whatever its process does, and leaves neither a process nor a
\* temporary directory.
RequestsEnd == \A s \in Slot : requests[s] # NoRequest ~> requests[s] = NoRequest

\* Once the writer rests, the program gets its colours, from the parser or without it.
Coloured == <>[]("semanticTokens" \in asked => closed \/ shown.id = colour.id)
=============================================================================
