----------------------------- MODULE EditorSync -----------------------------
(***************************************************************************)
(* The right-to-left editor keeps one file in two places: the webview's    *)
(* buffer (DocumentSync in documentSync.js, driven by webviewEditor.js)    *)
(* and VS Code's TextDocument (rtleditorprovider.js).  They exchange       *)
(* messages that may be lost; other programs change the document; the      *)
(* webview may be closed and opened again at any moment.                   *)
(*                                                                         *)
(* The document is the sequence of its texts, so document.version is its   *)
(* length.  A change message names the texts it leads from and to instead  *)
(* of offsets: applied to any other text it garbles it.                    *)
(*                                                                         *)
(* An operator named ...Fault is no part of the model: it is a bug one     *)
(* could make in the definition after it, and a property has to notice it. *)
(***************************************************************************)
EXTENDS Naturals, Sequences, FiniteSets

CONSTANTS
  Text,            \* the contents a file can have, line ends normalised
  Garbled,         \* what a change makes of a text it was not made for
  NoText,          \* no text
  Actions,         \* the commands that wait for the buffer: "save", "run"
  Disturbances,    \* what may go wrong, see Disturb
  MaxStrokes, MaxPresses, MaxDisturbances,   \* bounds of the environment
  MaxRequests      \* bound: connection requests and their answers under way

DisturbanceKinds == {"external", "refuse", "throw", "loss", "show", "reload", "click"}

ASSUME ConstantsAssumption ==
  /\ NoText \notin Text /\ Garbled \notin Text /\ Garbled # NoText
  /\ Actions \subseteq {"save", "run"} /\ Disturbances \subseteq DisturbanceKinds
  /\ MaxStrokes \in Nat /\ MaxPresses \in Nat /\ MaxDisturbances \in Nat /\ MaxRequests \in Nat

VARIABLES
  web,      \* the webview: DocumentSync's fields, the queued action, the recovery text
  saved,    \* the recovery text in the webview's VS Code state, NoText for none
  toHost,   \* messages posted by the webview and the provider's promise queue
  toWeb,    \* messages posted by the provider
  doc,      \* every text the TextDocument has had
  host,     \* the provider: ready, and the queued message it is awaiting
  used      \* how much of each bound is used

vars == <<web, saved, toHost, toWeb, doc, host, used>>

Version == Len(doc)
Current == doc[Version]

NoFlight   == [id |-> 0, text |-> NoText]
NoConflict == [text |-> NoText, version |-> 0]
Idle       == [kind |-> "idle"]

\* A webview before its first setText; version 0 stands for null.
Opening(recovery) ==
  [version |-> 0, base |-> NoText, local |-> NoText, flight |-> NoFlight,
   conflict |-> NoConflict, sequence |-> 0, queued |-> "none", recovery |-> recovery]

Ready == [type |-> "ready"]

Init == /\ \E recovery \in Text \cup {NoText} : web = Opening(recovery) /\ saved = recovery
        /\ \E t \in Text : doc = <<t>>
        /\ toHost = <<Ready>>
        /\ toWeb = <<>>
        /\ host = [ready |-> FALSE, busy |-> Idle]
        /\ used = [strokes |-> 0, presses |-> 0, disturbances |-> 0]

\* Something that may go wrong does, at most MaxDisturbances times.
Disturb(kind) == /\ kind \in Disturbances
                 /\ used.disturbances < MaxDisturbances
                 /\ used' = [used EXCEPT !.disturbances = @ + 1]
-----------------------------------------------------------------------------
(* DocumentSync, as functions from a webview to a webview and its messages. *)

Quiet(w) == [web |-> w, out |-> <<>>]

Pending(w)    == w.flight # NoFlight \/ w.local # w.base
InConflict(w) == w.conflict # NoConflict
IsOpen(w)     == w.version # 0

\* A change is sent without waiting for the one outstanding.
EagerFlushFault(w) ==
  IF ~IsOpen(w) \/ InConflict(w) \/ w.local = w.base THEN Quiet(w)
  ELSE [web |-> [w EXCEPT !.sequence = @ + 1,
                          !.flight = [id |-> w.sequence + 1, text |-> w.local]],
        out |-> <<[type |-> "edit", id |-> w.sequence + 1, base |-> w.version,
                   change |-> [of |-> w.base, to |-> w.local]]>>]

Flush(w) ==
  IF ~IsOpen(w) \/ w.flight # NoFlight \/ InConflict(w) \/ w.local = w.base THEN Quiet(w)
  ELSE [web |-> [w EXCEPT !.sequence = @ + 1,
                          !.flight = [id |-> w.sequence + 1, text |-> w.local]],
        out |-> <<[type |-> "edit", id |-> w.sequence + 1, base |-> w.version,
                   change |-> [of |-> w.base, to |-> w.local]]>>]

\* What was typed while the edit was under way is taken to be acknowledged too.
LocalAcknowledgeFault(w, id, version) ==
  IF w.flight = NoFlight \/ id # w.flight.id \/ version < w.version THEN Quiet(w)
  ELSE Flush([w EXCEPT !.base = w.local, !.version = version, !.flight = NoFlight])

Acknowledge(w, id, version) ==
  IF w.flight = NoFlight \/ id # w.flight.id \/ version < w.version THEN Quiet(w)
  ELSE Flush([w EXCEPT !.base = w.flight.text, !.version = version, !.flight = NoFlight])

\* The file's text replaces whatever is in the buffer.
Adopt(w, m) == Quiet([w EXCEPT !.flight = NoFlight, !.base = m.text, !.local = m.text,
                               !.version = m.version])

\* setText: m.rejected answers a refused edit or action, m.authoritative a
\* connection request, which named the flight m.recoveryId (0 for none).
Receive(w, m) ==
  IF m.version < w.version \/ (m.authoritative /\ m.recoveryId # w.flight.id) THEN Quiet(w)
  ELSE IF ~IsOpen(w) THEN Adopt(w, m)
  ELSE IF InConflict(w) THEN Quiet([w EXCEPT !.conflict = [text |-> m.text, version |-> m.version]])
  ELSE IF ~m.rejected /\ w.flight # NoFlight /\ m.text = w.flight.text
       THEN Acknowledge(w, w.flight.id, m.version)
  ELSE IF ~m.rejected /\ m.text = w.base
       THEN IF m.authoritative THEN Flush([w EXCEPT !.flight = NoFlight, !.version = m.version])
            ELSE Quiet([w EXCEPT !.version = m.version])
  ELSE IF Pending(w) /\ m.text # w.local
       THEN Quiet([w EXCEPT !.flight = NoFlight,
                            !.conflict = [text |-> m.text, version |-> m.version]])
       ELSE Adopt(w, m)

\* The first text after opening meets the recovery text of an earlier webview.
Restore(w, m) ==
  LET r == Receive(w, m)
      recovered == r.web.recovery # NoText /\ r.web.recovery # r.web.base
  IN
  IF ~IsOpen(w) /\ recovered
  THEN Quiet([r.web EXCEPT !.local = r.web.recovery, !.recovery = NoText,
                           !.conflict = [text |-> r.web.base, version |-> r.web.version]])
  ELSE [r EXCEPT !.web.recovery = NoText]

\* resolve: keep the buffer, or load the version of the file that was offered.
ResolveWith(w, keep) ==
  LET base == w.conflict.text IN
  Flush([w EXCEPT !.base = base, !.version = w.conflict.version, !.conflict = NoConflict,
                  !.local = IF keep THEN w.local ELSE base, !.queued = "none"])
-----------------------------------------------------------------------------
(* The webview (webviewEditor.js).                                          *)

\* The action does not wait for the edit under way.
HastyFlushActionFault(r) ==
  LET w == r.web IN
  IF w.queued = "none" \/ InConflict(w) \/ ~IsOpen(w) THEN r
  ELSE [web |-> [w EXCEPT !.queued = "none"],
        out |-> Append(r.out, [type |-> "action", action |-> w.queued,
                               version |-> w.version, seen |-> w.local])]

\* A queued save or run is sent once the buffer is the file's version; seen is
\* no part of the message, it records the text the writer sees at that moment.
FlushAction(r) ==
  LET w == r.web IN
  IF w.queued = "none" \/ Pending(w) \/ InConflict(w) \/ ~IsOpen(w) THEN r
  ELSE [web |-> [w EXCEPT !.queued = "none"],
        out |-> Append(r.out, [type |-> "action", action |-> w.queued,
                               version |-> w.version, seen |-> w.local])]

\* What persistView stores: the buffer, unless the file already has it.
Recovery(w) == IF Pending(w) \/ InConflict(w) THEN w.local ELSE NoText

\* A handler of the webview ends: its messages are posted and its view persisted.
WebDoes(r) == /\ web' = r.web
              /\ toHost' = toHost \o r.out
              /\ saved' = Recovery(r.web)

\* The writer types; the buffer is read-only until the file has arrived.
Type(t) == /\ IsOpen(web)
           /\ used.strokes < MaxStrokes
           /\ t # web.local
           /\ WebDoes(Flush([web EXCEPT !.local = t]))
           /\ used' = [used EXCEPT !.strokes = @ + 1]
           /\ UNCHANGED <<toWeb, doc, host>>

\* Save or run: waits for the buffer to be synchronised, refused in a conflict.
Press(action) == /\ IsOpen(web) /\ ~InConflict(web)
                 /\ used.presses < MaxPresses
                 /\ WebDoes(FlushAction(Quiet([web EXCEPT !.queued = action])))
                 /\ used' = [used EXCEPT !.presses = @ + 1]
                 /\ UNCHANGED <<toWeb, doc, host>>

Resolve(keep) == /\ InConflict(web)
                 /\ WebDoes(ResolveWith(web, keep))
                 /\ UNCHANGED <<toWeb, doc, host, used>>

Message == Head(toWeb)

GetText == /\ toWeb # <<>> /\ Message.type = "setText"
           /\ LET r == Restore(web, Message)
                  w == IF InConflict(r.web) THEN [r.web EXCEPT !.queued = "none"] ELSE r.web
              IN  WebDoes(FlushAction([r EXCEPT !.web = w]))
           /\ toWeb' = Tail(toWeb)
           /\ UNCHANGED <<doc, host, used>>

GetAck == /\ toWeb # <<>> /\ Message.type = "ack"
          /\ WebDoes(FlushAction(Acknowledge(web, Message.id, Message.version)))
          /\ toWeb' = Tail(toWeb)
          /\ UNCHANGED <<doc, host, used>>

IsRequest(m) == m.type \in {"ready", "sync"}
IsAnswer(m)  == m.type = "setText" /\ (m.authoritative \/ ~IsOpen(web))
Requests     == Len(SelectSeq(toHost, IsRequest)) + Len(SelectSeq(toWeb, IsAnswer))

\* The request does not name the edit it is about.
NamelessRequestConnectionFault ==
  /\ Requests < MaxRequests
  /\ toHost' = Append(toHost, IF IsOpen(web) THEN [type |-> "sync", recoveryId |-> 0] ELSE Ready)
  /\ UNCHANGED <<web, saved, toWeb, doc, host, used>>

RequestConnection ==
  /\ Requests < MaxRequests
  /\ toHost' = Append(toHost, IF IsOpen(web) THEN [type |-> "sync", recoveryId |-> web.flight.id]
                                             ELSE Ready)
  /\ UNCHANGED <<web, saved, toWeb, doc, host, used>>

\* The five-second timer, re-armed as long as the file or an answer is missing.
Timeout == /\ ~IsOpen(web) \/ web.flight # NoFlight
           /\ RequestConnection

\* The status button also asks while a conflict is shown.
AskAgain == /\ InConflict(web) /\ web.flight = NoFlight
            /\ RequestConnection

\* The webview is disposed and a new one gets what getState kept; the provider
\* starts afresh, and an edit VS Code was applying may still be applied.
Reload == /\ Disturb("reload")
          /\ web' = Opening(saved)
          /\ toHost' = <<Ready>>
          /\ toWeb' = <<>>
          /\ host' = [ready |-> FALSE, busy |-> Idle]
          /\ \/ doc' = doc
             \/ /\ host.busy.kind = "edit" /\ host.busy.phase = "asked"
                /\ host.busy.version = Version
                /\ doc' = Append(doc, host.busy.expected)
          /\ UNCHANGED saved

\* A click or a scroll before the file arrives persists a view without a buffer.
ClickWhileOpening == /\ Disturb("click")
                     /\ ~IsOpen(web)
                     /\ saved' = Recovery(web)
                     /\ UNCHANGED <<web, toHost, toWeb, doc, host>>
-----------------------------------------------------------------------------
(* The provider (rtleditorprovider.js).  Edits, actions and sync requests   *)
(* are handled one at a time; ready is handled at once, but always precedes *)
(* them.                                                                    *)

\* sendFullSync, when the document has had the texts of d.
FullSync(d, rejected, authoritative, recoveryId) ==
  IF ~host.ready THEN <<>>
  ELSE <<[type |-> "setText", text |-> d[Len(d)], version |-> Len(d), rejected |-> rejected,
          authoritative |-> authoritative, recoveryId |-> recoveryId]>>

Post(messages) == toWeb' = toWeb \o messages

Next1(type) == /\ host.busy = Idle
               /\ toHost # <<>> /\ Head(toHost).type = type
               /\ toHost' = Tail(toHost)

Request == Head(toHost)

HandleReady == /\ Next1("ready")
               /\ host' = [host EXCEPT !.ready = TRUE]
               /\ Post(<<[type |-> "setText", text |-> Current, version |-> Version,
                          rejected |-> FALSE, authoritative |-> FALSE, recoveryId |-> 0]>>)
               /\ UNCHANGED <<web, saved, doc, used>>

HandleSync == /\ Next1("sync")
              /\ Post(FullSync(doc, FALSE, TRUE, Request.recoveryId))
              /\ UNCHANGED <<web, saved, doc, host, used>>

\* The change the webview made of one text, applied to the document's.
Apply(change, before) == IF change.of = before THEN change.to ELSE Garbled

\* The edit is applied to whatever the document now holds.
AnyVersionHandleEditFault ==
  /\ Next1("edit")
  /\ host' = [host EXCEPT !.busy = [kind |-> "edit", id |-> Request.id, version |-> Version,
                                    expected |-> Apply(Request.change, Current),
                                    phase |-> "asked"]]
  /\ UNCHANGED <<web, saved, toWeb, doc, used>>

HandleEdit ==
  /\ Next1("edit")
  /\ \/ /\ Request.base # Version
        /\ Post(FullSync(doc, TRUE, FALSE, 0))
        /\ UNCHANGED host
     \/ /\ Request.base = Version
        /\ host' = [host EXCEPT !.busy = [kind |-> "edit", id |-> Request.id, version |-> Version,
                                          expected |-> Apply(Request.change, Current),
                                          phase |-> "asked"]]
        /\ UNCHANGED toWeb
  /\ UNCHANGED <<web, saved, doc, used>>

Editing(phase) == host.busy.kind = "edit" /\ host.busy.phase = phase

\* VS Code applies a WorkspaceEdit to the version it was made for, or not at all.
\* The change event finds the expected text and sends nothing.
ApplyEdit == /\ Editing("asked")
             /\ host.busy.version = Version
             /\ doc' = Append(doc, host.busy.expected)
             /\ host' = [host EXCEPT !.busy.phase = "applied"]
             /\ UNCHANGED <<web, saved, toHost, toWeb, used>>

RefuseEdit == /\ Editing("asked")
              /\ host' = [host EXCEPT !.busy.phase = "refused"]
              /\ IF host.busy.version = Version THEN Disturb("refuse") ELSE UNCHANGED used
              /\ UNCHANGED <<web, saved, toHost, toWeb, doc>>

\* Any applied edit is acknowledged, with whatever the document has become.
BlindFinishEditFault ==
  /\ Editing("applied") \/ Editing("refused")
  /\ IF Editing("refused")
     THEN Post(FullSync(doc, TRUE, FALSE, 0))
     ELSE Post(<<[type |-> "ack", id |-> host.busy.id, version |-> Version]>>)
  /\ host' = [host EXCEPT !.busy = Idle]
  /\ UNCHANGED <<web, saved, toHost, doc, used>>

\* applyEdit is over; the document may have changed again in the meantime.
FinishEdit ==
  /\ Editing("applied") \/ Editing("refused")
  /\ IF Editing("refused") \/ Current # host.busy.expected
     THEN Post(FullSync(doc, TRUE, FALSE, 0))
     ELSE Post(<<[type |-> "ack", id |-> host.busy.id, version |-> Version]>>)
  /\ host' = [host EXCEPT !.busy = Idle]
  /\ UNCHANGED <<web, saved, toHost, doc, used>>

\* save and run are for the version the writer saw.
HandleAction ==
  /\ Next1("action")
  /\ IF Request.version # Version
     THEN Post(FullSync(doc, TRUE, FALSE, 0)) /\ UNCHANGED host
     ELSE /\ host' = [host EXCEPT !.busy = [kind |-> "action", action |-> Request.action]]
          /\ UNCHANGED toWeb
  /\ UNCHANGED <<web, saved, doc, used>>

\* document.save() or the run is over; a run may throw (an untrusted workspace, a
\* document that is no local file, a task that does not start).
FinishAction ==
  /\ host.busy.kind = "action"
  /\ host' = [host EXCEPT !.busy = Idle]
  /\ \/ UNCHANGED <<toWeb, used>>
     \/ /\ host.busy.action = "run" /\ Disturb("throw")
        /\ Post(FullSync(doc, TRUE, FALSE, 0))
  /\ UNCHANGED <<web, saved, toHost, doc>>

\* Another editor or program changes the document, or only its line ends.
External(t) ==
  /\ Disturb("external")
  /\ doc' = Append(doc, t)
  /\ IF host.busy.kind = "edit" /\ t = host.busy.expected THEN UNCHANGED toWeb
     ELSE Post(FullSync(doc', FALSE, FALSE, 0))
  /\ UNCHANGED <<web, saved, toHost, host>>

\* The panel becomes visible again.
Show == /\ Disturb("show")
        /\ host.ready
        /\ Post(FullSync(doc, FALSE, FALSE, 0))
        /\ UNCHANGED <<web, saved, toHost, doc, host>>

\* A message is not delivered.
Lose == /\ Disturb("loss")
        /\ \/ toHost # <<>> /\ host.busy = Idle /\ toHost' = Tail(toHost) /\ UNCHANGED toWeb
           \/ toWeb # <<>> /\ toWeb' = Tail(toWeb) /\ UNCHANGED toHost
        /\ UNCHANGED <<web, saved, doc, host>>

Next == \/ \E t \in Text : Type(t) \/ External(t)
        \/ \E action \in Actions : Press(action)
        \/ \E keep \in BOOLEAN : Resolve(keep)
        \/ GetText \/ GetAck \/ Timeout \/ AskAgain \/ Reload \/ ClickWhileOpening
        \/ HandleReady \/ HandleSync \/ HandleEdit \/ HandleAction
        \/ ApplyEdit \/ RefuseEdit \/ FinishEdit \/ FinishAction
        \/ Show \/ Lose

Spec == Init /\ [][Next]_vars

\* What the event loops and VS Code guarantee: posted messages that are not lost
\* are handled, applyEdit settles, and the timer fires while something is missing.
\* Nothing makes a writer choose, or a save dialog end.
Fairness == /\ WF_vars(GetText \/ GetAck)
            /\ WF_vars(HandleReady \/ HandleSync \/ HandleEdit \/ HandleAction)
            /\ WF_vars(ApplyEdit \/ RefuseEdit)
            /\ WF_vars(FinishEdit)
            /\ WF_vars(Timeout)

FairSpec == Spec /\ Fairness
-----------------------------------------------------------------------------
(* Properties.                                                              *)

FlightType == {NoFlight} \cup [id : Nat \ {0}, text : Text]
WebType == [version : Nat, base : Text \cup {NoText}, local : Text \cup {NoText},
            flight : FlightType, conflict : {NoConflict} \cup [text : Text, version : Nat \ {0}],
            sequence : Nat, queued : Actions \cup {"none"}, recovery : Text \cup {NoText}]

TypeOK == /\ web \in WebType
          /\ saved \in Text \cup {NoText}
          /\ \A i \in 1 .. Len(toHost) : toHost[i].type \in {"ready", "sync", "edit", "action"}
          /\ \A i \in 1 .. Len(toWeb) : toWeb[i].type \in {"setText", "ack"}
          /\ doc \in Seq(Text) /\ doc # <<>>
          /\ host.ready \in BOOLEAN /\ host.busy.kind \in {"idle", "edit", "action"}
          /\ used \in [strokes : 0 .. MaxStrokes, presses : 0 .. MaxPresses,
                       disturbances : 0 .. MaxDisturbances]

\* What the webview believes of a version is what the document had at it: its
\* base text, and the file version offered in a conflict.  (An acknowledgement
\* carries a version and no text; acknowledge pairs it with the flight's text.)
VersionsAgree ==
  /\ IsOpen(web) => web.version <= Version /\ web.base = doc[web.version]
  /\ InConflict(web) => /\ web.conflict.version \in 1 .. Version
                        /\ web.conflict.text = doc[web.conflict.version]

\* No save or run the provider would accept is for a text other than the one the
\* writer saw when it was sent.  (README.md: Save and Run wait for the queue.)
ActionsSeeDraft ==
  \A i \in 1 .. Len(toHost) :
     toHost[i].type = "action" /\ toHost[i].version = Version => toHost[i].seen = Current

Quiescent == /\ toHost = <<>> /\ toWeb = <<>> /\ host.busy = Idle
             /\ IsOpen(web) /\ web.flight = NoFlight

\* With nobody else changing the file, lost and late messages and retries never
\* make a conflict (a recovered draft may, before anything is sent), and once
\* nothing is under way buffer and file are the same.
AloneAgrees ==
  Quiescent => IF InConflict(web) THEN web.sequence = 0
               ELSE web.version = Version /\ web.local = Current

\* With nobody else changing the file, what the writer typed last is finally its
\* text, however the few losses and the timer interleave with typing; or the
\* writer does not settle the conflict with a recovered draft.
DraftReachesFile ==
  <>[](IsOpen(web) /\ (InConflict(web) \/ (~Pending(web) /\ web.local = Current)))

\* README.md offers "use the file version" in a conflict: once nothing is under
\* way, the version offered is the file's.
OfferedIsFile == Quiescent /\ InConflict(web) => web.conflict.text = Current

\* What the writer sees, or what is kept for the writer meanwhile.
Draft == IF IsOpen(web) THEN web.local ELSE web.recovery

\* The edits under way: posted, or VS Code is applying them.
EditsIn(messages) ==
  {[of |-> messages[i].base, text |-> messages[i].change.to] :
     i \in {j \in 1 .. Len(messages) : messages[j].type = "edit"}}
BeingApplied(busy) == IF busy.kind = "edit" /\ busy.phase = "asked"
                      THEN {[of |-> busy.version, text |-> busy.expected]} ELSE {}
Submitted == EditsIn(toHost) \cup BeingApplied(host.busy)

\* Webview, provider and channels keep the promises of SharedText.
Shared == INSTANCE SharedText WITH
  Text      <- Text,
  NoText    <- NoText,
  doc       <- doc,
  seen      <- web.version,
  draft     <- Draft,
  strokes   <- used.strokes,
  choosing  <- InConflict(web),
  waiting   <- web.flight.text,
  submitted <- Submitted

\* Nothing the writer typed is replaced but by the writer, a draft enters the file
\* only on top of the version it was made for, and a text of somebody else is
\* never passed over without asking.
KeepsPromises == Shared!Spec
=============================================================================
