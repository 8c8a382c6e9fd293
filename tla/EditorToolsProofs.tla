-------------------------- MODULE EditorToolsProofs --------------------------
(***************************************************************************)
(* What the editor's servants promise.                                     *)
(*                                                                         *)
(* The language services, for every set of texts, every formatter, every   *)
(* number of requests under way and every bound: the requests that can     *)
(* still be cancelled are, a formatter's answer changes nothing but        *)
(* layout, and whatever is shown is about the program as it is now, that   *)
(* is, LanguageServices implements CurrentAnswers.                         *)
(*                                                                         *)
(* The run of a program: the stop button agrees with the program it stops, *)
(* for any number of tasks and of messages waiting.                        *)
(*                                                                         *)
(* The edit: what the editor puts in the place of the part that differs    *)
(* turns the one text into the other and does not begin inside a pair of   *)
(* units, for texts of any length.                                         *)
(***************************************************************************)
EXTENDS MCLanguage, SequenceFacts
-----------------------------------------------------------------------------
(* The language services.                                                   *)

\* A request as the host keeps it: one under way is for a service that is asked for
\* and about some text, and a settled one has a result.
Sound(r) ==
  /\ r \in Request
  /\ r.stage = "free" <=> r.service = "none"
  /\ r.service # "none" => r.service \in asked /\ r.text \in Text
  /\ r.service \notin {"none", "native"} => r.id \in 1 .. MaxId
  /\ r.service = "native" => r.id < MaxVersion
  /\ r.stage = "settled" => r.result # "none"
  /\ r.result = "cancelled" => r.cancelled

RequestsSound == \A s \in Slot : Sound(requests[s])

\* A service's field names a request of that service, and one that is named is
\* cancelled only when the editor closes or, of checks, when the text changes.
FieldsName ==
  \A v \in Service \ {"native"} :
    field[v] # 0 => /\ requests[field[v]].service = v
                    /\ v = "semanticTokens" => closed \/ ~requests[field[v]].cancelled

\* A formatting request of VS Code's that is not overtaken is about the document.
NativeIsFile ==
  \A s \in Slot : requests[s].service = "native" =>
    /\ requests[s].id <= version
    /\ requests[s].id = version => requests[s].text = file

HostInv == RequestsSound /\ FieldsName /\ Cancellable /\ NativeIsFile

\* What is asked or answered and not yet received.
Question(r) == [service |-> r.service, id |-> r.id, text |-> r.text]
Asked   == {requests[s] : s \in {q \in Slot : requests[q].service # "none"}}
Pending == {Question(r) : r \in Asked \cup replies}

RepliesAsked == \A m \in replies : m.service \in asked

\* The webview's latest check is about the text in view.
CheckInv ==
  /\ check.id >= 1
  /\ "check" \notin asked => panel = NoText
  /\ \A p \in Pending : p.service = "check" =>
       /\ p.id <= check.id
       /\ p.id = check.id => p.text = view

\* So is the latest formatting, until its text is taken or the view has changed.
FormatInv ==
  \A p \in Pending : p.service = "format" =>
    /\ p.id <= format.id
    /\ p.id = format.id /\ format.text # NoText => p.text = format.text

\* And so are the colours, lexical or the parser's; the parser answers once.
ColourInv ==
  /\ colour.id >= 1 /\ shown.id <= colour.id
  /\ "semanticTokens" \notin asked => shown.id # colour.id
  /\ colour.fallback # 0 => "semanticTokens" \in asked
  /\ colour.armed => shown.id # colour.id /\ colour.fallback # colour.id
  /\ "semanticTokens" \in asked /\ ~colour.armed => colour.lexical = view
  /\ \A p \in Pending : p.service = "semanticTokens" =>
       /\ p.id <= colour.id
       /\ p.id = colour.id => p.text = view /\ ~colour.armed

ParserShown == shown.id = colour.id /\ shown.source = "parser"

AnswersOnce ==
  /\ ParserShown => colour.fallback # colour.id
  /\ \A m \in replies : m.service = "semanticTokens" /\ m.id = colour.id =>
       /\ ~ParserShown
       /\ \A n \in replies : n.service = "semanticTokens" /\ n.id = colour.id => n = m
  /\ LET s == field["semanticTokens"] IN
     s # 0 /\ requests[s].id = colour.id =>
       /\ ~ParserShown
       /\ \A m \in replies : m.service = "semanticTokens" => m.id # colour.id

IInv == /\ TypeOK /\ HostInv /\ RepliesAsked
        /\ CheckInv /\ FormatInv /\ ColourInv /\ AnswersOnce
-----------------------------------------------------------------------------
(* What a request goes through.                                             *)

\* The same request further on; only VS Code takes back a request of its own.
Kept(r, q) == /\ q.service = r.service /\ q.id = r.id /\ q.text = r.text
              /\ r.cancelled => q.cancelled
              /\ r.service # "native" => (q.cancelled <=> r.cancelled)
              /\ Sound(q)

LEMMA Constants ==
  /\ NoText \notin Text /\ FormatOf \in [Text -> Text]
  /\ Slot \subseteq Nat \ {0} /\ 0 \notin Slot
  /\ MaxId \in Nat \ {0} /\ MaxVersion \in Nat
  /\ \A m \in Mixes : m \subseteq Service
  BY ServicesAssumption

LEMMA SettleFacts ==
  ASSUME NEW r, Sound(r), r.service # "none",
         NEW result \in {"ok", "error", "cancelled", "thrown"},
         result = "cancelled" => r.cancelled
  PROVE  Kept(r, Settle(r, result)) /\ Settle(r, result).process = r.process
<1> DEFINE q == Settle(r, result)
<1>1. /\ q \in Request /\ q.service = r.service /\ q.id = r.id /\ q.text = r.text
      /\ q.cancelled = r.cancelled /\ q.stage = "settled" /\ q.result = result
      /\ q.process = r.process
  BY DEF Settle, Sound, Request
<1> HIDE DEF q
<1> QED
  BY <1>1 DEF Kept, Sound, q

LEMMA KillFacts ==
  ASSUME NEW r, Sound(r), r.service # "none", NEW result \in {"error", "cancelled"},
         result = "cancelled" => r.cancelled
  PROVE  Kept(r, Kill(r, result))
<1> DEFINE p == Settle(r, result)
           q == [p EXCEPT !.process = "dying"]
<1>1. Kept(r, p)
  BY SettleFacts
<1>2. q = Kill(r, result)
  BY DEF Kill
<1> HIDE DEF p
<1>3. /\ q \in Request /\ q.service = p.service /\ q.id = p.id /\ q.text = p.text
      /\ q.cancelled = p.cancelled /\ q.stage = p.stage /\ q.result = p.result
  BY <1>1 DEF Kept, Sound, Request
<1> HIDE DEF q
<1> QED
  BY <1>1, <1>2, <1>3 DEF Kept, Sound

\* What happens to its process and its directory leaves a request what it is.
LEMMA WithProcess ==
  ASSUME NEW r, Sound(r), NEW process \in {"none", "alive", "dying"}
  PROVE  Kept(r, [r EXCEPT !.process = process])
<1> DEFINE q == [r EXCEPT !.process = process]
<1>1. /\ q \in Request /\ q.service = r.service /\ q.id = r.id /\ q.text = r.text
      /\ q.cancelled = r.cancelled /\ q.stage = r.stage /\ q.result = r.result
  BY DEF Sound, Request
<1> HIDE DEF q
<1> QED
  BY <1>1 DEF Kept, Sound, q

LEMMA WithDirectory ==
  ASSUME NEW r, NEW q, Kept(r, q), NEW directory \in BOOLEAN
  PROVE  Kept(r, [q EXCEPT !.directory = directory])
<1> DEFINE p == [q EXCEPT !.directory = directory]
<1>1. /\ p \in Request /\ p.service = q.service /\ p.id = q.id /\ p.text = q.text
      /\ p.cancelled = q.cancelled /\ p.stage = q.stage /\ p.result = q.result
  BY DEF Kept, Sound, Request
<1> HIDE DEF p
<1> QED
  BY <1>1 DEF Kept, Sound, p

LEMMA LaunchesFacts ==
  ASSUME NEW r, Sound(r), r.service # "none", NEW q \in Launches(r)
  PROVE  Kept(r, q)
<1> DEFINE c == [r EXCEPT !.stage = "compiling", !.process = "alive"]
<1>1. CASE r.cancelled
  BY <1>1, SettleFacts DEF Launches
<1>2. CASE ~r.cancelled /\ q = Settle(r, "error")
  BY <1>2, SettleFacts
<1>3. CASE q = c
  <2>1. /\ c \in Request /\ c.service = r.service /\ c.id = r.id /\ c.text = r.text
        /\ c.cancelled = r.cancelled /\ c.stage = "compiling" /\ c.result = r.result
    BY DEF Sound, Request
  <2> HIDE DEF c
  <2> QED
    BY <1>3, <2>1 DEF Kept, Sound
<1> QED
  BY <1>1, <1>2, <1>3 DEF Launches

\* A cancelled request is still the same request.
LEMMA CancelledFacts ==
  ASSUME NEW r, Sound(r), r.service # "none"
  PROVE  /\ Cancelled(r).service = r.service /\ Cancelled(r).id = r.id
         /\ Cancelled(r).text = r.text /\ Cancelled(r).cancelled
         /\ Sound(Cancelled(r))
<1> DEFINE c == [r EXCEPT !.cancelled = TRUE]
<1>1. /\ c \in Request /\ c.service = r.service /\ c.id = r.id /\ c.text = r.text
      /\ c.cancelled = TRUE /\ c.stage = r.stage /\ c.result = r.result
  BY DEF Sound, Request
<1>2. Cancelled(r) = IF r.stage = "compiling" THEN Kill(c, "cancelled") ELSE c
  BY DEF Cancelled
<1> HIDE DEF c
<1>3. Sound(c)
  BY <1>1 DEF Sound
<1>4. CASE r.stage = "compiling"
  <2>1. Kept(c, Kill(c, "cancelled"))
    BY <1>1, <1>3, KillFacts
  <2> QED
    BY <1>1, <1>2, <1>4, <2>1 DEF Kept
<1>5. CASE r.stage # "compiling"
  BY <1>1, <1>2, <1>3, <1>5
<1> QED
  BY <1>4, <1>5

LEMMA NoRequestFacts ==
  /\ NoRequest \in Request
  /\ NoRequest.service = "none" /\ NoRequest.stage = "free" /\ NoRequest.cancelled = FALSE
  /\ NoRequest.result = "none"
<1>1. 0 \in 0 .. MaxId + MaxVersion
  BY Constants
<1> QED
  BY <1>1 DEF NoRequest, Request

LEMMA NewFacts ==
  ASSUME NEW service \in asked, asked \subseteq Service, NEW id, NEW text \in Text,
         service # "native" => id \in 1 .. MaxId,
         service = "native" => id \in 0 .. MaxVersion - 1
  PROVE  /\ Sound(New(service, id, text)) /\ ~New(service, id, text).cancelled
         /\ New(service, id, text).service = service /\ New(service, id, text).id = id
         /\ New(service, id, text).text = text
<1> DEFINE q == New(service, id, text)
<1>1. id \in 0 .. MaxId + MaxVersion /\ service \in Service
  BY Constants
<1>2. /\ q \in Request
      /\ q.service = service /\ q.id = id /\ q.text = text /\ q.stage = "preparing"
      /\ q.cancelled = FALSE /\ q.result = "none"
  BY <1>1, NoRequestFacts DEF New, Request
<1> HIDE DEF q
<1>3. service # "none"
  BY <1>1 DEF Service
<1>4. Sound(q)
  BY <1>1, <1>2, <1>3, Constants DEF Sound
<1> QED
  BY <1>2, <1>4 DEF q

\* An ended request leaves a free slot.
LEMMA EndedFacts ==
  ASSUME NEW process \in {"none", "alive", "dying"}
  PROVE  /\ Sound([NoRequest EXCEPT !.process = process])
         /\ [NoRequest EXCEPT !.process = process].service = "none"
<1> DEFINE q == [NoRequest EXCEPT !.process = process]
<1>1. /\ q \in Request
      /\ q.service = "none" /\ q.stage = "free" /\ q.cancelled = FALSE /\ q.result = "none"
  BY NoRequestFacts DEF Request
<1> HIDE DEF q
<1>2. Sound(q)
  BY <1>1 DEF Sound
<1> QED
  BY <1>1, <1>2 DEF q
-----------------------------------------------------------------------------
(* Steps in which the host's requests go on, and nobody sees anything.      *)

Quiet == /\ UNCHANGED <<asked, web, file, version, problems, checkText, field, closed, replies>>
         /\ requests' \in [Slot -> Request]
         /\ \A s \in Slot : Kept(requests[s], requests'[s])

LEMMA TypeOKFacts ==
  ASSUME TypeOK
  PROVE  /\ asked \in Mixes /\ asked \subseteq Service
         /\ requests \in [Slot -> Request] /\ DOMAIN requests = Slot
         /\ field \in [Service \ {"native"} -> Slot \cup {0}]
         /\ DOMAIN field = Service \ {"native"}
  BY Constants DEF TypeOK

\* One request goes on.
LEMMA ChangeIsQuiet ==
  ASSUME TypeOK, RequestsSound, NEW s \in Slot, NEW q, Kept(requests[s], q),
         Change(s, q), Working
  PROVE  Quiet
<1>1. q \in Request
  BY DEF Kept, Sound
<1>2. requests' = [requests EXCEPT ![s] = q]
  BY DEF Change
<1>3. \A p \in Slot : requests'[p] = IF p = s THEN q ELSE requests[p]
  BY <1>2, TypeOKFacts
<1>4. requests' \in [Slot -> Request]
  BY <1>1, <1>2, TypeOKFacts
<1>5. \A p \in Slot : Kept(requests[p], requests[p])
  BY DEF RequestsSound, Kept
<1> QED
  BY <1>3, <1>4, <1>5 DEF Quiet, Working, HostRest

LEMMA PrepareIsQuiet ==
  ASSUME TypeOK, RequestsSound, NEW s \in Slot, Prepare(s) PROVE Quiet
<1>1. Sound(requests[s]) /\ requests[s].service # "none" /\ Working
  BY DEF RequestsSound, Prepare, Sound
<1>2. ASSUME NEW r \in Launches(requests[s]), Change(s, [r EXCEPT !.directory = TRUE])
      PROVE  Quiet
  BY <1>1, <1>2, LaunchesFacts, WithDirectory, ChangeIsQuiet
<1>3. ASSUME Change(s, Settle(requests[s], "error"))
      PROVE  Quiet
  BY <1>1, <1>3, SettleFacts, ChangeIsQuiet
<1> QED
  BY <1>2, <1>3 DEF Prepare

LEMMA DiskFailsIsQuiet ==
  ASSUME TypeOK, RequestsSound, NEW s \in Slot, DiskFails(s) PROVE Quiet
<1> DEFINE result == IF requests[s].service = "check" THEN "thrown" ELSE "error"
<1>1. Sound(requests[s]) /\ requests[s].service # "none" /\ Working
  BY DEF RequestsSound, DiskFails, Sound
<1>2. PICK made \in BOOLEAN :
        Change(s, [Settle(requests[s], result) EXCEPT !.directory = made])
  BY Zenon DEF DiskFails
<1>3. Kept(requests[s], Settle(requests[s], result))
  BY <1>1, SettleFacts
<1> QED
  BY <1>1, <1>2, <1>3, WithDirectory, ChangeIsQuiet

LEMMA ExitIsQuiet ==
  ASSUME TypeOK, RequestsSound, NEW s \in Slot, Exit(s) PROVE Quiet
<1>1. Sound(requests[s]) /\ requests[s].service # "none" /\ Working
  BY DEF RequestsSound, Exit, Sound
<1>2. PICK result \in {"ok", "error"} :
        Change(s, [Settle(requests[s], result) EXCEPT !.process = "none"])
  BY DEF Exit
<1> DEFINE p == Settle(requests[s], result)
           q == [p EXCEPT !.process = "none"]
<1>3. Kept(requests[s], p)
  BY <1>1, SettleFacts
<1>4. Change(s, q)
  BY <1>2
<1> HIDE DEF p
<1>5. Kept(p, q)
  BY <1>3, WithProcess DEF Kept
<1> HIDE DEF q
<1>6. Kept(requests[s], q)
  BY <1>3, <1>5 DEF Kept
<1> QED
  BY <1>1, <1>4, <1>6, ChangeIsQuiet

LEMMA OthersAreQuiet ==
  ASSUME TypeOK, RequestsSound, NEW s \in Slot,
         TimeOut(s) \/ Die(s) \/ RemoveDirectory(s) \/ CancelNative(s)
  PROVE  Quiet
<1>1. Sound(requests[s]) /\ Working
  BY DEF RequestsSound, TimeOut, Die, RemoveDirectory, CancelNative
<1>2. CASE TimeOut(s)
  BY <1>1, <1>2, KillFacts, ChangeIsQuiet DEF TimeOut, Sound
<1>3. CASE Die(s)
  BY <1>1, <1>3, WithProcess, ChangeIsQuiet DEF Die
<1>4. CASE RemoveDirectory(s)
  <2>1. Kept(requests[s], requests[s])
    BY <1>1 DEF Kept
  <2> QED
    BY <1>1, <1>4, <2>1, WithDirectory, ChangeIsQuiet DEF RemoveDirectory
<1>5. CASE CancelNative(s)
  <2>1. /\ requests[s].service = "native" /\ s # 0
        /\ requests' = [q \in Slot |-> IF q \in {s} THEN Cancelled(requests[q]) ELSE requests[q]]
    BY <1>5, Constants DEF CancelNative, Cancel
  <2>2. Kept(requests[s], Cancelled(requests[s]))
    BY <1>1, <2>1, CancelledFacts DEF Kept
  <2>3. \A q \in Slot : requests'[q] = IF q = s THEN Cancelled(requests[s]) ELSE requests[q]
    BY <2>1
  <2>4. \A q \in Slot : Kept(requests[q], requests'[q])
    BY <2>2, <2>3 DEF RequestsSound, Kept
  <2>5. requests' \in [Slot -> Request]
    <3>1. \A q \in Slot : requests'[q] \in Request
      BY <2>4 DEF Kept, Sound
    <3> QED
      BY <2>1, <3>1
  <2> QED
    BY <1>1, <2>4, <2>5 DEF Quiet, Working, HostRest
<1> QED
  BY <1>2, <1>3, <1>4, <1>5
-----------------------------------------------------------------------------
(* What the invariant's parts depend on.                                    *)

LEMMA HostStays == ASSUME HostInv, UNCHANGED <<asked, host>> PROVE HostInv'
  BY DEF HostInv, RequestsSound, Sound, FieldsName, Cancellable, NativeIsFile, host

LEMMA WebStays ==
  ASSUME CheckInv, FormatInv, ColourInv, UNCHANGED <<asked, web>>, Pending' \subseteq Pending
  PROVE  CheckInv' /\ FormatInv' /\ ColourInv'
<1>1. UNCHANGED <<asked, view, check, panel, colour, shown, format>>
  BY DEF web
<1>2. CheckInv'
  BY <1>1 DEF CheckInv
<1>3. FormatInv'
  BY <1>1 DEF FormatInv
<1>4. ColourInv'
  BY <1>1 DEF ColourInv
<1> QED
  BY <1>2, <1>3, <1>4

\* The request the field of the highlighter names.
Painter == requests[field["semanticTokens"]]

LEMMA OnceStays ==
  ASSUME AnswersOnce, UNCHANGED <<colour, shown>>, replies' \subseteq replies,
         field'["semanticTokens"] # 0 => field["semanticTokens"] # 0 /\ Painter'.id = Painter.id
  PROVE  AnswersOnce'
<1>1. ParserShown' <=> ParserShown
  BY DEF ParserShown
<1>2. (ParserShown => colour.fallback # colour.id)'
  BY <1>1 DEF AnswersOnce
<1>3. (\A m \in replies : m.service = "semanticTokens" /\ m.id = colour.id =>
         /\ ~ParserShown
         /\ \A n \in replies : n.service = "semanticTokens" /\ n.id = colour.id => n = m)'
  BY <1>1 DEF AnswersOnce
<1>4. (field["semanticTokens"] # 0 /\ Painter.id = colour.id =>
         /\ ~ParserShown
         /\ \A m \in replies : m.service = "semanticTokens" => m.id # colour.id)'
  BY <1>1 DEF AnswersOnce, Painter
<1> QED
  BY <1>2, <1>3, <1>4 DEF AnswersOnce, Painter

\* What is asked and what was answered, as sets.
LEMMA PendingIs ==
  /\ \A s \in Slot : requests[s].service # "none" => Question(requests[s]) \in Pending
  /\ \A m \in replies : Question(m) \in Pending
  /\ \A p \in Pending : \/ \E s \in Slot : requests[s].service # "none" /\ p = Question(requests[s])
                        \/ \E m \in replies : p = Question(m)
  BY DEF Pending, Asked

\* No question is new when the answers do not grow and each request was there.
LEMMA PendingShrinks ==
  ASSUME replies' \subseteq replies,
         \A s \in Slot : requests'[s].service # "none" =>
            requests[s].service # "none" /\ Question(requests'[s]) = Question(requests[s])
  PROVE  Pending' \subseteq Pending
<1> SUFFICES ASSUME NEW p \in Pending' PROVE p \in Pending
  OBVIOUS
<1>1. CASE \E s \in Slot : requests'[s].service # "none" /\ p = Question(requests'[s])
  BY <1>1, PendingIs
<1>2. CASE \E m \in replies' : p = Question(m)
  BY <1>2, PendingIs
<1>3. \/ \E s \in Slot : requests'[s].service # "none" /\ p = Question(requests'[s])
      \/ \E m \in replies' : p = Question(m)
  BY DEF Pending, Asked
<1> QED
  BY <1>1, <1>2, <1>3
-----------------------------------------------------------------------------
LEMMA QuietKeeps == ASSUME IInv, Quiet PROVE IInv'
<1>1. /\ UNCHANGED <<asked, web, file, version, problems, checkText, field, closed, replies>>
      /\ requests' \in [Slot -> Request]
      /\ \A s \in Slot : Kept(requests[s], requests'[s])
  BY DEF Quiet
<1>2. TypeOK /\ RequestsSound /\ FieldsName /\ Cancellable /\ NativeIsFile
  BY DEF IInv, HostInv
<1>3. TypeOK'
  BY <1>1, <1>2 DEF TypeOK, web
<1>4. /\ \A s \in Slot : /\ requests'[s].service = requests[s].service
                         /\ requests'[s].id = requests[s].id
                         /\ requests'[s].text = requests[s].text
                         /\ requests[s].service # "native" =>
                              (requests'[s].cancelled <=> requests[s].cancelled)
                         /\ Sound(requests[s]) /\ Sound(requests'[s])
  BY <1>1, <1>2 DEF Kept, RequestsSound
<1>5. \A v \in Service \ {"native"} : field[v] # 0 => field[v] \in Slot
  BY <1>2, TypeOKFacts
<1>6. HostInv'
  <2>1. RequestsSound'
    BY <1>1, <1>4 DEF RequestsSound, Sound
  <2>2. FieldsName'
    BY <1>1, <1>2, <1>4, <1>5 DEF FieldsName
  <2>3. Cancellable'
    BY <1>1, <1>2, <1>4 DEF Cancellable, Sound
  <2>4. NativeIsFile'
    BY <1>1, <1>2, <1>4 DEF NativeIsFile
  <2> QED
    BY <2>1, <2>2, <2>3, <2>4 DEF HostInv
<1>7. RepliesAsked'
  BY <1>1 DEF IInv, RepliesAsked
<1>8. Pending' \subseteq Pending
  BY <1>1, <1>4, PendingShrinks DEF Question
<1>9. CheckInv' /\ FormatInv' /\ ColourInv'
  BY <1>1, <1>8, WebStays DEF IInv
<1>10. AnswersOnce'
  <2>1. "semanticTokens" \in Service \ {"native"}
    BY DEF Service
  <2>2. field'["semanticTokens"] # 0 => Painter'.id = Painter.id
    BY <1>1, <1>4, <1>5, <2>1 DEF Painter
  <2> QED
    BY <1>1, <2>2, OnceStays DEF IInv, web
<1> QED
  BY <1>3, <1>6, <1>7, <1>9, <1>10 DEF IInv
-----------------------------------------------------------------------------
(* The webview's timers.                                                    *)

LEMMA PendingAsked == ASSUME IInv, NEW p \in Pending PROVE p.service \in asked
<1>1. CASE \E s \in Slot : requests[s].service # "none" /\ p = Question(requests[s])
  BY <1>1 DEF Question, IInv, HostInv, RequestsSound, Sound
<1>2. CASE \E m \in replies : p = Question(m)
  BY <1>2 DEF Question, IInv, RepliesAsked
<1> QED
  BY <1>1, <1>2, PendingIs

\* A new number makes every answer under way an old one.
LEMMA ScheduleCheckFacts ==
  ASSUME IInv, NEW allowed \in BOOLEAN, ScheduleCheck(allowed), asked' = asked,
         Pending' \subseteq Pending
  PROVE  /\ check' \in [id : 0 .. MaxId, armed : BOOLEAN]
         /\ panel' = NoText
         /\ CheckInv'
<1>1. /\ check \in [id : 0 .. MaxId, armed : BOOLEAN] /\ check.id \in Nat /\ MaxId \in Nat
      /\ CheckInv
  BY Constants DEF IInv, TypeOK
<1>2. CASE "check" \in asked
  <2>1. /\ check' = [id |-> check.id + 1, armed |-> allowed] /\ check.id < MaxId
        /\ panel' = NoText
    BY <1>2 DEF ScheduleCheck
  <2>2. check'.id = check.id + 1
    BY <2>1
  <2>3. CheckInv'
    <3>1. ASSUME NEW p \in Pending', p.service = "check" PROVE p.id <= check'.id /\ p.id # check'.id
      <4>1. p \in Pending
        OBVIOUS
      <4>2. p.id <= check.id /\ p.id \in Nat
        <5>1. p.id \in Nat
          BY <3>1, <4>1, PendingIs, Constants DEF Question, IInv, HostInv, RequestsSound, Sound,
            TypeOK, Reply
        <5> QED
          BY <1>1, <3>1, <4>1, <5>1 DEF CheckInv
      <4> QED
        BY <1>1, <2>2, <4>2
    <3>2. check'.id >= 1
      BY <1>1, <2>2
    <3> QED
      BY <2>1, <3>1, <3>2 DEF CheckInv
  <2> QED
    BY <1>1, <2>1, <2>3
<1>3. CASE "check" \notin asked
  <2>1. UNCHANGED <<check, panel>> /\ panel = NoText
    BY <1>1, <1>3 DEF ScheduleCheck, CheckInv
  <2>2. \A p \in Pending : p.service # "check"
    BY <1>3, PendingAsked
  <2>3. CheckInv'
    BY <1>1, <2>1, <2>2 DEF CheckInv
  <2> QED
    BY <1>1, <2>1, <2>3
<1> QED
  BY <1>2, <1>3

LEMMA PendingIds == ASSUME IInv, NEW p \in Pending, p.service # "native" PROVE p.id \in 1 .. MaxId
<1>1. CASE \E s \in Slot : requests[s].service # "none" /\ p = Question(requests[s])
  BY <1>1 DEF Question, IInv, HostInv, RequestsSound, Sound
<1>2. CASE \E m \in replies : p = Question(m)
  BY <1>2 DEF Question, IInv, TypeOK, Reply
<1> QED
  BY <1>1, <1>2, PendingIs

\* What colours the view, as CurrentAnswers names it.
Colours == IF shown.id # colour.id THEN "outdated"
           ELSE IF shown.text = view THEN shown.source ELSE "misplaced"

\* The field of the highlighter names a pending question of its own.
LEMMA PainterFacts ==
  ASSUME IInv, field["semanticTokens"] # 0
  PROVE  /\ field["semanticTokens"] \in Slot /\ Painter.service = "semanticTokens"
         /\ Painter.id \in Nat /\ Painter.id <= colour.id
         /\ Painter.id = colour.id => ~colour.armed
<1>1. "semanticTokens" \in Service \ {"native"}
  BY DEF Service
<1>2. field["semanticTokens"] \in Slot /\ Painter.service = "semanticTokens"
  BY <1>1, TypeOKFacts DEF IInv, HostInv, FieldsName, Painter
<1>3. Question(Painter) \in Pending
  BY <1>2, PendingIs DEF Painter
<1>4. /\ Question(Painter).service = "semanticTokens" /\ Question(Painter).id = Painter.id
  BY <1>2 DEF Question
<1>5. Painter.id \in 1 .. MaxId
  BY <1>3, <1>4, PendingIds
<1> QED
  BY <1>2, <1>3, <1>4, <1>5, Constants DEF IInv, ColourInv

LEMMA ScheduleHighlightingFacts ==
  ASSUME IInv, ScheduleHighlighting, UNCHANGED <<asked, shown, field, requests>>,
         replies' \subseteq replies
  PROVE  /\ colour' \in [id : 0 .. MaxId, armed : BOOLEAN, fallback : 0 .. MaxId,
                         lexical : Text \cup {NoText}]
         /\ Colours' = "outdated"
         /\ ColourInv' /\ AnswersOnce'
<1>1. /\ colour \in [id : 0 .. MaxId, armed : BOOLEAN, fallback : 0 .. MaxId,
                     lexical : Text \cup {NoText}]
      /\ shown.id \in Nat /\ colour.id \in Nat /\ MaxId \in Nat /\ ColourInv /\ AnswersOnce
      /\ shown.id <= colour.id /\ colour.id >= 1
  BY Constants DEF IInv, TypeOK, ColourInv
<1>2. Pending' \subseteq Pending
  BY PendingShrinks
<1>3. \A m \in replies : m.service = "semanticTokens" => m.id \in Nat /\ m.id <= colour.id
  <2> SUFFICES ASSUME NEW m \in replies, m.service = "semanticTokens"
               PROVE  m.id \in Nat /\ m.id <= colour.id
    OBVIOUS
  <2>1. Question(m) \in Pending /\ Question(m).service = "semanticTokens" /\ Question(m).id = m.id
    BY PendingIs DEF Question
  <2> QED
    BY <1>1, <2>1, PendingIds, Constants DEF ColourInv
<1>4. CASE "semanticTokens" \in asked
  <2>1. colour' = [colour EXCEPT !.id = @ + 1, !.armed = TRUE, !.fallback = 0] /\ colour.id < MaxId
    BY <1>4 DEF ScheduleHighlighting
  <2>2. /\ colour' \in [id : 0 .. MaxId, armed : BOOLEAN, fallback : 0 .. MaxId,
                        lexical : Text \cup {NoText}]
        /\ colour'.id = colour.id + 1 /\ colour'.armed = TRUE /\ colour'.fallback = 0
    <3>1. colour.id + 1 \in 0 .. MaxId /\ 0 \in 0 .. MaxId
      BY <1>1, <2>1
    <3>2. \A n \in 0 .. MaxId :
            [colour EXCEPT !.id = n, !.armed = TRUE, !.fallback = 0]
              \in [id : 0 .. MaxId, armed : BOOLEAN, fallback : 0 .. MaxId,
                   lexical : Text \cup {NoText}]
      BY <1>1, <3>1
    <3>3. colour' = [colour EXCEPT !.id = colour.id + 1, !.armed = TRUE, !.fallback = 0]
      BY <1>1, <2>1
    <3> QED
      BY <1>1, <3>1, <3>2, <3>3
  <2>3. shown'.id # colour'.id /\ shown'.id <= colour'.id /\ colour'.id >= 1
    BY <1>1, <2>2
  <2>4. ColourInv'
    <3>1. ASSUME NEW p \in Pending', p.service = "semanticTokens"
          PROVE  p.id <= colour'.id /\ p.id # colour'.id
      <4>1. p.id \in 1 .. MaxId /\ p.id <= colour.id
        BY <1>1, <1>2, <3>1, PendingIds DEF ColourInv
      <4> QED
        BY <1>1, <2>2, <4>1
    <3> QED
      BY <1>4, <2>2, <2>3, <3>1 DEF ColourInv
  <2>5. ~ParserShown'
    BY <2>3 DEF ParserShown
  <2>6. AnswersOnce'
    <3>1. \A m \in replies' : m.service = "semanticTokens" => m.id # colour'.id
      BY <1>1, <1>3, <2>2
    <3> QED
      BY <2>5, <3>1 DEF AnswersOnce
  <2> QED
    BY <2>2, <2>3, <2>4, <2>6 DEF Colours
<1>5. CASE "semanticTokens" \notin asked
  <2>1. UNCHANGED colour
    BY <1>5 DEF ScheduleHighlighting
  <2>2. \A p \in Pending : p.service # "semanticTokens"
    BY <1>5, PendingAsked
  <2>3. shown.id # colour.id
    BY <1>1, <1>5 DEF ColourInv
  <2>4. ColourInv'
    BY <1>1, <1>2, <1>5, <2>1, <2>2 DEF ColourInv
  <2>5. AnswersOnce'
    BY <1>1, <2>1, OnceStays DEF Painter
  <2> QED
    BY <1>1, <2>1, <2>3, <2>4, <2>5 DEF Colours
<1> QED
  BY <1>4, <1>5
-----------------------------------------------------------------------------
(* The webview's steps.                                                     *)

\* A step of CurrentAnswers, or none.
Promised == [Current!Next]_(Current!vars)

LEMMA RewriteMaps ==
  ASSUME NEW t \in Text, view' = t, panel' = NoText, Colours' = "outdated",
         UNCHANGED <<file, problems>>
  PROVE  Promised
<1>1. Current!Rewrite(t)
  BY DEF Current!Rewrite, Colours
<1> QED
  BY <1>1 DEF Promised, Current!Next

LEMMA RestMaps ==
  ASSUME UNCHANGED <<view, file, panel, problems>>, Colours' = Colours
  PROVE  Promised
  BY DEF Promised, Colours, Current!vars

LEMMA ListMaps ==
  ASSUME panel' \in {view, NoText}, UNCHANGED <<view, file, problems>>, Colours' = Colours
  PROVE  Promised
<1>1. Current!List
  BY DEF Current!List, Colours
<1> QED
  BY <1>1 DEF Promised, Current!Next

LEMMA PublishMaps ==
  ASSUME problems' \in {file, NoText}, UNCHANGED <<view, file, panel>>, Colours' = Colours
  PROVE  Promised
<1>1. Current!Publish
  BY DEF Current!Publish, Colours
<1> QED
  BY <1>1 DEF Promised, Current!Next

LEMMA ColourMaps ==
  ASSUME Colours' = "parser" \/ (Colours # "parser" /\ Colours' = "lexical"),
         UNCHANGED <<view, file, panel, problems>>
  PROVE  Promised
<1>1. Current!Colour
  BY DEF Current!Colour, Colours
<1> QED
  BY <1>1 DEF Promised, Current!Next

LEMMA FileEventMaps ==
  ASSUME NEW t \in Text, file' = t, problems' = NoText, UNCHANGED <<view, panel>>,
         Colours' = Colours
  PROVE  Promised
<1>1. Current!FileEvent(t)
  BY DEF Current!FileEvent, Colours
<1> QED
  BY <1>1 DEF Promised, Current!Next

LEMMA RefreshMaps ==
  ASSUME panel' = NoText, Colours' = "outdated", UNCHANGED <<view, file, problems>>
  PROVE  Promised
<1>1. Current!Refresh
  BY DEF Current!Refresh, Colours
<1> QED
  BY <1>1 DEF Promised, Current!Next

\* What every step of the webview leaves alone.
LEMMA WebStep ==
  ASSUME IInv, UNCHANGED <<asked, host>>, replies' \subseteq replies
  PROVE  /\ HostInv' /\ RepliesAsked' /\ Pending' \subseteq Pending
         /\ UNCHANGED <<file, version, problems, checkText, field, closed, requests>>
<1>1. UNCHANGED <<file, version, problems, checkText, field, closed, requests>>
  BY DEF host
<1>2. HostInv'
  BY HostStays DEF IInv
<1>3. RepliesAsked'
  BY DEF IInv, RepliesAsked
<1>4. Pending' \subseteq Pending
  BY <1>1, PendingShrinks
<1> QED
  BY <1>1, <1>2, <1>3, <1>4

LEMMA RewriteKeeps ==
  ASSUME IInv, NEW t \in Text, Rewrite(t), UNCHANGED <<asked, trusted, live, shown, host>>,
         replies' \subseteq replies,
         format' \in [id : 0 .. MaxId, text : Text \cup {NoText}], FormatInv'
  PROVE  IInv' /\ Promised
<1>1. /\ HostInv' /\ RepliesAsked' /\ Pending' \subseteq Pending
      /\ UNCHANGED <<file, version, problems, checkText, field, closed, requests>>
  BY WebStep
<1>2. /\ view' = t /\ ScheduleHighlighting /\ ScheduleCheck(trusted /\ live)
      /\ (trusted /\ live) \in BOOLEAN
  BY DEF Rewrite, IInv, TypeOK
<1>3. /\ check' \in [id : 0 .. MaxId, armed : BOOLEAN] /\ panel' = NoText /\ CheckInv'
  BY <1>1, <1>2, ScheduleCheckFacts
<1>4. /\ colour' \in [id : 0 .. MaxId, armed : BOOLEAN, fallback : 0 .. MaxId,
                      lexical : Text \cup {NoText}]
      /\ Colours' = "outdated" /\ ColourInv' /\ AnswersOnce'
  BY <1>1, <1>2, ScheduleHighlightingFacts
<1>5. TypeOK'
  <2>1. {panel, problems, checkText}' \subseteq Text \cup {NoText}
    BY <1>1, <1>3 DEF IInv, TypeOK
  <2> QED
    BY <1>1, <1>2, <1>3, <1>4, <2>1 DEF IInv, TypeOK
<1>6. Promised
  BY <1>1, <1>2, <1>3, <1>4, RewriteMaps
<1> QED
  BY <1>1, <1>3, <1>4, <1>5, <1>6 DEF IInv

LEMMA TypeKeeps == ASSUME IInv, NEW t \in Text, Type(t) PROVE IInv' /\ Promised
<1>1. /\ Rewrite(t) /\ UNCHANGED <<asked, trusted, live, shown, format, host, replies>>
  BY DEF Type
<1>2. Pending' \subseteq Pending
  BY <1>1, WebStep
<1>3. FormatInv'
  BY <1>1, <1>2 DEF IInv, FormatInv
<1>4. format' \in [id : 0 .. MaxId, text : Text \cup {NoText}]
  BY <1>1 DEF IInv, TypeOK
<1> QED
  BY <1>1, <1>3, <1>4, RewriteKeeps

LEMMA MetadataKeeps ==
  ASSUME IInv, NEW tr \in BOOLEAN, NEW lv \in BOOLEAN, Metadata(tr, lv)
  PROVE  IInv' /\ Promised
<1>1. /\ trusted' = tr /\ live' = lv /\ ScheduleHighlighting /\ ScheduleCheck(tr /\ lv)
      /\ UNCHANGED <<asked, view, shown, format, host, replies>> /\ (tr /\ lv) \in BOOLEAN
  BY DEF Metadata
<1>2. /\ HostInv' /\ RepliesAsked' /\ Pending' \subseteq Pending
      /\ UNCHANGED <<file, version, problems, checkText, field, closed, requests>>
  BY <1>1, WebStep
<1>3. /\ check' \in [id : 0 .. MaxId, armed : BOOLEAN] /\ panel' = NoText /\ CheckInv'
  BY <1>1, <1>2, ScheduleCheckFacts
<1>4. /\ colour' \in [id : 0 .. MaxId, armed : BOOLEAN, fallback : 0 .. MaxId,
                      lexical : Text \cup {NoText}]
      /\ Colours' = "outdated" /\ ColourInv' /\ AnswersOnce'
  BY <1>1, <1>2, ScheduleHighlightingFacts
<1>5. FormatInv'
  BY <1>1, <1>2 DEF IInv, FormatInv
<1>6. TypeOK'
  <2>1. {panel, problems, checkText}' \subseteq Text \cup {NoText}
    BY <1>2, <1>3 DEF IInv, TypeOK
  <2> QED
    BY <1>1, <1>2, <1>3, <1>4, <2>1 DEF IInv, TypeOK
<1>7. Promised
  BY <1>1, <1>2, <1>3, <1>4, RefreshMaps
<1> QED
  BY <1>2, <1>3, <1>4, <1>5, <1>6, <1>7 DEF IInv

\* Neither the colours nor what was asked of the parser changes.
LEMMA ColoursRest ==
  ASSUME IInv, UNCHANGED <<asked, view, colour, shown, field, requests>>,
         replies' \subseteq replies
  PROVE  ColourInv' /\ AnswersOnce' /\ Colours' = Colours
<1>1. Pending' \subseteq Pending
  BY PendingShrinks
<1>2. AnswersOnce'
  BY OnceStays DEF IInv, Painter
<1> QED
  BY <1>1, <1>2 DEF IInv, ColourInv, Colours

LEMMA AskCheckKeeps == ASSUME IInv, AskCheck PROVE IInv' /\ Promised
<1>1. /\ ScheduleCheck(trusted) /\ trusted \in BOOLEAN
      /\ UNCHANGED <<asked, view, trusted, live, colour, shown, format, host, replies>>
  BY DEF AskCheck, IInv, TypeOK
<1>2. /\ HostInv' /\ RepliesAsked' /\ Pending' \subseteq Pending
      /\ UNCHANGED <<file, version, problems, checkText, field, closed, requests>>
  BY <1>1, WebStep
<1>3. /\ check' \in [id : 0 .. MaxId, armed : BOOLEAN] /\ panel' = NoText /\ CheckInv'
  BY <1>1, <1>2, ScheduleCheckFacts
<1>4. ColourInv' /\ AnswersOnce' /\ Colours' = Colours
  BY <1>1, <1>2, ColoursRest
<1>5. FormatInv'
  BY <1>1, <1>2 DEF IInv, FormatInv
<1>6. TypeOK'
  <2>1. {panel, problems, checkText}' \subseteq Text \cup {NoText}
    BY <1>2, <1>3 DEF IInv, TypeOK
  <2> QED
    BY <1>1, <1>2, <1>3, <2>1 DEF IInv, TypeOK
<1>7. Promised
  BY <1>1, <1>2, <1>3, <1>4, ListMaps
<1> QED
  BY <1>2, <1>3, <1>4, <1>5, <1>6, <1>7 DEF IInv

\* Nothing the parser has coloured is new.
LEMMA OnceShown ==
  ASSUME AnswersOnce, UNCHANGED <<field, requests>>, replies' \subseteq replies,
         colour'.id = colour.id, ParserShown' => ParserShown,
         ParserShown' => colour'.fallback # colour'.id
  PROVE  AnswersOnce'
<1>1. (\A m \in replies : m.service = "semanticTokens" /\ m.id = colour.id =>
         /\ ~ParserShown
         /\ \A n \in replies : n.service = "semanticTokens" /\ n.id = colour.id => n = m)'
  BY DEF AnswersOnce
<1>2. (field["semanticTokens"] # 0 /\ Painter.id = colour.id =>
         /\ ~ParserShown
         /\ \A m \in replies : m.service = "semanticTokens" => m.id # colour.id)'
  BY DEF AnswersOnce, Painter
<1> QED
  BY <1>1, <1>2 DEF AnswersOnce, Painter

LEMMA FireFallbackKeeps == ASSUME IInv, FireFallback PROVE IInv' /\ Promised
<1>1. /\ colour.fallback # 0 /\ colour' = [colour EXCEPT !.fallback = 0]
      /\ shown' = IF colour.fallback = colour.id
                  THEN [id |-> colour.id, text |-> colour.lexical, source |-> "lexical"]
                  ELSE shown
      /\ UNCHANGED <<asked, view, trusted, live, check, panel, format, host, replies>>
  BY DEF FireFallback
<1>2. /\ HostInv' /\ RepliesAsked' /\ Pending' \subseteq Pending
      /\ UNCHANGED <<file, version, problems, checkText, field, closed, requests>>
  BY <1>1, WebStep
<1>3. /\ colour' \in [id : 0 .. MaxId, armed : BOOLEAN, fallback : 0 .. MaxId,
                      lexical : Text \cup {NoText}]
      /\ colour'.id = colour.id /\ (colour'.armed <=> colour.armed)
      /\ colour'.lexical = colour.lexical /\ colour'.fallback = 0
  BY <1>1, Constants DEF IInv, TypeOK
<1>4. /\ colour.id \in 0 .. MaxId /\ colour.id >= 1 /\ colour.lexical \in Text \cup {NoText}
      /\ "semanticTokens" \in asked /\ shown.id <= colour.id
      /\ colour.fallback = colour.id => ~colour.armed /\ colour.lexical = view
  BY <1>1 DEF IInv, TypeOK, ColourInv
<1>5. CASE colour.fallback # colour.id
  <2>1. shown' = shown
    BY <1>1, <1>5
  <2>2. ParserShown' <=> ParserShown
    BY <1>3, <2>1 DEF ParserShown
  <2>3. AnswersOnce'
    BY <1>1, <1>2, <1>3, <1>4, <2>2, OnceShown DEF IInv
  <2>4. CheckInv' /\ FormatInv' /\ ColourInv'
    <3>1. CheckInv' /\ FormatInv'
      BY <1>1, <1>2 DEF IInv, CheckInv, FormatInv
    <3>2. ColourInv'
      BY <1>1, <1>2, <1>3, <1>4, <2>1 DEF IInv, ColourInv
    <3> QED
      BY <3>1, <3>2
  <2>5. TypeOK'
    BY <1>1, <1>2, <1>3, <2>1 DEF IInv, TypeOK
  <2>6. Colours' = Colours
    BY <1>1, <1>3, <2>1 DEF Colours
  <2>7. Promised
    BY <1>1, <1>2, <2>6, RestMaps
  <2> QED
    BY <1>2, <2>3, <2>4, <2>5, <2>7 DEF IInv
<1>6. CASE colour.fallback = colour.id
  <2>1. /\ shown' = [id |-> colour.id, text |-> colour.lexical, source |-> "lexical"]
        /\ shown'.id = colour.id /\ shown'.text = view /\ shown'.source = "lexical"
    BY <1>1, <1>4, <1>6
  <2>2. ~ParserShown' /\ ~ParserShown
    BY <1>6, <2>1 DEF ParserShown, IInv, AnswersOnce
  <2>3. AnswersOnce'
    BY <1>1, <1>2, <1>3, <2>2, OnceShown DEF IInv
  <2>4. CheckInv' /\ FormatInv' /\ ColourInv'
    <3>1. CheckInv' /\ FormatInv'
      BY <1>1, <1>2 DEF IInv, CheckInv, FormatInv
    <3>2. ColourInv'
      BY <1>1, <1>2, <1>3, <1>4, <1>6, <2>1 DEF IInv, ColourInv
    <3> QED
      BY <3>1, <3>2
  <2>5. TypeOK'
    <3>1. shown' \in [id : 0 .. MaxId, text : Text \cup {NoText},
                      source : {"outdated", "lexical", "parser"}]
      BY <1>4, <2>1
    <3> QED
      BY <1>1, <1>2, <1>3, <3>1 DEF IInv, TypeOK
  <2>6. Colours' = "lexical" /\ Colours # "parser"
    BY <1>1, <1>3, <2>1, <2>2 DEF Colours, ParserShown
  <2>7. Promised
    BY <1>1, <1>2, <2>6, ColourMaps
  <2> QED
    BY <1>2, <2>3, <2>4, <2>5, <2>7 DEF IInv
<1> QED
  BY <1>5, <1>6

\* The timer of the colours fires: the lexical ones are there, and the parser may
\* have been asked about the same text.
LEMMA FireHighlightColours ==
  ASSUME IInv, "semanticTokens" \in asked, colour.armed,
         colour' = [colour EXCEPT !.armed = FALSE, !.fallback = colour.id, !.lexical = view],
         UNCHANGED <<asked, view, shown, replies>>,
         \A p \in Pending' : p \in Pending \/ (p.id = colour.id /\ p.text = view)
  PROVE  /\ colour' \in [id : 0 .. MaxId, armed : BOOLEAN, fallback : 0 .. MaxId,
                         lexical : Text \cup {NoText}]
         /\ ColourInv' /\ AnswersOnce' /\ Colours' = Colours
<1>1. /\ colour' \in [id : 0 .. MaxId, armed : BOOLEAN, fallback : 0 .. MaxId,
                      lexical : Text \cup {NoText}]
      /\ colour'.id = colour.id /\ colour'.armed = FALSE /\ colour'.fallback = colour.id
      /\ colour'.lexical = view
  BY DEF IInv, TypeOK
<1>2. shown.id # colour.id /\ colour.id >= 1 /\ colour.id \in Nat /\ shown.id <= colour.id
  BY DEF IInv, ColourInv, TypeOK
<1>3. \A m \in replies : m.service = "semanticTokens" => m.id # colour.id
  <2> SUFFICES ASSUME NEW m \in replies, m.service = "semanticTokens", m.id = colour.id
               PROVE  FALSE
    OBVIOUS
  <2>1. Question(m) \in Pending /\ Question(m).service = "semanticTokens" /\ Question(m).id = m.id
    BY PendingIs DEF Question
  <2> QED
    BY <2>1 DEF IInv, ColourInv
<1>4. AnswersOnce'
  <2>1. ~ParserShown'
    BY <1>1, <1>2 DEF ParserShown
  <2> QED
    BY <1>1, <1>3, <2>1 DEF AnswersOnce
<1>5. ColourInv'
  <2>1. \A p \in Pending' : p.service = "semanticTokens" =>
          /\ p.id <= colour.id
          /\ p.id = colour.id => p.text = view
    BY <1>2 DEF IInv, ColourInv
  <2> QED
    BY <1>1, <1>2, <2>1 DEF ColourInv
<1>6. Colours' = Colours
  BY <1>1, <1>2 DEF Colours
<1> QED
  BY <1>1, <1>4, <1>5, <1>6

\* In a workspace that is not trusted nobody is asked.
LEMMA UntrustedKeeps ==
  ASSUME IInv, "semanticTokens" \in asked, colour.armed,
         colour' = [colour EXCEPT !.armed = FALSE, !.fallback = colour.id, !.lexical = view],
         UNCHANGED <<asked, view, trusted, live, check, panel, shown, format, host, replies>>
  PROVE  IInv' /\ Promised
<1>1. /\ HostInv' /\ RepliesAsked' /\ Pending' \subseteq Pending
      /\ UNCHANGED <<file, version, problems, checkText, field, closed, requests>>
  BY WebStep
<1>2. /\ colour' \in [id : 0 .. MaxId, armed : BOOLEAN, fallback : 0 .. MaxId,
                      lexical : Text \cup {NoText}]
      /\ ColourInv' /\ AnswersOnce' /\ Colours' = Colours
  <2>1. \A p \in Pending' : p \in Pending \/ (p.id = colour.id /\ p.text = view)
    BY <1>1
  <2>2. UNCHANGED <<asked, view, shown, replies>>
    OBVIOUS
  <2> QED
    BY <2>1, <2>2, FireHighlightColours, Zenon
<1>3. CheckInv' /\ FormatInv'
  BY <1>1 DEF IInv, CheckInv, FormatInv
<1>4. TypeOK'
  BY <1>1, <1>2 DEF IInv, TypeOK
<1>5. Promised
  BY <1>1, <1>2, RestMaps
<1> QED
  BY <1>1, <1>2, <1>3, <1>4, <1>5 DEF IInv

LEMMA ReceiveFacts ==
  ASSUME IInv, NEW m \in replies, Receive(m)
  PROVE  /\ UNCHANGED <<asked, trusted, live, host>> /\ replies' = replies \ {m}
         /\ HostInv' /\ RepliesAsked' /\ Pending' \subseteq Pending
         /\ UNCHANGED <<file, version, problems, checkText, field, closed, requests>>
         /\ replies' \subseteq Reply /\ m \in Reply /\ m.service \in asked
         /\ Question(m) \in Pending /\ Question(m).service = m.service
         /\ Question(m).id = m.id /\ Question(m).text = m.text
<1>1. UNCHANGED <<asked, trusted, live, host>> /\ replies' = replies \ {m}
  BY DEF Receive
<1>2. /\ HostInv' /\ RepliesAsked' /\ Pending' \subseteq Pending
      /\ UNCHANGED <<file, version, problems, checkText, field, closed, requests>>
  BY <1>1, WebStep
<1> QED
  BY <1>1, <1>2, PendingIs DEF IInv, TypeOK, RepliesAsked, Question

LEMMA GetDiagnosticsKeeps ==
  ASSUME IInv, NEW m \in replies, GetDiagnostics(m) PROVE IInv' /\ Promised
<1>1. /\ m.service = "check" /\ Receive(m) /\ UNCHANGED <<view, check, colour, shown, format>>
      /\ panel' = IF m.id # check.id THEN panel
                  ELSE IF m.result = "ok" THEN m.text ELSE NoText
  BY DEF GetDiagnostics
<1>2. /\ UNCHANGED <<asked, trusted, live, host>> /\ replies' = replies \ {m}
      /\ HostInv' /\ RepliesAsked' /\ Pending' \subseteq Pending
      /\ UNCHANGED <<file, version, problems, checkText, field, closed, requests>>
      /\ replies' \subseteq Reply /\ m.service \in asked
      /\ Question(m) \in Pending /\ Question(m).service = m.service
      /\ Question(m).id = m.id /\ Question(m).text = m.text
  BY <1>1, ReceiveFacts
<1>3. panel' = panel \/ panel' \in {view, NoText}
  BY <1>1, <1>2 DEF IInv, CheckInv
<1>4. ColourInv' /\ AnswersOnce' /\ Colours' = Colours
  BY <1>1, <1>2, ColoursRest
<1>5. CheckInv' /\ FormatInv'
  BY <1>1, <1>2 DEF IInv, CheckInv, FormatInv
<1>6. TypeOK'
  <2>1. {panel, problems, checkText}' \subseteq Text \cup {NoText}
    BY <1>2, <1>3 DEF IInv, TypeOK
  <2> QED
    BY <1>1, <1>2, <2>1 DEF IInv, TypeOK
<1>7. Promised
  BY <1>1, <1>2, <1>3, <1>4, ListMaps, RestMaps
<1> QED
  BY <1>2, <1>4, <1>5, <1>6, <1>7 DEF IInv

LEMMA GetTokensKeeps ==
  ASSUME IInv, NEW m \in replies, GetTokens(m) PROVE IInv' /\ Promised
<1>1. /\ m.service = "semanticTokens" /\ Receive(m) /\ UNCHANGED <<view, check, panel, format>>
  BY DEF GetTokens
<1>2. /\ UNCHANGED <<asked, trusted, live, host>> /\ replies' = replies \ {m}
      /\ HostInv' /\ RepliesAsked' /\ Pending' \subseteq Pending
      /\ UNCHANGED <<file, version, problems, checkText, field, closed, requests>>
      /\ replies' \subseteq Reply /\ m \in Reply /\ m.service \in asked
      /\ Question(m) \in Pending /\ Question(m).service = m.service
      /\ Question(m).id = m.id /\ Question(m).text = m.text
  BY <1>1, ReceiveFacts
<1>3. CheckInv' /\ FormatInv'
  BY <1>1, <1>2 DEF IInv, CheckInv, FormatInv
<1>4. CASE UNCHANGED <<colour, shown>>
  <2>1. ColourInv' /\ AnswersOnce' /\ Colours' = Colours
    BY <1>1, <1>2, <1>4, ColoursRest
  <2>2. TypeOK'
    BY <1>1, <1>2, <1>4 DEF IInv, TypeOK
  <2>3. Promised
    BY <1>1, <1>2, <2>1, RestMaps
  <2> QED
    BY <1>2, <1>3, <2>1, <2>2, <2>3 DEF IInv
<1>5. CASE /\ m.id = colour.id /\ colour' = [colour EXCEPT !.fallback = 0]
           /\ shown' = IF m.result = "ok"
                       THEN [id |-> m.id, text |-> m.text, source |-> "parser"]
                       ELSE [id |-> m.id, text |-> colour.lexical, source |-> "lexical"]
  <2>1. /\ colour' \in [id : 0 .. MaxId, armed : BOOLEAN, fallback : 0 .. MaxId,
                        lexical : Text \cup {NoText}]
        /\ colour'.id = colour.id /\ (colour'.armed <=> colour.armed)
        /\ colour'.lexical = colour.lexical /\ colour'.fallback = 0
    BY <1>5, Constants DEF IInv, TypeOK
  <2>2. m.text = view /\ ~colour.armed /\ colour.lexical = view /\ colour.id >= 1
    BY <1>1, <1>2, <1>5 DEF IInv, ColourInv
  <2>3. /\ shown'.id = colour.id /\ shown'.text = view
        /\ shown'.source = IF m.result = "ok" THEN "parser" ELSE "lexical"
        /\ shown' \in [id : 0 .. MaxId, text : Text \cup {NoText},
                       source : {"outdated", "lexical", "parser"}]
    <3>1. colour.id \in 0 .. MaxId /\ view \in Text
      BY DEF IInv, TypeOK
    <3>2. CASE m.result = "ok"
      <4>1. shown' = [id |-> colour.id, text |-> view, source |-> "parser"]
        BY <1>5, <2>2, <3>2
      <4> QED
        BY <3>1, <3>2, <4>1
    <3>3. CASE m.result # "ok"
      <4>1. shown' = [id |-> colour.id, text |-> view, source |-> "lexical"]
        BY <1>5, <2>2, <3>3
      <4> QED
        BY <3>1, <3>3, <4>1
    <3> QED
      BY <3>2, <3>3
  <2>4. TypeOK'
    BY <1>1, <1>2, <2>1, <2>3 DEF IInv, TypeOK
  <2>5. ColourInv'
    <3>1. colour.id \in Nat
      BY Constants DEF IInv, TypeOK
    <3> QED
      BY <1>1, <1>2, <2>1, <2>2, <2>3, <3>1 DEF IInv, ColourInv
  <2>6. /\ ~ParserShown
        /\ \A n \in replies' : ~(n.service = "semanticTokens" /\ n.id = colour.id)
        /\ ~(field["semanticTokens"] # 0 /\ Painter.id = colour.id)
    BY <1>1, <1>2, <1>5 DEF IInv, AnswersOnce, Painter
  <2>7. AnswersOnce'
    <3>1. colour'.fallback # colour'.id
      BY <2>1, <2>2
    <3>2. (\A n \in replies : n.service = "semanticTokens" /\ n.id = colour.id =>
             /\ ~ParserShown
             /\ \A k \in replies : k.service = "semanticTokens" /\ k.id = colour.id => k = n)'
      BY <2>1, <2>6
    <3>3. (field["semanticTokens"] # 0 /\ Painter.id = colour.id =>
             /\ ~ParserShown
             /\ \A n \in replies : n.service = "semanticTokens" => n.id # colour.id)'
      BY <1>2, <2>1, <2>6 DEF Painter
    <3> QED
      BY <3>1, <3>2, <3>3 DEF AnswersOnce, Painter
  <2>8. Colours' = "parser" \/ (Colours # "parser" /\ Colours' = "lexical")
    BY <1>1, <2>1, <2>3, <2>6 DEF Colours, ParserShown
  <2>9. Promised
    BY <1>1, <1>2, <2>8, ColourMaps
  <2> QED
    BY <1>2, <1>3, <2>4, <2>5, <2>7, <2>9 DEF IInv
<1> QED
  BY <1>4, <1>5 DEF GetTokens

LEMMA GetFormattedKeeps ==
  ASSUME IInv, NEW m \in replies, GetFormatted(m) PROVE IInv' /\ Promised
<1>1. m.service = "format" /\ Receive(m) /\ UNCHANGED shown
  BY DEF GetFormatted
<1>2. /\ UNCHANGED <<asked, trusted, live, host>> /\ replies' = replies \ {m}
      /\ HostInv' /\ RepliesAsked' /\ Pending' \subseteq Pending
      /\ UNCHANGED <<file, version, problems, checkText, field, closed, requests>>
      /\ replies' \subseteq Reply /\ m \in Reply
  BY <1>1, ReceiveFacts
<1>3. /\ format' = format \/ format' = [format EXCEPT !.text = NoText]
      /\ format' \in [id : 0 .. MaxId, text : Text \cup {NoText}]
      /\ format'.id = format.id /\ format'.text \in {format.text, NoText}
  <2>1. format' = format \/ format' = [format EXCEPT !.text = NoText]
    BY DEF GetFormatted
  <2> QED
    BY <2>1 DEF IInv, TypeOK
<1>4. FormatInv'
  BY <1>2, <1>3 DEF IInv, FormatInv
<1>5. CASE UNCHANGED <<view, check, panel, colour>>
  <2>1. ColourInv' /\ AnswersOnce' /\ Colours' = Colours
    BY <1>1, <1>2, <1>5, ColoursRest
  <2>2. CheckInv'
    BY <1>2, <1>5 DEF IInv, CheckInv
  <2>3. TypeOK'
    BY <1>1, <1>2, <1>3, <1>5 DEF IInv, TypeOK
  <2>4. Promised
    BY <1>2, <1>5, <2>1, RestMaps
  <2> QED
    BY <1>2, <1>4, <2>1, <2>2, <2>3, <2>4 DEF IInv
<1>6. CASE Rewrite(FormatOf[m.text])
  <2>1. FormatOf[m.text] \in Text
    BY <1>2, Constants DEF Reply
  <2> QED
    BY <1>1, <1>2, <1>3, <1>4, <1>6, <2>1, RewriteKeeps
<1> QED
  BY <1>5, <1>6 DEF GetFormatted
-----------------------------------------------------------------------------
(* Requests that are made and cancelled.                                    *)

LEMMA CancelFacts ==
  ASSUME NEW rs, \A p \in Slot : Sound(rs[p]), NEW slots,
         \A p \in Slot : p \in slots => rs[p].service # "none"
  PROVE  /\ Cancel(rs, slots) \in [Slot -> Request]
         /\ \A p \in Slot : /\ Cancel(rs, slots)[p].service = rs[p].service
                            /\ Cancel(rs, slots)[p].id = rs[p].id
                            /\ Cancel(rs, slots)[p].text = rs[p].text
                            /\ Cancel(rs, slots)[p].cancelled <=> p \in slots \/ rs[p].cancelled
                            /\ p \notin slots => Cancel(rs, slots)[p] = rs[p]
                            /\ Sound(Cancel(rs, slots)[p])
<1> DEFINE c == Cancel(rs, slots)
<1>1. c = [p \in Slot |-> IF p \in slots THEN Cancelled(rs[p]) ELSE rs[p]]
  BY DEF Cancel
<1> HIDE DEF c
<1>2. ASSUME NEW p \in Slot
      PROVE  /\ c[p].service = rs[p].service /\ c[p].id = rs[p].id /\ c[p].text = rs[p].text
             /\ c[p].cancelled <=> p \in slots \/ rs[p].cancelled
             /\ p \notin slots => c[p] = rs[p]
             /\ Sound(c[p])
  <2>1. CASE p \in slots
    <3>1. c[p] = Cancelled(rs[p]) /\ Sound(rs[p]) /\ rs[p].service # "none"
      BY <1>1, <2>1
    <3> QED
      BY <2>1, <3>1, CancelledFacts
  <2>2. CASE p \notin slots
    BY <1>1, <2>2
  <2> QED
    BY <2>1, <2>2
<1>3. c \in [Slot -> Request]
  <2>1. \A p \in Slot : c[p] \in Request
    BY <1>2 DEF Sound
  <2> QED
    BY <1>1, <2>1
<1> QED
  BY <1>2, <1>3 DEF c

LEMMA HandleFacts ==
  ASSUME IInv, NEW v \in Service \ {"native"}, v \in asked, NEW s \in Slot, ~closed,
         NEW r, Sound(r), ~r.cancelled, r.service = v, Handle(v, s, r)
  PROVE  /\ UNCHANGED <<asked, trusted, live, view, panel, shown, file, version, problems,
                        closed, replies>>
         /\ requests' \in [Slot -> Request] /\ field' \in [Service \ {"native"} -> Slot \cup {0}]
         /\ HostInv' /\ RepliesAsked'
         /\ \A p \in Pending' : p \in Pending \/ p = Question(r)
         /\ \A u \in Service \ {"native"} : u # v /\ field[u] # 0 =>
              field'[u] = field[u] /\ requests'[field'[u]].id = requests[field[u]].id
         /\ \A u \in Service \ {"native"} : u # v => field'[u] = field[u]
         /\ r \in Request
<1> DEFINE old == field[v]
           c   == Cancel(requests, {old})
<1>1. /\ UNCHANGED <<asked, trusted, live, view, panel, shown, file, version, problems,
                     closed, replies>>
      /\ requests[s] = NoRequest
      /\ requests' = [c EXCEPT ![s] = r] /\ field' = [field EXCEPT ![v] = s]
  BY DEF Handle, Free
<1>2. /\ TypeOK /\ RequestsSound /\ FieldsName /\ Cancellable /\ NativeIsFile /\ RepliesAsked
      /\ r \in Request /\ v # "none" /\ v # "native" /\ requests[s].service = "none"
  BY <1>1, NoRequestFacts DEF IInv, HostInv, Sound, Service
<1>3. /\ field \in [Service \ {"native"} -> Slot \cup {0}] /\ DOMAIN field = Service \ {"native"}
      /\ 0 \notin Slot /\ s # 0
  BY <1>2, TypeOKFacts, Constants
<1>4. old \in Slot => requests[old].service = v
  BY <1>2, <1>3 DEF FieldsName
<1>5. /\ c \in [Slot -> Request]
      /\ \A p \in Slot : /\ c[p].service = requests[p].service /\ c[p].id = requests[p].id
                         /\ c[p].text = requests[p].text
                         /\ c[p].cancelled <=> p = old \/ requests[p].cancelled
                         /\ Sound(c[p])
  BY <1>2, <1>4, CancelFacts DEF RequestsSound
<1> HIDE DEF c, old
<1>6. /\ requests' \in [Slot -> Request] /\ requests'[s] = r
      /\ \A p \in Slot : p # s => requests'[p] = c[p]
  BY <1>1, <1>2, <1>5
<1>7. /\ field' \in [Service \ {"native"} -> Slot \cup {0}] /\ field'[v] = s
      /\ \A u \in Service \ {"native"} : u # v => field'[u] = field[u]
  BY <1>1, <1>3
<1>8. \A u \in Service \ {"native"} : u # v /\ field[u] # 0 =>
        /\ field[u] \in Slot /\ field[u] # s /\ field[u] # old
        /\ requests[field[u]].service = u
  BY <1>2, <1>3, <1>4 DEF FieldsName, Service
<1>9. RequestsSound'
  <2>1. \A p \in Slot : Sound(requests'[p])
    BY <1>5, <1>6
  <2> QED
    BY <1>1, <2>1 DEF RequestsSound, Sound
<1>10. FieldsName'
  <2> SUFFICES ASSUME NEW u \in Service \ {"native"}, field'[u] # 0
               PROVE  /\ requests'[field'[u]].service = u
                      /\ u = "semanticTokens" => closed' \/ ~requests'[field'[u]].cancelled
    BY DEF FieldsName
  <2>1. CASE u = v
    BY <1>6, <1>7, <2>1
  <2>2. CASE u # v
    <3>1. /\ field'[u] = field[u] /\ field[u] \in Slot /\ field[u] # s /\ field[u] # old
          /\ requests'[field[u]] = c[field[u]]
      BY <1>6, <1>7, <1>8, <2>2
    <3> QED
      BY <1>1, <1>2, <1>5, <1>8, <2>2, <3>1 DEF FieldsName
  <2> QED
    BY <2>1, <2>2
<1>11. Cancellable'
  <2> SUFFICES ASSUME NEW p \in Slot, requests'[p].stage # "free",
                      requests'[p].service # "native", ~requests'[p].cancelled
               PROVE  field'[requests'[p].service] = p
    BY DEF Cancellable
  <2>1. CASE p = s
    BY <1>6, <1>7, <2>1
  <2>2. CASE p # s
    <3>1. /\ requests'[p] = c[p] /\ c[p].service = requests[p].service /\ p # old
          /\ ~requests[p].cancelled
      BY <1>5, <1>6, <2>2
    <3>2. requests[p].service # "none" /\ requests[p].service \in Service \ {"native"}
      BY <1>2, <1>5, <3>1, TypeOKFacts DEF Sound, RequestsSound
    <3>3. field[requests[p].service] = p
      BY <1>2, <3>1, <3>2 DEF Cancellable, RequestsSound, Sound
    <3>4. requests[p].service # v
      BY <3>1, <3>3 DEF old
    <3> QED
      BY <1>7, <3>1, <3>2, <3>3, <3>4
  <2> QED
    BY <2>1, <2>2
<1>12. NativeIsFile'
  <2>1. \A p \in Slot : requests'[p].service = "native" =>
          /\ requests[p].service = "native" /\ requests'[p].id = requests[p].id
          /\ requests'[p].text = requests[p].text
    BY <1>2, <1>5, <1>6
  <2> QED
    BY <1>1, <1>2, <2>1 DEF NativeIsFile
<1>13. \A p \in Pending' : p \in Pending \/ p = Question(r)
  <2> SUFFICES ASSUME NEW p \in Pending', p # Question(r) PROVE p \in Pending
    OBVIOUS
  <2>1. \/ \E q \in Slot : requests'[q].service # "none" /\ p = Question(requests'[q])
        \/ \E m \in replies' : p = Question(m)
    BY DEF Pending, Asked
  <2>2. ASSUME NEW q \in Slot, requests'[q].service # "none", p = Question(requests'[q])
        PROVE  p \in Pending
    <3>1. q # s
      BY <1>6, <2>2
    <3>2. requests'[q] = c[q] /\ requests[q].service # "none"
      BY <1>5, <1>6, <2>2, <3>1
    <3>3. Question(requests'[q]) = Question(requests[q])
      BY <1>5, <3>2 DEF Question
    <3> QED
      BY <2>2, <3>2, <3>3, PendingIs
  <2> QED
    BY <1>1, <2>1, <2>2, PendingIs
<1>14. \A u \in Service \ {"native"} : u # v /\ field[u] # 0 =>
         field'[u] = field[u] /\ requests'[field'[u]].id = requests[field[u]].id
  BY <1>5, <1>6, <1>7, <1>8
<1>15. HostInv' /\ RepliesAsked'
  BY <1>1, <1>2, <1>9, <1>10, <1>11, <1>12 DEF HostInv, RepliesAsked
<1> QED
  BY <1>1, <1>2, <1>6, <1>7, <1>13, <1>14, <1>15

LEMMA FireCheckKeeps == ASSUME IInv, NEW s \in Slot, FireCheck(s) PROVE IInv' /\ Promised
<1> DEFINE r == New("check", check.id, view)
<1>1. /\ ~closed /\ "check" \in asked /\ check' = [check EXCEPT !.armed = FALSE]
      /\ checkText' = view /\ Handle("check", s, r) /\ UNCHANGED <<colour, format>>
  BY DEF FireCheck
<1>2. /\ view \in Text /\ asked \subseteq Service /\ check.id \in 1 .. MaxId
      /\ check \in [id : 0 .. MaxId, armed : BOOLEAN]
  BY TypeOKFacts, Constants DEF IInv, TypeOK, CheckInv
<1>3. /\ Sound(r) /\ ~r.cancelled /\ r.service = "check" /\ r.id = check.id /\ r.text = view
  BY <1>1, <1>2, NewFacts
<1> HIDE DEF r
<1>4. /\ UNCHANGED <<asked, trusted, live, view, panel, shown, file, version, problems,
                     closed, replies>>
      /\ requests' \in [Slot -> Request] /\ field' \in [Service \ {"native"} -> Slot \cup {0}]
      /\ HostInv' /\ RepliesAsked'
      /\ \A p \in Pending' : p \in Pending \/ p = Question(r)
      /\ \A u \in Service \ {"native"} : u # "check" /\ field[u] # 0 =>
           field'[u] = field[u] /\ requests'[field'[u]].id = requests[field[u]].id
      /\ \A u \in Service \ {"native"} : u # "check" => field'[u] = field[u]
  BY <1>1, <1>3, HandleFacts DEF Service
<1>5. /\ Question(r).service = "check" /\ Question(r).id = check.id /\ Question(r).text = view
  BY <1>3 DEF Question
<1>6. check' \in [id : 0 .. MaxId, armed : BOOLEAN] /\ check'.id = check.id
  BY <1>1, <1>2
<1>7. CheckInv'
  BY <1>1, <1>2, <1>4, <1>5, <1>6 DEF IInv, CheckInv
<1>8. FormatInv' /\ ColourInv' /\ Colours' = Colours
  BY <1>1, <1>4, <1>5 DEF IInv, FormatInv, ColourInv, Colours
<1>9. AnswersOnce'
  <2>1. field'["semanticTokens"] # 0 => field["semanticTokens"] # 0 /\ Painter'.id = Painter.id
    BY <1>4 DEF Painter, Service
  <2> QED
    BY <1>1, <1>4, <2>1, OnceStays DEF IInv
<1>10. TypeOK'
  BY <1>1, <1>2, <1>4, <1>6 DEF IInv, TypeOK
<1>11. Promised
  BY <1>4, <1>8, RestMaps
<1> QED
  BY <1>4, <1>7, <1>8, <1>9, <1>10, <1>11 DEF IInv

LEMMA AskFormatKeeps == ASSUME IInv, NEW s \in Slot, AskFormat(s) PROVE IInv' /\ Promised
<1> DEFINE r == New("format", format.id + 1, view)
<1>1. /\ ~closed /\ "format" \in asked /\ format.id + 1 < MaxId
      /\ format' = [id |-> format.id + 1, text |-> view]
      /\ Handle("format", s, r) /\ UNCHANGED <<check, colour, checkText>>
  BY DEF AskFormat
<1>2. /\ view \in Text /\ asked \subseteq Service /\ format.id + 1 \in 1 .. MaxId
      /\ format.id \in Nat /\ format \in [id : 0 .. MaxId, text : Text \cup {NoText}]
  BY <1>1, TypeOKFacts, Constants DEF IInv, TypeOK
<1>3. /\ Sound(r) /\ ~r.cancelled /\ r.service = "format" /\ r.id = format.id + 1 /\ r.text = view
  BY <1>1, <1>2, NewFacts
<1> HIDE DEF r
<1>4. /\ UNCHANGED <<asked, trusted, live, view, panel, shown, file, version, problems,
                     closed, replies>>
      /\ requests' \in [Slot -> Request] /\ field' \in [Service \ {"native"} -> Slot \cup {0}]
      /\ HostInv' /\ RepliesAsked'
      /\ \A p \in Pending' : p \in Pending \/ p = Question(r)
      /\ \A u \in Service \ {"native"} : u # "format" /\ field[u] # 0 =>
           field'[u] = field[u] /\ requests'[field'[u]].id = requests[field[u]].id
      /\ \A u \in Service \ {"native"} : u # "format" => field'[u] = field[u]
  BY <1>1, <1>3, HandleFacts DEF Service
<1>5. /\ Question(r).service = "format" /\ Question(r).id = format.id + 1
      /\ Question(r).text = view
  BY <1>3 DEF Question
<1>6. /\ format' \in [id : 0 .. MaxId, text : Text \cup {NoText}]
      /\ format'.id = format.id + 1 /\ format'.text = view
  BY <1>1, <1>2
<1>7. FormatInv'
  <2>1. ASSUME NEW p \in Pending, p.service = "format" PROVE p.id <= format.id /\ p.id \in Nat
    BY <2>1, PendingIds, Constants DEF IInv, FormatInv
  <2>2. ASSUME NEW p \in Pending', p.service = "format"
        PROVE  /\ p.id <= format'.id
               /\ p.id = format'.id => p.text = view
    BY <1>2, <1>4, <1>5, <1>6, <2>1, <2>2
  <2> QED
    BY <1>6, <2>2 DEF FormatInv
<1>8. CheckInv' /\ ColourInv' /\ Colours' = Colours
  BY <1>1, <1>4, <1>5 DEF IInv, CheckInv, ColourInv, Colours
<1>9. AnswersOnce'
  <2>1. field'["semanticTokens"] # 0 => field["semanticTokens"] # 0 /\ Painter'.id = Painter.id
    BY <1>4 DEF Painter, Service
  <2> QED
    BY <1>1, <1>4, <2>1, OnceStays DEF IInv
<1>10. TypeOK'
  BY <1>1, <1>2, <1>4, <1>6 DEF IInv, TypeOK
<1>11. Promised
  BY <1>4, <1>8, RestMaps
<1> QED
  BY <1>4, <1>7, <1>8, <1>9, <1>10, <1>11 DEF IInv

LEMMA FireHighlightKeeps ==
  ASSUME IInv, NEW s \in Slot, FireHighlight(s) PROVE IInv' /\ Promised
<1>1. /\ ~closed /\ "semanticTokens" \in asked /\ colour.armed
      /\ colour' = [colour EXCEPT !.armed = FALSE, !.fallback = colour.id, !.lexical = view]
  BY DEF FireHighlight
<1>2. ASSUME NEW r \in Launches(New("semanticTokens", colour.id, view)),
             Handle("semanticTokens", s, r), UNCHANGED <<check, format, checkText>>
      PROVE  IInv' /\ Promised
  <2>1. view \in Text /\ asked \subseteq Service /\ colour.id \in 1 .. MaxId
    BY TypeOKFacts, Constants DEF IInv, TypeOK, ColourInv
  <2> DEFINE n == New("semanticTokens", colour.id, view)
  <2>2. /\ Sound(n) /\ ~n.cancelled /\ n.service = "semanticTokens" /\ n.id = colour.id
        /\ n.text = view
    BY <1>1, <2>1, NewFacts
  <2>3. Kept(n, r)
    BY <1>2, <2>2, LaunchesFacts
  <2> HIDE DEF n
  <2>4. /\ Sound(r) /\ ~r.cancelled /\ r.service = "semanticTokens" /\ r.id = colour.id
        /\ r.text = view
    BY <2>2, <2>3 DEF Kept
  <2>5. /\ UNCHANGED <<asked, trusted, live, view, panel, shown, file, version, problems,
                       closed, replies>>
        /\ requests' \in [Slot -> Request] /\ field' \in [Service \ {"native"} -> Slot \cup {0}]
        /\ HostInv' /\ RepliesAsked'
        /\ \A p \in Pending' : p \in Pending \/ p = Question(r)
    BY <1>1, <1>2, <2>4, HandleFacts DEF Service
  <2>6. /\ Question(r).service = "semanticTokens" /\ Question(r).id = colour.id
        /\ Question(r).text = view
    BY <2>4 DEF Question
  <2>7. \A p \in Pending' : p \in Pending \/ (p.id = colour.id /\ p.text = view)
    BY <2>5, <2>6
  <2>8. /\ colour' \in [id : 0 .. MaxId, armed : BOOLEAN, fallback : 0 .. MaxId,
                        lexical : Text \cup {NoText}]
        /\ ColourInv' /\ AnswersOnce' /\ Colours' = Colours
    <3>1. UNCHANGED <<asked, view, shown, replies>>
      BY <2>5
    <3> QED
      BY <1>1, <2>7, <3>1, FireHighlightColours, Zenon
  <2>9. CheckInv' /\ FormatInv'
    BY <1>2, <2>5, <2>6 DEF IInv, CheckInv, FormatInv
  <2>10. TypeOK'
    BY <1>2, <2>5, <2>8 DEF IInv, TypeOK
  <2>11. Promised
    BY <2>5, <2>8, RestMaps
  <2> QED
    BY <2>5, <2>8, <2>9, <2>10, <2>11 DEF IInv
<1>3. CASE UNCHANGED <<asked, view, trusted, live, check, panel, shown, format, host, replies>>
  BY <1>1, <1>3, UntrustedKeeps
<1> QED
  BY <1>2, <1>3 DEF FireHighlight

LEMMA AskNativeKeeps == ASSUME IInv, NEW s \in Slot, AskNative(s) PROVE IInv' /\ Promised
<1> DEFINE r == New("native", version, file)
<1>1. /\ "native" \in asked /\ requests[s] = NoRequest /\ version < MaxVersion
      /\ requests' = [requests EXCEPT ![s] = r]
      /\ UNCHANGED <<asked, web, replies, file, version, problems, checkText, field, closed>>
  BY DEF AskNative, Free, Change, Working, HostRest
<1>2. /\ TypeOK /\ RequestsSound /\ FieldsName /\ Cancellable /\ NativeIsFile
      /\ requests \in [Slot -> Request] /\ requests[s].service = "none"
      /\ file \in Text /\ asked \subseteq Service /\ version \in 0 .. MaxVersion - 1
      /\ version \in Nat
  BY <1>1, TypeOKFacts, Constants, NoRequestFacts DEF IInv, HostInv, TypeOK
<1>3. /\ Sound(r) /\ ~r.cancelled /\ r.service = "native" /\ r.id = version /\ r.text = file
  BY <1>1, <1>2, NewFacts
<1> HIDE DEF r
<1>4. /\ requests' \in [Slot -> Request] /\ requests'[s] = r
      /\ \A p \in Slot : p # s => requests'[p] = requests[p]
  BY <1>1, <1>2, <1>3 DEF Sound
<1>5. \A u \in Service \ {"native"} : field[u] # 0 => field[u] \in Slot /\ field[u] # s
  BY <1>2, TypeOKFacts DEF FieldsName, Service
<1>6. HostInv'
  <2>1. RequestsSound'
    <3>1. \A p \in Slot : Sound(requests'[p])
      BY <1>2, <1>3, <1>4 DEF RequestsSound
    <3> QED
      BY <1>1, <3>1 DEF RequestsSound, Sound
  <2>2. FieldsName'
    BY <1>1, <1>2, <1>4, <1>5 DEF FieldsName
  <2>3. Cancellable'
    BY <1>1, <1>2, <1>3, <1>4 DEF Cancellable
  <2>4. NativeIsFile'
    BY <1>1, <1>2, <1>3, <1>4 DEF NativeIsFile
  <2> QED
    BY <2>1, <2>2, <2>3, <2>4 DEF HostInv
<1>7. \A p \in Pending' : p \in Pending \/ p.service = "native"
  <2> SUFFICES ASSUME NEW p \in Pending' PROVE p \in Pending \/ p.service = "native"
    OBVIOUS
  <2>1. \/ \E q \in Slot : requests'[q].service # "none" /\ p = Question(requests'[q])
        \/ \E m \in replies' : p = Question(m)
    BY DEF Pending, Asked
  <2>2. Question(r).service = "native"
    BY <1>3 DEF Question
  <2> QED
    BY <1>1, <1>4, <2>1, <2>2, PendingIs
<1>8. UNCHANGED <<view, check, panel, colour, shown, format>>
  BY <1>1 DEF web
<1>9. CheckInv' /\ FormatInv' /\ ColourInv' /\ Colours' = Colours
  BY <1>1, <1>7, <1>8 DEF IInv, CheckInv, FormatInv, ColourInv, Colours
<1>10. AnswersOnce'
  <2>1. field'["semanticTokens"] # 0 => Painter' = Painter
    BY <1>1, <1>4, <1>5 DEF Painter, Service
  <2> QED
    BY <1>1, <1>8, <2>1, OnceStays DEF IInv
<1>11. TypeOK' /\ RepliesAsked'
  BY <1>1, <1>4 DEF IInv, TypeOK, web, RepliesAsked
<1>12. Promised
  BY <1>1, <1>8, <1>9, RestMaps
<1> QED
  BY <1>6, <1>9, <1>10, <1>11, <1>12 DEF IInv
-----------------------------------------------------------------------------
(* The host's steps that can be seen.                                       *)

\* A request is over or goes on, some are cancelled, and the webview has not heard.
LEMMA HostOnly ==
  ASSUME IInv, UNCHANGED <<asked, web, replies, field>>,
         \A p \in Slot : requests'[p].service # "none" =>
            requests[p].service # "none" /\ Question(requests'[p]) = Question(requests[p]),
         \A u \in Service \ {"native"} : field[u] # 0 =>
            requests'[field[u]].id = requests[field[u]].id
  PROVE  /\ CheckInv' /\ FormatInv' /\ ColourInv' /\ AnswersOnce' /\ RepliesAsked'
         /\ Colours' = Colours
         /\ UNCHANGED <<view, trusted, live, check, panel, colour, shown, format>>
<1>1. UNCHANGED <<view, trusted, live, check, panel, colour, shown, format>>
  BY DEF web
<1>2. Pending' \subseteq Pending
  BY PendingShrinks
<1>3. CheckInv' /\ FormatInv' /\ ColourInv'
  BY <1>2, WebStays DEF IInv
<1>4. AnswersOnce'
  <2>1. field'["semanticTokens"] # 0 => Painter'.id = Painter.id
    BY DEF Painter, Service
  <2> QED
    BY <1>1, <2>1, OnceStays DEF IInv
<1> QED
  BY <1>1, <1>3, <1>4 DEF Colours, IInv, RepliesAsked

LEMMA DocumentKeeps ==
  ASSUME IInv, NEW t \in Text, NEW rs \in [Slot -> Request],
         \A p \in Slot : /\ Sound(rs[p])
                         /\ \/ rs[p] = requests[p]
                            \/ rs[p].service = "none" /\ requests[p].service = "native",
         t # file => version < MaxVersion,
         DocumentBecomes(t, rs), UNCHANGED <<asked, web, field, closed, replies>>
  PROVE  IInv' /\ Promised
<1> DEFINE slot == field["check"]
           cancels == ~(closed \/ t = checkText)
<1>1. /\ file' = t /\ problems' = NoText /\ checkText' = checkText
      /\ version' = (IF t = file THEN version ELSE version + 1)
      /\ requests' = (IF cancels THEN Cancel(rs, {slot}) ELSE rs)
  BY DEF DocumentBecomes
<1>2. /\ TypeOK /\ RequestsSound /\ FieldsName /\ Cancellable /\ NativeIsFile
      /\ version \in 0 .. MaxVersion /\ MaxVersion \in Nat
  BY Constants DEF IInv, HostInv, TypeOK
<1>3. /\ \A u \in Service \ {"native"} : field[u] # 0 =>
           /\ field[u] \in Slot /\ requests[field[u]].service = u /\ u # "none" /\ u # "native"
           /\ rs[field[u]] = requests[field[u]]
      /\ "check" \in Service \ {"native"} /\ 0 \notin Slot
  <2>1. "check" \in Service \ {"native"} /\ "none" \notin Service
    BY DEF Service
  <2>2. 0 \notin Slot
    BY Constants
  <2>3. ASSUME NEW u \in Service \ {"native"}, field[u] # 0
        PROVE  field[u] \in Slot /\ requests[field[u]].service = u
    BY <1>2, <2>3, TypeOKFacts DEF FieldsName
  <2>4. ASSUME NEW u \in Service \ {"native"}, field[u] # 0
        PROVE  rs[field[u]] = requests[field[u]]
    BY <2>3, <2>4
  <2> QED
    BY <2>1, <2>2, <2>3, <2>4
<1>4. slot \in Slot => rs[slot] = requests[slot] /\ requests[slot].service = "check"
  BY <1>3
<1> HIDE DEF slot, cancels
<1>5. /\ requests' \in [Slot -> Request]
      /\ \A p \in Slot : /\ requests'[p].service = rs[p].service /\ requests'[p].id = rs[p].id
                         /\ requests'[p].text = rs[p].text
                         /\ rs[p].cancelled => requests'[p].cancelled
                         /\ p # slot => requests'[p] = rs[p]
                         /\ Sound(requests'[p])
  <2>1. CASE cancels
    BY <1>1, <1>4, <2>1, CancelFacts
  <2>2. CASE ~cancels
    BY <1>1, <2>2
  <2> QED
    BY <2>1, <2>2
<1>6. RequestsSound'
  BY <1>5 DEF RequestsSound, Sound
<1>7. FieldsName'
  <2> SUFFICES ASSUME NEW u \in Service \ {"native"}, field[u] # 0
               PROVE  /\ requests'[field[u]].service = u
                      /\ u = "semanticTokens" => closed \/ ~requests'[field[u]].cancelled
    BY DEF FieldsName
  <2>1. field[u] \in Slot /\ rs[field[u]] = requests[field[u]] /\ requests[field[u]].service = u
    BY <1>3
  <2>2. u = "semanticTokens" => field[u] # slot
    BY <1>3, <1>4, <2>1
  <2> QED
    BY <1>2, <1>5, <2>1, <2>2 DEF FieldsName
<1>8. Cancellable'
  <2> SUFFICES ASSUME NEW p \in Slot, requests'[p].stage # "free",
                      requests'[p].service # "native", ~requests'[p].cancelled
               PROVE  field[requests'[p].service] = p
    BY DEF Cancellable
  <2>1. rs[p].service # "none" /\ ~rs[p].cancelled /\ requests'[p].service = rs[p].service
    BY <1>5 DEF Sound
  <2>2. rs[p] = requests[p]
    BY <2>1
  <2> QED
    BY <1>2, <2>1, <2>2 DEF Cancellable, RequestsSound, Sound
<1>9. NativeIsFile'
  <2> SUFFICES ASSUME NEW p \in Slot, requests'[p].service = "native"
               PROVE  /\ requests'[p].id <= version'
                      /\ requests'[p].id = version' => requests'[p].text = t
    BY <1>1 DEF NativeIsFile
  <2>1. rs[p] = requests[p] /\ requests'[p].id = rs[p].id /\ requests'[p].text = rs[p].text
        /\ rs[p].service = "native" /\ requests[p].id \in Nat
    BY <1>2, <1>5, Constants DEF RequestsSound, Sound, Request
  <2>2. /\ requests[p].id <= version
        /\ requests[p].id = version => requests[p].text = file
    BY <1>2, <2>1 DEF NativeIsFile
  <2> QED
    BY <1>1, <1>2, <2>1, <2>2
<1>10. /\ CheckInv' /\ FormatInv' /\ ColourInv' /\ AnswersOnce' /\ RepliesAsked'
       /\ Colours' = Colours
       /\ UNCHANGED <<view, trusted, live, check, panel, colour, shown, format>>
  <2>1. \A p \in Slot : requests'[p].service # "none" =>
          requests[p].service # "none" /\ Question(requests'[p]) = Question(requests[p])
    BY <1>5 DEF Question
  <2>2. \A u \in Service \ {"native"} : field[u] # 0 =>
          requests'[field[u]].id = requests[field[u]].id
    BY <1>3, <1>5
  <2>3. UNCHANGED <<asked, web, replies, field>>
    OBVIOUS
  <2> QED
    BY <2>1, <2>2, <2>3, HostOnly
<1>11. TypeOK'
  <2>1. version' \in 0 .. MaxVersion
    BY <1>1, <1>2
  <2>2. {panel, problems, checkText}' \subseteq Text \cup {NoText}
    BY <1>1, <1>2, <1>10 DEF TypeOK
  <2> QED
    BY <1>1, <1>2, <1>5, <1>10, <2>1, <2>2 DEF TypeOK
<1>12. Promised
  BY <1>1, <1>10, FileEventMaps
<1> QED
  BY <1>6, <1>7, <1>8, <1>9, <1>10, <1>11, <1>12 DEF IInv, HostInv

LEMMA FileEventKeeps == ASSUME IInv, NEW t \in Text, FileEvent(t) PROVE IInv' /\ Promised
<1>1. /\ requests \in [Slot -> Request] /\ \A p \in Slot : Sound(requests[p])
  BY TypeOKFacts DEF IInv, HostInv, RequestsSound
<1>2. /\ t # file => version < MaxVersion
      /\ DocumentBecomes(t, requests) /\ UNCHANGED <<asked, web, field, closed, replies>>
  BY DEF FileEvent
<1> QED
  BY <1>1, <1>2, DocumentKeeps

LEMMA CloseKeeps == ASSUME IInv, Close PROVE IInv' /\ Promised
<1> DEFINE slots == {field[u] : u \in DOMAIN field}
<1>1. /\ closed' = TRUE /\ requests' = Cancel(requests, slots) /\ problems' = NoText
      /\ UNCHANGED <<asked, web, file, version, checkText, field, replies>>
  BY DEF Close
<1>2. /\ TypeOK /\ RequestsSound /\ FieldsName /\ Cancellable /\ NativeIsFile
      /\ DOMAIN field = Service \ {"native"} /\ 0 \notin Slot
  BY TypeOKFacts, Constants DEF IInv, HostInv
<1>3. \A p \in Slot : p \in slots => requests[p].service # "none"
  BY <1>2 DEF FieldsName, Service
<1> HIDE DEF slots
<1>4. /\ requests' \in [Slot -> Request]
      /\ \A p \in Slot : /\ requests'[p].service = requests[p].service
                         /\ requests'[p].id = requests[p].id
                         /\ requests'[p].text = requests[p].text
                         /\ requests'[p].cancelled <=> p \in slots \/ requests[p].cancelled
                         /\ Sound(requests'[p])
  BY <1>1, <1>2, <1>3, CancelFacts DEF RequestsSound
<1>5. \A u \in Service \ {"native"} : field[u] # 0 => field[u] \in Slot
  BY <1>2, TypeOKFacts
<1>6. HostInv'
  <2>1. RequestsSound'
    BY <1>1, <1>4 DEF RequestsSound, Sound
  <2>2. FieldsName'
    BY <1>1, <1>2, <1>4, <1>5 DEF FieldsName
  <2>3. Cancellable'
    BY <1>1, <1>2, <1>4 DEF Cancellable, RequestsSound, Sound
  <2>4. NativeIsFile'
    BY <1>1, <1>2, <1>4 DEF NativeIsFile
  <2> QED
    BY <2>1, <2>2, <2>3, <2>4 DEF HostInv
<1>7. /\ CheckInv' /\ FormatInv' /\ ColourInv' /\ AnswersOnce' /\ RepliesAsked'
      /\ Colours' = Colours
      /\ UNCHANGED <<view, trusted, live, check, panel, colour, shown, format>>
  <2>1. \A p \in Slot : requests'[p].service # "none" =>
          requests[p].service # "none" /\ Question(requests'[p]) = Question(requests[p])
    BY <1>4 DEF Question
  <2>2. \A u \in Service \ {"native"} : field[u] # 0 =>
          requests'[field[u]].id = requests[field[u]].id
    BY <1>4, <1>5
  <2> QED
    BY <1>1, <2>1, <2>2, HostOnly
<1>8. TypeOK'
  <2>1. {panel, problems, checkText}' \subseteq Text \cup {NoText}
    BY <1>1, <1>2, <1>7 DEF TypeOK
  <2> QED
    BY <1>1, <1>2, <1>4, <1>7, <2>1 DEF TypeOK
<1>9. Promised
  BY <1>1, <1>7, PublishMaps
<1> QED
  BY <1>6, <1>7, <1>8, <1>9 DEF IInv

LEMMA AnswerKeeps == ASSUME IInv, NEW s \in Slot, Answer(s) PROVE IInv' /\ Promised
<1> DEFINE r == requests[s]
           v == requests[s].service
           m == [service |-> v, id |-> r.id, text |-> r.text, result |-> r.result]
           e == Ended(r)
<1>1. /\ r.stage = "settled" /\ v # "native"
      /\ requests' = [requests EXCEPT ![s] = e]
      /\ field' = (IF field[v] = s THEN [field EXCEPT ![v] = 0] ELSE field)
      /\ replies' = (IF Wanted(s) THEN replies \cup {m} ELSE replies)
      /\ problems' = IF Wanted(s) /\ r.service = "check" /\ file = r.text
                     THEN IF r.result = "ok" THEN r.text ELSE NoText
                     ELSE problems
      /\ UNCHANGED <<asked, web, file, version, checkText, closed>>
  BY DEF Answer, Change
<1>2. /\ TypeOK /\ RequestsSound /\ FieldsName /\ Cancellable /\ NativeIsFile /\ RepliesAsked
      /\ asked \subseteq Service /\ DOMAIN field = Service \ {"native"} /\ 0 \notin Slot
      /\ field \in [Service \ {"native"} -> Slot \cup {0}] /\ requests \in [Slot -> Request]
  BY TypeOKFacts, Constants DEF IInv, HostInv
<1>3. /\ Sound(r) /\ v # "none" /\ v \in asked /\ v \in Service \ {"native"}
      /\ r.text \in Text /\ r.id \in 1 .. MaxId /\ r.result # "none" /\ r \in Request
  BY <1>1, <1>2 DEF RequestsSound, Sound
<1>4. /\ Sound(e) /\ e.service = "none" /\ e.stage = "free" /\ e \in Request
  BY <1>3, EndedFacts DEF Ended, Request, Sound
<1>5. /\ requests' \in [Slot -> Request] /\ requests'[s] = e
      /\ \A p \in Slot : p # s => requests'[p] = requests[p]
  BY <1>1, <1>2, <1>4
<1>6. /\ field' \in [Service \ {"native"} -> Slot \cup {0}]
      /\ \A u \in Service \ {"native"} : field'[u] = IF field[u] = s THEN 0 ELSE field[u]
  <2>1. \A u \in Service \ {"native"} : field[u] = s => u = v
    BY <1>2 DEF FieldsName
  <2>2. field' \in [Service \ {"native"} -> Slot \cup {0}]
    BY <1>1, <1>2
  <2>3. \A u \in Service \ {"native"} : field'[u] = IF field[u] = s THEN 0 ELSE field[u]
    BY <1>1, <1>2, <1>3, <2>1
  <2> QED
    BY <2>2, <2>3
<1>7. HostInv'
  <2>1. RequestsSound'
    <3>1. \A p \in Slot : Sound(requests'[p])
      BY <1>2, <1>4, <1>5 DEF RequestsSound
    <3> QED
      BY <1>1, <3>1 DEF RequestsSound, Sound
  <2>2. FieldsName'
    <3> SUFFICES ASSUME NEW u \in Service \ {"native"}, field'[u] # 0
                 PROVE  /\ requests'[field'[u]].service = u
                        /\ u = "semanticTokens" => closed' \/ ~requests'[field'[u]].cancelled
      BY DEF FieldsName
    <3>1. field'[u] = field[u] /\ field[u] # s /\ field[u] \in Slot
      BY <1>2, <1>6
    <3> QED
      BY <1>1, <1>2, <1>5, <3>1 DEF FieldsName
  <2>3. Cancellable'
    <3> SUFFICES ASSUME NEW p \in Slot, requests'[p].stage # "free",
                        requests'[p].service # "native", ~requests'[p].cancelled
                 PROVE  field'[requests'[p].service] = p
      BY DEF Cancellable
    <3>1. p # s /\ requests'[p] = requests[p]
      BY <1>4, <1>5
    <3>2. requests[p].service \in Service \ {"native"}
      BY <1>2, <3>1 DEF RequestsSound, Sound
    <3> QED
      BY <1>2, <1>6, <3>1, <3>2 DEF Cancellable
  <2>4. NativeIsFile'
    BY <1>1, <1>2, <1>4, <1>5 DEF NativeIsFile
  <2> QED
    BY <2>1, <2>2, <2>3, <2>4 DEF HostInv
<1>8. Wanted(s) => /\ field[v] = s /\ ~closed /\ r.result \in {"ok", "error"}
                   /\ m \in Reply /\ Question(m) = Question(r)
  <2> SUFFICES ASSUME Wanted(s)
               PROVE  /\ field[v] = s /\ ~closed /\ r.result \in {"ok", "error"}
                      /\ m \in Reply /\ Question(m) = Question(r)
    OBVIOUS
  <2>1. /\ field[v] = s /\ ~closed /\ r.result # "thrown"
        /\ r.cancelled => v = "semanticTokens"
    BY DEF Wanted
  <2>2. ~r.cancelled
    BY <1>2, <1>3, <2>1, Constants DEF FieldsName
  <2>3. r.result \in {"ok", "error"}
    BY <1>3, <2>1, <2>2 DEF Sound, Request
  <2>4. m \in Reply
    BY <1>3, <2>3 DEF Reply
  <2> QED
    BY <2>1, <2>3, <2>4 DEF Question
<1>9. Question(r) \in Pending
  BY <1>3, PendingIs
<1>10. Pending' \subseteq Pending
  <2> SUFFICES ASSUME NEW p \in Pending' PROVE p \in Pending
    OBVIOUS
  <2>1. \/ \E q \in Slot : requests'[q].service # "none" /\ p = Question(requests'[q])
        \/ \E n \in replies' : p = Question(n)
    BY DEF Pending, Asked
  <2>2. ASSUME NEW q \in Slot, requests'[q].service # "none", p = Question(requests'[q])
        PROVE  p \in Pending
    BY <1>4, <1>5, <2>2, PendingIs
  <2>3. ASSUME NEW n \in replies', p = Question(n)
        PROVE  p \in Pending
    <3>1. n \in replies \/ (Wanted(s) /\ n = m)
      BY <1>1, <2>3
    <3> HIDE DEF m, r
    <3> QED
      BY <1>8, <1>9, <2>3, <3>1, PendingIs
  <2> QED
    BY <2>1, <2>2, <2>3
<1>11. CheckInv' /\ FormatInv' /\ ColourInv'
  BY <1>1, <1>10, WebStays DEF IInv
<1>12. UNCHANGED <<view, trusted, live, check, panel, colour, shown, format>> /\ Colours' = Colours
  BY <1>1 DEF web, Colours
<1>13. RepliesAsked' /\ replies' \subseteq Reply
  BY <1>1, <1>2, <1>3, <1>8 DEF RepliesAsked, TypeOK
<1>14. AnswersOnce'
  <2>1. "semanticTokens" \in Service \ {"native"}
    BY DEF Service
  <2>2. field'["semanticTokens"] # 0 =>
          /\ field'["semanticTokens"] = field["semanticTokens"] /\ field["semanticTokens"] # s
          /\ field["semanticTokens"] \in Slot /\ Painter' = Painter
    BY <1>2, <1>5, <1>6, <2>1 DEF Painter
  <2>3. CASE replies' = replies
    <3>1. field'["semanticTokens"] # 0 =>
            field["semanticTokens"] # 0 /\ Painter'.id = Painter.id
      BY <2>2
    <3> QED
      BY <1>12, <2>3, <3>1, OnceStays DEF IInv
  <2>4. CASE Wanted(s) /\ v # "semanticTokens"
    <3>1. \A n \in replies' : n.service = "semanticTokens" => n \in replies
      BY <1>1, <2>4
    <3>2. AnswersOnce /\ (ParserShown' <=> ParserShown)
      BY <1>12 DEF IInv, ParserShown
    <3>3. (\A n \in replies : n.service = "semanticTokens" /\ n.id = colour.id =>
             /\ ~ParserShown
             /\ \A k \in replies : k.service = "semanticTokens" /\ k.id = colour.id => k = n)'
      BY <1>12, <3>1, <3>2 DEF AnswersOnce
    <3>4. (field["semanticTokens"] # 0 /\ Painter.id = colour.id =>
             /\ ~ParserShown
             /\ \A n \in replies : n.service = "semanticTokens" => n.id # colour.id)'
      BY <1>12, <2>2, <3>1, <3>2 DEF AnswersOnce, Painter
    <3>5. (ParserShown => colour.fallback # colour.id)'
      BY <1>12, <3>2 DEF AnswersOnce
    <3> QED
      BY <3>3, <3>4, <3>5 DEF AnswersOnce, Painter
  <2>5. CASE Wanted(s) /\ v = "semanticTokens"
    <3>1. field["semanticTokens"] = s /\ field'["semanticTokens"] = 0 /\ s # 0
      BY <1>2, <1>6, <1>8, <2>1, <2>5
    <3>2. /\ ParserShown' <=> ParserShown
          /\ r.id = colour.id =>
               /\ ~ParserShown
               /\ \A n \in replies : n.service = "semanticTokens" => n.id # colour.id
          /\ ParserShown => colour.fallback # colour.id
          /\ \A n \in replies : n.service = "semanticTokens" /\ n.id = colour.id =>
               /\ ~ParserShown
               /\ \A k \in replies : k.service = "semanticTokens" /\ k.id = colour.id => k = n
      BY <1>12, <3>1 DEF IInv, AnswersOnce, ParserShown
    <3>3. replies' = replies \cup {m} /\ m.id = r.id
      BY <1>1, <2>5
    <3> HIDE DEF m, r
    <3>4. (\A n \in replies : n.service = "semanticTokens" /\ n.id = colour.id =>
             /\ ~ParserShown
             /\ \A k \in replies : k.service = "semanticTokens" /\ k.id = colour.id => k = n)'
      BY <1>12, <3>2, <3>3
    <3> QED
      BY <1>12, <3>1, <3>2, <3>4 DEF AnswersOnce
  <2> QED
    BY <1>1, <2>3, <2>4, <2>5
<1>15. problems' = problems \/ problems' \in {file, NoText}
  BY <1>1
<1>16. TypeOK'
  <2>1. {panel, problems, checkText}' \subseteq Text \cup {NoText}
    BY <1>1, <1>2, <1>12, <1>15 DEF TypeOK
  <2> QED
    BY <1>1, <1>2, <1>5, <1>6, <1>12, <1>13, <2>1 DEF TypeOK
<1>17. Promised
  BY <1>1, <1>12, <1>15, PublishMaps, RestMaps
<1> QED
  BY <1>7, <1>11, <1>13, <1>14, <1>16, <1>17 DEF IInv

LEMMA AnswerNativeKeeps == ASSUME IInv, NEW s \in Slot, AnswerNative(s) PROVE IInv' /\ Promised
<1> DEFINE r == requests[s]
           e == Ended(r)
           rs == [requests EXCEPT ![s] = e]
<1>1. /\ r.service = "native" /\ UNCHANGED <<asked, web, field, closed, replies>>
      /\ \/ version = r.id /\ DocumentBecomes(FormatOf[r.text], rs)
         \/ requests' = rs /\ UNCHANGED <<file, version, problems, checkText>>
  BY DEF AnswerNative, Change
<1>2. /\ TypeOK /\ RequestsSound /\ FieldsName /\ Cancellable /\ NativeIsFile
      /\ requests \in [Slot -> Request] /\ Sound(r) /\ r.text \in Text /\ r.id < MaxVersion
      /\ r \in Request
  BY <1>1, TypeOKFacts DEF IInv, HostInv, RequestsSound, Sound
<1>3. Sound(e) /\ e.service = "none" /\ e.stage = "free" /\ e \in Request
  BY <1>2, EndedFacts DEF Ended, Request, Sound
<1>4. /\ rs \in [Slot -> Request] /\ rs[s] = e
      /\ \A p \in Slot : p # s => rs[p] = requests[p]
  BY <1>2, <1>3
<1> HIDE DEF e, rs
<1>5. \A p \in Slot : /\ Sound(rs[p])
                      /\ \/ rs[p] = requests[p]
                         \/ rs[p].service = "none" /\ requests[p].service = "native"
  BY <1>1, <1>2, <1>3, <1>4 DEF RequestsSound
<1>6. ASSUME version = r.id, DocumentBecomes(FormatOf[r.text], rs)
      PROVE  IInv' /\ Promised
  <2>1. FormatOf[r.text] \in Text /\ version < MaxVersion
    BY <1>2, <1>6, Constants
  <2> QED
    BY <1>1, <1>4, <1>5, <1>6, <2>1, DocumentKeeps
<1>7. ASSUME requests' = rs, UNCHANGED <<file, version, problems, checkText>>
      PROVE  IInv' /\ Promised
  <2>1. \A u \in Service \ {"native"} : field[u] # 0 => field[u] \in Slot /\ field[u] # s
    BY <1>1, <1>2, TypeOKFacts DEF FieldsName
  <2>2. HostInv'
    <3>1. RequestsSound'
      BY <1>1, <1>5, <1>7 DEF RequestsSound, Sound
    <3>2. FieldsName'
      BY <1>1, <1>2, <1>4, <1>7, <2>1 DEF FieldsName
    <3>3. Cancellable'
      BY <1>1, <1>2, <1>3, <1>4, <1>7 DEF Cancellable
    <3>4. NativeIsFile'
      BY <1>2, <1>3, <1>4, <1>7 DEF NativeIsFile
    <3> QED
      BY <3>1, <3>2, <3>3, <3>4 DEF HostInv
  <2>3. /\ CheckInv' /\ FormatInv' /\ ColourInv' /\ AnswersOnce' /\ RepliesAsked'
        /\ Colours' = Colours
        /\ UNCHANGED <<view, trusted, live, check, panel, colour, shown, format>>
    <3>1. \A p \in Slot : requests'[p].service # "none" =>
            requests[p].service # "none" /\ Question(requests'[p]) = Question(requests[p])
      BY <1>3, <1>4, <1>7
    <3>2. \A u \in Service \ {"native"} : field[u] # 0 =>
            requests'[field[u]].id = requests[field[u]].id
      BY <1>4, <1>7, <2>1
    <3> QED
      BY <1>1, <3>1, <3>2, HostOnly
  <2>4. TypeOK'
    BY <1>1, <1>2, <1>4, <1>7, <2>3 DEF TypeOK
  <2>5. Promised
    BY <1>7, <2>3, RestMaps
  <2> QED
    BY <2>2, <2>3, <2>4, <2>5 DEF IInv
<1> QED
  BY <1>1, <1>6, <1>7
-----------------------------------------------------------------------------
(* The induction.                                                           *)

LEMMA InitHolds == Init => IInv /\ Current!Init
<1> SUFFICES ASSUME Init PROVE IInv /\ Current!Init
  OBVIOUS
<1>1. /\ asked \in Mixes /\ view \in Text /\ file = view /\ trusted = FALSE /\ live = TRUE
      /\ check = [id |-> 1, armed |-> FALSE] /\ panel = NoText
      /\ colour = [id |-> 1, armed |-> TRUE, fallback |-> 0, lexical |-> NoText]
      /\ shown = [id |-> 0, text |-> NoText, source |-> "outdated"]
      /\ format = [id |-> 0, text |-> NoText] /\ version = 0
      /\ problems = NoText /\ checkText = NoText
      /\ field = [s \in Service \ {"native"} |-> 0] /\ closed = FALSE
      /\ requests = [s \in Slot |-> NoRequest] /\ replies = {}
  BY DEF Init
<1>2. 1 \in 0 .. MaxId /\ 0 \in 0 .. MaxId /\ 0 \in 0 .. MaxVersion
  BY Constants
<1>3. TypeOK
  <2>1. /\ check \in [id : 0 .. MaxId, armed : BOOLEAN]
        /\ colour \in [id : 0 .. MaxId, armed : BOOLEAN, fallback : 0 .. MaxId,
                       lexical : Text \cup {NoText}]
        /\ shown \in [id : 0 .. MaxId, text : Text \cup {NoText},
                      source : {"outdated", "lexical", "parser"}]
        /\ format \in [id : 0 .. MaxId, text : Text \cup {NoText}]
    BY <1>1, <1>2
  <2>2. /\ requests \in [Slot -> Request]
        /\ field \in [Service \ {"native"} -> Slot \cup {0}]
    BY <1>1, NoRequestFacts
  <2> QED
    BY <1>1, <1>2, <2>1, <2>2 DEF TypeOK
<1>4. \A s \in Slot : requests[s] = NoRequest
  BY <1>1
<1>5. HostInv
  <2>1. Sound(NoRequest)
    BY NoRequestFacts DEF Sound
  <2>2. RequestsSound
    BY <1>4, <2>1 DEF RequestsSound
  <2>3. FieldsName
    BY <1>1 DEF FieldsName
  <2>4. Cancellable /\ NativeIsFile
    BY <1>4, NoRequestFacts DEF Cancellable, NativeIsFile
  <2> QED
    BY <2>2, <2>3, <2>4 DEF HostInv
<1>6. Pending = {}
  BY <1>1, <1>4, NoRequestFacts DEF Pending, Asked
<1>7. CheckInv /\ FormatInv /\ ColourInv /\ RepliesAsked
  BY <1>1, <1>6 DEF CheckInv, FormatInv, ColourInv, RepliesAsked
<1>8. AnswersOnce
  <2>1. field["semanticTokens"] = 0
    BY <1>1 DEF Service
  <2> QED
    BY <1>1, <2>1 DEF AnswersOnce, ParserShown
<1>9. Current!Init
  BY <1>1 DEF Current!Init
<1> QED
  BY <1>3, <1>5, <1>7, <1>8, <1>9 DEF IInv

\* Every step keeps the invariant and is one of CurrentAnswers, or none of its own.
LEMMA NextKeeps == ASSUME IInv, [Next]_vars PROVE IInv' /\ Promised
<1>1. ASSUME Quiet PROVE IInv' /\ Promised
  <2>1. IInv'
    BY <1>1, QuietKeeps
  <2>2. UNCHANGED <<view, file, panel, problems>> /\ Colours' = Colours
    BY <1>1 DEF Quiet, web, Colours
  <2> QED
    BY <2>1, <2>2, RestMaps
<1>2. TypeOK /\ RequestsSound
  BY DEF IInv, HostInv
<1>3. CASE UNCHANGED vars
  <2>1. UNCHANGED <<asked, web, host, replies>>
    BY <1>3 DEF vars
  <2>2. /\ UNCHANGED <<file, version, problems, checkText, field, closed, requests>>
        /\ UNCHANGED <<view, trusted, live, check, panel, colour, shown, format>>
    BY <2>1 DEF web, host
  <2>3. Quiet
    BY <1>2, <2>1, <2>2, TypeOKFacts DEF Quiet, Kept, RequestsSound
  <2> QED
    BY <1>1, <2>3
<1>4. ASSUME NEW t \in Text, Type(t) \/ FileEvent(t) PROVE IInv' /\ Promised
  BY <1>4, TypeKeeps, FileEventKeeps
<1>5. ASSUME NEW tr \in BOOLEAN, NEW lv \in BOOLEAN, Metadata(tr, lv) PROVE IInv' /\ Promised
  BY <1>5, MetadataKeeps
<1>6. CASE AskCheck \/ FireFallback \/ Close
  BY <1>6, AskCheckKeeps, FireFallbackKeeps, CloseKeeps
<1>7. ASSUME NEW s \in Slot, FireCheck(s) \/ FireHighlight(s) \/ AskFormat(s) \/ AskNative(s)
      PROVE  IInv' /\ Promised
  BY <1>7, FireCheckKeeps, FireHighlightKeeps, AskFormatKeeps, AskNativeKeeps
<1>8. ASSUME NEW s \in Slot, CancelNative(s) \/ Work(s) \/ DiskFails(s) \/ Die(s)
      PROVE  IInv' /\ Promised
  <2>1. CASE Answer(s) \/ AnswerNative(s)
    BY <2>1, AnswerKeeps, AnswerNativeKeeps
  <2>2. CASE Prepare(s) \/ Exit(s) \/ DiskFails(s)
    BY <1>1, <1>2, <2>2, PrepareIsQuiet, ExitIsQuiet, DiskFailsIsQuiet
  <2>3. CASE TimeOut(s) \/ Die(s) \/ RemoveDirectory(s) \/ CancelNative(s)
    BY <1>1, <1>2, <2>3, OthersAreQuiet
  <2> QED
    BY <1>8, <2>1, <2>2, <2>3 DEF Work
<1>9. ASSUME NEW m \in replies, GetDiagnostics(m) \/ GetTokens(m) \/ GetFormatted(m)
      PROVE  IInv' /\ Promised
  BY <1>9, GetDiagnosticsKeeps, GetTokensKeeps, GetFormattedKeeps
<1> QED
  BY <1>3, <1>4, <1>5, <1>6, <1>7, <1>8, <1>9 DEF Next

\* The inductive invariant of the language services, for any texts, formatter and
\* bounds: every request, answer and timer fits what the webview and the host know.
THEOREM Invariant == Spec => []IInv
<1>1. Init => IInv
  BY InitHolds
<1>2. IInv /\ [Next]_vars => IInv'
  BY NextKeeps
<1> QED
  BY <1>1, <1>2, PTL DEF Spec

\* The services' variables keep their types.
THEOREM TypeOKHolds == Spec => []TypeOK
<1>1. IInv => TypeOK
  BY DEF IInv
<1> QED
  BY <1>1, Invariant, PTL

\* A request that nobody has cancelled is the one its service's field names, so that
\* the next request, an edit and closing the editor reach it.
THEOREM CancellableHolds == Spec => []Cancellable
<1>1. IInv => Cancellable
  BY DEF IInv, HostInv
<1> QED
  BY <1>1, Invariant, PTL

\* What the error list, the colours and the Problems list show is about the program
\* as it is now, whatever was typed, saved, cancelled or overtaken meanwhile.
THEOREM AnswersAreCurrentHolds == Spec => AnswersAreCurrent
<1>1. Init => Current!Init
  BY InitHolds
<1>2. IInv /\ [Next]_vars => [Current!Next]_(Current!vars)
  BY NextKeeps DEF Promised
<1> QED
  BY <1>1, <1>2, Invariant, PTL DEF Spec, AnswersAreCurrent, Current!Spec
-----------------------------------------------------------------------------
(* A formatter's answer.                                                    *)

\* One step of FormatKeepsTyping.
LayoutOnly ==
  /\ \A m \in replies \ replies' :
       m.service = "format" /\ view' # view => view' = FormatOf[view]
  /\ \A s \in Slot :
       requests[s].service = "native" /\ requests'[s].service = "none" /\ file' # file
          => file' = FormatOf[file]

\* A step that neither receives an answer nor changes the file is no formatter's.
LEMMA NoLayout == ASSUME replies \subseteq replies', file' = file PROVE LayoutOnly
  BY DEF LayoutOnly

LEMMA GetFormattedLayout ==
  ASSUME IInv, NEW m \in replies, GetFormatted(m) PROVE LayoutOnly
<1>1. /\ m.service = "format" /\ Receive(m)
      /\ \/ UNCHANGED view
         \/ m.id = format.id /\ view = format.text /\ view' = FormatOf[m.text]
  BY DEF GetFormatted, Rewrite
<1>2. file' = file /\ replies' = replies \ {m}
  BY <1>1 DEF Receive, host
<1>3. /\ Question(m) \in Pending /\ Question(m).service = m.service
      /\ Question(m).id = m.id /\ Question(m).text = m.text
  BY <1>1, ReceiveFacts
<1>4. view # NoText
  BY Constants DEF IInv, TypeOK
<1>5. UNCHANGED view \/ view' = FormatOf[view]
  BY <1>1, <1>3, <1>4 DEF IInv, FormatInv
<1> QED
  BY <1>2, <1>5 DEF LayoutOnly

\* The file changes by itself while VS Code waits for its formatter.
LEMMA FileEventLayout ==
  ASSUME IInv, NEW t \in Text, FileEvent(t) PROVE LayoutOnly
<1> DEFINE slot == field["check"]
<1>1. /\ UNCHANGED <<replies, closed>>
      /\ requests' = requests \/ requests' = Cancel(requests, {slot})
  BY DEF FileEvent, DocumentBecomes
<1>2. /\ \A p \in Slot : Sound(requests[p])
      /\ slot \in Slot => requests[slot].service # "none"
  <2>1. slot # 0 => requests[slot].service = "check"
    BY DEF IInv, HostInv, FieldsName, Service
  <2> QED
    BY <2>1, Constants DEF IInv, HostInv, RequestsSound
<1> HIDE DEF slot
<1>3. \A p \in Slot : requests'[p].service = requests[p].service
  BY <1>1, <1>2, CancelFacts
<1> QED
  BY <1>1, <1>3 DEF LayoutOnly

LEMMA AnswerNativeLayout ==
  ASSUME IInv, NEW s \in Slot, AnswerNative(s) PROVE LayoutOnly
<1>1. /\ requests[s].service = "native" /\ UNCHANGED replies
      /\ \/ version = requests[s].id /\ file' = FormatOf[requests[s].text]
         \/ UNCHANGED file
  BY DEF AnswerNative, DocumentBecomes
<1>2. version = requests[s].id => requests[s].text = file
  BY <1>1 DEF IInv, HostInv, NativeIsFile
<1> QED
  BY <1>1, <1>2 DEF LayoutOnly

LEMMA NextLayout == ASSUME IInv, [Next]_vars PROVE LayoutOnly
<1>1. CASE UNCHANGED vars
  BY <1>1, NoLayout DEF vars, host
<1>2. ASSUME NEW t \in Text, Type(t) PROVE LayoutOnly
  BY <1>2, NoLayout DEF Type, host
<1>3. ASSUME NEW tr \in BOOLEAN, NEW lv \in BOOLEAN, Metadata(tr, lv) PROVE LayoutOnly
  BY <1>3, NoLayout DEF Metadata, host
<1>4. CASE AskCheck \/ FireFallback \/ Close
  BY <1>4, NoLayout DEF AskCheck, FireFallback, Close, host
<1>5. ASSUME NEW s \in Slot, FireCheck(s) \/ FireHighlight(s) \/ AskFormat(s)
      PROVE  LayoutOnly
  <2>1. UNCHANGED <<file, replies>>
    BY <1>5 DEF FireCheck, FireHighlight, AskFormat, Handle, host
  <2> QED
    BY <2>1, NoLayout
<1>6. ASSUME NEW s \in Slot, AskNative(s) \/ CancelNative(s) \/ DiskFails(s) \/ Die(s)
      PROVE  LayoutOnly
  BY <1>6, NoLayout DEF AskNative, CancelNative, DiskFails, Die, Working, HostRest
<1>7. ASSUME NEW s \in Slot, Prepare(s) \/ Exit(s) \/ TimeOut(s) \/ RemoveDirectory(s)
      PROVE  LayoutOnly
  BY <1>7, NoLayout DEF Prepare, Exit, TimeOut, RemoveDirectory, Working, HostRest
<1>8. ASSUME NEW s \in Slot, Answer(s) PROVE LayoutOnly
  BY <1>8, NoLayout DEF Answer
<1>9. ASSUME NEW m \in replies, GetDiagnostics(m) \/ GetTokens(m) PROVE LayoutOnly
  <2>1. UNCHANGED file /\ replies' = replies \ {m} /\ m.service # "format"
    BY <1>9 DEF GetDiagnostics, GetTokens, Receive, host
  <2> QED
    BY <2>1 DEF LayoutOnly
<1> QED
  BY <1>1, <1>2, <1>3, <1>4, <1>5, <1>6, <1>7, <1>8, <1>9, GetFormattedLayout, FileEventLayout,
     AnswerNativeLayout DEF Next, Work

\* Typing since the request is never overwritten by a formatter, in the view or in the
\* file: when its answer changes a text, it formats the text that is there then.
THEOREM FormatKeepsTypingHolds == Spec => FormatKeepsTyping
<1>1. IInv /\ [Next]_vars =>
        [/\ \A m \in replies \ replies' :
              m.service = "format" /\ view' # view => view' = FormatOf[view]
         /\ \A s \in Slot :
              requests[s].service = "native" /\ requests'[s].service = "none" /\ file' # file
                 => file' = FormatOf[file]]_vars
  BY NextLayout DEF LayoutOnly
<1> QED
  BY <1>1, Invariant, PTL DEF Spec, FormatKeepsTyping
-----------------------------------------------------------------------------
(* The run of a program.                                                    *)

Started == {t \in Run!Task : task[t] # "none"}
Over    == {t \in Run!Task : task[t] = "ended"}

\* The task that was started last.
Latest(t) == /\ t \in Started
             /\ \A u \in Run!Task : u > t => task[u] = "none"

\* A task is started when every one before it has been.
StartedInOrder == \A t \in Started : \A u \in Run!Task : u < t => u \in Started

\* One message tells of a task's beginning and one of its end.
MessagesFit ==
  Len(messages) + (IF phase = "launching" THEN 1 ELSE 0)
     <= Cardinality(Started) + Cardinality(notified)

\* The last message under way, or else the button, tells whether a program is named.
ButtonWill ==
  /\ messages = <<>> => (running <=> execution # 0)
  /\ messages # <<>> => (messages[Len(messages)] <=> execution # 0)

\* The one program there may be is named, or is the task being launched.
OneProgram ==
  /\ execution # 0 => execution \notin notified
  /\ phase # "idle" => execution = 0
  /\ phase # "launching" => Run!Live \subseteq {execution}
  /\ phase = "launching" =>
       \A t \in Run!Task : Latest(t) => t \notin notified /\ Run!Live \subseteq {t}

RunInv == /\ Run!TypeOK
          /\ notified \subseteq Over
          /\ StartedInOrder
          /\ MessagesFit
          /\ ~disposed => ButtonWill /\ OneProgram
-----------------------------------------------------------------------------
(* Bounded sequences and numbers of elements.                               *)

\* A bounded sequence is a sequence that is short enough.
LEMMA BoundedFacts ==
  ASSUME NEW S, NEW n \in Nat
  PROVE  Run!BoundedSeq(S, n) = {s \in Seq(S) : Len(s) <= n}
<1>1. ASSUME NEW s \in Run!BoundedSeq(S, n) PROVE s \in Seq(S) /\ Len(s) <= n
  <2>1. PICK m \in 0 .. n : s \in [1 .. m -> S]
    BY DEF Run!BoundedSeq, Run!SeqOf
  <2>2. m \in Nat /\ m <= n
    BY <2>1
  <2>3. s \in Seq(S) /\ Len(s) = m
    BY <2>1, <2>2
  <2> QED
    BY <2>2, <2>3
<1>2. ASSUME NEW s \in Seq(S), Len(s) <= n PROVE s \in Run!BoundedSeq(S, n)
  <2>1. Len(s) \in Nat /\ s \in [1 .. Len(s) -> S]
    BY LenProperties
  <2>2. Len(s) \in 0 .. n
    BY <2>1, <1>2
  <2> QED
    BY <2>1, <2>2 DEF Run!BoundedSeq, Run!SeqOf
<1> QED
  BY <1>1, <1>2

\* What TypeOK says of the bounded sequences.
Typed == /\ queue \in Seq({"run", "stop"}) /\ Len(queue) <= MaxClicks
         /\ phase \in {"idle", "saving", "launching"}
         /\ execution \in 1 .. MaxTasks \cup {0}
         /\ task \in [1 .. MaxTasks -> {"none", "alive", "ending", "ended"}]
         /\ notified \subseteq 1 .. MaxTasks
         /\ disposed \in BOOLEAN /\ running \in BOOLEAN
         /\ messages \in Seq(BOOLEAN) /\ Len(messages) <= 2 * MaxTasks

LEMMA TypesMean == Run!TypeOK <=> Typed
<1>1. MaxClicks \in Nat /\ 2 * MaxTasks \in Nat
  BY RunAssumption
<1>2. /\ Run!BoundedSeq({"run", "stop"}, MaxClicks) =
           {s \in Seq({"run", "stop"}) : Len(s) <= MaxClicks}
      /\ Run!BoundedSeq(BOOLEAN, 2 * MaxTasks) = {s \in Seq(BOOLEAN) : Len(s) <= 2 * MaxTasks}
  BY <1>1, BoundedFacts
<1> QED
  BY <1>2 DEF Run!TypeOK, Run!Task, Typed

LEMMA TypesMeanNext == Run!TypeOK' <=> Typed'
  BY TypesMean, PTL

\* What can be counted about sets of tasks.
LEMMA Counts ==
  ASSUME NEW S, S \subseteq Run!Task
  PROVE  /\ Cardinality(S) \in Nat /\ Cardinality(S) <= MaxTasks
         /\ \A x : Cardinality(S \cup {x}) = IF x \in S THEN Cardinality(S) ELSE Cardinality(S) + 1
         /\ \A T \in SUBSET S : Cardinality(T) \in Nat /\ Cardinality(T) <= Cardinality(S)
<1>1. MaxTasks \in Nat /\ 1 \in Int /\ MaxTasks \in Int
  BY RunAssumption
<1>2. IsFiniteSet(1 .. MaxTasks) /\ Cardinality(1 .. MaxTasks) = MaxTasks
  BY <1>1, FS_Interval
<1>3. IsFiniteSet(S) /\ Cardinality(S) <= MaxTasks
  BY <1>2, FS_Subset DEF Run!Task
<1>4. \A x : Cardinality(S \cup {x}) = IF x \in S THEN Cardinality(S) ELSE Cardinality(S) + 1
  BY <1>3, FS_AddElement
<1>5. \A T \in SUBSET S : Cardinality(T) \in Nat /\ Cardinality(T) <= Cardinality(S)
  BY <1>3, FS_Subset, FS_CardinalityType
<1> QED
  BY <1>3, <1>4, <1>5, FS_CardinalityType

\* Messages never outgrow their bound.
LEMMA MessagesBounded ==
  ASSUME messages \in Seq(BOOLEAN), notified \subseteq Run!Task, MessagesFit
  PROVE  Len(messages) <= 2 * MaxTasks
<1>1. Cardinality(Started) \in Nat /\ Cardinality(Started) <= MaxTasks
  BY Counts DEF Started
<1>2. Cardinality(notified) \in Nat /\ Cardinality(notified) <= MaxTasks
  BY Counts
<1>3. Len(messages) \in Nat /\ MaxTasks \in Nat
  BY RunAssumption
<1> QED
  BY <1>1, <1>2, <1>3 DEF MessagesFit

\* Asking a program to end leaves it as alive as it was.
LEMMA TerminatedFacts ==
  ASSUME RunInv, NEW t \in Run!Task \cup {0}, task' = Run!Terminated(t)
  PROVE  /\ task' \in [Run!Task -> {"none", "alive", "ending", "ended"}]
         /\ Started' = Started /\ Over' = Over /\ Run!Live' = Run!Live
<1>1. task \in [Run!Task -> {"none", "alive", "ending", "ended"}]
  BY TypesMean DEF Typed, RunInv, Run!Task
<1>2. CASE t # 0 /\ task[t] = "alive"
  <2>1. t \in Run!Task /\ task' = [task EXCEPT ![t] = "ending"]
    BY <1>2 DEF Run!Terminated
  <2> QED
    BY <1>1, <1>2, <2>1 DEF Started, Over, Run!Live
<1>3. CASE ~(t # 0 /\ task[t] = "alive")
  <2>1. task' = task
    BY <1>3 DEF Run!Terminated
  <2> QED
    BY <1>1, <2>1 DEF Started, Over, Run!Live
<1> QED
  BY <1>2, <1>3

\* What the messages under way say stays true while nobody adds to them.
LEMMA StartedStays ==
  ASSUME RunInv, Started' = Started, Over' = Over, Run!Live' \subseteq Run!Live,
         UNCHANGED <<phase, execution, notified, disposed, messages, running>>
  PROVE  /\ StartedInOrder' /\ notified' \subseteq Over'
         /\ MessagesFit'
         /\ ~disposed' => ButtonWill' /\ OneProgram'
<1>1. \A t : Latest(t)' <=> Latest(t)
  BY DEF Latest, Started
<1>2. StartedInOrder' /\ notified' \subseteq Over' /\ MessagesFit'
  BY DEF RunInv, StartedInOrder, MessagesFit
<1>3. ASSUME ~disposed' PROVE ButtonWill' /\ OneProgram'
  BY <1>1, <1>3 DEF RunInv, ButtonWill, OneProgram
<1> QED
  BY <1>2, <1>3
-----------------------------------------------------------------------------
(* Each step of the run keeps the invariant.                                *)

LEMMA ClickKeeps == ASSUME RunInv, NEW a \in {"run", "stop"}, Run!Click(a) PROVE RunInv'
<1>1. /\ queue' = Append(queue, a) /\ Len(queue) < MaxClicks
      /\ UNCHANGED <<phase, execution, task, notified, disposed, messages, running>>
  BY DEF Run!Click
<1>2. queue' \in Seq({"run", "stop"}) /\ Len(queue') <= MaxClicks
  <2>1. queue \in Seq({"run", "stop"}) /\ MaxClicks \in Nat
    BY TypesMean, RunAssumption DEF Typed, RunInv
  <2> QED
    BY <1>1, <2>1, AppendFacts
<1>3. Run!TypeOK'
  BY <1>1, <1>2, TypesMean, TypesMeanNext DEF Typed, RunInv
<1>4. Started' = Started /\ Over' = Over /\ Run!Live' = Run!Live
  BY <1>1 DEF Started, Over, Run!Live
<1> QED
  BY <1>1, <1>3, <1>4, StartedStays DEF RunInv

\* A message leaves the queue.
LEMMA TakeFacts ==
  ASSUME RunInv, NEW a, Run!Take(a)
  PROVE  /\ queue' \in Seq({"run", "stop"}) /\ Len(queue') <= MaxClicks
         /\ phase = "idle"
<1>1. phase = "idle" /\ queue # <<>> /\ queue' = Tail(queue)
  BY DEF Run!Take
<1>2. queue \in Seq({"run", "stop"}) /\ Len(queue) <= MaxClicks /\ MaxClicks \in Nat
  BY TypesMean, RunAssumption DEF Typed, RunInv
<1>3. queue' \in Seq({"run", "stop"}) /\ Len(queue') = Len(queue) - 1 /\ Len(queue) \in Nat
  BY <1>1, <1>2, HeadTailProperties, LenProperties
<1> QED
  BY <1>1, <1>2, <1>3

LEMMA HandleStopKeeps == ASSUME RunInv, Run!HandleStop PROVE RunInv'
<1>1. /\ Run!Take("stop") /\ task' = IF disposed THEN task ELSE Run!Terminated(execution)
      /\ UNCHANGED <<phase, execution, notified, disposed, messages, running>>
  BY DEF Run!HandleStop
<1>2. /\ execution \in Run!Task \cup {0} /\ disposed \in BOOLEAN
      /\ task \in [Run!Task -> {"none", "alive", "ending", "ended"}]
  BY TypesMean DEF Typed, RunInv, Run!Task
<1>3. /\ task' \in [Run!Task -> {"none", "alive", "ending", "ended"}]
      /\ Started' = Started /\ Over' = Over /\ Run!Live' = Run!Live
  <2>1. CASE disposed
    BY <1>1, <1>2, <2>1 DEF Started, Over, Run!Live
  <2>2. CASE ~disposed
    BY <1>1, <1>2, <2>2, TerminatedFacts
  <2> QED
    BY <2>1, <2>2
<1>4. Run!TypeOK'
  BY <1>1, <1>3, TakeFacts, TypesMean, TypesMeanNext DEF Typed, RunInv, Run!Task
<1> QED
  BY <1>1, <1>3, <1>4, StartedStays DEF RunInv

LEMMA HandleRunKeeps == ASSUME RunInv, Run!HandleRun PROVE RunInv'
<1>1. /\ Run!Take("run")
      /\ phase' \in IF disposed \/ execution # 0 THEN {"idle"} ELSE {"idle", "saving"}
      /\ UNCHANGED <<execution, task, notified, disposed, messages, running>>
  BY DEF Run!HandleRun
<1>2. phase = "idle" /\ phase' \in {"idle", "saving"}
  BY <1>1, TakeFacts
<1>3. Run!TypeOK'
  BY <1>1, <1>2, TakeFacts, TypesMean, TypesMeanNext DEF Typed, RunInv
<1>4. Started' = Started /\ Over' = Over /\ Run!Live' = Run!Live
  BY <1>1 DEF Started, Over, Run!Live
<1>5. StartedInOrder' /\ notified' \subseteq Over' /\ MessagesFit'
  BY <1>1, <1>2, <1>4 DEF RunInv, StartedInOrder, MessagesFit
<1>6. ASSUME ~disposed' PROVE ButtonWill' /\ OneProgram'
  <2>1. ButtonWill /\ OneProgram /\ ~disposed
    BY <1>1, <1>6 DEF RunInv
  <2>2. ButtonWill'
    BY <1>1, <2>1 DEF ButtonWill
  <2>3. phase' # "idle" => execution = 0
    BY <1>1
  <2>4. OneProgram'
    BY <1>1, <1>2, <1>4, <2>1, <2>3 DEF OneProgram
  <2> QED
    BY <2>2, <2>4
<1> QED
  BY <1>3, <1>5, <1>6 DEF RunInv

\* A task is handed to VS Code: it is the last one started and the only one alive.
LEMMA HandedOver ==
  ASSUME RunInv, phase = "saving", NEW t \in Run!Task, task[t] = "none",
         \A u \in Run!Task : u < t => task[u] # "none",
         task' = [task EXCEPT ![t] = "alive"], phase' = "launching",
         UNCHANGED <<queue, execution, notified, disposed, messages, running>>
  PROVE  RunInv'
<1>1. task \in [Run!Task -> {"none", "alive", "ending", "ended"}]
  BY TypesMean DEF Typed, RunInv, Run!Task
<1>2. Run!TypeOK'
  BY <1>1, TypesMean, TypesMeanNext DEF Typed, RunInv, Run!Task
<1>3. /\ Started' = Started \cup {t} /\ t \notin Started
      /\ Over' = Over /\ t \notin Over /\ Run!Live' = Run!Live \cup {t}
  BY <1>1 DEF Started, Over, Run!Live
<1>4. \A u \in Started : u < t
  <2>1. ASSUME NEW u \in Started, t < u PROVE t \in Started
    BY <2>1 DEF RunInv, StartedInOrder
  <2>2. \A u \in Started : u \in Run!Task /\ u # t
    BY <1>3 DEF Started
  <2>3. \A u \in Run!Task : u \in Nat
    BY RunAssumption DEF Run!Task
  <2> QED
    BY <1>3, <2>1, <2>2, <2>3
<1>5. StartedInOrder'
  BY <1>3 DEF RunInv, StartedInOrder, Started
<1>6. notified' \subseteq Over'
  BY <1>3 DEF RunInv
<1>7. MessagesFit'
  <2>1. Started \subseteq Run!Task /\ notified \subseteq Run!Task
    BY TypesMean DEF Typed, RunInv, Run!Task, Started
  <2>2. Cardinality(Started') = Cardinality(Started) + 1
    BY <1>3, <2>1, Counts
  <2>3. Cardinality(Started) \in Nat /\ Cardinality(notified) \in Nat /\ Len(messages) \in Nat
    BY <2>1, Counts, TypesMean, LenProperties DEF Typed, RunInv
  <2> QED
    BY <2>2, <2>3 DEF RunInv, MessagesFit
<1>8. ASSUME ~disposed' PROVE ButtonWill' /\ OneProgram'
  <2>1. ButtonWill /\ OneProgram
    BY <1>8 DEF RunInv
  <2>2. execution = 0 /\ Run!Live \subseteq {0}
    BY <2>1 DEF OneProgram
  <2>3. Run!Live = {}
    BY <2>2, RunAssumption DEF Run!Live, Run!Task
  <2>4. \A u \in Run!Task : Latest(u)' => u = t
    <3>1. ASSUME NEW u \in Run!Task, Latest(u)' PROVE u = t
      <4>1. u \in Started' /\ (t > u => task'[t] = "none")
        BY <3>1 DEF Latest
      <4>2. task'[t] = "alive"
        BY <1>1
      <4>3. u = t \/ u < t
        BY <1>3, <1>4, <4>1
      <4>4. t \in Nat /\ u \in Nat
        BY RunAssumption DEF Run!Task
      <4> QED
        BY <4>1, <4>2, <4>3, <4>4
    <3> QED
      BY <3>1
  <2>5. t \notin notified
    BY <1>3 DEF RunInv
  <2>6. OneProgram'
    BY <1>3, <2>1, <2>2, <2>3, <2>4, <2>5 DEF OneProgram
  <2>7. ButtonWill'
    BY <2>1 DEF ButtonWill
  <2> QED
    BY <2>6, <2>7
<1> QED
  BY <1>2, <1>5, <1>6, <1>7, <1>8 DEF RunInv

LEMMA SavedKeeps == ASSUME RunInv, Run!Saved PROVE RunInv'
<1>1. /\ phase = "saving" /\ UNCHANGED <<queue, execution, notified, disposed, messages, running>>
      /\ \/ phase' = "idle" /\ UNCHANGED task
         \/ /\ phase' = "launching"
            /\ \E t \in Run!Task : /\ task[t] = "none"
                                   /\ \A u \in Run!Task : u < t => task[u] # "none"
                                   /\ task' = [task EXCEPT ![t] = "alive"]
  BY DEF Run!Saved
<1>2. CASE phase' = "idle" /\ UNCHANGED task
  <2>1. Run!TypeOK'
    BY <1>1, <1>2, TypesMean, TypesMeanNext DEF Typed, RunInv
  <2>2. Started' = Started /\ Over' = Over /\ Run!Live' = Run!Live
    BY <1>2 DEF Started, Over, Run!Live
  <2>3. StartedInOrder' /\ notified' \subseteq Over' /\ MessagesFit'
    BY <1>1, <1>2, <2>2 DEF RunInv, StartedInOrder, MessagesFit
  <2>4. ASSUME ~disposed' PROVE ButtonWill' /\ OneProgram'
    BY <1>1, <1>2, <2>2, <2>4 DEF RunInv, ButtonWill, OneProgram
  <2> QED
    BY <2>1, <2>3, <2>4 DEF RunInv
<1>3. CASE phase' = "launching"
  BY <1>1, <1>3, HandedOver
<1> QED
  BY <1>1, <1>2, <1>3

\* A word is sent: the last one under way says what the button will show.
LEMMA PostFacts ==
  ASSUME RunInv, NEW flag \in BOOLEAN, Run!Post(flag)
  PROVE  /\ messages' \in Seq(BOOLEAN) /\ Len(messages') \in Nat /\ Len(messages) \in Nat
         /\ Len(messages') <= Len(messages) + 1
         /\ ~disposed => messages' # <<>> /\ messages'[Len(messages')] = flag
<1>1. messages \in Seq(BOOLEAN) /\ disposed \in BOOLEAN
  BY TypesMean DEF RunInv, Typed
<1>2. /\ Append(messages, flag) \in Seq(BOOLEAN)
      /\ Len(Append(messages, flag)) = Len(messages) + 1 /\ Len(messages) \in Nat
      /\ Append(messages, flag)[Len(messages) + 1] = flag
      /\ Append(messages, flag) # <<>>
  BY <1>1, AppendFacts
<1>3. CASE disposed
  BY <1>1, <1>2, <1>3 DEF Run!Post
<1>4. CASE ~disposed
  BY <1>1, <1>2, <1>4 DEF Run!Post
<1> QED
  BY <1>1, <1>3, <1>4

LEMMA LaunchedKeeps == ASSUME RunInv, Run!Launched PROVE RunInv'
<1>1. /\ phase = "launching" /\ phase' = "idle" /\ Run!Post(TRUE)
      /\ UNCHANGED <<queue, notified, disposed, running>>
  BY DEF Run!Launched
<1>2. PICK t \in Run!Task :
        /\ task[t] # "none" /\ \A u \in Run!Task : u > t => task[u] = "none"
        /\ execution' = t /\ task' = IF disposed THEN Run!Terminated(t) ELSE task
  BY DEF Run!Launched
<1>3. /\ disposed \in BOOLEAN /\ task \in [Run!Task -> {"none", "alive", "ending", "ended"}]
      /\ notified \subseteq Run!Task
  BY TypesMean DEF RunInv, Run!Task, Typed
<1>4. /\ task' \in [Run!Task -> {"none", "alive", "ending", "ended"}]
      /\ Started' = Started /\ Over' = Over /\ Run!Live' = Run!Live
  <2>1. CASE disposed
    BY <1>2, <1>3, <2>1, TerminatedFacts
  <2>2. CASE ~disposed
    BY <1>2, <1>3, <2>2 DEF Started, Over, Run!Live
  <2> QED
    BY <1>3, <2>1, <2>2
<1>5. StartedInOrder' /\ notified' \subseteq Over'
  BY <1>1, <1>4 DEF RunInv, StartedInOrder
<1>6. /\ messages' \in Seq(BOOLEAN) /\ Len(messages') \in Nat /\ Len(messages) \in Nat
      /\ Len(messages') <= Len(messages) + 1
      /\ ~disposed => messages' # <<>> /\ messages'[Len(messages')] = TRUE
  BY <1>1, PostFacts
<1>7. MessagesFit'
  <2>1. Len(messages) + 1 <= Cardinality(Started) + Cardinality(notified)
    BY <1>1 DEF RunInv, MessagesFit
  <2>2. Cardinality(Started) \in Nat /\ Cardinality(notified) \in Nat
    BY <1>3, Counts DEF Started
  <2>3. Len(messages') + 0 <= Cardinality(Started') + Cardinality(notified')
    BY <1>1, <1>4, <1>6, <2>1, <2>2
  <2> QED
    BY <1>1, <2>3 DEF MessagesFit
<1>8. Len(messages') <= 2 * MaxTasks
  <2>1. /\ messages' \in Seq(BOOLEAN) /\ notified' \subseteq Run!Task
    BY <1>1, <1>3, <1>6
  <2>2. Cardinality(Started) \in Nat /\ Cardinality(Started) <= MaxTasks
    BY Counts DEF Started
  <2>3. Cardinality(notified) \in Nat /\ Cardinality(notified) <= MaxTasks
    BY <1>3, Counts
  <2> QED
    BY <1>1, <1>4, <1>6, <1>7, <2>2, <2>3, RunAssumption DEF MessagesFit
<1>9. Run!TypeOK'
  BY <1>1, <1>2, <1>4, <1>6, <1>8, TypesMean, TypesMeanNext DEF RunInv, Run!Task, Typed
<1>10. ASSUME ~disposed' PROVE ButtonWill' /\ OneProgram'
  <2>1. ButtonWill /\ OneProgram /\ ~disposed
    BY <1>1, <1>10 DEF RunInv
  <2>2. t \in Nat /\ t # 0
    BY RunAssumption DEF Run!Task
  <2>3. ButtonWill'
    BY <1>2, <1>6, <2>1, <2>2 DEF ButtonWill
  <2>4. Latest(t)
    BY <1>2 DEF Latest, Started
  <2>5. t \notin notified /\ Run!Live \subseteq {t}
    BY <1>1, <2>1, <2>4 DEF OneProgram
  <2>6. OneProgram'
    BY <1>1, <1>2, <1>4, <2>5 DEF OneProgram
  <2> QED
    BY <2>3, <2>6
<1> QED
  BY <1>5, <1>7, <1>9, <1>10 DEF RunInv

LEMMA ProgramEndsKeeps ==
  ASSUME RunInv, NEW t \in Run!Task, Run!ProgramEnds(t) PROVE RunInv'
<1>1. /\ task[t] \in {"alive", "ending"} /\ task' = [task EXCEPT ![t] = "ended"]
      /\ UNCHANGED <<queue, phase, execution, notified, disposed, messages, running>>
  BY DEF Run!ProgramEnds
<1>2. task \in [Run!Task -> {"none", "alive", "ending", "ended"}]
  BY TypesMean DEF RunInv, Run!Task, Typed
<1>3. Run!TypeOK'
  BY <1>1, <1>2, TypesMean, TypesMeanNext DEF RunInv, Run!Task, Typed
<1>4. Started' = Started /\ Over' = Over \cup {t} /\ Run!Live' \subseteq Run!Live
  BY <1>1, <1>2 DEF Started, Over, Run!Live
<1>5. StartedInOrder' /\ notified' \subseteq Over' /\ MessagesFit'
  BY <1>1, <1>4 DEF RunInv, StartedInOrder, MessagesFit
<1>6. \A u : Latest(u)' <=> Latest(u)
  BY <1>1, <1>2 DEF Latest, Started
<1>7. ASSUME ~disposed' PROVE ButtonWill' /\ OneProgram'
  BY <1>1, <1>4, <1>6, <1>7 DEF RunInv, ButtonWill, OneProgram
<1> QED
  BY <1>3, <1>5, <1>7 DEF RunInv

LEMMA TaskEndedKeeps ==
  ASSUME RunInv, NEW t \in Run!Task, Run!TaskEnded(t) PROVE RunInv'
<1>1. /\ task[t] = "ended" /\ t \notin notified /\ phase # "launching"
      /\ notified' = notified \cup {t}
      /\ UNCHANGED <<queue, phase, task, disposed, running>>
      /\ IF execution = t /\ ~disposed THEN execution' = 0 /\ Run!Post(FALSE)
         ELSE UNCHANGED <<execution, messages>>
  BY DEF Run!TaskEnded
<1>2. /\ task \in [Run!Task -> {"none", "alive", "ending", "ended"}]
      /\ notified \subseteq Run!Task /\ disposed \in BOOLEAN
      /\ messages \in Seq(BOOLEAN) /\ Len(messages) \in Nat
  BY TypesMean, LenProperties DEF RunInv, Run!Task, Typed
<1>3. Started' = Started /\ Over' = Over /\ Run!Live' = Run!Live
  BY <1>1 DEF Started, Over, Run!Live
<1>4. StartedInOrder' /\ notified' \subseteq Over'
  BY <1>1, <1>3 DEF RunInv, StartedInOrder, Over
<1>5. messages' \in Seq(BOOLEAN) /\ Len(messages') \in Nat /\ Len(messages') <= Len(messages) + 1
  <2>1. CASE execution = t /\ ~disposed
    <3>1. Run!Post(FALSE)
      BY <1>1, <2>1
    <3> QED
      BY <3>1, PostFacts
  <2>2. CASE ~(execution = t /\ ~disposed)
    <3>1. messages' = messages
      BY <1>1, <2>2
    <3> QED
      BY <1>2, <3>1
  <2> QED
    BY <2>1, <2>2
<1>6. MessagesFit'
  <2>1. Cardinality(notified') = Cardinality(notified) + 1
    BY <1>1, <1>2, Counts
  <2>2. Cardinality(Started) \in Nat /\ Cardinality(notified) \in Nat
    BY <1>2, Counts DEF Started
  <2>3. Len(messages) <= Cardinality(Started) + Cardinality(notified)
    BY <1>1, <1>2, <2>2 DEF RunInv, MessagesFit
  <2> QED
    BY <1>1, <1>3, <1>5, <2>1, <2>2, <2>3 DEF MessagesFit
<1>7. Len(messages') <= 2 * MaxTasks
  <2>1. Cardinality(Started) \in Nat /\ Cardinality(Started) <= MaxTasks
    BY Counts DEF Started
  <2>2. notified' \subseteq Run!Task
    BY <1>1, <1>2
  <2>3. Cardinality(notified') \in Nat /\ Cardinality(notified') <= MaxTasks
    BY <2>2, Counts
  <2> QED
    BY <1>1, <1>3, <1>5, <1>6, <2>1, <2>3, RunAssumption DEF MessagesFit
<1>8. Run!TypeOK'
  BY <1>1, <1>2, <1>5, <1>7, TypesMean, TypesMeanNext DEF RunInv, Run!Task, Typed
<1>9. ASSUME ~disposed' PROVE ButtonWill' /\ OneProgram'
  <2>1. ButtonWill /\ OneProgram /\ ~disposed
    BY <1>1, <1>9 DEF RunInv
  <2>2. CASE execution = t
    <3>1. execution' = 0 /\ Run!Post(FALSE)
      BY <1>1, <2>1, <2>2
    <3>2. messages' # <<>> /\ messages'[Len(messages')] = FALSE
      BY <2>1, <3>1, PostFacts
    <3>3. ButtonWill'
      BY <3>1, <3>2 DEF ButtonWill
    <3>4. Run!Live = {}
      BY <1>1, <2>1, <2>2 DEF OneProgram, Run!Live
    <3>5. OneProgram'
      BY <1>1, <1>3, <3>1, <3>4 DEF OneProgram
    <3> QED
      BY <3>3, <3>5
  <2>3. CASE execution # t
    <3>1. UNCHANGED <<execution, messages>>
      BY <1>1, <2>3
    <3>2. ButtonWill'
      BY <1>1, <2>1, <3>1 DEF ButtonWill
    <3>3. OneProgram'
      BY <1>1, <1>3, <2>1, <2>3, <3>1 DEF OneProgram
    <3> QED
      BY <3>2, <3>3
  <2> QED
    BY <2>2, <2>3
<1> QED
  BY <1>4, <1>6, <1>8, <1>9 DEF RunInv

LEMMA RunStateKeeps == ASSUME RunInv, Run!RunState PROVE RunInv'
<1>1. /\ ~disposed /\ messages # <<>>
      /\ running' = Head(messages) /\ messages' = Tail(messages)
      /\ UNCHANGED <<queue, phase, execution, task, notified, disposed>>
  BY DEF Run!RunState
<1>2. messages \in Seq(BOOLEAN) /\ Len(messages) <= 2 * MaxTasks /\ MaxTasks \in Nat
  BY TypesMean, RunAssumption DEF RunInv, Typed
<1>3. /\ messages' \in Seq(BOOLEAN) /\ Len(messages) \in Nat /\ Len(messages) > 0
      /\ Len(messages') = Len(messages) - 1
      /\ \A i \in 1 .. Len(messages) - 1 : messages'[i] = messages[i + 1]
      /\ running' = messages[1] /\ running' \in BOOLEAN
  BY <1>1, <1>2, HeadTailProperties, LenProperties, EmptySeq
<1>4. Run!TypeOK'
  BY <1>1, <1>2, <1>3, TypesMean, TypesMeanNext DEF RunInv, Typed
<1>5. Started' = Started /\ Over' = Over /\ Run!Live' = Run!Live
  BY <1>1 DEF Started, Over, Run!Live
<1>6. StartedInOrder' /\ notified' \subseteq Over'
  BY <1>1, <1>5 DEF RunInv, StartedInOrder
<1>7. MessagesFit'
  <2>1. Cardinality(Started) \in Nat /\ Cardinality(notified) \in Nat
    BY Counts, TypesMean DEF Started, RunInv, Typed, Run!Task
  <2> QED
    BY <1>1, <1>3, <1>5, <2>1 DEF RunInv, MessagesFit
<1>8. ButtonWill'
  <2>1. messages[Len(messages)] <=> execution # 0
    BY <1>1 DEF RunInv, ButtonWill
  <2>2. CASE messages' = <<>>
    <3>1. Len(messages) = 1
      BY <1>3, <2>2, EmptySeq
    <3> QED
      BY <1>1, <1>3, <2>1, <2>2, <3>1 DEF ButtonWill
  <2>3. CASE messages' # <<>>
    <3>1. Len(messages') \in 1 .. Len(messages) - 1
      BY <1>3, <2>3, EmptySeq
    <3>2. messages'[Len(messages')] = messages[Len(messages)]
      BY <1>3, <3>1
    <3> QED
      BY <1>1, <2>1, <2>3, <3>2 DEF ButtonWill
  <2> QED
    BY <2>2, <2>3
<1>9. OneProgram'
  <2>1. \A u : Latest(u)' <=> Latest(u)
    BY <1>1 DEF Latest, Started
  <2> QED
    BY <1>1, <1>5, <2>1 DEF RunInv, OneProgram
<1> QED
  BY <1>4, <1>6, <1>7, <1>8, <1>9 DEF RunInv

LEMMA RunCloseKeeps == ASSUME RunInv, Run!Close PROVE RunInv'
<1>1. /\ disposed' = TRUE
      /\ UNCHANGED <<queue, phase, execution, task, notified, messages, running>>
  BY DEF Run!Close
<1>2. Run!TypeOK'
  BY <1>1, TypesMean, TypesMeanNext DEF RunInv, Typed
<1>3. Started' = Started /\ Over' = Over
  BY <1>1 DEF Started, Over
<1> QED
  BY <1>1, <1>2, <1>3 DEF RunInv, StartedInOrder, MessagesFit

LEMMA RunRests == ASSUME RunInv, UNCHANGED run PROVE RunInv'
<1>1. UNCHANGED <<queue, phase, execution, task, notified, disposed, messages, running>>
  BY DEF run
<1>2. Run!TypeOK'
  BY <1>1, TypesMean, TypesMeanNext DEF RunInv, Typed
<1>3. Started' = Started /\ Over' = Over /\ Run!Live' = Run!Live
  BY <1>1 DEF Started, Over, Run!Live
<1> QED
  BY <1>1, <1>2, <1>3, StartedStays DEF RunInv

\* Nothing has been started at first.
LEMMA RunInitHolds == Run!Init => RunInv
<1> SUFFICES ASSUME Run!Init PROVE RunInv
  OBVIOUS
<1>1. /\ queue = <<>> /\ phase = "idle" /\ execution = 0
      /\ task = [t \in Run!Task |-> "none"] /\ notified = {}
      /\ disposed = FALSE /\ messages = <<>> /\ running = FALSE
  BY DEF Run!Init
<1>2. Run!TypeOK
  <2>1. /\ queue \in Seq({"run", "stop"}) /\ Len(queue) = 0
        /\ messages \in Seq(BOOLEAN) /\ Len(messages) = 0
    BY <1>1, EmptySeq
  <2>2. 0 <= MaxClicks /\ 0 <= 2 * MaxTasks
    BY RunAssumption
  <2>3. task \in [1 .. MaxTasks -> {"none", "alive", "ending", "ended"}]
    BY <1>1 DEF Run!Task
  <2>4. Typed
    BY <1>1, <2>1, <2>2, <2>3 DEF Typed
  <2> QED
    BY <2>4, TypesMean
<1>3. Started = {} /\ Run!Live = {}
  BY <1>1 DEF Started, Run!Live
<1>4. MessagesFit
  <2>1. Len(messages) = 0 /\ Cardinality(Started) = 0 /\ Cardinality(notified) = 0
    BY <1>1, <1>3, EmptySeq, FS_EmptySet
  <2> QED
    BY <1>1, <2>1 DEF MessagesFit
<1>5. ButtonWill /\ OneProgram
  BY <1>1, <1>3 DEF ButtonWill, OneProgram
<1> QED
  BY <1>1, <1>2, <1>3, <1>4, <1>5 DEF RunInv, StartedInOrder

\* Every step, of the run or of another subject, keeps the run's invariant.
LEMMA RunNextKeeps ==
  ASSUME RunInv, [MCNext]_<<subject, pieces, vars, run>> PROVE RunInv'
<1>1. CASE Run!Next
  <2>1. CASE \E a \in {"run", "stop"} : Run!Click(a)
    BY <2>1, ClickKeeps
  <2>2. CASE Run!HandleStop
    BY <2>2, HandleStopKeeps
  <2>3. CASE Run!HandleRun
    BY <2>3, HandleRunKeeps
  <2>4. CASE Run!Saved
    BY <2>4, SavedKeeps
  <2>5. CASE Run!Launched
    BY <2>5, LaunchedKeeps
  <2>6. CASE Run!RunState
    BY <2>6, RunStateKeeps
  <2>7. CASE Run!Close
    BY <2>7, RunCloseKeeps
  <2>8. CASE \E t \in Run!Task : Run!ProgramEnds(t) \/ Run!TaskEnded(t)
    BY <2>8, ProgramEndsKeeps, TaskEndedKeeps
  <2> QED
    BY <1>1, <2>1, <2>2, <2>3, <2>4, <2>5, <2>6, <2>7, <2>8 DEF Run!Next
<1>2. CASE UNCHANGED run
  BY <1>2, RunRests
<1>3. Run!Next \/ UNCHANGED run
  BY DEF MCNext
<1> QED
  BY <1>1, <1>2, <1>3

\* Every step, of the services or of another subject, keeps the services' invariant.
LEMMA ServicesNextKeeps ==
  ASSUME IInv, [MCNext]_<<subject, pieces, vars, run>> PROVE IInv'
<1>1. [Next]_vars
  BY DEF MCNext
<1> QED
  BY <1>1, NextKeeps
-----------------------------------------------------------------------------
\* What is true of a program and its stop button in every state, however many
\* tasks are started and however many messages wait (rtleditorprovider.js:
\* runDocument, onDidEndTask, stop; webviewEditor.js: runState).
THEOREM RunInvariant == MCSpec => []RunInv
<1>1. MCInit => RunInv
  BY RunInitHolds DEF MCInit
<1>2. RunInv /\ [MCNext]_<<subject, pieces, vars, run>> => RunInv'
  BY RunNextKeeps
<1> QED
  BY <1>1, <1>2, PTL DEF MCSpec

\* The stop button is there exactly while the editor's own program has not been
\* reported as ended, and there is never a second program beside it.
THEOREM ButtonAgreesHolds == MCSpec => []ButtonAgrees
<1>1. RunInv => ButtonAgrees
  BY DEF RunInv, ButtonWill, OneProgram, ButtonAgrees, Run!ButtonAgrees
<1> QED
  BY <1>1, RunInvariant, PTL

\* Every variable of the services and of the run keeps its type; in particular
\* no more messages are under way than tasks began and ended.
THEOREM TypesAgreeHolds == MCSpec => []TypesAgree
<1>1. MCInit => IInv
  BY InitHolds DEF MCInit
<1>2. IInv /\ [MCNext]_<<subject, pieces, vars, run>> => IInv'
  BY ServicesNextKeeps
<1>3. IInv /\ RunInv => TypesAgree
  BY DEF IInv, RunInv, TypesAgree
<1> QED
  BY <1>1, <1>2, <1>3, RunInvariant, PTL DEF MCSpec

-----------------------------------------------------------------------------
(* The edit that turns one text into another.                               *)

\* Every half of a pair is beside its other half.
Paired(text) ==
  /\ text \in Seq(Unit)
  /\ \A i \in DOMAIN text :
       /\ text[i] \in High => i + 1 \in DOMAIN text /\ text[i + 1] \in Low
       /\ text[i] \in Low => i - 1 \in DOMAIN text /\ text[i - 1] \in High

\* What lies between two offsets of a text.
LEMMA PartIs ==
  ASSUME NEW text \in Seq(Unit), NEW from \in Nat, NEW to \in Nat, from <= to, to <= Len(text)
  PROVE  LET part == SubSeq(text, from + 1, to) IN
         /\ part \in Seq(Unit) /\ Len(part) = to - from
         /\ \A j \in 1 .. to - from : part[j] = text[from + j]
<1> DEFINE a    == from + 1
           part == SubSeq(text, a, to)
<1>1. a \in Int /\ to \in Int /\ Len(text) \in Nat
  OBVIOUS
<1>2. \A i \in a .. to : text[i] \in Unit
  <2>1. \A i \in 1 .. Len(text) : text[i] \in Unit
    OBVIOUS
  <2> QED
    BY <1>1, <2>1
<1>3. (IF a <= to THEN to - a + 1 ELSE 0) = to - from /\ to - a + 1 = to - from
  OBVIOUS
<1>4. \A j \in 1 .. to - from : a + j - 1 = from + j
  OBVIOUS
<1> HIDE DEF a
<1>5. /\ part \in Seq(Unit) /\ Len(part) = to - from
      /\ \A j \in 1 .. to - a + 1 : part[j] = text[a + j - 1]
  BY <1>1, <1>2, <1>3, SubSeqProperties
<1>6. \A j \in 1 .. to - from : part[j] = text[from + j]
  BY <1>3, <1>4, <1>5
<1> QED
  BY <1>5, <1>6 DEF a

\* The units that two texts have in common at their beginnings.
Same(before, after) ==
  Max({i \in 0 .. Len(before) : i <= Len(after) /\ \A j \in 1 .. i : before[j] = after[j]})

LEMMA SameIs ==
  ASSUME NEW before \in Seq(Unit), NEW after \in Seq(Unit)
  PROVE  LET s == Same(before, after) IN
         /\ s \in Nat /\ s <= Len(before) /\ s <= Len(after)
         /\ \A j \in 1 .. s : before[j] = after[j]
         /\ before = after => s = Len(before)
<1> DEFINE T == {i \in 0 .. Len(before) : i <= Len(after) /\ \A j \in 1 .. i : before[j] = after[j]}
           s == Max(T)
<1>1. Len(before) \in Nat /\ Len(after) \in Nat
  OBVIOUS
<1>2. T \subseteq Nat /\ 0 \in T /\ \A m \in T : m <= Len(before)
  BY <1>1
<1>3. s \in T /\ \A m \in T : m <= s
  <2> HIDE DEF T
  <2> QED
    BY <1>1, <1>2, GreatestNumber
<1>4. before = after => Len(before) \in T
  BY <1>1
<1>5. before = after => s = Len(before)
  <2> HIDE DEF s
  <2> QED
    BY <1>1, <1>3, <1>4
<1>6. s \in Nat /\ s <= Len(before) /\ s <= Len(after) /\ \A j \in 1 .. s : before[j] = after[j]
  <2> HIDE DEF s
  <2> QED
    BY <1>1, <1>3
<1> QED
  BY <1>5, <1>6 DEF Same

LEMMA CommonTailIs ==
  ASSUME NEW before \in Seq(Unit), NEW after \in Seq(Unit), NEW same \in Nat,
         same <= Len(before), same <= Len(after)
  PROVE  LET k == CommonTail(before, after, same) IN
         /\ k \in Nat /\ k <= Len(before) - same /\ k <= Len(after) - same
         /\ \A j \in 0 .. k - 1 : before[Len(before) - j] = after[Len(after) - j]
<1> DEFINE T == {k \in 0 .. Len(before) - same :
                   /\ k <= Len(after) - same
                   /\ \A j \in 0 .. k - 1 : before[Len(before) - j] = after[Len(after) - j]}
           k == Max(T)
<1>1. Len(before) \in Nat /\ Len(after) \in Nat
  OBVIOUS
<1>2. T \subseteq Nat /\ 0 \in T /\ \A m \in T : m <= Len(before)
  BY <1>1
<1>3. k \in T
  <2> HIDE DEF T
  <2> QED
    BY <1>1, <1>2, GreatestNumber
<1>4. k \in Nat /\ k <= Len(before) - same /\ k <= Len(after) - same
      /\ \A j \in 0 .. k - 1 : before[Len(before) - j] = after[Len(after) - j]
  <2> HIDE DEF k
  <2> QED
    BY <1>1, <1>3
<1> QED
  BY <1>4 DEF CommonTail

\* The units of a text are divided between the boundaries.
LEMMA BoundaryIs ==
  ASSUME NEW text, Paired(text), NEW i \in 0 .. Len(text)
  PROVE  i \notin Boundaries(text) =>
           /\ i \in 1 .. Len(text) - 1 /\ text[i] \in High /\ text[i + 1] \in Low
<1> SUFFICES ASSUME i \notin Boundaries(text)
             PROVE  i \in 1 .. Len(text) - 1 /\ text[i] \in High /\ text[i + 1] \in Low
  OBVIOUS
<1> DEFINE n == Len(text)
<1>1. n \in Nat /\ DOMAIN text = 1 .. n /\ i \in 0 .. n
  BY DEF Paired
<1>2. ~(i = n \/ text[i + 1] \notin Low)
  BY DEF Boundaries
<1> HIDE DEF n
<1>3. i # n /\ text[i + 1] \in Low /\ i + 1 \in 1 .. n
  BY <1>1, <1>2
<1> DEFINE k == i + 1
<1>4. k \in DOMAIN text /\ text[k] \in Low /\ k - 1 = i
  BY <1>1, <1>3
<1> HIDE DEF k
<1>5. i \in DOMAIN text /\ text[i] \in High
  BY <1>4 DEF Paired
<1>6. i \in 1 .. n - 1
  BY <1>1, <1>3, <1>5
<1> QED
  BY <1>3, <1>5, <1>6 DEF n

\* A change makes one text of the other and begins where ChangeApplies says.
LEMMA ChangeAppliesIs ==
  ASSUME NEW before, NEW after, Paired(before), Paired(after)
  PROVE  ChangeApplies(before, after)
<1> DEFINE m    == Len(before)
           n    == Len(after)
           same == Same(before, after)
           tail == CommonTail(before, after, same)
           from == IF same > 0 /\ before[same] \in High THEN same - 1 ELSE same
           to   == m - tail
           rest == n - tail
           insert == SubSeq(after, from + 1, rest)
           change == [from |-> from, to |-> to, insert |-> insert]
<1>1. /\ before \in Seq(Unit) /\ after \in Seq(Unit) /\ m \in Nat /\ n \in Nat
      /\ DOMAIN before = 1 .. m /\ DOMAIN after = 1 .. n
      /\ before = after => m = n
  BY DEF Paired
<1>2. /\ same \in Nat /\ same <= m /\ same <= n /\ \A j \in 1 .. same : before[j] = after[j]
      /\ before = after => same = m
  BY <1>1, SameIs
<1>3. TextChange(before, after) = change
  BY DEF TextChange, Same
<1>4. /\ tail \in Nat /\ tail <= m - same /\ tail <= n - same
      /\ \A j \in 0 .. tail - 1 : before[m - j] = after[n - j]
  <2> HIDE DEF same
  <2> QED
    BY <1>1, <1>2, CommonTailIs
<1> HIDE DEF same, tail, m, n
<1>5. /\ from \in Nat /\ to \in Nat /\ rest \in Nat /\ m \in Nat /\ n \in Nat /\ same \in Nat
      /\ from <= same /\ same <= to /\ same <= rest /\ to <= m /\ rest <= n
      /\ from <= to /\ from <= rest /\ from <= m /\ same <= m /\ same <= n
  BY <1>1, <1>2, <1>4
<1>6. from = same - 1 => same \in 1 .. m /\ before[same] \in High /\ after[same] \in High
  <2> SUFFICES ASSUME from = same - 1
               PROVE  same \in 1 .. m /\ before[same] \in High /\ after[same] \in High
    OBVIOUS
  <2>1. same > 0 /\ before[same] \in High
    BY <1>5
  <2>2. same \in 1 .. m /\ same \in 1 .. same
    BY <1>5, <2>1
  <2> QED
    BY <1>2, <2>1, <2>2
<1>7. from = same - 1 \/ (from = same /\ ~(same > 0 /\ before[same] \in High))
  OBVIOUS
<1> HIDE DEF from, to, rest
<1>8. /\ insert \in Seq(Unit) /\ Len(insert) = rest - from
      /\ \A j \in 1 .. rest - from : insert[j] = after[from + j]
  <2>1. rest <= Len(after)
    BY <1>5 DEF n
  <2> QED
    BY <1>1, <1>5, <2>1, PartIs
<1> HIDE DEF insert
<1>9. change.from = from /\ change.to = to /\ change.insert = insert
  OBVIOUS
<1> HIDE DEF change
<1>10. Expected(before, change) = after
  <2> DEFINE head == SubSeq(before, 1, from)
             end  == SubSeq(before, to + 1, m)
             both == head \o insert
             all  == both \o end
  <2>1. /\ head \in Seq(Unit) /\ Len(head) = from /\ \A j \in 1 .. from : head[j] = before[j]
    <3>1. from <= Len(before) /\ 0 \in Nat /\ 0 <= from
      BY <1>5 DEF m
    <3>2. /\ SubSeq(before, 0 + 1, from) \in Seq(Unit)
          /\ Len(SubSeq(before, 0 + 1, from)) = from - 0
          /\ \A j \in 1 .. from - 0 : SubSeq(before, 0 + 1, from)[j] = before[0 + j]
      BY <1>1, <1>5, <3>1, PartIs
    <3>3. 0 + 1 = 1 /\ from - 0 = from /\ \A j \in 1 .. from : 0 + j = j
      BY <1>5
    <3> QED
      BY <3>2, <3>3
  <2>2. /\ end \in Seq(Unit) /\ Len(end) = m - to /\ \A j \in 1 .. m - to : end[j] = before[to + j]
    <3>1. m <= Len(before)
      <4>1. Len(before) = m
        BY DEF m
      <4> QED
        BY <1>5, <4>1
    <3> QED
      BY <1>1, <1>5, <3>1, PartIs
  <2> HIDE DEF head, end
  <2>3. /\ both \in Seq(Unit) /\ Len(both) = rest
        /\ \A j \in 1 .. rest : both[j] = IF j <= from THEN head[j] ELSE insert[j - from]
    <3>1. from + (rest - from) = rest
      BY <1>5
    <3>2. /\ both \in Seq(Unit) /\ Len(both) = Len(head) + Len(insert)
          /\ \A j \in 1 .. Len(head) + Len(insert) :
               both[j] = IF j <= Len(head) THEN head[j] ELSE insert[j - Len(head)]
      BY <1>8, <2>1, ConcatProperties
    <3> QED
      BY <1>8, <2>1, <3>1, <3>2
  <2> HIDE DEF both
  <2>4. /\ all \in Seq(Unit) /\ Len(all) = n
        /\ \A j \in 1 .. n : all[j] = IF j <= rest THEN both[j] ELSE end[j - rest]
    <3>1. rest + (m - to) = n
      BY <1>1, <1>4 DEF to, rest
    <3>2. /\ all \in Seq(Unit) /\ Len(all) = Len(both) + Len(end)
          /\ \A j \in 1 .. Len(both) + Len(end) :
               all[j] = IF j <= Len(both) THEN both[j] ELSE end[j - Len(both)]
      BY <2>2, <2>3, ConcatProperties
    <3> QED
      BY <2>2, <2>3, <3>1, <3>2
  <2> HIDE DEF all
  <2>6. ASSUME NEW j \in 1 .. n PROVE all[j] = after[j]
    <3>1. CASE j <= from
      <4>1. all[j] = before[j]
        BY <1>1, <1>5, <2>1, <2>3, <2>4, <3>1
      <4>2. j \in 1 .. same
        BY <1>1, <1>2, <1>5, <3>1
      <4> QED
        BY <1>2, <4>1, <4>2
    <3>2. CASE ~(j <= from) /\ j <= rest
      <4>1. all[j] = insert[j - from]
        BY <1>1, <1>5, <2>3, <2>4, <3>2
      <4>2. j - from \in 1 .. rest - from /\ from + (j - from) = j
        BY <1>1, <1>5, <3>2
      <4> QED
        BY <1>8, <4>1, <4>2
    <3>3. CASE ~(j <= rest)
      <4>1. all[j] = end[j - rest]
        BY <2>4, <3>3
      <4>2. j - rest \in 1 .. m - to
        <5>1. m - to = n - rest
          BY <1>1, <1>4 DEF to, rest
        <5> QED
          BY <1>5, <3>3, <5>1
      <4>3. all[j] = before[to + (j - rest)]
        BY <2>2, <4>1, <4>2
      <4> DEFINE k == n - j
      <4>4. k \in 0 .. tail - 1 /\ to + (j - rest) = m - k /\ j = n - k
        BY <1>1, <1>4, <1>5, <3>3 DEF to, rest
      <4>5. before[m - k] = after[n - k]
        BY <1>4, <4>4
      <4> QED
        BY <4>3, <4>4, <4>5
    <3> QED
      BY <1>5, <3>1, <3>2, <3>3
  <2>7. all = after
    <3>1. Len(after) = n
      BY DEF n
    <3> QED
      BY <1>1, <2>4, <2>6, <3>1, SeqEqual
  <2> QED
    BY <1>9, <2>7 DEF Expected, all, both, head, end, m
<1>11. before = after <=> from = to /\ insert = <<>>
  <2>1. ASSUME before = after PROVE from = to /\ insert = <<>>
    <3>1. same = m /\ m = n /\ tail = 0
      BY <1>1, <1>2, <1>4, <2>1
    <3>2. from # same - 1
      <4> SUFFICES ASSUME from = same - 1 PROVE FALSE
        OBVIOUS
      <4>1. m \in DOMAIN before /\ before[m] \in High
        BY <1>1, <1>6, <3>1
      <4>2. m + 1 \in DOMAIN before
        BY <4>1 DEF Paired
      <4> QED
        BY <1>1, <4>2
    <3>3. from = same
      BY <1>7, <3>2
    <3>4. to = m /\ rest = m
      BY <1>1, <3>1 DEF to, rest
    <3>5. Len(insert) = 0
      BY <1>1, <1>8, <3>1, <3>3, <3>4
    <3> QED
      BY <1>8, <3>1, <3>3, <3>4, <3>5, EmptySeq
  <2>2. ASSUME from = to, insert = <<>> PROVE before = after
    <3>1. rest - from = 0
      BY <1>8, <2>2
    <3>2. rest = to
      BY <1>5, <2>2, <3>1
    <3>3. m = n
      BY <1>1, <1>4, <3>2 DEF to, rest
    <3>4. ASSUME NEW j \in 1 .. m PROVE before[j] = after[j]
      <4>1. CASE j <= same
        BY <1>2, <4>1
      <4>2. CASE ~(j <= same)
        <5> DEFINE k == m - j
        <5>1. k \in 0 .. tail - 1 /\ m - k = j /\ n - k = j
          BY <1>1, <1>2, <1>4, <1>5, <2>2, <3>3, <4>2 DEF to
        <5> HIDE DEF k
        <5>2. before[m - k] = after[n - k]
          BY <1>4, <5>1
        <5> QED
          BY <5>1, <5>2
      <4> QED
        BY <1>2, <4>1, <4>2
    <3>5. Len(before) = Len(after) /\ Len(before) = m
      BY <3>3 DEF m, n
    <3> QED
      BY <1>1, <3>4, <3>5, SeqEqual
  <2> QED
    BY <2>1, <2>2
<1>12. from \in Boundaries(before)
  <2> SUFFICES ASSUME from \notin Boundaries(before) PROVE FALSE
    OBVIOUS
  <2>1. from \in 0 .. m
    BY <1>5
  <2>2. from \in 1 .. m - 1 /\ before[from] \in High /\ before[from + 1] \in Low
    BY <2>1, BoundaryIs DEF m
  <2>3. from = same - 1
    BY <1>2, <1>7, <2>2
  <2>4. from + 1 = same
    BY <1>2, <2>3
  <2> QED
    BY <1>6, <2>2, <2>3, <2>4 DEF High, Low
<1>13. from \in Boundaries(after)
  <2> SUFFICES ASSUME from \notin Boundaries(after) PROVE FALSE
    OBVIOUS
  <2>1. from \in 0 .. n
    BY <1>5
  <2>2. from \in 1 .. n - 1 /\ after[from] \in High /\ after[from + 1] \in Low
    BY <2>1, BoundaryIs DEF n
  <2>3. from \in 1 .. same
    BY <1>2, <1>5, <2>2
  <2>4. before[from] \in High
    BY <1>2, <2>2, <2>3
  <2>5. from = same - 1
    BY <1>2, <1>7, <2>2, <2>4
  <2>6. from + 1 = same
    BY <1>2, <2>5
  <2> QED
    BY <1>6, <2>2, <2>5, <2>6 DEF High, Low
<1> QED
  BY <1>3, <1>9, <1>10, <1>11, <1>12, <1>13 DEF ChangeApplies

\* Texts without a half of a pair alone make such a text together.
LEMMA JoinIsPaired ==
  ASSUME NEW left, NEW right, Paired(left), Paired(right)
  PROVE  Paired(left \o right)
<1> DEFINE m   == Len(left)
           n   == Len(right)
           all == left \o right
<1>1. /\ left \in Seq(Unit) /\ right \in Seq(Unit) /\ m \in Nat /\ n \in Nat
      /\ DOMAIN left = 1 .. m /\ DOMAIN right = 1 .. n
  BY DEF Paired
<1>2. /\ all \in Seq(Unit) /\ Len(all) = m + n
      /\ \A i \in 1 .. m + n : all[i] = IF i <= m THEN left[i] ELSE right[i - m]
  BY <1>1, ConcatProperties
<1>3. DOMAIN all = 1 .. m + n
  BY <1>2
<1> HIDE DEF m, n, all
<1>4. ASSUME NEW i \in 1 .. m + n, all[i] \in High PROVE i + 1 \in 1 .. m + n /\ all[i + 1] \in Low
  <2>1. CASE i <= m
    <3>1. i \in DOMAIN left /\ left[i] \in High
      BY <1>1, <1>2, <1>4, <2>1
    <3>2. i + 1 \in 1 .. m /\ left[i + 1] \in Low
      BY <1>1, <3>1 DEF Paired
    <3> QED
      BY <1>1, <1>2, <3>2
  <2>2. CASE ~(i <= m)
    <3> DEFINE k == i - m
    <3>1. k \in 1 .. n /\ all[i] = right[k] /\ (i + 1) - m = k + 1
      BY <1>1, <1>2, <2>2
    <3> HIDE DEF k
    <3>2. k + 1 \in 1 .. n /\ right[k + 1] \in Low
      BY <1>1, <1>4, <3>1 DEF Paired
    <3>3. i + 1 \in 1 .. m + n /\ ~(i + 1 <= m)
      BY <1>1, <2>2, <3>1, <3>2
    <3> QED
      BY <1>2, <3>1, <3>2, <3>3
  <2> QED
    BY <2>1, <2>2
<1>5. ASSUME NEW i \in 1 .. m + n, all[i] \in Low PROVE i - 1 \in 1 .. m + n /\ all[i - 1] \in High
  <2>1. CASE i <= m
    <3>1. i \in DOMAIN left /\ left[i] \in Low
      BY <1>1, <1>2, <1>5, <2>1
    <3>2. i - 1 \in 1 .. m /\ left[i - 1] \in High
      BY <1>1, <3>1 DEF Paired
    <3> QED
      BY <1>1, <1>2, <3>2
  <2>2. CASE ~(i <= m)
    <3> DEFINE k == i - m
    <3>1. k \in 1 .. n /\ all[i] = right[k] /\ (i - 1) - m = k - 1
      BY <1>1, <1>2, <2>2
    <3> HIDE DEF k
    <3>2. k - 1 \in 1 .. n /\ right[k - 1] \in High
      BY <1>1, <1>5, <3>1 DEF Paired
    <3>3. i - 1 \in 1 .. m + n /\ ~(i - 1 <= m)
      BY <1>1, <2>2, <3>1, <3>2
    <3> QED
      BY <1>2, <3>1, <3>2, <3>3
  <2> QED
    BY <2>1, <2>2
<1> QED
  BY <1>2, <1>3, <1>4, <1>5 DEF Paired, all

\* The texts of which the changes are made are such texts.
LEMMA VocabularyIsPaired ==
  \A text \in Vocabulary.pairs : Paired(text)
<1>1. Vocabulary.pairs = {<<"a">>, <<"H", "L">>, <<"G", "L">>, <<"H", "M">>}
  BY DEF Vocabulary
<1>2. Paired(<<"a">>)
  BY DEF Paired, Unit, High, Low, Letter, Blank, Quote
<1>3. ASSUME NEW h \in High, NEW l \in Low PROVE Paired(<<h, l>>)
  <2> DEFINE t == <<h, l>>
  <2>1. t \in Seq(Unit) /\ DOMAIN t = 1 .. 2 /\ t[1] = h /\ t[2] = l
    BY DEF Unit
  <2>2. High \cap Low = {}
    BY DEF High, Low
  <2> HIDE DEF t
  <2>3. \A i \in DOMAIN t : i = 1 \/ i = 2
    BY <2>1
  <2> QED
    BY <2>1, <2>2, <2>3 DEF Paired, t
<1>4. {"H", "G"} \subseteq High /\ {"L", "M"} \subseteq Low
  BY DEF High, Low
<1> QED
  BY <1>1, <1>2, <1>3, <1>4

LEMMA FlattenedIsPaired ==
  ASSUME NEW parts \in Seq(Vocabulary.pairs)
  PROVE  Paired(FlattenSeq(parts))
<1> DEFINE N == Len(parts)
           Loop(f) == f = [i \in 1 .. Len(parts) |->
                             IF i = 1 THEN parts[i] ELSE f[i - 1] \o parts[i]]
           flatten == CHOOSE f : Loop(f)
           T    == {text \in Seq(Unit) : Paired(text)}
           inv  == [i \in 0 .. N |-> T]
           step == [p \in (1 .. N) \X T |-> p[2] \o parts[p[1]]]
<1>1. N \in Nat /\ \A i \in 1 .. N : Paired(parts[i]) /\ parts[i] \in Seq(Unit)
  BY VocabularyIsPaired DEF Paired
<1>2. Paired(<<>>)
  BY DEF Paired
<1>3. CASE N = 0
  <2>1. parts = <<>>
    BY <1>3, EmptySeq
  <2>2. FlattenSeq(parts) = parts
    BY <1>3 DEF FlattenSeq
  <2> QED
    BY <1>2, <2>1, <2>2
<1>4. CASE N # 0
  <2>1. FlattenSeq(parts) = flatten[N]
    BY <1>4 DEF FlattenSeq
  <2>2. \E f : Loop(f)
    <3>1. <<>> \in inv[0]
      BY <1>1, <1>2
    <3>2. ASSUME NEW i \in 1 .. N, NEW x \in inv[i - 1] PROVE step[<<i, x>>] \in inv[i] /\ step[<<i, x>>] = x \o parts[i]
      <4>1. x \in T /\ inv[i] = T
        BY <1>1
      <4>2. x \o parts[i] \in T
        BY <1>1, <4>1, JoinIsPaired DEF Paired
      <4> QED
        BY <4>1, <4>2
    <3> HIDE DEF step, inv, T
    <3>3. \A i \in 1 .. N : \A x \in inv[i - 1] : step[<<i, x>>] \in inv[i]
      BY <3>2
    <3>4. PICK f : Rounds(f, N, <<>>, step, inv)
      <4> HIDE DEF N
      <4> QED
        BY <1>1, <3>1, <3>3, IteratesExist
    <3>5. f[0] = <<>> /\ \A i \in 1 .. N : f[i] = f[i - 1] \o parts[i]
      <4>1. \A i \in 1 .. N : f[i - 1] \in inv[i - 1]
        BY <1>1, <3>4 DEF Rounds
      <4> QED
        BY <3>2, <3>4, <4>1 DEF Rounds
    <3> DEFINE g == [i \in 1 .. N |-> f[i]]
    <3>6. f[1] = parts[1]
      <4>1. 1 \in 1 .. N /\ parts[1] \in Seq(Unit)
        BY <1>1, <1>4
      <4>2. ASSUME NEW i \in 1 .. N, i = 1 PROVE f[i] = <<>> \o parts[i]
        <5>1. i - 1 = 0
          BY <4>2
        <5>2. f[i] = f[i - 1] \o parts[i]
          BY <3>5
        <5> QED
          BY <3>5, <5>1, <5>2
      <4>3. f[1] = <<>> \o parts[1]
        BY <4>1, <4>2
      <4> QED
        BY <4>1, <4>3, ConcatEmptySeq
    <3>7. \A i \in 1 .. N : g[i] = IF i = 1 THEN parts[i] ELSE g[i - 1] \o parts[i]
      <4>1. \A i \in 1 .. N : i # 1 => i - 1 \in 1 .. N
        BY <1>1
      <4> QED
        BY <3>5, <3>6, <4>1
    <3>8. Loop(g)
      BY <3>7
    <3> QED
      BY <3>8
  <2>3. Loop(flatten)
    <3> HIDE DEF Loop
    <3> QED
      BY <2>2
  <2>4. \A i \in 1 .. N : flatten[i] = IF i = 1 THEN parts[i] ELSE flatten[i - 1] \o parts[i]
    BY <2>3
  <2> HIDE DEF flatten, N
  <2> DEFINE Alone == {i \in 1 .. N : ~Paired(flatten[i])}
  <2>5. Alone = {}
    <3> SUFFICES ASSUME Alone # {} PROVE FALSE
      OBVIOUS
    <3>1. PICK i \in Alone : \A j \in Alone : i <= j
      <4>1. Alone \subseteq Nat
        BY <1>1
      <4> HIDE DEF Alone
      <4> QED
        BY <4>1, LeastNumber
    <3>2. i # 1
      BY <1>1, <2>4
    <3>3. i - 1 \in 1 .. N /\ Paired(flatten[i - 1])
      BY <1>1, <3>1, <3>2
    <3>4. flatten[i] = flatten[i - 1] \o parts[i] /\ Paired(parts[i])
      BY <1>1, <2>4, <3>2
    <3> QED
      BY <3>3, <3>4, JoinIsPaired
  <2> QED
    BY <1>1, <1>4, <2>1, <2>5
<1> QED
  BY <1>3, <1>4

\* While changes are looked at, the text grows by whole characters.
PiecesInv == subject = "pairs" => pieces \in Seq(Vocabulary.pairs)

LEMMA PiecesNextKeeps == PiecesInv /\ [MCNext]_<<subject, pieces, vars, run>> => PiecesInv'
<1> SUFFICES ASSUME PiecesInv, [MCNext]_<<subject, pieces, vars, run>>, subject' = "pairs"
             PROVE  pieces' \in Seq(Vocabulary.pairs)
  BY DEF PiecesInv
<1>1. subject = "pairs" /\ (pieces' = pieces \/ \E p \in Vocabulary.pairs : pieces' = Append(pieces, p))
  <2>1. CASE UNCHANGED <<subject, pieces>>
    BY <2>1
  <2>2. CASE Grow /\ UNCHANGED subject
    BY <2>2 DEF Grow
  <2>3. UNCHANGED <<subject, pieces>> \/ (Grow /\ UNCHANGED subject)
    BY DEF MCNext
  <2> QED
    BY <2>1, <2>2, <2>3
<1> QED
  BY <1>1 DEF PiecesInv

\* The edit that documentSync.js makes of two texts turns the one into the other, is
\* empty only for equal texts, and does not begin inside a pair; however long the
\* text is that grows.
THEOREM ChangesApplyHolds == MCSpec => []ChangesApply
<1>1. MCInit => PiecesInv
  BY DEF MCInit, PiecesInv
<1>2. PiecesInv /\ [MCNext]_<<subject, pieces, vars, run>> => PiecesInv'
  BY PiecesNextKeeps
<1>3. PiecesInv => ChangesApply
  <2> SUFFICES ASSUME PiecesInv, subject = "pairs", NEW after \in ShortTexts
               PROVE  ChangeApplies(Source, after)
    BY DEF ChangesApply
  <2>1. Paired(Source)
    BY FlattenedIsPaired DEF PiecesInv, Source
  <2>2. PICK n \in 0 .. Longest.pairs : \E p \in [1 .. n -> Vocabulary.pairs] : after = FlattenSeq(p)
    BY DEF ShortTexts
  <2>3. n \in Nat
    BY DEF Longest
  <2>4. PICK p \in [1 .. n -> Vocabulary.pairs] : after = FlattenSeq(p)
    BY <2>2
  <2>5. p \in Seq(Vocabulary.pairs)
    BY <2>3
  <2>6. Paired(after)
    BY <2>4, <2>5, FlattenedIsPaired
  <2> QED
    BY <2>1, <2>6, ChangeAppliesIs
<1> QED
  BY <1>1, <1>2, <1>3, PTL DEF MCSpec
=============================================================================
