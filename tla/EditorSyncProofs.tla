--------------------------- MODULE EditorSyncProofs ---------------------------
(***************************************************************************)
(* For any texts, bounds and disturbances: what the webview believes of a  *)
(* version is what the document had at it (VersionsAgree), no save or run  *)
(* is for a text the writer did not see (ActionsSeeDraft), and webview,    *)
(* provider and channels implement SharedText (KeepsPromises).  The second *)
(* half: with nobody else changing the file, whatever is lost, late or     *)
(* asked again, and however often, no retry makes a conflict, and with     *)
(* nothing under way buffer and file are the same (AloneAgrees).           *)
(***************************************************************************)
EXTENDS EditorSync, SequenceFacts

RequestType ==
  [type : {"ready"}] \cup [type : {"sync"}, recoveryId : Nat]
  \cup [type : {"edit"}, id : Nat \ {0}, base : Nat \ {0}, change : [of : Text, to : Text]]
  \cup [type : {"action"}, action : Actions, version : Nat \ {0}, seen : Text]

AnswerType ==
  [type : {"setText"}, text : Text, version : Nat \ {0}, rejected : BOOLEAN,
   authoritative : BOOLEAN, recoveryId : Nat]
  \cup [type : {"ack"}, id : Nat \ {0}, version : Nat \ {0}]

BusyType ==
  {Idle} \cup [kind : {"action"}, action : Actions]
  \cup [kind : {"edit"}, id : Nat \ {0}, version : Nat \ {0}, expected : Text,
        phase : {"asked", "applied", "refused"}]

\* A webview that knows of the document d only what d had; a webview in a conflict
\* awaits no edit, and one that has not received the file has nothing at all.
WebSound(w, d) ==
  /\ w \in WebType
  /\ w.flight.id <= w.sequence
  /\ IF IsOpen(w) THEN w.version <= Len(d) /\ w.base = d[w.version] /\ w.local \in Text
     ELSE w.flight = NoFlight /\ w.conflict = NoConflict /\ w.base = w.local
  /\ InConflict(w) =>
       /\ w.conflict.version \in w.version .. Len(d) /\ w.conflict.text = d[w.conflict.version]
       /\ w.flight = NoFlight

\* A message of the webview: an edit leads from the text of the version it names,
\* and has the identifier of the flight only if it is the flight.
RequestSound(m, w, d) ==
  /\ m.type = "edit" => /\ m.base <= Len(d) /\ m.change.of = d[m.base]
                        /\ m.id <= w.sequence
                        /\ m.id = w.flight.id => m.change.to = w.flight.text
  /\ m.type = "action" => m.version <= Len(d) /\ m.seen = d[m.version]
  /\ ~IsOpen(w) => m.type = "ready"

\* A message of the provider; an acknowledgement of the flight names a version
\* whose text is the flight's.
AnswerSound(m, w, d) ==
  /\ m.version <= Len(d)
  /\ m.type = "setText" => m.text = d[m.version]
  /\ m.type = "ack" => /\ m.id <= w.sequence
                       /\ m.id = w.flight.id => d[m.version] = w.flight.text
  /\ ~IsOpen(w) => m.type = "setText" /\ ~m.authoritative

BusySound(b, w, d) ==
  /\ b.kind = "edit" => /\ b.version <= Len(d) /\ b.id <= w.sequence
                        /\ b.id = w.flight.id => b.expected = w.flight.text
  /\ ~IsOpen(w) => b = Idle

\* What VS Code keeps for the next webview is the draft, unless the file has it.
Kept == saved = IF IsOpen(web) THEN Recovery(web) ELSE web.recovery

UsedType == [strokes : 0 .. MaxStrokes, presses : 0 .. MaxPresses,
             disturbances : 0 .. MaxDisturbances]

Typed == /\ doc \in Seq(Text) /\ doc # <<>>
         /\ toHost \in Seq(RequestType) /\ toWeb \in Seq(AnswerType)
         /\ host \in [ready : BOOLEAN, busy : BusyType]
         /\ saved \in Text \cup {NoText}
         /\ used \in UsedType

RequestsSound(messages, w, d) == \A i \in 1 .. Len(messages) : RequestSound(messages[i], w, d)
AnswersSound(messages, w, d)  == \A i \in 1 .. Len(messages) : AnswerSound(messages[i], w, d)

IInv == /\ Typed
        /\ WebSound(web, doc)
        /\ RequestsSound(toHost, web, doc)
        /\ AnswersSound(toWeb, web, doc)
        /\ BusySound(host.busy, web, doc)
        /\ "click" \notin Disturbances => Kept
-----------------------------------------------------------------------------
(* Channels.                                                                *)

\* What holds of every message of two sequences holds of their concatenation.
LEMMA JoinFacts ==
  ASSUME NEW S, NEW s \in Seq(S), NEW t \in Seq(S)
  PROVE  /\ s \o t \in Seq(S)
         /\ Len(s) \in Nat /\ Len(t) \in Nat /\ Len(s \o t) = Len(s) + Len(t)
         /\ \A i \in 1 .. Len(s) : (s \o t)[i] = s[i] /\ i \in 1 .. Len(s \o t)
         /\ \A i \in 1 .. Len(t) :
              (s \o t)[Len(s) + i] = t[i] /\ Len(s) + i \in 1 .. Len(s \o t)
         /\ \A i \in 1 .. Len(s \o t) :
              \/ i \in 1 .. Len(s) /\ (s \o t)[i] = s[i]
              \/ i - Len(s) \in 1 .. Len(t) /\ (s \o t)[i] = t[i - Len(s)]
<1>1. /\ s \o t \in Seq(S)
      /\ Len(s) \in Nat /\ Len(t) \in Nat /\ Len(s \o t) = Len(s) + Len(t)
      /\ \A i \in 1 .. Len(s) + Len(t) :
           (s \o t)[i] = IF i <= Len(s) THEN s[i] ELSE t[i - Len(s)]
  BY ConcatProperties, LenProperties
<1> QED
  BY <1>1

\* What is left after the first message.
LEMMA RestFacts ==
  ASSUME NEW S, NEW s \in Seq(S), s # <<>>
  PROVE  /\ Tail(s) \in Seq(S) /\ Head(s) \in S /\ Head(s) = s[1]
         /\ Len(s) \in Nat \ {0} /\ Len(Tail(s)) = Len(s) - 1
         /\ \A i \in 1 .. Len(Tail(s)) : Tail(s)[i] = s[i + 1] /\ i + 1 \in 1 .. Len(s)
<1>1. /\ Tail(s) \in Seq(S) /\ Head(s) \in S /\ Head(s) = s[1]
      /\ Len(s) \in Nat \ {0} /\ Len(Tail(s)) = Len(s) - 1
      /\ \A i \in 1 .. Len(Tail(s)) : Tail(s)[i] = s[i + 1]
  BY HeadTailProperties, EmptySeq, LenProperties
<1> QED
  BY <1>1

LEMMA EditsJoin ==
  ASSUME NEW s \in Seq(RequestType), NEW t \in Seq(RequestType)
  PROVE  EditsIn(s \o t) = EditsIn(s) \cup EditsIn(t)
<1> USE JoinFacts, s \in Seq(RequestType), t \in Seq(RequestType)
<1> HIDE DEF RequestType
<1>1. ASSUME NEW e \in EditsIn(s \o t) PROVE e \in EditsIn(s) \cup EditsIn(t)
  BY <1>1 DEF EditsIn
<1>2. ASSUME NEW e \in EditsIn(s) PROVE e \in EditsIn(s \o t)
  BY <1>2 DEF EditsIn
<1>3. ASSUME NEW e \in EditsIn(t) PROVE e \in EditsIn(s \o t)
  <2>1. PICK i \in 1 .. Len(t) : /\ t[i].type = "edit"
                                 /\ e = [of |-> t[i].base, text |-> t[i].change.to]
    BY <1>3 DEF EditsIn
  <2>2. (s \o t)[Len(s) + i] = t[i] /\ Len(s) + i \in 1 .. Len(s \o t)
    BY <2>1
  <2> QED
    BY <2>1, <2>2 DEF EditsIn
<1> QED
  BY <1>1, <1>2, <1>3

LEMMA EditsLeft ==
  ASSUME NEW s \in Seq(RequestType), s # <<>>
  PROVE  /\ EditsIn(Tail(s)) \subseteq EditsIn(s)
         /\ Head(s).type # "edit" => EditsIn(Tail(s)) = EditsIn(s)
         /\ Head(s).type = "edit" =>
              EditsIn(s) = EditsIn(Tail(s))
                           \cup {[of |-> Head(s).base, text |-> Head(s).change.to]}
<1> HIDE DEF RequestType
<1>1. /\ Tail(s) \in Seq(RequestType) /\ Head(s) = s[1]
      /\ Len(s) \in Nat \ {0} /\ Len(Tail(s)) = Len(s) - 1
      /\ \A i \in 1 .. Len(Tail(s)) : Tail(s)[i] = s[i + 1] /\ i + 1 \in 1 .. Len(s)
  BY RestFacts
<1>2. ASSUME NEW e \in EditsIn(Tail(s)) PROVE e \in EditsIn(s)
  BY <1>1, <1>2 DEF EditsIn
<1>3. ASSUME NEW e \in EditsIn(s)
      PROVE  \/ e \in EditsIn(Tail(s))
             \/ Head(s).type = "edit" /\ e = [of |-> Head(s).base, text |-> Head(s).change.to]
  <2>1. PICK i \in 1 .. Len(s) : /\ s[i].type = "edit"
                                 /\ e = [of |-> s[i].base, text |-> s[i].change.to]
    BY <1>3 DEF EditsIn
  <2>2. CASE i = 1
    BY <2>1, <2>2, <1>1
  <2>3. CASE i # 1
    <3>1. i - 1 \in 1 .. Len(Tail(s)) /\ (i - 1) + 1 = i
      BY <2>3, <1>1
    <3>2. Tail(s)[i - 1] = s[i]
      BY <3>1, <1>1
    <3> QED
      BY <2>1, <3>1, <3>2 DEF EditsIn
  <2> QED
    BY <2>2, <2>3
<1>4. Head(s).type = "edit" => [of |-> Head(s).base, text |-> Head(s).change.to] \in EditsIn(s)
  BY <1>1 DEF EditsIn
<1> QED
  BY <1>2, <1>3, <1>4
-----------------------------------------------------------------------------
(* What a handler makes of a webview.                                       *)

ResultType == [web : WebType, out : Seq(RequestType)]

\* r is a sound continuation of the webview w: what is still under way for w's
\* flight is not mistaken for anything r sends.
Continues(w, r, d) ==
  /\ r \in ResultType
  /\ WebSound(r.web, d) /\ IsOpen(r.web)
  /\ w.sequence <= r.web.sequence
  /\ r.web.flight \in {w.flight, NoFlight} \/ r.web.flight.id > w.sequence
  /\ RequestsSound(r.out, r.web, d)

\* The webviews differ at most in what they await and what is queued.
SameBuffer(v, w) == /\ v.version = w.version /\ v.base = w.base /\ v.local = w.local
                    /\ v.conflict = w.conflict /\ v.recovery = w.recovery

\* The webviews differ at most in what is queued and what is kept for recovery.
SameSync(v, w) == /\ v.version = w.version /\ v.base = w.base /\ v.local = w.local
                  /\ v.conflict = w.conflict /\ v.flight = w.flight /\ v.sequence = w.sequence

\* With a text awaited, r sends nothing; or with none, the whole draft it leaves.
Submits(r, awaited, d) ==
  \/ EditsIn(r.out) = {} /\ r.web.flight.text = awaited
  \/ /\ awaited = NoText /\ ~InConflict(r.web) /\ r.web.local # d[r.web.version]
     /\ r.web.flight.text = r.web.local
     /\ EditsIn(r.out) = {[of |-> r.web.version, text |-> r.web.local]}

LEMMA OpenFacts ==
  ASSUME NEW d \in Seq(Text), NEW w, WebSound(w, d), IsOpen(w)
  PROVE  /\ w.version \in 1 .. Len(d) /\ w.base = d[w.version] /\ w.base \in Text /\ w.local \in Text
         /\ w.sequence \in Nat /\ w.flight.id \in Nat /\ w.flight.id <= w.sequence
         /\ w.flight # NoFlight => w.flight.id # 0 /\ w.flight.text \in Text
<1>1. w.version \in 1 .. Len(d) /\ Len(d) \in Nat
  BY LenProperties DEF WebSound, WebType, IsOpen
<1>2. w.flight \in FlightType /\ w.sequence \in Nat
  BY DEF WebSound, WebType
<1>3. w.base \in Text
  BY <1>1, ElementOfSeq DEF WebSound
<1>4. CASE w.flight = NoFlight
  <2>1. w.flight.id = 0
    BY <1>4 DEF NoFlight
  <2> QED
    BY <1>1, <1>2, <1>3, <1>4, <2>1 DEF WebSound
<1>5. CASE w.flight # NoFlight
  <2>1. w.flight \in [id : Nat \ {0}, text : Text]
    BY <1>2, <1>5 DEF FlightType
  <2> QED
    BY <1>1, <1>2, <1>3, <1>5, <2>1 DEF WebSound
<1> QED
  BY <1>4, <1>5

LEMMA NothingSent ==
  /\ <<>> \in Seq(RequestType) /\ EditsIn(<<>>) = {}
  /\ \A w, d : RequestsSound(<<>>, w, d)
<1>1. <<>> \in Seq(RequestType) /\ Len(<<>>) = 0
  BY EmptySeq
<1> QED
  BY <1>1 DEF EditsIn, RequestsSound

LEMMA OneSent ==
  ASSUME NEW m \in RequestType
  PROVE  /\ <<m>> \in Seq(RequestType)
         /\ m.type = "edit" => EditsIn(<<m>>) = {[of |-> m.base, text |-> m.change.to]}
         /\ m.type # "edit" => EditsIn(<<m>>) = {}
         /\ \A w, d : RequestSound(m, w, d) => RequestsSound(<<m>>, w, d)
<1> HIDE DEF RequestType
<1>1. <<m>> \in Seq(RequestType) /\ Len(<<m>>) = 1 /\ <<m>>[1] = m
  OBVIOUS
<1>2. \A i \in 1 .. Len(<<m>>) : <<m>>[i] = m
  BY <1>1
<1>3. m.type = "edit" => EditsIn(<<m>>) = {[of |-> m.base, text |-> m.change.to]}
  BY <1>1, <1>2 DEF EditsIn
<1>4. m.type # "edit" => EditsIn(<<m>>) = {}
  BY <1>1, <1>2 DEF EditsIn
<1>5. \A w, d : RequestSound(m, w, d) => RequestsSound(<<m>>, w, d)
  BY <1>2 DEF RequestsSound
<1> QED
  BY <1>1, <1>3, <1>4, <1>5

\* Nothing to send leaves the webview as it is.
LEMMA QuietFacts ==
  ASSUME NEW d, NEW w, WebSound(w, d), IsOpen(w)
  PROVE  Continues(w, Quiet(w), d) /\ Submits(Quiet(w), w.flight.text, d) /\ Quiet(w).web = w
<1>1. Quiet(w).web = w /\ Quiet(w).out = <<>> /\ Quiet(w) = [web |-> w, out |-> <<>>]
  BY DEF Quiet
<1>2. w \in WebType /\ w.sequence \in Nat
  BY DEF WebSound, WebType
<1>3. Quiet(w) \in ResultType
  BY <1>1, <1>2, NothingSent DEF ResultType
<1> QED
  BY <1>1, <1>2, <1>3, NothingSent DEF Continues, Submits

LEMMA FlushFacts ==
  ASSUME NEW d \in Seq(Text), NEW x, WebSound(x, d), IsOpen(x)
  PROVE  /\ Continues(x, Flush(x), d) /\ Submits(Flush(x), x.flight.text, d)
         /\ SameBuffer(Flush(x).web, x) /\ Flush(x).web.queued = x.queued
<1>1. CASE ~IsOpen(x) \/ x.flight # NoFlight \/ InConflict(x) \/ x.local = x.base
  <2>1. Flush(x) = Quiet(x)
    BY <1>1 DEF Flush
  <2> QED
    BY <2>1, QuietFacts DEF SameBuffer
<1>2. CASE ~(~IsOpen(x) \/ x.flight # NoFlight \/ InConflict(x) \/ x.local = x.base)
  <2> DEFINE flight == [id |-> x.sequence + 1, text |-> x.local]
             v == [x EXCEPT !.sequence = @ + 1, !.flight = flight]
             m == [type |-> "edit", id |-> x.sequence + 1, base |-> x.version,
                   change |-> [of |-> x.base, to |-> x.local]]
  <2>1. Flush(x) = [web |-> v, out |-> <<m>>]
    BY <1>2 DEF Flush
  <2>2. /\ x.version \in 1 .. Len(d) /\ x.base = d[x.version] /\ x.base \in Text /\ x.local \in Text
        /\ x.sequence \in Nat /\ x.flight.id <= x.sequence /\ Len(d) \in Nat
    BY OpenFacts, LenProperties
  <2>3. flight \in FlightType
    BY <2>2 DEF FlightType
  <2>4. x \in WebType
    BY DEF WebSound
  <2>5. /\ v.version = x.version /\ v.base = x.base /\ v.local = x.local /\ v.conflict = x.conflict
        /\ v.recovery = x.recovery /\ v.queued = x.queued
        /\ v.sequence = x.sequence + 1 /\ v.flight = flight
    BY <2>4 DEF WebType
  <2>6. v \in WebType
    <3>1. x.sequence + 1 \in Nat
      BY <2>2
    <3> HIDE DEF flight
    <3> QED
      BY <2>3, <2>4, <3>1 DEF WebType
  <2>7. m \in RequestType
    <3>1. x.version \in Nat \ {0} /\ x.sequence + 1 \in Nat \ {0}
      BY <2>2
    <3> QED
      BY <2>2, <3>1 DEF RequestType
  <2>8. flight.id = x.sequence + 1 /\ flight.text = x.local
    OBVIOUS
  <2> HIDE DEF flight, v
  <2>9. WebSound(v, d) /\ IsOpen(v)
    BY <1>2, <2>2, <2>5, <2>6, <2>8 DEF WebSound, IsOpen, InConflict
  <2>10. /\ m.type = "edit" /\ m.id = x.sequence + 1 /\ m.base = x.version
         /\ m.change = [of |-> x.base, to |-> x.local]
         /\ m.change.of = x.base /\ m.change.to = x.local
    OBVIOUS
  <2> HIDE DEF m
  <2>11. RequestSound(m, v, d)
    BY <2>2, <2>5, <2>8, <2>9, <2>10 DEF RequestSound, IsOpen
  <2>12. /\ Flush(x) \in ResultType /\ Flush(x).web = v /\ Flush(x).out = <<m>>
    BY <2>1, <2>6, <2>7, OneSent DEF ResultType
  <2>13. Continues(x, Flush(x), d)
    BY <2>2, <2>5, <2>7, <2>8, <2>9, <2>11, <2>12, OneSent DEF Continues
  <2>14. Submits(Flush(x), x.flight.text, d)
    BY <1>2, <2>2, <2>5, <2>7, <2>8, <2>9, <2>10, <2>12, OneSent DEF Submits, NoFlight, InConflict
  <2> QED
    BY <2>5, <2>12, <2>13, <2>14 DEF SameBuffer
<1> QED
  BY <1>1, <1>2

\* Queueing an action or forgetting the recovery text is of no consequence here.
LEMMA SameSyncFacts ==
  ASSUME NEW d, NEW w, NEW r, Continues(w, r, d), NEW v \in WebType, SameSync(v, r.web)
  PROVE  LET s == [r EXCEPT !.web = v] IN
         Continues(w, s, d) /\ s.web = v /\ s.out = r.out
<1> DEFINE s == [r EXCEPT !.web = v]
<1>1. r \in ResultType
  BY DEF Continues
<1>2. s \in ResultType /\ s.web = v /\ s.out = r.out
  BY <1>1 DEF ResultType
<1> HIDE DEF s
<1>3. \A m : RequestSound(m, r.web, d) => RequestSound(m, v, d)
  BY DEF SameSync, RequestSound, IsOpen
<1>4. RequestsSound(s.out, s.web, d)
  BY <1>2, <1>3 DEF Continues, RequestsSound
<1>5. WebSound(s.web, d) /\ IsOpen(s.web)
  BY <1>2 DEF Continues, WebSound, SameSync, IsOpen, InConflict
<1>6. Continues(w, s, d)
  BY <1>2, <1>4, <1>5 DEF Continues, SameSync
<1> QED
  BY <1>2, <1>6 DEF s

LEMMA FlushActionFacts ==
  ASSUME NEW d \in Seq(Text), NEW w, NEW r, Continues(w, r, d)
  PROVE  LET s == FlushAction(r) IN
         /\ Continues(w, s, d)
         /\ SameSync(s.web, r.web) /\ s.web.recovery = r.web.recovery
         /\ EditsIn(s.out) = EditsIn(r.out)
<1> DEFINE s == FlushAction(r)
           x == r.web
           v == [x EXCEPT !.queued = "none"]
           m == [type |-> "action", action |-> x.queued, version |-> x.version, seen |-> x.local]
<1>1. CASE x.queued = "none" \/ Pending(x) \/ InConflict(x) \/ ~IsOpen(x)
  <2>1. s = r
    BY <1>1 DEF FlushAction
  <2> HIDE DEF s
  <2> QED
    BY <2>1 DEF SameSync, s
<1>2. CASE ~(x.queued = "none" \/ Pending(x) \/ InConflict(x) \/ ~IsOpen(x))
  <2>1. r \in ResultType /\ x \in WebType /\ r.out \in Seq(RequestType) /\ WebSound(x, d) /\ IsOpen(x)
    BY DEF Continues, ResultType
  <2>2. s = [web |-> v, out |-> Append(r.out, m)]
    BY <1>2 DEF FlushAction
  <2>3. v \in WebType /\ SameSync(v, x) /\ v.recovery = x.recovery
    BY <2>1 DEF WebType, SameSync
  <2>4. /\ x.version \in 1 .. Len(d) /\ Len(d) \in Nat /\ x.base = d[x.version]
        /\ x.local \in Text /\ x.local = x.base
    BY <1>2, <2>1, OpenFacts, LenProperties DEF Pending
  <2>5. x.queued \in Actions
    BY <1>2, <2>1 DEF WebType
  <2>6. m \in RequestType /\ m.type = "action" /\ m.version = x.version /\ m.seen = x.local
    <3>1. x.version \in Nat \ {0}
      BY <2>4
    <3> QED
      BY <2>4, <2>5, <3>1 DEF RequestType
  <2> HIDE DEF x, v, m
  <2>7. s.web = v /\ s.out = r.out \o <<m>> /\ s = [web |-> v, out |-> r.out \o <<m>>]
    <3>1. Append(r.out, m) = r.out \o <<m>>
      BY <2>1, <2>6, AppendIsConcat
    <3> QED
      BY <2>2, <3>1
  <2>8. <<m>> \in Seq(RequestType) /\ EditsIn(<<m>>) = {}
    BY <2>6, OneSent
  <2> HIDE DEF s
  <2>9. s.out \in Seq(RequestType) /\ s \in ResultType
    <3>1. r.out \o <<m>> \in Seq(RequestType)
      BY <2>1, <2>8, JoinFacts
    <3> QED
      BY <2>3, <2>7, <3>1 DEF ResultType
  <2>10. EditsIn(s.out) = EditsIn(r.out)
    <3>1. EditsIn(r.out \o <<m>>) = EditsIn(r.out) \cup EditsIn(<<m>>)
      BY <2>1, <2>8, EditsJoin
    <3> QED
      BY <2>7, <2>8, <3>1
  <2>11. RequestSound(m, v, d)
    BY <2>1, <2>3, <2>4, <2>6 DEF RequestSound, SameSync, IsOpen
  <2>12. \A n : RequestSound(n, x, d) => RequestSound(n, v, d)
    BY <2>3 DEF SameSync, RequestSound, IsOpen
  <2>13. RequestsSound(s.out, v, d)
    <3>1. RequestsSound(r.out, x, d)
      BY DEF Continues, x
    <3>2. RequestsSound(<<m>>, v, d)
      BY <2>6, <2>11, OneSent
    <3> QED
      BY <2>1, <2>7, <2>8, <2>12, <3>1, <3>2, JoinFacts DEF RequestsSound
  <2>14. WebSound(v, d) /\ IsOpen(v)
    BY <2>1, <2>3 DEF WebSound, SameSync, IsOpen, InConflict
  <2>15. Continues(w, s, d)
    BY <2>3, <2>7, <2>9, <2>13, <2>14 DEF Continues, SameSync, x
  <2> QED
    BY <2>3, <2>7, <2>10, <2>15 DEF s, x
<1> QED
  BY <1>1, <1>2

\* What a handler can make of an open webview, as SharedText sees it.
Unmoved(w, r) ==
  /\ r.web.version = w.version /\ r.web.local = w.local
  /\ InConflict(r.web) <=> InConflict(w)
  /\ r.web.flight.text = w.flight.text /\ EditsIn(r.out) = {}

Rebased(w, r, d) ==
  /\ ~InConflict(w) /\ ~InConflict(r.web)
  /\ r.web.version \in w.version .. Len(d) /\ r.web.local = w.local
  /\ d[r.web.version] \in {d[w.version], w.flight.text, w.local}
  /\ Submits(r, w.flight.text, d) \/ Submits(r, NoText, d)

Followed(w, r, d) ==
  /\ ~InConflict(w) /\ ~InConflict(r.web) /\ w.local = d[w.version] /\ w.flight.text = NoText
  /\ r.web.version \in w.version .. Len(d) /\ r.web.local = d[r.web.version]
  /\ r.web.flight.text = NoText /\ EditsIn(r.out) = {}

Asked(w, r) ==
  /\ r.web.version = w.version /\ r.web.local = w.local
  /\ InConflict(r.web) /\ r.web.flight.text = NoText /\ EditsIn(r.out) = {}

Moved(w, r, d) == Unmoved(w, r) \/ Rebased(w, r, d) \/ Followed(w, r, d) \/ Asked(w, r)

\* The version a webview is told of.
LEMMA VersionFacts ==
  ASSUME NEW d \in Seq(Text), NEW w, WebSound(w, d), IsOpen(w), NEW n \in w.version .. Len(d)
  PROVE  n \in 1 .. Len(d) /\ n \in Nat /\ n # 0 /\ d[n] \in Text
<1>1. w.version \in 1 .. Len(d) /\ Len(d) \in Nat
  BY OpenFacts, LenProperties
<1>2. n \in 1 .. Len(d) /\ n \in Nat /\ n # 0
  BY <1>1
<1> QED
  BY <1>2, ElementOfSeq

LEMMA NoFlightFacts == NoFlight \in FlightType /\ NoFlight.id = 0 /\ NoFlight.text = NoText
BY DEF FlightType, NoFlight

\* A webview that is told of a later version of the file and takes it for its base.
LEMMA NewsFacts ==
  ASSUME NEW d \in Seq(Text), NEW w, WebSound(w, d), IsOpen(w), ~InConflict(w),
         NEW x \in WebType, x.version \in w.version .. Len(d), x.base = d[x.version],
         x.local \in Text, x.flight \in {w.flight, NoFlight},
         x.sequence = w.sequence, x.conflict = w.conflict
  PROVE  WebSound(x, d) /\ IsOpen(x) /\ ~InConflict(x)
<1>1. x.version \in 1 .. Len(d) /\ x.version # 0 /\ Len(d) \in Nat
  BY VersionFacts, LenProperties
<1>2. x.flight.id <= x.sequence
  BY OpenFacts, NoFlightFacts
<1> QED
  BY <1>1, <1>2 DEF WebSound, IsOpen, InConflict

LEMMA ContinuesFrom ==
  ASSUME NEW d, NEW w, NEW x, NEW r, Continues(x, r, d),
         x.sequence = w.sequence, x.flight \in {w.flight, NoFlight}
  PROVE  Continues(w, r, d)
BY DEF Continues

\* ... and a webview that is asked to choose.
LEMMA AskFacts ==
  ASSUME NEW d \in Seq(Text), NEW w, WebSound(w, d), IsOpen(w),
         NEW x \in WebType, x.conflict # NoConflict,
         x.conflict.version \in w.version .. Len(d), x.conflict.text = d[x.conflict.version],
         x.version = w.version, x.base = w.base, x.local = w.local, x.flight = NoFlight,
         x.sequence = w.sequence
  PROVE  WebSound(x, d) /\ IsOpen(x) /\ InConflict(x)
BY OpenFacts, NoFlightFacts DEF WebSound, IsOpen, InConflict

LEMMA AcknowledgeFacts ==
  ASSUME NEW d \in Seq(Text), NEW w, WebSound(w, d), IsOpen(w),
         NEW id, NEW n \in 1 .. Len(d), id = w.flight.id => d[n] = w.flight.text
  PROVE  LET r == Acknowledge(w, id, n) IN
         Continues(w, r, d) /\ Moved(w, r, d) /\ r.web.recovery = w.recovery
<1>1. CASE w.flight = NoFlight \/ id # w.flight.id \/ n < w.version
  <2>1. Acknowledge(w, id, n) = Quiet(w)
    BY <1>1 DEF Acknowledge
  <2> QED
    BY <2>1, QuietFacts, NothingSent DEF Moved, Unmoved, Quiet
<1>2. CASE ~(w.flight = NoFlight \/ id # w.flight.id \/ n < w.version)
  <2> DEFINE x == [w EXCEPT !.base = w.flight.text, !.version = n, !.flight = NoFlight]
  <2>1. Acknowledge(w, id, n) = Flush(x)
    BY <1>2 DEF Acknowledge
  <2>2. w \in WebType
    BY DEF WebSound
  <2>3. w.version \in 1 .. Len(d) /\ Len(d) \in Nat /\ w.local \in Text /\ w.flight.text \in Text
    BY <1>2, OpenFacts, LenProperties
  <2>4. n \in w.version .. Len(d) /\ n \in Nat /\ d[n] = w.flight.text
    BY <1>2, <2>3
  <2>5. /\ x.version = n /\ x.base = w.flight.text /\ x.local = w.local /\ x.flight = NoFlight
        /\ x.sequence = w.sequence /\ x.recovery = w.recovery /\ x.conflict = w.conflict
    BY <2>2 DEF WebType
  <2>6. x \in WebType
    BY <2>2, <2>3, <2>4, NoFlightFacts DEF WebType
  <2> HIDE DEF x
  <2>7. ~InConflict(w)
    BY <1>2 DEF WebSound
  <2>8. WebSound(x, d) /\ IsOpen(x) /\ ~InConflict(x)
    BY <2>3, <2>4, <2>5, <2>6, <2>7, NewsFacts
  <2>9. /\ Continues(x, Flush(x), d) /\ Submits(Flush(x), NoText, d)
        /\ SameBuffer(Flush(x).web, x)
    BY <2>5, <2>8, FlushFacts, NoFlightFacts
  <2>10. Continues(w, Flush(x), d)
    BY <2>5, <2>9, ContinuesFrom
  <2>11. Rebased(w, Flush(x), d)
    BY <2>4, <2>5, <2>7, <2>8, <2>9 DEF Rebased, SameBuffer, InConflict
  <2> QED
    BY <2>1, <2>5, <2>9, <2>10, <2>11 DEF Moved, SameBuffer
<1> QED
  BY <1>1, <1>2

\* An open webview takes a text of the file.
LEMMA ReceiveFacts ==
  ASSUME NEW d \in Seq(Text), NEW w, WebSound(w, d), IsOpen(w),
         NEW m, m.version \in 1 .. Len(d), m.text = d[m.version],
         m.rejected \in BOOLEAN, m.authoritative \in BOOLEAN
  PROVE  LET r == Receive(w, m) IN
         Continues(w, r, d) /\ Moved(w, r, d) /\ r.web.recovery = w.recovery
<1> DEFINE r == Receive(w, m)
<1>1. w \in WebType
  BY DEF WebSound
<1>2. /\ w.version \in 1 .. Len(d) /\ Len(d) \in Nat /\ w.local \in Text
      /\ w.base = d[w.version] /\ w.base \in Text
  BY OpenFacts, LenProperties
<1>3. CASE m.version < w.version \/ (m.authoritative /\ m.recoveryId # w.flight.id)
  <2>1. r = Quiet(w)
    BY <1>3 DEF Receive
  <2> QED
    BY <2>1, QuietFacts, NothingSent DEF Moved, Unmoved, Quiet
<1>4. CASE ~(m.version < w.version \/ (m.authoritative /\ m.recoveryId # w.flight.id))
  <2>1. /\ m.version \in w.version .. Len(d)
        /\ m.version \in Nat \ {0} /\ m.text \in Text
    <3>1. m.version \in w.version .. Len(d)
      BY <1>2, <1>4
    <3> QED
      BY <3>1, VersionFacts
  <2>2. CASE InConflict(w)
    <3> DEFINE offer == [text |-> m.text, version |-> m.version]
               x == [w EXCEPT !.conflict = offer]
    <3>1. r = Quiet(x)
      BY <1>4, <2>2 DEF Receive
    <3>2. offer \in [text : Text, version : Nat \ {0}] /\ offer # NoConflict
      BY <2>1 DEF NoConflict
    <3>3. offer.text = d[m.version] /\ offer.version = m.version
      OBVIOUS
    <3> HIDE DEF offer
    <3>4. /\ x.version = w.version /\ x.base = w.base /\ x.local = w.local /\ x.flight = w.flight
          /\ x.sequence = w.sequence /\ x.recovery = w.recovery /\ x.conflict = offer
      BY <1>1 DEF WebType
    <3>5. x \in WebType
      BY <1>1, <3>2 DEF WebType
    <3> HIDE DEF x
    <3>6. WebSound(x, d) /\ IsOpen(x) /\ InConflict(x)
      BY <2>1, <2>2, <3>2, <3>3, <3>4, <3>5 DEF WebSound, IsOpen, InConflict
    <3>7. Continues(x, r, d) /\ r.web = x /\ r.out = <<>>
      BY <3>1, <3>6, QuietFacts DEF Quiet
    <3>8. Continues(w, r, d)
      BY <3>4, <3>7, ContinuesFrom
    <3>9. Unmoved(w, r)
      BY <2>2, <3>4, <3>6, <3>7, NothingSent DEF Unmoved
    <3> QED
      BY <3>4, <3>7, <3>8, <3>9 DEF Moved
  <2>3. CASE ~InConflict(w) /\ ~m.rejected /\ w.flight # NoFlight /\ m.text = w.flight.text
    <3>1. r = Acknowledge(w, w.flight.id, m.version)
      BY <1>4, <2>3 DEF Receive
    <3>2. w.flight.id = w.flight.id => d[m.version] = w.flight.text
      BY <2>3
    <3> QED
      BY <3>1, <3>2, AcknowledgeFacts
  <2>4. CASE /\ ~InConflict(w) /\ ~(~m.rejected /\ w.flight # NoFlight /\ m.text = w.flight.text)
             /\ ~m.rejected /\ m.text = w.base /\ m.authoritative
    <3> DEFINE x == [w EXCEPT !.flight = NoFlight, !.version = m.version]
    <3>1. r = Flush(x)
      BY <1>4, <2>4 DEF Receive
    <3>2. /\ x.version = m.version /\ x.base = w.base /\ x.local = w.local /\ x.flight = NoFlight
          /\ x.sequence = w.sequence /\ x.recovery = w.recovery /\ x.conflict = w.conflict
      BY <1>1 DEF WebType
    <3>3. x \in WebType
      BY <1>1, <2>1, NoFlightFacts DEF WebType
    <3> HIDE DEF x
    <3>4. WebSound(x, d) /\ IsOpen(x) /\ ~InConflict(x)
      BY <1>2, <2>1, <2>4, <3>2, <3>3, NewsFacts
    <3>5. Continues(x, r, d) /\ Submits(r, NoText, d) /\ SameBuffer(r.web, x)
      BY <3>1, <3>2, <3>4, FlushFacts, NoFlightFacts
    <3>6. Continues(w, r, d)
      BY <3>2, <3>5, ContinuesFrom
    <3>7. Rebased(w, r, d)
      BY <1>2, <2>1, <2>4, <3>2, <3>4, <3>5 DEF Rebased, SameBuffer, InConflict
    <3> QED
      BY <3>2, <3>5, <3>6, <3>7 DEF Moved, SameBuffer
  <2>5. CASE /\ ~InConflict(w) /\ ~(~m.rejected /\ w.flight # NoFlight /\ m.text = w.flight.text)
             /\ ~m.rejected /\ m.text = w.base /\ ~m.authoritative
    <3> DEFINE x == [w EXCEPT !.version = m.version]
    <3>1. r = Quiet(x)
      BY <1>4, <2>5 DEF Receive
    <3>2. /\ x.version = m.version /\ x.base = w.base /\ x.local = w.local /\ x.flight = w.flight
          /\ x.sequence = w.sequence /\ x.recovery = w.recovery /\ x.conflict = w.conflict
      BY <1>1 DEF WebType
    <3>3. x \in WebType
      BY <1>1, <2>1 DEF WebType
    <3> HIDE DEF x
    <3>4. WebSound(x, d) /\ IsOpen(x) /\ ~InConflict(x)
      BY <1>2, <2>1, <2>5, <3>2, <3>3, NewsFacts
    <3>5. Continues(x, r, d) /\ Submits(r, w.flight.text, d) /\ r.web = x
      BY <3>1, <3>2, <3>4, QuietFacts
    <3>6. Continues(w, r, d)
      BY <3>2, <3>5, ContinuesFrom
    <3>7. Rebased(w, r, d)
      BY <1>2, <2>1, <2>5, <3>2, <3>4, <3>5 DEF Rebased
    <3> QED
      BY <3>2, <3>5, <3>6, <3>7 DEF Moved
  <2>6. CASE /\ ~InConflict(w) /\ (m.rejected \/ m.text # w.base)
             /\ ~(~m.rejected /\ w.flight # NoFlight /\ m.text = w.flight.text)
             /\ Pending(w) /\ m.text # w.local
    <3> DEFINE offer == [text |-> m.text, version |-> m.version]
               x == [w EXCEPT !.flight = NoFlight, !.conflict = offer]
    <3>1. r = Quiet(x)
      BY <1>4, <2>6 DEF Receive
    <3>2. /\ offer \in [text : Text, version : Nat \ {0}] /\ offer # NoConflict
          /\ offer.text = d[offer.version] /\ offer.version = m.version
      BY <2>1 DEF NoConflict
    <3> HIDE DEF offer
    <3>3. /\ x.version = w.version /\ x.base = w.base /\ x.local = w.local /\ x.flight = NoFlight
          /\ x.sequence = w.sequence /\ x.recovery = w.recovery /\ x.conflict = offer
      BY <1>1 DEF WebType
    <3>4. x \in WebType
      BY <1>1, <3>2, NoFlightFacts DEF WebType
    <3> HIDE DEF x
    <3>5. WebSound(x, d) /\ IsOpen(x) /\ InConflict(x)
      BY <2>1, <3>2, <3>3, <3>4, AskFacts
    <3>6. Continues(x, r, d) /\ r.web = x /\ r.out = <<>>
      BY <3>1, <3>5, QuietFacts DEF Quiet
    <3>7. Continues(w, r, d)
      BY <3>3, <3>6, ContinuesFrom
    <3>8. Asked(w, r)
      BY <3>5, <3>3, <3>6, NothingSent, NoFlightFacts DEF Asked
    <3> QED
      BY <3>3, <3>6, <3>7, <3>8 DEF Moved
  <2>7. CASE /\ ~InConflict(w) /\ (m.rejected \/ m.text # w.base)
             /\ ~(~m.rejected /\ w.flight # NoFlight /\ m.text = w.flight.text)
             /\ ~(Pending(w) /\ m.text # w.local)
    <3> DEFINE x == [w EXCEPT !.flight = NoFlight, !.base = m.text, !.local = m.text,
                              !.version = m.version]
    <3>1. r = Quiet(x)
      BY <1>4, <2>7 DEF Receive, Adopt
    <3>2. /\ x.version = m.version /\ x.base = m.text /\ x.local = m.text /\ x.flight = NoFlight
          /\ x.sequence = w.sequence /\ x.recovery = w.recovery /\ x.conflict = w.conflict
      BY <1>1 DEF WebType
    <3>3. x \in WebType
      BY <1>1, <2>1, NoFlightFacts DEF WebType
    <3> HIDE DEF x
    <3>4. WebSound(x, d) /\ IsOpen(x) /\ ~InConflict(x)
      BY <1>2, <2>1, <2>7, <3>2, <3>3, NewsFacts
    <3>5. Continues(x, r, d) /\ r.web = x /\ Submits(r, NoText, d) /\ EditsIn(r.out) = {}
      BY <3>1, <3>2, <3>4, QuietFacts, NothingSent, NoFlightFacts DEF Quiet
    <3>6. Continues(w, r, d)
      BY <3>2, <3>5, ContinuesFrom
    <3>7. CASE Pending(w)
      <4>1. Rebased(w, r, d)
        BY <2>1, <2>7, <3>2, <3>4, <3>5, <3>7 DEF Rebased
      <4> QED
        BY <3>2, <3>5, <3>6, <4>1 DEF Moved
    <3>8. CASE ~Pending(w)
      <4>1. Followed(w, r, d)
        BY <1>2, <2>1, <2>7, <3>2, <3>4, <3>5, <3>8, NoFlightFacts DEF Followed, Pending
      <4> QED
        BY <3>2, <3>5, <3>6, <4>1 DEF Moved
    <3> QED
      BY <3>7, <3>8
  <2> QED
    BY <2>2, <2>3, <2>4, <2>5, <2>6, <2>7
<1> QED
  BY <1>3, <1>4

LEMMA MovedAlike ==
  ASSUME NEW d, NEW w, NEW r, NEW s, Moved(w, r, d),
         SameSync(s.web, r.web), EditsIn(s.out) = EditsIn(r.out)
  PROVE  Moved(w, s, d)
<1> USE DEF SameSync, InConflict
<1>1. Unmoved(w, r) => Unmoved(w, s)
  BY DEF Unmoved
<1>2. Rebased(w, r, d) => Rebased(w, s, d)
  BY DEF Rebased, Submits
<1>3. Followed(w, r, d) => Followed(w, s, d)
  BY DEF Followed
<1>4. Asked(w, r) => Asked(w, s)
  BY DEF Asked
<1> QED
  BY <1>1, <1>2, <1>3, <1>4 DEF Moved

\* The first text opens the webview; a draft kept from before that differs from
\* the file is shown, and the writer asked.
Opened(w, r, d) ==
  /\ ~IsOpen(w) /\ r.web.version \in 1 .. Len(d)
  /\ r.web.local = IF w.recovery = NoText THEN d[r.web.version] ELSE w.recovery
  /\ InConflict(r.web) <=> r.web.local # d[r.web.version]
  /\ r.web.flight.text = w.flight.text /\ EditsIn(r.out) = {}

LEMMA OpenedAlike ==
  ASSUME NEW d, NEW w, NEW r, NEW s, Opened(w, r, d),
         SameSync(s.web, r.web), EditsIn(s.out) = EditsIn(r.out)
  PROVE  Opened(w, s, d)
BY DEF Opened, SameSync, InConflict

LEMMA RestoreFacts ==
  ASSUME NEW d \in Seq(Text), NEW w, WebSound(w, d),
         NEW m, m.version \in 1 .. Len(d), m.text = d[m.version],
         m.rejected \in BOOLEAN, m.authoritative \in BOOLEAN,
         ~IsOpen(w) => ~m.authoritative
  PROVE  LET r == Restore(w, m) IN
         /\ Continues(w, r, d)
         /\ IF IsOpen(w) THEN Moved(w, r, d) ELSE Opened(w, r, d)
<1> DEFINE q == Receive(w, m)
           r == Restore(w, m)
<1>1. w \in WebType
  BY DEF WebSound
<1>2. CASE IsOpen(w)
  <2> DEFINE v == [q.web EXCEPT !.recovery = NoText]
  <2>1. r = [q EXCEPT !.web = v]
    BY <1>2 DEF Restore
  <2>2. Continues(w, q, d) /\ Moved(w, q, d)
    BY <1>2, ReceiveFacts
  <2> HIDE DEF q, r
  <2>3. v \in WebType /\ SameSync(v, q.web)
    <3>1. q.web \in WebType
      BY <2>2 DEF Continues, ResultType
    <3> QED
      BY <3>1 DEF WebType, SameSync
  <2> HIDE DEF v
  <2>4. Continues(w, r, d) /\ r.web = v /\ r.out = q.out
    BY <2>1, <2>2, <2>3, SameSyncFacts
  <2>5. Moved(w, r, d)
    BY <2>2, <2>3, <2>4, MovedAlike
  <2> QED
    BY <1>2, <2>4, <2>5 DEF r
<1>3. CASE ~IsOpen(w)
  <2> DEFINE x == [w EXCEPT !.flight = NoFlight, !.base = m.text, !.local = m.text,
                            !.version = m.version]
  <2>1. w.version = 0 /\ w.flight = NoFlight /\ w.conflict = NoConflict /\ w.sequence \in Nat
    BY <1>1, <1>3 DEF WebSound, IsOpen, WebType
  <2>2. m.version \in Nat /\ m.version # 0 /\ m.text \in Text /\ Len(d) \in Nat /\ m.version <= Len(d)
    <3>1. Len(d) \in Nat
      BY LenProperties
    <3> QED
      BY <3>1, ElementOfSeq
  <2>3. q = Quiet(x)
    BY <1>3, <2>1, <2>2 DEF Receive, Adopt
  <2>4. /\ x.version = m.version /\ x.base = m.text /\ x.local = m.text /\ x.flight = NoFlight
        /\ x.sequence = w.sequence /\ x.recovery = w.recovery /\ x.conflict = NoConflict
    BY <1>1, <2>1 DEF WebType
  <2>5. x \in WebType
    BY <1>1, <2>2, NoFlightFacts DEF WebType
  <2> HIDE DEF x
  <2>6. WebSound(x, d) /\ IsOpen(x) /\ ~InConflict(x)
    BY <2>1, <2>2, <2>4, <2>5, NoFlightFacts DEF WebSound, IsOpen, InConflict
  <2>7. Continues(x, q, d) /\ q.web = x /\ q.out = <<>>
    BY <2>3, <2>6, QuietFacts DEF Quiet
  <2> HIDE DEF q
  <2>8. CASE w.recovery # NoText /\ w.recovery # m.text
    <3> DEFINE offer == [text |-> x.base, version |-> x.version]
               v == [x EXCEPT !.local = x.recovery, !.recovery = NoText, !.conflict = offer]
    <3>1. r = Quiet(v)
      BY <1>3, <2>4, <2>7, <2>8 DEF Restore, q
    <3>2. /\ offer \in [text : Text, version : Nat \ {0}] /\ offer # NoConflict
          /\ offer.text = d[offer.version] /\ offer.version = m.version
      BY <2>2, <2>4 DEF NoConflict
    <3>3. w.recovery \in Text
      BY <1>1, <2>8 DEF WebType
    <3> HIDE DEF offer
    <3>4. /\ v.version = m.version /\ v.base = m.text /\ v.local = w.recovery /\ v.flight = NoFlight
          /\ v.sequence = w.sequence /\ v.conflict = offer
      BY <2>4, <2>5 DEF WebType
    <3>5. v \in WebType
      BY <2>4, <2>5, <3>2, <3>3 DEF WebType
    <3> HIDE DEF v, r
    <3>6. WebSound(v, d) /\ IsOpen(v) /\ InConflict(v)
      BY <2>1, <2>2, <3>2, <3>3, <3>4, <3>5, NoFlightFacts DEF WebSound, IsOpen, InConflict
    <3>7. Continues(v, r, d) /\ r.web = v /\ r.out = <<>>
      BY <3>1, <3>6, QuietFacts DEF Quiet
    <3>8. Continues(w, r, d)
      BY <2>1, <3>4, <3>7, ContinuesFrom
    <3>9. Opened(w, r, d)
      BY <1>3, <2>1, <2>8, <3>4, <3>6, <3>7, NothingSent DEF Opened
    <3> QED
      BY <1>3, <3>8, <3>9 DEF r
  <2>9. CASE ~(w.recovery # NoText /\ w.recovery # m.text)
    <3> DEFINE v == [x EXCEPT !.recovery = NoText]
    <3>1. r = [q EXCEPT !.web = v]
      BY <2>4, <2>7, <2>9 DEF Restore, q
    <3>2. v \in WebType /\ SameSync(v, q.web)
      BY <2>5, <2>7 DEF WebType, SameSync
    <3> HIDE DEF v, r
    <3>3. Continues(x, r, d) /\ r.web = v /\ r.out = q.out
      BY <2>7, <3>1, <3>2, SameSyncFacts
    <3>4. Continues(w, r, d)
      BY <2>1, <2>4, <3>3, ContinuesFrom
    <3>5. Opened(w, r, d)
      BY <1>3, <2>1, <2>4, <2>6, <2>7, <2>9, <3>2, <3>3, NothingSent
      DEF Opened, SameSync, InConflict
    <3> QED
      BY <1>3, <3>4, <3>5 DEF r
  <2> QED
    BY <2>8, <2>9
<1> QED
  BY <1>2, <1>3

\* All a webview does with a text of the file.
LEMMA GetTextFacts ==
  ASSUME NEW d \in Seq(Text), NEW w, WebSound(w, d),
         NEW m, m.version \in 1 .. Len(d), m.text = d[m.version],
         m.rejected \in BOOLEAN, m.authoritative \in BOOLEAN,
         ~IsOpen(w) => ~m.authoritative
  PROVE  LET r == Restore(w, m)
             v == IF InConflict(r.web) THEN [r.web EXCEPT !.queued = "none"] ELSE r.web
             s == FlushAction([r EXCEPT !.web = v])
         IN  /\ Continues(w, s, d)
             /\ IF IsOpen(w) THEN Moved(w, s, d) ELSE Opened(w, s, d)
<1> DEFINE r == Restore(w, m)
           v == IF InConflict(r.web) THEN [r.web EXCEPT !.queued = "none"] ELSE r.web
           q == [r EXCEPT !.web = v]
           s == FlushAction(q)
<1>1. Continues(w, r, d) /\ IF IsOpen(w) THEN Moved(w, r, d) ELSE Opened(w, r, d)
  BY RestoreFacts
<1> HIDE DEF r
<1>2. v \in WebType /\ SameSync(v, r.web)
  <2>1. r.web \in WebType
    BY <1>1 DEF Continues, ResultType
  <2> QED
    BY <2>1 DEF WebType, SameSync
<1> HIDE DEF v
<1>3. Continues(w, q, d) /\ q.web = v /\ q.out = r.out
  BY <1>1, <1>2, SameSyncFacts
<1> HIDE DEF q
<1>4. /\ Continues(w, s, d) /\ SameSync(s.web, q.web) /\ EditsIn(s.out) = EditsIn(q.out)
  BY <1>3, FlushActionFacts
<1> HIDE DEF s
<1>5. SameSync(s.web, r.web) /\ EditsIn(s.out) = EditsIn(r.out)
  BY <1>2, <1>3, <1>4 DEF SameSync
<1>6. IF IsOpen(w) THEN Moved(w, s, d) ELSE Opened(w, s, d)
  BY <1>1, <1>5, MovedAlike, OpenedAlike
<1> QED
  BY <1>4, <1>6 DEF s, q, v, r

\* The writer has chosen between draft and file.
Chosen(w, r, d) ==
  /\ InConflict(w) /\ ~InConflict(r.web)
  /\ r.web.version \in w.version .. Len(d) /\ r.web.local \in {w.local, d[r.web.version]}
  /\ Submits(r, NoText, d)

LEMMA ResolveFacts ==
  ASSUME NEW d \in Seq(Text), NEW w, WebSound(w, d), InConflict(w), NEW keep \in BOOLEAN
  PROVE  LET r == ResolveWith(w, keep) IN
         Continues(w, r, d) /\ Chosen(w, r, d)
<1> DEFINE l == IF keep THEN w.local ELSE w.conflict.text
           x == [w EXCEPT !.base = w.conflict.text, !.version = w.conflict.version,
                          !.conflict = NoConflict, !.local = l, !.queued = "none"]
           r == ResolveWith(w, keep)
<1>1. r = Flush(x)
  BY DEF ResolveWith
<1>2. w \in WebType
  BY DEF WebSound
<1>3. /\ IsOpen(w) /\ w.flight = NoFlight
      /\ w.conflict.version \in w.version .. Len(d) /\ w.conflict.text = d[w.conflict.version]
  BY DEF WebSound, InConflict
<1>4. /\ w.local \in Text /\ w.sequence \in Nat
      /\ w.conflict.version \in 1 .. Len(d) /\ w.conflict.version \in Nat
      /\ w.conflict.version # 0 /\ w.conflict.text \in Text /\ Len(d) \in Nat
  BY <1>3, OpenFacts, VersionFacts, LenProperties
<1>5. l \in Text /\ l \in {w.local, d[w.conflict.version]}
  BY <1>3, <1>4
<1> HIDE DEF l
<1>6. /\ x.version = w.conflict.version /\ x.base = w.conflict.text /\ x.local = l
      /\ x.flight = NoFlight /\ x.sequence = w.sequence /\ x.conflict = NoConflict
  BY <1>2, <1>3 DEF WebType
<1>7. x \in WebType
  BY <1>2, <1>4, <1>5 DEF WebType
<1> HIDE DEF x, r
<1>8. WebSound(x, d) /\ IsOpen(x) /\ ~InConflict(x)
  BY <1>3, <1>4, <1>5, <1>6, <1>7, NoFlightFacts DEF WebSound, IsOpen, InConflict
<1>9. Continues(x, r, d) /\ Submits(r, NoText, d) /\ SameBuffer(r.web, x)
  BY <1>1, <1>6, <1>8, FlushFacts, NoFlightFacts
<1>10. Continues(w, r, d)
  BY <1>3, <1>6, <1>9, ContinuesFrom
<1>11. Chosen(w, r, d)
  BY <1>3, <1>5, <1>6, <1>8, <1>9 DEF Chosen, SameBuffer, InConflict
<1> QED
  BY <1>10, <1>11 DEF r

LEMMA TypingFacts ==
  ASSUME NEW d \in Seq(Text), NEW w, WebSound(w, d), IsOpen(w), NEW t \in Text
  PROVE  LET r == Flush([w EXCEPT !.local = t]) IN
         /\ Continues(w, r, d)
         /\ r.web.version = w.version /\ r.web.local = t /\ r.web.conflict = w.conflict
         /\ Submits(r, w.flight.text, d)
<1> DEFINE x == [w EXCEPT !.local = t]
<1>1. w \in WebType
  BY DEF WebSound
<1>2. /\ x.version = w.version /\ x.base = w.base /\ x.local = t /\ x.flight = w.flight
      /\ x.sequence = w.sequence /\ x.conflict = w.conflict /\ x \in WebType
  BY <1>1 DEF WebType
<1> HIDE DEF x
<1>3. WebSound(x, d) /\ IsOpen(x)
  BY <1>2 DEF WebSound, IsOpen, InConflict
<1>4. Continues(x, Flush(x), d) /\ Submits(Flush(x), w.flight.text, d) /\ SameBuffer(Flush(x).web, x)
  BY <1>2, <1>3, FlushFacts
<1>5. Continues(w, Flush(x), d)
  BY <1>2, <1>4, ContinuesFrom
<1> QED
  BY <1>2, <1>4, <1>5 DEF SameBuffer, x

LEMMA PressFacts ==
  ASSUME NEW d \in Seq(Text), NEW w, WebSound(w, d), IsOpen(w), NEW action \in Actions
  PROVE  LET r == FlushAction(Quiet([w EXCEPT !.queued = action])) IN
         Continues(w, r, d) /\ Unmoved(w, r)
<1> DEFINE x == [w EXCEPT !.queued = action]
           r == FlushAction(Quiet(x))
<1>1. w \in WebType
  BY DEF WebSound
<1>2. x \in WebType /\ SameSync(x, w)
  BY <1>1 DEF WebType, SameSync
<1> HIDE DEF x
<1>3. WebSound(x, d) /\ IsOpen(x)
  BY <1>2 DEF WebSound, SameSync, IsOpen, InConflict
<1>4. Continues(x, Quiet(x), d) /\ Quiet(x).web = x /\ EditsIn(Quiet(x).out) = {}
  BY <1>3, QuietFacts, NothingSent DEF Quiet
<1>5. Continues(x, r, d) /\ SameSync(r.web, x) /\ EditsIn(r.out) = {}
  BY <1>4, FlushActionFacts
<1> HIDE DEF r
<1>6. Continues(w, r, d)
  BY <1>2, <1>5, ContinuesFrom DEF SameSync
<1>7. Unmoved(w, r)
  BY <1>2, <1>5 DEF Unmoved, SameSync, InConflict
<1> QED
  BY <1>6, <1>7 DEF r, x
-----------------------------------------------------------------------------
(* What a step keeps.                                                       *)

\* An element of a union of record sets has the fields of its kind.
LEMMA RequestFacts ==
  ASSUME NEW m \in RequestType
  PROVE  /\ m.type \in {"ready", "sync", "edit", "action"}
         /\ m.type = "sync" => m.recoveryId \in Nat
         /\ m.type = "edit" => /\ m.id \in Nat \ {0} /\ m.base \in Nat \ {0}
                               /\ m.change \in [of : Text, to : Text]
                               /\ m.change.of \in Text /\ m.change.to \in Text
         /\ m.type = "action" => m.action \in Actions /\ m.version \in Nat \ {0} /\ m.seen \in Text
BY DEF RequestType

LEMMA AnswerFacts ==
  ASSUME NEW m \in AnswerType
  PROVE  /\ m.type \in {"setText", "ack"} /\ m.version \in Nat \ {0}
         /\ m.type = "setText" => /\ m.text \in Text /\ m.rejected \in BOOLEAN
                                  /\ m.authoritative \in BOOLEAN /\ m.recoveryId \in Nat
         /\ m.type = "ack" => m.id \in Nat \ {0}
BY DEF AnswerType

LEMMA BusyFacts ==
  ASSUME NEW b \in BusyType
  PROVE  /\ b.kind \in {"idle", "edit", "action"}
         /\ b.kind = "idle" => b = Idle
         /\ b.kind = "action" => b \in [kind : {"action"}, action : Actions]
         /\ b.kind = "edit" => /\ b \in [kind : {"edit"}, id : Nat \ {0}, version : Nat \ {0},
                                         expected : Text, phase : {"asked", "applied", "refused"}]
                               /\ b.id \in Nat \ {0} /\ b.version \in Nat \ {0}
                               /\ b.expected \in Text /\ b.phase \in {"asked", "applied", "refused"}
BY DEF BusyType, Idle

\* Nothing under way takes a new flight for its own.
LEMMA CarryFacts ==
  ASSUME NEW d, NEW w, NEW r, WebSound(w, d), Continues(w, r, d)
  PROVE  /\ \A m \in RequestType : RequestSound(m, w, d) => RequestSound(m, r.web, d)
         /\ \A m \in AnswerType : AnswerSound(m, w, d) => AnswerSound(m, r.web, d)
         /\ \A b \in BusyType : BusySound(b, w, d) => BusySound(b, r.web, d)
<1>1. /\ w.sequence \in Nat /\ r.web.sequence \in Nat /\ w.sequence <= r.web.sequence
      /\ IsOpen(r.web) /\ r.web.flight.id \in Nat
  <2>1. w \in WebType /\ r.web \in WebType /\ NoFlight.id = 0
    BY DEF WebSound, Continues, NoFlight
  <2>2. r.web.flight = NoFlight \/ r.web.flight \in [id : Nat \ {0}, text : Text]
    BY <2>1 DEF WebType, FlightType
  <2> QED
    BY <2>1, <2>2 DEF WebType, Continues
<1>2. ASSUME NEW n \in Nat \ {0}, n <= w.sequence, n = r.web.flight.id
      PROVE  r.web.flight = w.flight
  <2>1. r.web.flight # NoFlight
    BY <1>2, NoFlightFacts
  <2>2. ~(r.web.flight.id > w.sequence)
    BY <1>1, <1>2
  <2> QED
    BY <2>1, <2>2 DEF Continues
<1>3. ASSUME NEW n \in Nat \ {0}, n <= w.sequence PROVE n <= r.web.sequence
  BY <1>1, <1>3
<1>4. ASSUME NEW m \in RequestType, RequestSound(m, w, d) PROVE RequestSound(m, r.web, d)
  BY <1>1, <1>2, <1>3, <1>4, RequestFacts DEF RequestSound
<1>5. ASSUME NEW m \in AnswerType, AnswerSound(m, w, d) PROVE AnswerSound(m, r.web, d)
  BY <1>1, <1>2, <1>3, <1>5, AnswerFacts DEF AnswerSound
<1>6. ASSUME NEW b \in BusyType, BusySound(b, w, d) PROVE BusySound(b, r.web, d)
  BY <1>1, <1>2, <1>3, <1>6, BusyFacts DEF BusySound
<1> QED
  BY <1>4, <1>5, <1>6

\* The document only gets new texts.
LEMMA GrowthFacts ==
  ASSUME NEW d \in Seq(Text), NEW t \in Text, NEW w
  PROVE  LET e == Append(d, t) IN
         /\ e \in Seq(Text) /\ e # <<>> /\ Len(e) = Len(d) + 1 /\ Len(d) \in Nat /\ e[Len(e)] = t
         /\ WebSound(w, d) => WebSound(w, e)
         /\ \A m \in RequestType : RequestSound(m, w, d) => RequestSound(m, w, e)
         /\ \A m \in AnswerType : AnswerSound(m, w, d) => AnswerSound(m, w, e)
         /\ \A b \in BusyType : BusySound(b, w, d) => BusySound(b, w, e)
<1> DEFINE e == Append(d, t)
<1>1. /\ e \in Seq(Text) /\ e # <<>> /\ Len(e) = Len(d) + 1 /\ Len(d) \in Nat
      /\ e[Len(d) + 1] = t /\ \A i \in 1 .. Len(d) : e[i] = d[i]
  BY AppendFacts
<1> HIDE DEF e
<1>2. \A n \in Nat \ {0} : n <= Len(d) => n <= Len(e) /\ e[n] = d[n]
  BY <1>1
<1>3. ASSUME WebSound(w, d) PROVE WebSound(w, e)
  <2>1. w.version \in Nat /\ w \in WebType
    BY <1>3 DEF WebSound, WebType
  <2>2. InConflict(w) => w.conflict.version \in w.version .. Len(e)
                         /\ w.conflict.text = e[w.conflict.version]
    <3> SUFFICES ASSUME InConflict(w)
                 PROVE  w.conflict.version \in w.version .. Len(e)
                        /\ w.conflict.text = e[w.conflict.version]
      OBVIOUS
    <3>1. IsOpen(w)
      BY <1>3 DEF WebSound, InConflict
    <3>2. w.conflict.version \in Nat \ {0} /\ w.conflict.version <= Len(d)
      BY <1>1, <1>3, <2>1, <3>1 DEF WebSound, IsOpen
    <3> QED
      BY <1>1, <1>2, <1>3, <2>1, <3>2 DEF WebSound
  <2> QED
    BY <1>2, <1>3, <2>1, <2>2 DEF WebSound, IsOpen
<1>4. ASSUME NEW m \in RequestType, RequestSound(m, w, d) PROVE RequestSound(m, w, e)
  BY <1>2, <1>4, RequestFacts DEF RequestSound
<1>5. ASSUME NEW m \in AnswerType, AnswerSound(m, w, d) PROVE AnswerSound(m, w, e)
  BY <1>2, <1>5, AnswerFacts DEF AnswerSound
<1>6. ASSUME NEW b \in BusyType, BusySound(b, w, d) PROVE BusySound(b, w, e)
  BY <1>2, <1>6, BusyFacts DEF BusySound
<1> QED
  BY <1>1, <1>3, <1>4, <1>5, <1>6 DEF e

LEMMA DisturbFacts ==
  ASSUME Typed, NEW kind, Disturb(kind)
  PROVE  used' \in UsedType /\ used'.strokes = used.strokes /\ kind \in Disturbances
BY ConstantsAssumption DEF Typed, UsedType, Disturb

\* The rest of a channel, and a channel with sound messages more.
LEMMA RestSound ==
  ASSUME NEW w, NEW d
  PROVE  /\ \A q \in Seq(RequestType) : q # <<>> /\ RequestsSound(q, w, d) =>
              /\ Head(q) \in RequestType /\ RequestSound(Head(q), w, d)
              /\ Tail(q) \in Seq(RequestType) /\ RequestsSound(Tail(q), w, d)
         /\ \A q \in Seq(AnswerType) : q # <<>> /\ AnswersSound(q, w, d) =>
              /\ Head(q) \in AnswerType /\ AnswerSound(Head(q), w, d)
              /\ Tail(q) \in Seq(AnswerType) /\ AnswersSound(Tail(q), w, d)
<1> HIDE DEF RequestType, AnswerType
<1>1. ASSUME NEW q \in Seq(RequestType), q # <<>>, RequestsSound(q, w, d)
      PROVE  /\ Head(q) \in RequestType /\ RequestSound(Head(q), w, d)
             /\ Tail(q) \in Seq(RequestType) /\ RequestsSound(Tail(q), w, d)
  <2>1. /\ Tail(q) \in Seq(RequestType) /\ Head(q) \in RequestType /\ Head(q) = q[1]
        /\ Len(q) \in Nat \ {0}
        /\ \A i \in 1 .. Len(Tail(q)) : Tail(q)[i] = q[i + 1] /\ i + 1 \in 1 .. Len(q)
    BY <1>1, RestFacts
  <2>2. RequestSound(Head(q), w, d)
    <3>1. 1 \in 1 .. Len(q)
      BY <2>1
    <3> QED
      BY <1>1, <2>1, <3>1 DEF RequestsSound
  <2>3. RequestsSound(Tail(q), w, d)
    BY <1>1, <2>1 DEF RequestsSound
  <2> QED
    BY <2>1, <2>2, <2>3
<1>2. ASSUME NEW q \in Seq(AnswerType), q # <<>>, AnswersSound(q, w, d)
      PROVE  /\ Head(q) \in AnswerType /\ AnswerSound(Head(q), w, d)
             /\ Tail(q) \in Seq(AnswerType) /\ AnswersSound(Tail(q), w, d)
  <2>1. /\ Tail(q) \in Seq(AnswerType) /\ Head(q) \in AnswerType /\ Head(q) = q[1]
        /\ Len(q) \in Nat \ {0}
        /\ \A i \in 1 .. Len(Tail(q)) : Tail(q)[i] = q[i + 1] /\ i + 1 \in 1 .. Len(q)
    BY <1>2, RestFacts
  <2>2. AnswerSound(Head(q), w, d)
    <3>1. 1 \in 1 .. Len(q)
      BY <2>1
    <3> QED
      BY <1>2, <2>1, <3>1 DEF AnswersSound
  <2>3. AnswersSound(Tail(q), w, d)
    BY <1>2, <2>1 DEF AnswersSound
  <2> QED
    BY <2>1, <2>2, <2>3
<1> QED
  BY <1>1, <1>2

LEMMA PostSound ==
  ASSUME NEW w, NEW d
  PROVE  /\ \A q, p \in Seq(RequestType) : RequestsSound(q, w, d) /\ RequestsSound(p, w, d) =>
              q \o p \in Seq(RequestType) /\ RequestsSound(q \o p, w, d)
         /\ \A q, p \in Seq(AnswerType) : AnswersSound(q, w, d) /\ AnswersSound(p, w, d) =>
              q \o p \in Seq(AnswerType) /\ AnswersSound(q \o p, w, d)
<1> HIDE DEF RequestType, AnswerType
<1>1. ASSUME NEW q \in Seq(RequestType), NEW p \in Seq(RequestType),
             RequestsSound(q, w, d), RequestsSound(p, w, d)
      PROVE  q \o p \in Seq(RequestType) /\ RequestsSound(q \o p, w, d)
  BY <1>1, JoinFacts DEF RequestsSound
<1>2. ASSUME NEW q \in Seq(AnswerType), NEW p \in Seq(AnswerType),
             AnswersSound(q, w, d), AnswersSound(p, w, d)
      PROVE  q \o p \in Seq(AnswerType) /\ AnswersSound(q \o p, w, d)
  BY <1>2, JoinFacts DEF AnswersSound
<1> QED
  BY <1>1, <1>2

\* One message of the provider, or none.
LEMMA OneAnswer ==
  ASSUME NEW w, NEW d, NEW m \in AnswerType, AnswerSound(m, w, d)
  PROVE  <<m>> \in Seq(AnswerType) /\ AnswersSound(<<m>>, w, d)
<1> HIDE DEF AnswerType
<1>1. <<m>> \in Seq(AnswerType) /\ Len(<<m>>) = 1 /\ <<m>>[1] = m
  OBVIOUS
<1>2. \A i \in 1 .. Len(<<m>>) : <<m>>[i] = m
  BY <1>1
<1> QED
  BY <1>1, <1>2 DEF AnswersSound

LEMMA NoAnswer ==
  /\ <<>> \in Seq(AnswerType)
  /\ \A w, d : AnswersSound(<<>>, w, d)
<1>1. <<>> \in Seq(AnswerType) /\ Len(<<>>) = 0
  BY EmptySeq
<1> QED
  BY <1>1 DEF AnswersSound

\* A setText with the document's text.
LEMMA TextAnswer ==
  ASSUME NEW w, NEW d \in Seq(Text), d # <<>>, NEW rejected \in BOOLEAN,
         NEW authoritative \in BOOLEAN, IsOpen(w) \/ ~authoritative, NEW recoveryId \in Nat
  PROVE  LET m == [type |-> "setText", text |-> d[Len(d)], version |-> Len(d),
                   rejected |-> rejected, authoritative |-> authoritative,
                   recoveryId |-> recoveryId]
         IN  m \in AnswerType /\ AnswerSound(m, w, d)
<1>1. Len(d) \in Nat \ {0} /\ Len(d) \in 1 .. Len(d)
  BY EmptySeq
<1>2. d[Len(d)] \in Text
  BY <1>1, ElementOfSeq
<1> DEFINE m == [type |-> "setText", text |-> d[Len(d)], version |-> Len(d),
                 rejected |-> rejected, authoritative |-> authoritative,
                 recoveryId |-> recoveryId]
<1>3. m \in AnswerType
  BY <1>1, <1>2 DEF AnswerType
<1>4. /\ m.type = "setText" /\ m.text = d[m.version] /\ m.version = Len(d)
      /\ m.authoritative <=> authoritative
  OBVIOUS
<1> HIDE DEF m
<1>5. AnswerSound(m, w, d)
  BY <1>1, <1>4 DEF AnswerSound
<1> QED
  BY <1>3, <1>5 DEF m

LEMMA FullSyncFacts ==
  ASSUME NEW w, NEW d \in Seq(Text), d # <<>>, NEW rejected \in BOOLEAN,
         NEW authoritative \in BOOLEAN, IsOpen(w) \/ ~authoritative, NEW recoveryId \in Nat
  PROVE  LET messages == FullSync(d, rejected, authoritative, recoveryId) IN
         messages \in Seq(AnswerType) /\ AnswersSound(messages, w, d)
<1> DEFINE m == [type |-> "setText", text |-> d[Len(d)], version |-> Len(d),
                 rejected |-> rejected, authoritative |-> authoritative,
                 recoveryId |-> recoveryId]
<1>1. m \in AnswerType /\ AnswerSound(m, w, d)
  BY TextAnswer
<1>2. FullSync(d, rejected, authoritative, recoveryId) \in {<<>>, <<m>>}
  BY DEF FullSync
<1> HIDE DEF m
<1> QED
  BY <1>1, <1>2, OneAnswer, NoAnswer
-----------------------------------------------------------------------------
(* The inductive invariant.                                                 *)

LEMMA InitSound == Init => IInv
<1> SUFFICES ASSUME Init PROVE IInv
  OBVIOUS
<1>1. PICK t \in Text : doc = <<t>>
  BY DEF Init
<1>2. PICK recovery \in Text \cup {NoText} : web = Opening(recovery) /\ saved = recovery
  BY DEF Init
<1>3. doc \in Seq(Text) /\ doc # <<>>
  BY <1>1
<1>4. /\ web.version = 0 /\ web.base = NoText /\ web.local = NoText /\ web.flight = NoFlight
      /\ web.conflict = NoConflict /\ web.sequence = 0 /\ web.recovery = recovery
  BY <1>2 DEF Opening
<1>5. web \in WebType
  BY <1>2, NoFlightFacts DEF Opening, WebType
<1>6. WebSound(web, doc) /\ ~IsOpen(web)
  BY <1>4, <1>5, NoFlightFacts DEF WebSound, IsOpen, InConflict
<1>7. Ready \in RequestType /\ Ready.type = "ready"
  BY DEF Ready, RequestType
<1>8. toHost \in Seq(RequestType) /\ RequestsSound(toHost, web, doc)
  <2>1. RequestSound(Ready, web, doc)
    BY <1>7 DEF RequestSound
  <2> QED
    BY <1>7, <2>1, OneSent DEF Init
<1>9. toWeb \in Seq(AnswerType) /\ AnswersSound(toWeb, web, doc)
  BY NoAnswer DEF Init
<1>10. /\ host \in [ready : BOOLEAN, busy : BusyType] /\ BusySound(host.busy, web, doc)
  <2>1. host = [ready |-> FALSE, busy |-> Idle] /\ Idle \in BusyType /\ Idle.kind = "idle"
    BY DEF Init, BusyType, Idle
  <2> QED
    BY <2>1 DEF BusySound
<1>11. used \in UsedType
  BY ConstantsAssumption DEF Init, UsedType
<1>12. saved \in Text \cup {NoText} /\ Kept
  BY <1>2, <1>4, <1>6 DEF Kept
<1> QED
  BY <1>3, <1>6, <1>8, <1>9, <1>10, <1>11, <1>12 DEF IInv, Typed

\* A handler of the webview ends, having taken at most one message.
LEMMA WebStep ==
  ASSUME IInv, NEW r, Continues(web, r, doc), WebDoes(r), doc' = doc, host' = host,
         toWeb' = toWeb \/ (toWeb # <<>> /\ toWeb' = Tail(toWeb)), used' \in UsedType
  PROVE  IInv' /\ Submitted' = Submitted \cup EditsIn(r.out)
<1>1. /\ web' = r.web /\ toHost' = toHost \o r.out /\ saved' = Recovery(r.web)
      /\ r.out \in Seq(RequestType) /\ WebSound(r.web, doc) /\ IsOpen(r.web)
      /\ RequestsSound(r.out, r.web, doc)
  BY DEF WebDoes, Continues, ResultType
<1>2. /\ doc \in Seq(Text) /\ doc # <<>> /\ toHost \in Seq(RequestType) /\ toWeb \in Seq(AnswerType)
      /\ host \in [ready : BOOLEAN, busy : BusyType] /\ host.busy \in BusyType
      /\ WebSound(web, doc) /\ RequestsSound(toHost, web, doc) /\ AnswersSound(toWeb, web, doc)
      /\ BusySound(host.busy, web, doc)
  BY DEF IInv, Typed
<1> HIDE DEF RequestType, AnswerType
<1>3. /\ \A m \in RequestType : RequestSound(m, web, doc) => RequestSound(m, web', doc')
      /\ \A m \in AnswerType : AnswerSound(m, web, doc) => AnswerSound(m, web', doc')
      /\ \A b \in BusyType : BusySound(b, web, doc) => BusySound(b, web', doc')
  BY <1>1, <1>2, CarryFacts
<1>4. RequestsSound(toHost, web', doc')
  BY <1>2, <1>3, ElementOfSeq DEF RequestsSound
<1>5. toHost' \in Seq(RequestType) /\ RequestsSound(toHost', web', doc')
  BY <1>1, <1>2, <1>4, PostSound
<1>6. AnswersSound(toWeb, web', doc')
  BY <1>2, <1>3, ElementOfSeq DEF AnswersSound
<1>7. toWeb' \in Seq(AnswerType) /\ AnswersSound(toWeb', web', doc')
  BY <1>2, <1>6, RestSound
<1>8. saved' \in Text \cup {NoText} /\ Kept'
  <2>1. r.web.local \in Text
    BY <1>1 DEF WebSound
  <2> QED
    BY <1>1, <2>1 DEF Recovery, Kept
<1>9. IInv'
  BY <1>1, <1>2, <1>3, <1>5, <1>7, <1>8 DEF IInv, Typed
<1>10. EditsIn(toHost') = EditsIn(toHost) \cup EditsIn(r.out)
  BY <1>1, <1>2, EditsJoin
<1>11. Submitted' = EditsIn(toHost') \cup BeingApplied(host'.busy)
  BY DEF Submitted
<1>12. Submitted = EditsIn(toHost) \cup BeingApplied(host.busy)
  BY DEF Submitted
<1>13. Submitted' = Submitted \cup EditsIn(r.out)
  <2> DEFINE a == EditsIn(toHost)
             b == EditsIn(r.out)
             c == BeingApplied(host.busy)
  <2>1. Submitted' = (a \cup b) \cup c
    BY <1>10, <1>11
  <2>2. Submitted = a \cup c
    BY <1>12
  <2> HIDE DEF a, b, c
  <2>3. (a \cup b) \cup c = (a \cup c) \cup b
    OBVIOUS
  <2> QED
    BY <2>1, <2>2, <2>3 DEF b
<1> QED
  BY <1>9, <1>13

\* The provider's steps, and the ways of a message.
LEMMA HostStep ==
  ASSUME IInv, web' = web, saved' = saved, doc' = doc \/ \E t \in Text : doc' = Append(doc, t),
         toHost' \in Seq(RequestType), RequestsSound(toHost', web, doc'),
         toWeb' \in Seq(AnswerType), AnswersSound(toWeb', web, doc'),
         host' \in [ready : BOOLEAN, busy : BusyType], BusySound(host'.busy, web, doc'),
         used' \in UsedType
  PROVE  IInv'
<1>1. doc \in Seq(Text) /\ doc # <<>> /\ WebSound(web, doc) /\ saved \in Text \cup {NoText}
  BY DEF IInv, Typed
<1>2. doc' \in Seq(Text) /\ doc' # <<>> /\ WebSound(web, doc')
  BY <1>1, GrowthFacts
<1>3. ("click" \notin Disturbances => Kept)'
  BY DEF IInv, Kept
<1> QED
  BY <1>1, <1>2, <1>3 DEF IInv, Typed

\* What is under way is as sound for a longer document.
LEMMA StaySound ==
  ASSUME IInv, NEW e, e = doc \/ \E t \in Text : e = Append(doc, t)
  PROVE  /\ toHost \in Seq(RequestType) /\ RequestsSound(toHost, web, e)
         /\ toWeb \in Seq(AnswerType) /\ AnswersSound(toWeb, web, e)
         /\ host \in [ready : BOOLEAN, busy : BusyType] /\ host.busy \in BusyType
         /\ BusySound(host.busy, web, e)
         /\ e \in Seq(Text) /\ e # <<>> /\ Len(e) \in Nat \ {0}
<1>1. /\ doc \in Seq(Text) /\ doc # <<>> /\ toHost \in Seq(RequestType) /\ toWeb \in Seq(AnswerType)
      /\ host \in [ready : BOOLEAN, busy : BusyType] /\ host.busy \in BusyType
      /\ RequestsSound(toHost, web, doc) /\ AnswersSound(toWeb, web, doc)
      /\ BusySound(host.busy, web, doc)
  BY DEF IInv, Typed
<1> HIDE DEF RequestType, AnswerType
<1>2. CASE e = doc
  BY <1>1, <1>2, EmptySeq
<1>3. CASE \E t \in Text : e = Append(doc, t)
  <2>1. PICK t \in Text : e = Append(doc, t)
    BY <1>3
  <2>2. /\ e \in Seq(Text) /\ e # <<>> /\ Len(e) = Len(doc) + 1 /\ Len(doc) \in Nat
        /\ \A m \in RequestType : RequestSound(m, web, doc) => RequestSound(m, web, e)
        /\ \A m \in AnswerType : AnswerSound(m, web, doc) => AnswerSound(m, web, e)
        /\ \A b \in BusyType : BusySound(b, web, doc) => BusySound(b, web, e)
    BY <1>1, <2>1, GrowthFacts
  <2>3. RequestsSound(toHost, web, e)
    BY <1>1, <2>2, ElementOfSeq DEF RequestsSound
  <2>4. AnswersSound(toWeb, web, e)
    BY <1>1, <2>2, ElementOfSeq DEF AnswersSound
  <2> QED
    BY <1>1, <2>2, <2>3, <2>4
<1> QED
  BY <1>2, <1>3
-----------------------------------------------------------------------------
(* The steps of SharedText.                                                 *)

SharedStep == [Shared!Next]_(Shared!vars)

\* Nothing SharedText knows of has changed.
LEMMA SharedStutter ==
  ASSUME doc' = doc, web' = web, used'.strokes = used.strokes, Submitted' = Submitted
  PROVE  SharedStep
BY DEF SharedStep, Shared!vars, Draft, IsOpen, InConflict

\* The webview submits nothing, or its draft.
LEMMA SubmitStep ==
  ASSUME NEW r, NEW w, web' = r.web, doc' = doc, IsOpen(r.web), Submits(r, w, doc),
         Submitted' = Submitted \cup EditsIn(r.out)
  PROVE  Shared!MaySubmit(w)
<1>1. Draft' = r.web.local
  BY DEF Draft, IsOpen
<1>2. CASE EditsIn(r.out) = {} /\ r.web.flight.text = w
  <2>1. Submitted' = Submitted
    BY <1>2
  <2> QED
    BY <1>2, <2>1 DEF Shared!MaySubmit
<1>3. CASE /\ w = NoText /\ ~InConflict(r.web) /\ r.web.local # doc[r.web.version]
           /\ r.web.flight.text = r.web.local
           /\ EditsIn(r.out) = {[of |-> r.web.version, text |-> r.web.local]}
  <2>1. ~InConflict(web')
    BY <1>3 DEF InConflict
  <2> QED
    BY <1>1, <1>3, <2>1 DEF Shared!MaySubmit, InConflict
<1> QED
  BY <1>2, <1>3 DEF Submits

\* What the webview makes of a message is a step of SharedText.
LEMMA MoveStep ==
  ASSUME IInv, NEW r, Continues(web, r, doc), web' = r.web, doc' = doc,
         used'.strokes = used.strokes, Submitted' = Submitted \cup EditsIn(r.out),
         IsOpen(web), Moved(web, r, doc)
  PROVE  SharedStep
<1>1. IsOpen(r.web) /\ IsOpen(web') /\ Draft' = r.web.local /\ Draft = web.local
  BY DEF Continues, Draft, IsOpen
<1>2. CASE Unmoved(web, r)
  <2>1. Submitted' = Submitted
    BY <1>2 DEF Unmoved
  <2>2. InConflict(web') <=> InConflict(web)
    BY <1>2 DEF Unmoved, InConflict
  <2>3. InConflict(web') = InConflict(web)
    BY <2>2 DEF InConflict
  <2> QED
    BY <1>1, <1>2, <2>1, <2>3 DEF SharedStep, Shared!vars, Unmoved
<1>3. CASE Rebased(web, r, doc)
  <2>1. Shared!MaySubmit(web.flight.text) \/ Shared!MaySubmit(NoText)
    BY <1>1, <1>3, SubmitStep DEF Rebased
  <2>2. Shared!Rebase
    BY <1>1, <1>3, <2>1 DEF Shared!Rebase, Shared!Opened, Rebased, IsOpen, InConflict
  <2> QED
    BY <2>2 DEF SharedStep, Shared!Next
<1>4. CASE Followed(web, r, doc)
  <2>1. Submitted' = Submitted
    BY <1>4 DEF Followed
  <2>2. Shared!Follow
    BY <1>1, <1>4, <2>1 DEF Shared!Follow, Shared!Opened, Followed, IsOpen, InConflict
  <2> QED
    BY <2>2 DEF SharedStep, Shared!Next
<1>5. CASE Asked(web, r)
  <2>1. Submitted' = Submitted
    BY <1>5 DEF Asked
  <2>2. Shared!Ask
    BY <1>1, <1>5, <2>1 DEF Shared!Ask, Shared!Opened, Asked, IsOpen, InConflict
  <2> QED
    BY <2>2 DEF SharedStep, Shared!Next
<1> QED
  BY <1>2, <1>3, <1>4, <1>5 DEF Moved

\* At the provider's side SharedText has submissions that end or enter the file.
LEMMA ForgetStep ==
  ASSUME doc' = doc, web' = web, used'.strokes = used.strokes, Submitted' \subseteq Submitted
  PROVE  SharedStep
<1>1. Shared!Forget
  BY DEF Shared!Forget, Draft, IsOpen, InConflict
<1> QED
  BY <1>1 DEF SharedStep, Shared!Next

LEMMA ForeignStep ==
  ASSUME NEW t \in Text, doc' = Append(doc, t), web' = web, used'.strokes = used.strokes,
         Submitted' = Submitted
  PROVE  SharedStep
<1>1. Shared!Foreign
  BY DEF Shared!Foreign, Draft, IsOpen, InConflict
<1> QED
  BY <1>1 DEF SharedStep, Shared!Next
-----------------------------------------------------------------------------
(* The webview's actions.                                                   *)

LEMMA TypeSound ==
  ASSUME IInv, NEW t \in Text, Type(t)
  PROVE  IInv' /\ SharedStep
<1> DEFINE r == Flush([web EXCEPT !.local = t])
<1>1. /\ IsOpen(web) /\ t # web.local /\ WebDoes(r)
      /\ used' = [used EXCEPT !.strokes = @ + 1] /\ used.strokes < MaxStrokes
      /\ toWeb' = toWeb /\ doc' = doc /\ host' = host
  BY DEF Type
<1>2. doc \in Seq(Text) /\ WebSound(web, doc) /\ used \in UsedType
  BY DEF IInv, Typed
<1>3. /\ Continues(web, r, doc)
      /\ r.web.version = web.version /\ r.web.local = t /\ r.web.conflict = web.conflict
      /\ Submits(r, web.flight.text, doc)
  BY <1>1, <1>2, TypingFacts
<1>4. used' \in UsedType /\ used'.strokes = used.strokes + 1
  BY <1>1, <1>2, ConstantsAssumption DEF UsedType
<1> HIDE DEF r
<1>5. IInv' /\ Submitted' = Submitted \cup EditsIn(r.out)
  BY <1>1, <1>3, <1>4, WebStep
<1>6. web' = r.web /\ IsOpen(r.web)
  BY <1>1, <1>3 DEF WebDoes, Continues
<1>7. Shared!MaySubmit(web.flight.text)
  BY <1>1, <1>3, <1>5, <1>6, SubmitStep
<1>8. Shared!Type
  BY <1>1, <1>3, <1>4, <1>6, <1>7 DEF Shared!Type, Shared!Opened, Draft, IsOpen, InConflict
<1> QED
  BY <1>5, <1>8 DEF SharedStep, Shared!Next

LEMMA PressSound ==
  ASSUME IInv, NEW action \in Actions, Press(action)
  PROVE  IInv' /\ SharedStep
<1> DEFINE r == FlushAction(Quiet([web EXCEPT !.queued = action]))
<1>1. /\ IsOpen(web) /\ WebDoes(r)
      /\ used' = [used EXCEPT !.presses = @ + 1] /\ used.presses < MaxPresses
      /\ toWeb' = toWeb /\ doc' = doc /\ host' = host
  BY DEF Press
<1>2. doc \in Seq(Text) /\ WebSound(web, doc) /\ used \in UsedType
  BY DEF IInv, Typed
<1>3. Continues(web, r, doc) /\ Moved(web, r, doc)
  BY <1>1, <1>2, PressFacts DEF Moved
<1>4. used' \in UsedType /\ used'.strokes = used.strokes
  BY <1>1, <1>2, ConstantsAssumption DEF UsedType
<1> HIDE DEF r
<1>5. IInv' /\ Submitted' = Submitted \cup EditsIn(r.out)
  BY <1>1, <1>3, <1>4, WebStep
<1>6. web' = r.web
  BY <1>1 DEF WebDoes
<1>7. SharedStep
  BY <1>1, <1>3, <1>4, <1>5, <1>6, MoveStep
<1> QED
  BY <1>5, <1>7

LEMMA ResolveSound ==
  ASSUME IInv, NEW keep \in BOOLEAN, Resolve(keep)
  PROVE  IInv' /\ SharedStep
<1> DEFINE r == ResolveWith(web, keep)
<1>1. InConflict(web) /\ WebDoes(r) /\ toWeb' = toWeb /\ doc' = doc /\ host' = host /\ used' = used
  BY DEF Resolve
<1>2. doc \in Seq(Text) /\ WebSound(web, doc) /\ used \in UsedType
  BY DEF IInv, Typed
<1>3. Continues(web, r, doc) /\ Chosen(web, r, doc)
  BY <1>1, <1>2, ResolveFacts
<1> HIDE DEF r
<1>4. IInv' /\ Submitted' = Submitted \cup EditsIn(r.out)
  BY <1>1, <1>2, <1>3, WebStep
<1>5. web' = r.web /\ IsOpen(r.web) /\ IsOpen(web)
  BY <1>1, <1>2, <1>3 DEF WebDoes, Continues, WebSound, InConflict
<1>6. Shared!MaySubmit(NoText)
  BY <1>1, <1>3, <1>4, <1>5, SubmitStep DEF Chosen
<1>7. Shared!Choose
  BY <1>1, <1>3, <1>5, <1>6 DEF Shared!Choose, Chosen, Draft, IsOpen, InConflict
<1> QED
  BY <1>4, <1>7 DEF SharedStep, Shared!Next

LEMMA GetTextSound ==
  ASSUME IInv, GetText
  PROVE  IInv' /\ SharedStep
<1> DEFINE m == Head(toWeb)
           q == Restore(web, m)
           v == IF InConflict(q.web) THEN [q.web EXCEPT !.queued = "none"] ELSE q.web
           r == FlushAction([q EXCEPT !.web = v])
<1>1. /\ toWeb # <<>> /\ m.type = "setText" /\ WebDoes(r) /\ toWeb' = Tail(toWeb)
      /\ doc' = doc /\ host' = host /\ used' = used
  BY DEF GetText, Message
<1>2. /\ doc \in Seq(Text) /\ doc # <<>> /\ WebSound(web, doc) /\ used \in UsedType
      /\ toWeb \in Seq(AnswerType) /\ AnswersSound(toWeb, web, doc)
  BY DEF IInv, Typed
<1>3. m \in AnswerType /\ AnswerSound(m, web, doc)
  BY <1>1, <1>2, RestSound
<1> HIDE DEF m
<1>4. /\ m.version \in 1 .. Len(doc) /\ m.text = doc[m.version]
      /\ m.rejected \in BOOLEAN /\ m.authoritative \in BOOLEAN
      /\ ~IsOpen(web) => ~m.authoritative
  BY <1>1, <1>2, <1>3, AnswerFacts, LenProperties DEF AnswerSound
<1>5. /\ Continues(web, r, doc)
      /\ IF IsOpen(web) THEN Moved(web, r, doc) ELSE Opened(web, r, doc)
  BY <1>2, <1>4, GetTextFacts
<1> HIDE DEF r
<1>6. IInv' /\ Submitted' = Submitted \cup EditsIn(r.out)
  BY <1>1, <1>2, <1>5, WebStep
<1>7. web' = r.web /\ IsOpen(r.web)
  BY <1>1, <1>5 DEF WebDoes, Continues
<1>8. CASE IsOpen(web)
  <2>1. SharedStep
    BY <1>1, <1>5, <1>6, <1>7, <1>8, MoveStep
  <2> QED
    BY <1>6, <2>1
<1>9. CASE ~IsOpen(web)
  <2>1. Submitted' = Submitted /\ Draft' = r.web.local /\ Draft = web.recovery
    BY <1>5, <1>6, <1>7, <1>9 DEF Opened, Draft, IsOpen
  <2>2. InConflict(r.web) = (r.web.local # doc[r.web.version])
    BY <1>5, <1>9 DEF Opened, InConflict
  <2>3. Shared!Open
    BY <1>1, <1>5, <1>7, <1>9, <2>1, <2>2 DEF Shared!Open, Shared!Opened, Opened, IsOpen
  <2> QED
    BY <1>6, <2>3 DEF SharedStep, Shared!Next
<1> QED
  BY <1>8, <1>9

LEMMA GetAckSound ==
  ASSUME IInv, GetAck
  PROVE  IInv' /\ SharedStep
<1> DEFINE m == Head(toWeb)
           q == Acknowledge(web, m.id, m.version)
           r == FlushAction(q)
<1>1. /\ toWeb # <<>> /\ m.type = "ack" /\ WebDoes(r) /\ toWeb' = Tail(toWeb)
      /\ doc' = doc /\ host' = host /\ used' = used
  BY DEF GetAck, Message
<1>2. /\ doc \in Seq(Text) /\ doc # <<>> /\ WebSound(web, doc) /\ used \in UsedType
      /\ toWeb \in Seq(AnswerType) /\ AnswersSound(toWeb, web, doc)
  BY DEF IInv, Typed
<1>3. m \in AnswerType /\ AnswerSound(m, web, doc)
  BY <1>1, <1>2, RestSound
<1> HIDE DEF m
<1>4. /\ m.version \in 1 .. Len(doc) /\ IsOpen(web)
      /\ m.id = web.flight.id => doc[m.version] = web.flight.text
  BY <1>1, <1>2, <1>3, AnswerFacts, LenProperties DEF AnswerSound
<1>5. Continues(web, q, doc) /\ Moved(web, q, doc)
  BY <1>2, <1>4, AcknowledgeFacts
<1> HIDE DEF q
<1>6. /\ Continues(web, r, doc) /\ SameSync(r.web, q.web) /\ EditsIn(r.out) = EditsIn(q.out)
  BY <1>2, <1>5, FlushActionFacts
<1> HIDE DEF r
<1>7. Moved(web, r, doc)
  BY <1>5, <1>6, MovedAlike
<1>8. IInv' /\ Submitted' = Submitted \cup EditsIn(r.out)
  BY <1>1, <1>2, <1>6, WebStep
<1>9. web' = r.web
  BY <1>1 DEF WebDoes
<1>10. SharedStep
  BY <1>1, <1>4, <1>6, <1>7, <1>8, <1>9, MoveStep
<1> QED
  BY <1>8, <1>10

LEMMA RequestConnectionSound ==
  ASSUME IInv, RequestConnection
  PROVE  IInv' /\ SharedStep
<1> DEFINE m == IF IsOpen(web) THEN [type |-> "sync", recoveryId |-> web.flight.id] ELSE Ready
<1>1. /\ toHost' = Append(toHost, m) /\ web' = web /\ saved' = saved /\ toWeb' = toWeb
      /\ doc' = doc /\ host' = host /\ used' = used
  BY DEF RequestConnection
<1>2. /\ toHost \in Seq(RequestType) /\ RequestsSound(toHost, web, doc)
      /\ toWeb \in Seq(AnswerType) /\ AnswersSound(toWeb, web, doc)
      /\ host \in [ready : BOOLEAN, busy : BusyType] /\ BusySound(host.busy, web, doc)
  BY StaySound
<1>3. WebSound(web, doc) /\ used \in UsedType /\ doc \in Seq(Text)
  BY DEF IInv, Typed
<1>4. m \in RequestType /\ m.type # "edit" /\ m.type # "action" /\ (~IsOpen(web) => m.type = "ready")
  <2>1. CASE IsOpen(web)
    <3>1. web.flight.id \in Nat
      BY <1>3, <2>1, OpenFacts
    <3> QED
      BY <2>1, <3>1 DEF RequestType
  <2>2. CASE ~IsOpen(web)
    BY <2>2 DEF RequestType, Ready
  <2> QED
    BY <2>1, <2>2
<1> HIDE DEF m
<1>5. RequestSound(m, web, doc)
  BY <1>4 DEF RequestSound
<1>6. <<m>> \in Seq(RequestType) /\ RequestsSound(<<m>>, web, doc) /\ EditsIn(<<m>>) = {}
  BY <1>4, <1>5, OneSent
<1>7. toHost' = toHost \o <<m>>
  BY <1>1, <1>2, <1>4, AppendIsConcat
<1>8. toHost' \in Seq(RequestType) /\ RequestsSound(toHost', web, doc')
  <2>1. toHost \o <<m>> \in Seq(RequestType) /\ RequestsSound(toHost \o <<m>>, web, doc)
    BY <1>2, <1>6, PostSound
  <2> QED
    BY <1>1, <1>7, <2>1
<1>9. IInv'
  BY <1>1, <1>2, <1>3, <1>8, HostStep
<1>10. EditsIn(toHost') = EditsIn(toHost) \cup EditsIn(<<m>>)
  BY <1>2, <1>6, <1>7, EditsJoin
<1>11. EditsIn(toHost') = EditsIn(toHost)
  BY <1>6, <1>10
<1>12. SharedStep
  BY <1>1, <1>11, SharedStutter DEF Submitted
<1> QED
  BY <1>9, <1>12

\* A click before the file arrives makes VS Code forget the draft it keeps for a
\* reload; only together can the two take a draft from its writer.
DraftsKept == ~({"click", "reload"} \subseteq Disturbances)

LEMMA ReloadSound ==
  ASSUME IInv, Reload
  PROVE  IInv' /\ (DraftsKept => SharedStep)
<1> DEFINE grown == /\ host.busy.kind = "edit" /\ host.busy.phase = "asked"
                    /\ host.busy.version = Version
                    /\ doc' = Append(doc, host.busy.expected)
<1>1. /\ web' = Opening(saved) /\ toHost' = <<Ready>> /\ toWeb' = <<>>
      /\ host' = [ready |-> FALSE, busy |-> Idle] /\ saved' = saved
      /\ doc' = doc \/ grown
      /\ Disturb("reload")
  BY DEF Reload
<1>2. /\ doc \in Seq(Text) /\ doc # <<>> /\ saved \in Text \cup {NoText} /\ WebSound(web, doc)
      /\ host.busy \in BusyType /\ Typed
  BY DEF IInv, Typed
<1>3. used' \in UsedType /\ used'.strokes = used.strokes
  BY <1>1, <1>2, DisturbFacts
<1>4. doc' \in Seq(Text) /\ doc' # <<>>
  <2>1. grown => host.busy.expected \in Text
    BY <1>2, BusyFacts
  <2> QED
    BY <1>1, <1>2, <2>1, AppendFacts
<1>5. /\ web'.version = 0 /\ web'.base = NoText /\ web'.local = NoText /\ web'.flight = NoFlight
      /\ web'.conflict = NoConflict /\ web'.sequence = 0 /\ web'.recovery = saved
  BY <1>1 DEF Opening
<1>6. web' \in WebType
  BY <1>1, <1>2, NoFlightFacts DEF Opening, WebType
<1>7. WebSound(web', doc') /\ ~IsOpen(web')
  BY <1>5, <1>6, NoFlightFacts DEF WebSound, IsOpen, InConflict
<1>8. Ready \in RequestType /\ Ready.type = "ready"
  BY DEF Ready, RequestType
<1>9. /\ toHost' \in Seq(RequestType) /\ RequestsSound(toHost', web', doc') /\ EditsIn(toHost') = {}
  <2>1. RequestSound(Ready, web', doc')
    BY <1>8 DEF RequestSound
  <2> QED
    BY <1>1, <1>8, <2>1, OneSent
<1>10. toWeb' \in Seq(AnswerType) /\ AnswersSound(toWeb', web', doc')
  BY <1>1, NoAnswer
<1>11. host' \in [ready : BOOLEAN, busy : BusyType] /\ BusySound(host'.busy, web', doc')
  <2>1. Idle \in BusyType /\ Idle.kind = "idle"
    BY DEF BusyType, Idle
  <2> QED
    BY <1>1, <2>1 DEF BusySound
<1>12. Kept'
  BY <1>1, <1>5, <1>7 DEF Kept
<1>13. IInv'
  BY <1>1, <1>2, <1>3, <1>4, <1>7, <1>9, <1>10, <1>11, <1>12 DEF IInv, Typed
<1>14. ASSUME DraftsKept PROVE SharedStep
  <2>1. saved = IF IsOpen(web) THEN Recovery(web) ELSE web.recovery
    <3>1. "click" \notin Disturbances
      BY <1>1, <1>2, <1>14, DisturbFacts DEF DraftsKept
    <3> QED
      BY <3>1 DEF IInv, Kept
  <2>2. Draft' = saved
    BY <1>5, <1>7 DEF Draft
  <2>3. Draft' = Draft \/ (Shared!Opened /\ Draft = doc[web.version] /\ Draft' = NoText)
    BY <1>2, <2>1, <2>2 DEF Draft, Recovery, Pending, WebSound, Shared!Opened, IsOpen
  <2>4. Submitted' = {}
    <3>1. BeingApplied(host'.busy) = {}
      BY <1>1 DEF BeingApplied, Idle
    <3> QED
      BY <1>9, <3>1 DEF Submitted
  <2>5. doc' = doc \/ \E s \in Submitted : Shared!Commit(s)
    <3>1. CASE doc' = doc
      BY <3>1
    <3>2. CASE grown
      <4> DEFINE s == [of |-> host.busy.version, text |-> host.busy.expected]
      <4>1. s \in Submitted
        BY <3>2 DEF Submitted, BeingApplied
      <4>2. s.of = Version /\ s.text = host.busy.expected
        BY <3>2
      <4> HIDE DEF s
      <4>3. Shared!Commit(s)
        BY <3>2, <4>2 DEF Shared!Commit, Version
      <4> QED
        BY <4>1, <4>3
    <3> QED
      BY <1>1, <3>1, <3>2
  <2>6. ~InConflict(web') /\ web'.flight.text = NoText
    BY <1>5, NoFlightFacts DEF InConflict
  <2>7. Shared!Reopen
    BY <1>3, <1>5, <2>3, <2>4, <2>5, <2>6 DEF Shared!Reopen, InConflict
  <2> QED
    BY <2>7 DEF SharedStep, Shared!Next
<1> QED
  BY <1>13, <1>14

LEMMA ClickSound ==
  ASSUME IInv, ClickWhileOpening
  PROVE  IInv' /\ SharedStep
<1>1. /\ Disturb("click") /\ ~IsOpen(web) /\ saved' = Recovery(web)
      /\ web' = web /\ toHost' = toHost /\ toWeb' = toWeb /\ doc' = doc /\ host' = host
  BY DEF ClickWhileOpening
<1>2. used' \in UsedType /\ used'.strokes = used.strokes /\ "click" \in Disturbances
  BY <1>1, DisturbFacts DEF IInv
<1>3. saved' \in Text \cup {NoText}
  BY <1>1 DEF IInv, WebSound, WebType, Recovery
<1>4. IInv'
  BY <1>1, <1>2, <1>3 DEF IInv, Typed
<1>5. SharedStep
  BY <1>1, <1>2, SharedStutter DEF Submitted
<1> QED
  BY <1>4, <1>5
-----------------------------------------------------------------------------
(* The provider's actions.                                                  *)

\* The first request, when the provider takes it.
LEMMA NextFacts ==
  ASSUME IInv, NEW type, Next1(type)
  PROVE  /\ host.busy = Idle /\ Request \in RequestType /\ Request.type = type
         /\ RequestSound(Request, web, doc) /\ BeingApplied(host.busy) = {}
         /\ toHost' \in Seq(RequestType) /\ RequestsSound(toHost', web, doc)
         /\ EditsIn(toHost') \subseteq EditsIn(toHost)
         /\ type = "edit" =>
              [of |-> Request.base, text |-> Request.change.to] \in EditsIn(toHost)
<1>1. host.busy = Idle /\ toHost # <<>> /\ Head(toHost).type = type /\ toHost' = Tail(toHost)
  BY DEF Next1
<1>2. toHost \in Seq(RequestType) /\ RequestsSound(toHost, web, doc)
  BY DEF IInv, Typed
<1>3. BeingApplied(host.busy) = {}
  BY <1>1 DEF BeingApplied, Idle
<1> HIDE DEF RequestType
<1>4. /\ Head(toHost) \in RequestType /\ RequestSound(Head(toHost), web, doc)
      /\ Tail(toHost) \in Seq(RequestType) /\ RequestsSound(Tail(toHost), web, doc)
  BY <1>1, <1>2, RestSound
<1>5. /\ EditsIn(Tail(toHost)) \subseteq EditsIn(toHost)
      /\ type = "edit" =>
           [of |-> Head(toHost).base, text |-> Head(toHost).change.to] \in EditsIn(toHost)
  BY <1>1, <1>2, EditsLeft
<1> QED
  BY <1>1, <1>3, <1>4, <1>5 DEF Request

LEMMA HandleReadySound ==
  ASSUME IInv, HandleReady
  PROVE  IInv' /\ SharedStep
<1> DEFINE m == [type |-> "setText", text |-> doc[Len(doc)], version |-> Len(doc),
                 rejected |-> FALSE, authoritative |-> FALSE, recoveryId |-> 0]
<1>1. /\ Next1("ready") /\ host' = [host EXCEPT !.ready = TRUE] /\ toWeb' = toWeb \o <<m>>
      /\ web' = web /\ saved' = saved /\ doc' = doc /\ used' = used
  BY DEF HandleReady, Post, Current, Version
<1>2. /\ toWeb \in Seq(AnswerType) /\ AnswersSound(toWeb, web, doc)
      /\ host \in [ready : BOOLEAN, busy : BusyType] /\ BusySound(host.busy, web, doc)
      /\ doc \in Seq(Text) /\ doc # <<>> /\ used \in UsedType
  BY StaySound DEF IInv, Typed
<1>3. m \in AnswerType /\ AnswerSound(m, web, doc)
  BY <1>2, TextAnswer
<1> HIDE DEF m
<1>4. toWeb' \in Seq(AnswerType) /\ AnswersSound(toWeb', web, doc')
  <2>1. <<m>> \in Seq(AnswerType) /\ AnswersSound(<<m>>, web, doc)
    BY <1>3, OneAnswer
  <2>2. toWeb \o <<m>> \in Seq(AnswerType) /\ AnswersSound(toWeb \o <<m>>, web, doc)
    BY <1>2, <2>1, PostSound
  <2> QED
    BY <1>1, <2>2
<1>5. host' \in [ready : BOOLEAN, busy : BusyType] /\ host'.busy = host.busy
  BY <1>1, <1>2
<1>6. /\ toHost' \in Seq(RequestType) /\ RequestsSound(toHost', web, doc')
      /\ EditsIn(toHost') \subseteq EditsIn(toHost)
  BY <1>1, NextFacts
<1>7. IInv'
  BY <1>1, <1>2, <1>4, <1>5, <1>6, HostStep
<1>8. SharedStep
  BY <1>1, <1>5, <1>6, ForgetStep DEF Submitted
<1> QED
  BY <1>7, <1>8

\* The provider only takes the request and answers with the file's text.
LEMMA AnswerStep ==
  ASSUME IInv, web' = web, saved' = saved, doc' = doc, host' = host,
         used' \in UsedType, used'.strokes = used.strokes,
         toHost' \in Seq(RequestType), RequestsSound(toHost', web, doc),
         EditsIn(toHost') \subseteq EditsIn(toHost),
         NEW rejected \in BOOLEAN, NEW authoritative \in BOOLEAN, IsOpen(web) \/ ~authoritative,
         NEW recoveryId \in Nat, Post(FullSync(doc, rejected, authoritative, recoveryId))
  PROVE  IInv' /\ SharedStep
<1> DEFINE answer == FullSync(doc, rejected, authoritative, recoveryId)
<1>1. /\ toWeb \in Seq(AnswerType) /\ AnswersSound(toWeb, web, doc)
      /\ host \in [ready : BOOLEAN, busy : BusyType] /\ BusySound(host.busy, web, doc)
      /\ doc \in Seq(Text) /\ doc # <<>>
  BY StaySound DEF IInv, Typed
<1>2. answer \in Seq(AnswerType) /\ AnswersSound(answer, web, doc)
  BY <1>1, FullSyncFacts
<1>3. toWeb' = toWeb \o answer
  BY DEF Post
<1> HIDE DEF answer
<1>4. toWeb' \in Seq(AnswerType) /\ AnswersSound(toWeb', web, doc')
  <2>1. toWeb \o answer \in Seq(AnswerType) /\ AnswersSound(toWeb \o answer, web, doc)
    BY <1>1, <1>2, PostSound
  <2> QED
    BY <1>3, <2>1
<1>5. IInv'
  BY <1>1, <1>4, HostStep
<1>6. SharedStep
  BY ForgetStep DEF Submitted
<1> QED
  BY <1>5, <1>6

LEMMA HandleSyncSound ==
  ASSUME IInv, HandleSync
  PROVE  IInv' /\ SharedStep
<1>1. /\ Next1("sync") /\ Post(FullSync(doc, FALSE, TRUE, Request.recoveryId))
      /\ web' = web /\ saved' = saved /\ doc' = doc /\ host' = host /\ used' = used
  BY DEF HandleSync
<1>2. /\ Request \in RequestType /\ Request.type = "sync" /\ RequestSound(Request, web, doc)
      /\ toHost' \in Seq(RequestType) /\ RequestsSound(toHost', web, doc)
      /\ EditsIn(toHost') \subseteq EditsIn(toHost)
  BY <1>1, NextFacts
<1>3. Request.recoveryId \in Nat /\ IsOpen(web)
  BY <1>2, RequestFacts DEF RequestSound
<1>4. used \in UsedType
  BY DEF IInv, Typed
<1> QED
  BY <1>1, <1>2, <1>3, <1>4, AnswerStep

LEMMA HandleEditSound ==
  ASSUME IInv, HandleEdit
  PROVE  IInv' /\ SharedStep
<1>1. Next1("edit") /\ web' = web /\ saved' = saved /\ doc' = doc /\ used' = used
  BY DEF HandleEdit
<1>2. /\ Request \in RequestType /\ Request.type = "edit" /\ RequestSound(Request, web, doc)
      /\ toHost' \in Seq(RequestType) /\ RequestsSound(toHost', web, doc)
      /\ EditsIn(toHost') \subseteq EditsIn(toHost) /\ BeingApplied(host.busy) = {}
      /\ [of |-> Request.base, text |-> Request.change.to] \in EditsIn(toHost)
  BY <1>1, NextFacts
<1>3. used \in UsedType /\ doc # <<>> /\ doc \in Seq(Text)
  BY DEF IInv, Typed
<1>4. CASE Post(FullSync(doc, TRUE, FALSE, 0)) /\ host' = host
  BY <1>1, <1>2, <1>3, <1>4, AnswerStep
<1>5. CASE /\ Request.base = Version /\ toWeb' = toWeb
           /\ host' = [host EXCEPT !.busy = [kind |-> "edit", id |-> Request.id, version |-> Version,
                                             expected |-> Apply(Request.change, Current),
                                             phase |-> "asked"]]
  <2> DEFINE b == [kind |-> "edit", id |-> Request.id, version |-> Version,
                   expected |-> Apply(Request.change, Current), phase |-> "asked"]
  <2>1. /\ Request.id \in Nat \ {0} /\ Request.base \in Nat \ {0}
        /\ Request.change.to \in Text /\ Request.base <= Len(doc)
        /\ Request.change.of = doc[Request.base] /\ Request.id <= web.sequence
        /\ Request.id = web.flight.id => Request.change.to = web.flight.text
        /\ IsOpen(web)
    BY <1>2, RequestFacts DEF RequestSound
  <2>2. Apply(Request.change, Current) = Request.change.to
    BY <1>5, <2>1 DEF Apply, Current
  <2>3. b \in BusyType
    BY <1>5, <2>1, <2>2 DEF BusyType
  <2>4. /\ b.kind = "edit" /\ b.phase = "asked" /\ b.id = Request.id /\ b.version = Request.base
        /\ b.expected = Request.change.to
    BY <1>5, <2>2
  <2> HIDE DEF b
  <2>5. BusySound(b, web, doc)
    BY <2>1, <2>4 DEF BusySound
  <2>6. /\ host \in [ready : BOOLEAN, busy : BusyType]
        /\ toWeb \in Seq(AnswerType) /\ AnswersSound(toWeb, web, doc)
    BY StaySound
  <2>7. host' \in [ready : BOOLEAN, busy : BusyType] /\ host'.busy = b
    <3>1. host' = [host EXCEPT !.busy = b]
      BY <1>5 DEF b
    <3> QED
      BY <2>3, <2>6, <3>1
  <2>8. IInv'
    BY <1>1, <1>2, <1>3, <1>5, <2>5, <2>6, <2>7, HostStep
  <2>9. BeingApplied(host'.busy) = {[of |-> Request.base, text |-> Request.change.to]}
    BY <2>4, <2>7 DEF BeingApplied
  <2>10. Submitted' \subseteq Submitted
    BY <1>2, <2>9 DEF Submitted
  <2>11. SharedStep
    BY <1>1, <2>10, ForgetStep
  <2> QED
    BY <2>8, <2>11
<1> QED
  BY <1>4, <1>5 DEF HandleEdit

LEMMA HandleActionSound ==
  ASSUME IInv, HandleAction
  PROVE  IInv' /\ SharedStep
<1>1. Next1("action") /\ web' = web /\ saved' = saved /\ doc' = doc /\ used' = used
  BY DEF HandleAction
<1>2. /\ Request \in RequestType /\ Request.type = "action" /\ RequestSound(Request, web, doc)
      /\ toHost' \in Seq(RequestType) /\ RequestsSound(toHost', web, doc)
      /\ EditsIn(toHost') \subseteq EditsIn(toHost) /\ BeingApplied(host.busy) = {}
  BY <1>1, NextFacts
<1>3. used \in UsedType
  BY DEF IInv, Typed
<1>4. CASE Post(FullSync(doc, TRUE, FALSE, 0)) /\ host' = host
  BY <1>1, <1>2, <1>3, <1>4, AnswerStep
<1>5. CASE /\ toWeb' = toWeb
           /\ host' = [host EXCEPT !.busy = [kind |-> "action", action |-> Request.action]]
  <2> DEFINE b == [kind |-> "action", action |-> Request.action]
  <2>1. Request.action \in Actions /\ IsOpen(web)
    BY <1>2, RequestFacts DEF RequestSound
  <2>2. b \in BusyType /\ b.kind = "action"
    BY <2>1 DEF BusyType
  <2> HIDE DEF b
  <2>3. /\ host \in [ready : BOOLEAN, busy : BusyType]
        /\ toWeb \in Seq(AnswerType) /\ AnswersSound(toWeb, web, doc)
    BY StaySound
  <2>4. host' \in [ready : BOOLEAN, busy : BusyType] /\ host'.busy = b
    <3>1. host' = [host EXCEPT !.busy = b]
      BY <1>5 DEF b
    <3> QED
      BY <2>2, <2>3, <3>1
  <2>5. BusySound(b, web, doc)
    BY <2>1, <2>2 DEF BusySound
  <2>6. IInv'
    BY <1>1, <1>2, <1>3, <1>5, <2>3, <2>4, <2>5, HostStep
  <2>7. BeingApplied(host'.busy) = {}
    BY <2>2, <2>4 DEF BeingApplied
  <2>8. SharedStep
    BY <1>1, <1>2, <2>7, ForgetStep DEF Submitted
  <2> QED
    BY <2>6, <2>8
<1> QED
  BY <1>4, <1>5 DEF HandleAction

\* The edit VS Code is applying.
LEMMA EditingFacts ==
  ASSUME IInv, host.busy.kind = "edit"
  PROVE  LET b == host.busy IN
         /\ b \in BusyType /\ b.id \in Nat \ {0} /\ b.version \in Nat \ {0} /\ b.expected \in Text
         /\ b \in [kind : {"edit"}, id : Nat \ {0}, version : Nat \ {0},
                   expected : Text, phase : {"asked", "applied", "refused"}]
         /\ b.version <= Len(doc) /\ b.id <= web.sequence
         /\ b.id = web.flight.id => b.expected = web.flight.text
         /\ IsOpen(web)
<1>1. host.busy \in BusyType /\ BusySound(host.busy, web, doc)
  BY DEF IInv, Typed
<1>2. host.busy # Idle
  BY DEF Idle
<1> QED
  BY <1>1, <1>2, BusyFacts DEF BusySound

\* The edit goes from one phase to the next.
LEMMA PhaseFacts ==
  ASSUME IInv, host.busy.kind = "edit", NEW phase \in {"applied", "refused"},
         host' = [host EXCEPT !.busy.phase = phase], NEW d, BusySound(host.busy, web, d)
  PROVE  /\ host' \in [ready : BOOLEAN, busy : BusyType] /\ BusySound(host'.busy, web, d)
         /\ BeingApplied(host'.busy) = {}
<1>1. host \in [ready : BOOLEAN, busy : BusyType]
  BY DEF IInv, Typed
<1> DEFINE b == [host.busy EXCEPT !.phase = phase]
<1>2. host.busy \in [kind : {"edit"}, id : Nat \ {0}, version : Nat \ {0},
                     expected : Text, phase : {"asked", "applied", "refused"}]
  BY EditingFacts
<1>3. /\ b \in [kind : {"edit"}, id : Nat \ {0}, version : Nat \ {0},
                expected : Text, phase : {"asked", "applied", "refused"}]
      /\ b.id = host.busy.id /\ b.version = host.busy.version /\ b.expected = host.busy.expected
      /\ b.kind = "edit" /\ b.phase = phase
  BY <1>2
<1> HIDE DEF b
<1>4. b \in BusyType
  BY <1>3 DEF BusyType
<1>5. host' \in [ready : BOOLEAN, busy : BusyType] /\ host'.busy = b
  <2>1. host' = [host EXCEPT !.busy = b]
    BY DEF b
  <2> QED
    BY <1>1, <1>4, <2>1
<1>6. BusySound(b, web, d)
  <2>1. IsOpen(web)
    BY EditingFacts
  <2> QED
    BY <1>3, <2>1 DEF BusySound
<1>7. BeingApplied(b) = {}
  BY <1>3 DEF BeingApplied
<1> QED
  BY <1>5, <1>6, <1>7

LEMMA ApplyEditSound ==
  ASSUME IInv, ApplyEdit
  PROVE  IInv' /\ SharedStep
<1> DEFINE t == host.busy.expected
           s == [of |-> host.busy.version, text |-> t]
<1>1. /\ host.busy.kind = "edit" /\ host.busy.phase = "asked" /\ host.busy.version = Len(doc)
      /\ doc' = Append(doc, t) /\ host' = [host EXCEPT !.busy.phase = "applied"]
      /\ web' = web /\ saved' = saved /\ toHost' = toHost /\ toWeb' = toWeb /\ used' = used
  BY DEF ApplyEdit, Editing, Version
<1>2. t \in Text /\ used \in UsedType
  BY <1>1, EditingFacts DEF IInv, Typed
<1>3. /\ toHost \in Seq(RequestType) /\ RequestsSound(toHost, web, doc')
      /\ toWeb \in Seq(AnswerType) /\ AnswersSound(toWeb, web, doc')
      /\ BusySound(host.busy, web, doc')
  BY <1>1, <1>2, StaySound
<1>4. /\ host' \in [ready : BOOLEAN, busy : BusyType] /\ BusySound(host'.busy, web, doc')
      /\ BeingApplied(host'.busy) = {}
  BY <1>1, <1>3, PhaseFacts
<1>5. IInv'
  BY <1>1, <1>2, <1>3, <1>4, HostStep
<1>6. Submitted = EditsIn(toHost) \cup {s} /\ Submitted' = EditsIn(toHost)
  BY <1>1, <1>4 DEF Submitted, BeingApplied
<1>7. s.of = Len(doc) /\ s.text = t
  BY <1>1
<1> HIDE DEF s
<1>8. Shared!Commit(s)
  BY <1>1, <1>7 DEF Shared!Commit
<1>9. s \in Submitted /\ Submitted' \in {Submitted, Submitted \ {s}}
  BY <1>6
<1>10. Shared!Enter
  BY <1>1, <1>8, <1>9 DEF Shared!Enter, Draft, IsOpen, InConflict
<1> QED
  BY <1>5, <1>10 DEF SharedStep, Shared!Next

LEMMA RefuseEditSound ==
  ASSUME IInv, RefuseEdit
  PROVE  IInv' /\ SharedStep
<1>1. /\ host.busy.kind = "edit" /\ host' = [host EXCEPT !.busy.phase = "refused"]
      /\ Disturb("refuse") \/ used' = used
      /\ web' = web /\ saved' = saved /\ toHost' = toHost /\ toWeb' = toWeb /\ doc' = doc
  BY DEF RefuseEdit, Editing
<1>2. used' \in UsedType /\ used'.strokes = used.strokes
  BY <1>1, DisturbFacts DEF IInv, Typed
<1>3. /\ toHost \in Seq(RequestType) /\ RequestsSound(toHost, web, doc)
      /\ toWeb \in Seq(AnswerType) /\ AnswersSound(toWeb, web, doc)
      /\ BusySound(host.busy, web, doc)
  BY StaySound
<1>4. /\ host' \in [ready : BOOLEAN, busy : BusyType] /\ BusySound(host'.busy, web, doc)
      /\ BeingApplied(host'.busy) = {}
  BY <1>1, <1>3, PhaseFacts
<1>5. IInv'
  BY <1>1, <1>2, <1>3, <1>4, HostStep
<1>6. SharedStep
  BY <1>1, <1>2, <1>4, ForgetStep DEF Submitted
<1> QED
  BY <1>5, <1>6

\* The provider has done with what it was awaiting, and may say so.
LEMMA DoneStep ==
  ASSUME IInv, host' = [host EXCEPT !.busy = Idle], web' = web, saved' = saved, toHost' = toHost,
         doc' = doc, used' \in UsedType, used'.strokes = used.strokes,
         NEW messages \in Seq(AnswerType), AnswersSound(messages, web, doc),
         toWeb' = toWeb \/ Post(messages)
  PROVE  IInv' /\ SharedStep
<1>1. /\ toHost \in Seq(RequestType) /\ RequestsSound(toHost, web, doc)
      /\ toWeb \in Seq(AnswerType) /\ AnswersSound(toWeb, web, doc)
      /\ host \in [ready : BOOLEAN, busy : BusyType]
  BY StaySound
<1> HIDE DEF AnswerType
<1>2. toWeb' \in Seq(AnswerType) /\ AnswersSound(toWeb', web, doc')
  <2>1. toWeb \o messages \in Seq(AnswerType) /\ AnswersSound(toWeb \o messages, web, doc)
    BY <1>1, PostSound
  <2> QED
    BY <1>1, <2>1 DEF Post
<1>3. Idle \in BusyType /\ Idle.kind = "idle"
  BY DEF BusyType, Idle
<1>4. host' \in [ready : BOOLEAN, busy : BusyType] /\ host'.busy = Idle
  BY <1>1, <1>3
<1>5. BusySound(Idle, web, doc)
  BY <1>3 DEF BusySound
<1>6. IInv'
  BY <1>1, <1>2, <1>4, <1>5, HostStep
<1>7. BeingApplied(host'.busy) = {}
  BY <1>3, <1>4 DEF BeingApplied
<1>8. SharedStep
  BY <1>7, ForgetStep DEF Submitted
<1> QED
  BY <1>6, <1>8

LEMMA FinishEditSound ==
  ASSUME IInv, FinishEdit
  PROVE  IInv' /\ SharedStep
<1> DEFINE answer == FullSync(doc, TRUE, FALSE, 0)
           ack == [type |-> "ack", id |-> host.busy.id, version |-> Len(doc)]
<1>1. /\ host.busy.kind = "edit" /\ host' = [host EXCEPT !.busy = Idle]
      /\ web' = web /\ saved' = saved /\ toHost' = toHost /\ doc' = doc /\ used' = used
      /\ Post(answer) \/ (doc[Len(doc)] = host.busy.expected /\ Post(<<ack>>))
  BY DEF FinishEdit, Editing, Current, Version
<1>2. /\ used \in UsedType /\ doc \in Seq(Text) /\ doc # <<>> /\ Len(doc) \in Nat \ {0}
  BY StaySound DEF IInv, Typed
<1>3. answer \in Seq(AnswerType) /\ AnswersSound(answer, web, doc)
  BY <1>2, FullSyncFacts
<1> HIDE DEF answer
<1>4. CASE Post(answer)
  BY <1>1, <1>2, <1>3, <1>4, DoneStep
<1>5. CASE doc[Len(doc)] = host.busy.expected /\ Post(<<ack>>)
  <2>1. /\ host.busy.id \in Nat \ {0} /\ host.busy.id <= web.sequence /\ IsOpen(web)
        /\ host.busy.id = web.flight.id => host.busy.expected = web.flight.text
    BY <1>1, EditingFacts
  <2>2. ack \in AnswerType
    BY <1>2, <2>1 DEF AnswerType
  <2>3. ack.type = "ack" /\ ack.id = host.busy.id /\ ack.version = Len(doc)
    OBVIOUS
  <2> HIDE DEF ack
  <2>4. AnswerSound(ack, web, doc)
    BY <1>2, <1>5, <2>1, <2>3 DEF AnswerSound
  <2>5. <<ack>> \in Seq(AnswerType) /\ AnswersSound(<<ack>>, web, doc)
    BY <2>2, <2>4, OneAnswer
  <2> QED
    BY <1>1, <1>2, <1>5, <2>5, DoneStep
<1> QED
  BY <1>1, <1>4, <1>5

LEMMA FinishActionSound ==
  ASSUME IInv, FinishAction
  PROVE  IInv' /\ SharedStep
<1> DEFINE answer == FullSync(doc, TRUE, FALSE, 0)
<1>1. /\ host' = [host EXCEPT !.busy = Idle]
      /\ web' = web /\ saved' = saved /\ toHost' = toHost /\ doc' = doc
      /\ (toWeb' = toWeb /\ used' = used) \/ (Disturb("throw") /\ Post(answer))
  BY DEF FinishAction
<1>2. used' \in UsedType /\ used'.strokes = used.strokes /\ doc \in Seq(Text) /\ doc # <<>>
  BY <1>1, DisturbFacts DEF IInv, Typed
<1>3. answer \in Seq(AnswerType) /\ AnswersSound(answer, web, doc)
  BY <1>2, FullSyncFacts
<1> HIDE DEF answer
<1> QED
  BY <1>1, <1>2, <1>3, DoneStep

LEMMA ExternalSound ==
  ASSUME IInv, NEW t \in Text, External(t)
  PROVE  IInv' /\ SharedStep
<1> DEFINE answer == FullSync(doc', FALSE, FALSE, 0)
<1>1. /\ Disturb("external") /\ doc' = Append(doc, t) /\ (toWeb' = toWeb \/ Post(answer))
      /\ web' = web /\ saved' = saved /\ toHost' = toHost /\ host' = host
  BY DEF External
<1>2. used' \in UsedType /\ used'.strokes = used.strokes
  BY <1>1, DisturbFacts DEF IInv
<1>3. /\ toHost \in Seq(RequestType) /\ RequestsSound(toHost, web, doc')
      /\ toWeb \in Seq(AnswerType) /\ AnswersSound(toWeb, web, doc')
      /\ host \in [ready : BOOLEAN, busy : BusyType] /\ BusySound(host.busy, web, doc')
      /\ doc' \in Seq(Text) /\ doc' # <<>>
  BY <1>1, StaySound
<1>4. answer \in Seq(AnswerType) /\ AnswersSound(answer, web, doc')
  BY <1>3, FullSyncFacts
<1> HIDE DEF answer
<1>5. toWeb' \in Seq(AnswerType) /\ AnswersSound(toWeb', web, doc')
  <2>1. toWeb \o answer \in Seq(AnswerType) /\ AnswersSound(toWeb \o answer, web, doc')
    BY <1>3, <1>4, PostSound
  <2> QED
    BY <1>1, <1>3, <2>1 DEF Post
<1>6. IInv'
  BY <1>1, <1>2, <1>3, <1>5, HostStep
<1>7. SharedStep
  BY <1>1, <1>2, ForeignStep DEF Submitted
<1> QED
  BY <1>6, <1>7

LEMMA ShowSound ==
  ASSUME IInv, Show
  PROVE  IInv' /\ SharedStep
<1>1. /\ Disturb("show") /\ Post(FullSync(doc, FALSE, FALSE, 0))
      /\ web' = web /\ saved' = saved /\ toHost' = toHost /\ doc' = doc /\ host' = host
  BY DEF Show
<1>2. used' \in UsedType /\ used'.strokes = used.strokes
  BY <1>1, DisturbFacts DEF IInv
<1>3. toHost \in Seq(RequestType) /\ RequestsSound(toHost, web, doc)
  BY StaySound
<1> QED
  BY <1>1, <1>2, <1>3, AnswerStep

LEMMA LoseSound ==
  ASSUME IInv, Lose
  PROVE  IInv' /\ SharedStep
<1>1. /\ Disturb("loss")
      /\ \/ toHost # <<>> /\ toHost' = Tail(toHost) /\ toWeb' = toWeb
         \/ toWeb # <<>> /\ toWeb' = Tail(toWeb) /\ toHost' = toHost
      /\ web' = web /\ saved' = saved /\ doc' = doc /\ host' = host
  BY DEF Lose
<1>2. used' \in UsedType /\ used'.strokes = used.strokes
  BY <1>1, DisturbFacts DEF IInv
<1>3. /\ toHost \in Seq(RequestType) /\ RequestsSound(toHost, web, doc)
      /\ toWeb \in Seq(AnswerType) /\ AnswersSound(toWeb, web, doc)
      /\ host \in [ready : BOOLEAN, busy : BusyType] /\ BusySound(host.busy, web, doc)
  BY StaySound
<1> HIDE DEF RequestType, AnswerType
<1>4. CASE toHost # <<>> /\ toHost' = Tail(toHost) /\ toWeb' = toWeb
  <2>1. toHost' \in Seq(RequestType) /\ RequestsSound(toHost', web, doc)
    BY <1>3, <1>4, RestSound
  <2>2. IInv'
    BY <1>1, <1>2, <1>3, <1>4, <2>1, HostStep
  <2>3. EditsIn(toHost') \subseteq EditsIn(toHost)
    BY <1>3, <1>4, EditsLeft
  <2>4. SharedStep
    BY <1>1, <1>2, <2>3, ForgetStep DEF Submitted
  <2> QED
    BY <2>2, <2>4
<1>5. CASE toWeb # <<>> /\ toWeb' = Tail(toWeb) /\ toHost' = toHost
  <2>1. toWeb' \in Seq(AnswerType) /\ AnswersSound(toWeb', web, doc)
    BY <1>3, <1>5, RestSound
  <2>2. IInv'
    BY <1>1, <1>2, <1>3, <1>5, <2>1, HostStep
  <2>3. SharedStep
    BY <1>1, <1>2, <1>5, SharedStutter DEF Submitted
  <2> QED
    BY <2>2, <2>3
<1> QED
  BY <1>1, <1>4, <1>5
-----------------------------------------------------------------------------
(* The theorems.                                                            *)

LEMMA StutterSound ==
  ASSUME IInv, UNCHANGED vars
  PROVE  IInv' /\ SharedStep
<1>1. /\ web' = web /\ saved' = saved /\ toHost' = toHost /\ toWeb' = toWeb
      /\ doc' = doc /\ host' = host /\ used' = used
  BY DEF vars
<1>2. IInv'
  BY <1>1 DEF IInv, Typed, Kept
<1>3. SharedStep
  BY <1>1, SharedStutter DEF Submitted
<1> QED
  BY <1>2, <1>3

LEMMA NextSound ==
  ASSUME IInv, [Next]_vars
  PROVE  IInv' /\ (DraftsKept => SharedStep)
<1>1. CASE \E t \in Text : Type(t) \/ External(t)
  BY <1>1, TypeSound, ExternalSound
<1>2. CASE \E action \in Actions : Press(action)
  BY <1>2, PressSound
<1>3. CASE \E keep \in BOOLEAN : Resolve(keep)
  BY <1>3, ResolveSound
<1>4. CASE GetText \/ GetAck
  BY <1>4, GetTextSound, GetAckSound
<1>5. CASE Timeout \/ AskAgain
  BY <1>5, RequestConnectionSound DEF Timeout, AskAgain
<1>6. CASE Reload \/ ClickWhileOpening
  BY <1>6, ReloadSound, ClickSound
<1>7. CASE HandleReady \/ HandleSync \/ HandleEdit \/ HandleAction
  BY <1>7, HandleReadySound, HandleSyncSound, HandleEditSound, HandleActionSound
<1>8. CASE ApplyEdit \/ RefuseEdit \/ FinishEdit \/ FinishAction
  BY <1>8, ApplyEditSound, RefuseEditSound, FinishEditSound, FinishActionSound
<1>9. CASE Show \/ Lose
  BY <1>9, ShowSound, LoseSound
<1>10. CASE UNCHANGED vars
  BY <1>10, StutterSound
<1> QED
  BY <1>1, <1>2, <1>3, <1>4, <1>5, <1>6, <1>7, <1>8, <1>9, <1>10 DEF Next

\* What is under way always fits the webview and the document it is for: each edit
\* leads from the text of the version it names, each text is the one of its
\* version, and an acknowledgement of the edit awaited names a version with its text.
THEOREM Invariant == Spec => []IInv
<1>1. Init => IInv
  BY InitSound
<1>2. IInv /\ [Next]_vars => IInv'
  BY NextSound
<1> QED
  BY <1>1, <1>2, PTL DEF Spec

\* The types; among them, that the provider never applies a change to a text it was
\* not made for (handleMessage compares message.version with document.version): the
\* document only ever has texts somebody wrote.
THEOREM TypeOKHolds == Spec => []TypeOK
<1>1. IInv => TypeOK
  <2> SUFFICES ASSUME IInv PROVE TypeOK
    OBVIOUS
  <2>1. /\ doc \in Seq(Text) /\ doc # <<>> /\ toHost \in Seq(RequestType)
        /\ toWeb \in Seq(AnswerType) /\ host \in [ready : BOOLEAN, busy : BusyType]
        /\ saved \in Text \cup {NoText} /\ used \in UsedType /\ web \in WebType
    BY DEF IInv, Typed, WebSound
  <2>2. \A i \in 1 .. Len(toHost) : toHost[i].type \in {"ready", "sync", "edit", "action"}
    BY <2>1, ElementOfSeq, RequestFacts
  <2>3. \A i \in 1 .. Len(toWeb) : toWeb[i].type \in {"setText", "ack"}
    BY <2>1, ElementOfSeq, AnswerFacts
  <2>4. host.ready \in BOOLEAN /\ host.busy.kind \in {"idle", "edit", "action"}
    BY <2>1, BusyFacts
  <2> QED
    BY <2>1, <2>2, <2>3, <2>4 DEF TypeOK, UsedType
<1> QED
  BY <1>1, Invariant, PTL

\* DocumentSync never takes a text for that of a version the file did not have it
\* at, whatever is lost, late or asked for twice; so an edit it makes can be applied.
THEOREM VersionsAgreeHolds == Spec => []VersionsAgree
<1>1. IInv => VersionsAgree
  <2> SUFFICES ASSUME IInv PROVE VersionsAgree
    OBVIOUS
  <2>1. doc \in Seq(Text) /\ WebSound(web, doc)
    BY DEF IInv, Typed
  <2>2. InConflict(web) => IsOpen(web)
    BY <2>1 DEF WebSound, InConflict
  <2>3. InConflict(web) => web.conflict.version \in 1 .. Len(doc)
    BY <2>1, <2>2, VersionFacts DEF WebSound
  <2> QED
    BY <2>1, <2>3 DEF VersionsAgree, WebSound, Version
<1> QED
  BY <1>1, Invariant, PTL

\* flushAction sends a save or run only with the version whose text the writer sees,
\* so the provider accepts none for another text.
THEOREM ActionsSeeDraftHolds == Spec => []ActionsSeeDraft
<1>1. IInv => ActionsSeeDraft
  <2> SUFFICES ASSUME IInv PROVE ActionsSeeDraft
    OBVIOUS
  <2>1. RequestsSound(toHost, web, doc)
    BY DEF IInv
  <2> QED
    BY <2>1 DEF ActionsSeeDraft, RequestsSound, RequestSound, Current
<1> QED
  BY <1>1, Invariant, PTL

\* Webview, provider and channels implement SharedText: the writer's draft is
\* replaced by nobody else, enters the file only on top of the version it was made
\* for, and no foreign text is passed over.  A click before the file arrives makes
\* VS Code forget a recovered draft, which a second reload then loses: so not both.
THEOREM KeepsPromisesHolds == ASSUME DraftsKept PROVE Spec => KeepsPromises
<1>1. Init => Shared!Init
  <2> SUFFICES ASSUME Init PROVE Shared!Init
    OBVIOUS
  <2>1. PICK recovery \in Text \cup {NoText} : web = Opening(recovery)
    BY DEF Init
  <2>2. /\ web.version = 0 /\ web.flight = NoFlight /\ web.conflict = NoConflict
        /\ web.recovery = recovery
    BY <2>1 DEF Opening
  <2>3. Draft \in Text \cup {NoText} /\ ~InConflict(web) /\ web.flight.text = NoText
    BY <2>2, NoFlightFacts DEF Draft, IsOpen, InConflict
  <2>4. EditsIn(toHost) = {} /\ BeingApplied(host.busy) = {}
    <3>1. Ready \in RequestType /\ Ready.type = "ready"
      BY DEF Ready, RequestType
    <3>2. EditsIn(<<Ready>>) = {}
      BY <3>1, OneSent
    <3> QED
      BY <3>2 DEF Init, BeingApplied, Idle
  <2>5. used.strokes = 0 /\ \E t \in Text : doc = <<t>>
    BY DEF Init
  <2> QED
    BY <2>2, <2>3, <2>4, <2>5 DEF Shared!Init, Submitted, InConflict
<1>2. IInv /\ [Next]_vars => [Shared!Next]_(Shared!vars)
  BY NextSound DEF SharedStep
<1> QED
  BY <1>1, <1>2, Invariant, PTL DEF Spec, KeepsPromises, Shared!Spec
-----------------------------------------------------------------------------
\* Nobody else changes the file, refuses an edit or closes the editor.
Alone == Disturbances \subseteq {"loss", "show", "click"}

\* An edit the provider may still apply.
EditAsked(b) == b.kind = "edit" /\ b.phase = "asked"
EditIn(q)    == \E i \in 1 .. Len(q) : q[i].type = "edit"
EditUnderWay(q, b) == EditIn(q) \/ EditAsked(b)

\* A webview alone with a file of v versions knows them all but for its own edit;
\* nothing is kept from the provider, and no conflict outlives the first edit.
WebAlone(w, v) ==
  /\ ~IsOpen(w) => w.sequence = 0
  /\ w.sequence = 0 => v = 1
  /\ InConflict(w) => w.sequence = 0
  /\ IsOpen(w) /\ w.flight = NoFlight => w.version = v /\ (InConflict(w) \/ w.local = w.base)
  /\ w.flight # NoFlight => w.flight.text # w.base /\ v \in {w.version, w.version + 1}

\* There is at most one edit, the flight, for the latest version; a save or run is
\* for that version too, so it is not behind the edit, and a request that names
\* the flight is not before it.
QueueAlone(q, b, w, v) ==
  /\ \A i \in 1 .. Len(q) :
       /\ q[i].type = "edit" => q[i].base = v /\ q[i].id = w.flight.id /\ w.version = v
       /\ q[i].type = "action" => q[i].version = v
       /\ q[i].type = "sync" => q[i].recoveryId <= w.sequence
       /\ EditAsked(b) => q[i].type \notin {"edit", "action"}
  /\ \A i, j \in 1 .. Len(q) :
       i < j => /\ q[i].type = "edit" => q[j].type \notin {"edit", "action"}
                /\ q[i].type = "sync" /\ q[i].recoveryId = w.flight.id => q[j].type # "edit"

\* The edit being applied is the flight too, and none is refused.
BusyAlone(b, w, d) ==
  /\ EditAsked(b) => b.version = Len(d) /\ b.id = w.flight.id /\ w.version = Len(d)
  /\ b.kind = "edit" /\ ~EditAsked(b) => b.phase = "applied" /\ d[Len(d)] = b.expected

\* Nothing is rejected; an answer to a request that named the flight was given when
\* the flight was over, one way or the other.
AnswersAlone(p, w, v, underWay) ==
  \A i \in 1 .. Len(p) :
     p[i].type = "setText" =>
       /\ ~p[i].rejected /\ p[i].recoveryId <= w.sequence
       /\ p[i].authoritative /\ w.flight # NoFlight /\ p[i].recoveryId = w.flight.id =>
            p[i].version = v /\ ~underWay

AInv == /\ WebAlone(web, Version)
        /\ web.flight # NoFlight /\ Version # web.version => Current = web.flight.text
        /\ QueueAlone(toHost, host.busy, web, Version)
        /\ BusyAlone(host.busy, web, doc)
        /\ AnswersAlone(toWeb, web, Version, EditUnderWay(toHost, host.busy))
-----------------------------------------------------------------------------
(* What a handler sends: nothing, one edit, or one save or run.             *)

SentNone(w, r) ==
  r.out = <<>> /\ r.web.sequence = w.sequence /\ r.web.flight \in {w.flight, NoFlight}

SentEdit(w, r) ==
  \E m \in RequestType :
     /\ r.out = <<m>> /\ m.type = "edit" /\ m.id = w.sequence + 1 /\ m.base = r.web.version
     /\ r.web.sequence = m.id /\ r.web.flight.id = m.id

SentAction(w, r) ==
  \E m \in RequestType :
     /\ r.out = <<m>> /\ m.type = "action" /\ m.version = r.web.version
     /\ r.web.sequence = w.sequence /\ r.web.flight = NoFlight

\* Only of the latest version, and only when the buffer has come to rest.
HandledAlone(w, r, v) ==
  /\ WebAlone(r.web, v)
  /\ SentNone(w, r) \/ (SentEdit(w, r) /\ r.web.version = v)

\* The flight is over only when the edit is.
Settled(w, r, v, underWay) ==
  \/ r.web.flight = w.flight /\ r.web.version = w.version
  \/ ~underWay /\ (r.web.flight # NoFlight => r.web.version = v)

\* A webview alone whose buffer may yet be ahead of its base.
NearlyAlone(w, v) ==
  /\ w.sequence = 0 => v = 1
  /\ InConflict(w) => w.sequence = 0
  /\ w.flight = NoFlight => w.version = v
  /\ w.flight # NoFlight => w.flight.text # w.base /\ v \in {w.version, w.version + 1}

LEMMA FlushAlone ==
  ASSUME NEW d \in Seq(Text), NEW x, WebSound(x, d), IsOpen(x), NEW v, NearlyAlone(x, v)
  PROVE  LET r == Flush(x) IN
         /\ HandledAlone(x, r, v) /\ SameBuffer(r.web, x)
         /\ IF x.flight # NoFlight THEN r.web.flight = x.flight
            ELSE r.web.version = v
<1> DEFINE r == Flush(x)
<1>1. Continues(x, r, d) /\ SameBuffer(r.web, x)
  BY FlushFacts
<1>2. x \in WebType
  BY DEF WebSound
<1>3. CASE ~IsOpen(x) \/ x.flight # NoFlight \/ InConflict(x) \/ x.local = x.base
  <2>1. r = Quiet(x)
    BY <1>3 DEF Flush
  <2>2. r.web = x /\ r.out = <<>>
    BY <2>1 DEF Quiet
  <2> QED
    BY <1>1, <1>3, <2>2 DEF HandledAlone, SentNone, WebAlone, NearlyAlone
<1>4. CASE ~(~IsOpen(x) \/ x.flight # NoFlight \/ InConflict(x) \/ x.local = x.base)
  <2> DEFINE flight == [id |-> x.sequence + 1, text |-> x.local]
             y == [x EXCEPT !.sequence = @ + 1, !.flight = flight]
             m == [type |-> "edit", id |-> x.sequence + 1, base |-> x.version,
                   change |-> [of |-> x.base, to |-> x.local]]
  <2>1. r = [web |-> y, out |-> <<m>>]
    BY <1>4 DEF Flush
  <2>2. /\ y.version = x.version /\ y.base = x.base /\ y.local = x.local /\ y.conflict = x.conflict
        /\ y.sequence = x.sequence + 1 /\ y.flight = flight
    BY <1>2 DEF WebType
  <2>3. r.web = y /\ r.out = <<m>>
    BY <2>1
  <2>4. /\ x.version \in 1 .. Len(d) /\ x.base \in Text /\ x.local \in Text /\ x.sequence \in Nat
    BY OpenFacts
  <2>5. m \in RequestType /\ m.type = "edit" /\ m.id = x.sequence + 1 /\ m.base = x.version
    <3>1. x.version \in Nat \ {0} /\ x.sequence + 1 \in Nat \ {0}
      BY <2>4
    <3> QED
      BY <2>4, <3>1 DEF RequestType
  <2>6. flight.id = x.sequence + 1 /\ flight.text = x.local /\ flight # NoFlight
    BY <2>4 DEF NoFlight
  <2> HIDE DEF flight, y, m, r
  <2>7. SentEdit(x, r)
    BY <2>2, <2>3, <2>5, <2>6 DEF SentEdit
  <2>8. x.version = v
    BY <1>4 DEF NearlyAlone
  <2>9. WebAlone(y, v)
    <3>1. y.sequence # 0
      BY <2>2, <2>4
    <3>2. IsOpen(y) /\ ~InConflict(y)
      BY <1>4, <2>2 DEF IsOpen, InConflict
    <3> QED
      BY <1>4, <2>2, <2>6, <2>8, <3>1, <3>2 DEF WebAlone
  <2> QED
    BY <1>1, <1>4, <2>2, <2>3, <2>7, <2>8, <2>9 DEF HandledAlone, r
<1> QED
  BY <1>3, <1>4

\* A handler that flushes a webview made of w.
LEMMA FlushAloneFrom ==
  ASSUME NEW d \in Seq(Text), NEW w, NEW x, WebSound(x, d), IsOpen(x), NEW v, NearlyAlone(x, v),
         x.sequence = w.sequence, x.flight = NoFlight, NEW underWay, ~underWay
  PROVE  HandledAlone(w, Flush(x), v) /\ Settled(w, Flush(x), v, underWay)
<1>1. /\ HandledAlone(x, Flush(x), v) /\ Flush(x).web.version = v
  BY FlushAlone
<1>2. SentNone(x, Flush(x)) => SentNone(w, Flush(x))
  BY DEF SentNone
<1>3. SentEdit(x, Flush(x)) => SentEdit(w, Flush(x))
  BY DEF SentEdit
<1> QED
  BY <1>1, <1>2, <1>3 DEF HandledAlone, Settled

LEMMA QuietAlone ==
  ASSUME NEW w, NEW v, WebAlone(w, v), NEW underWay
  PROVE  HandledAlone(w, Quiet(w), v) /\ Settled(w, Quiet(w), v, underWay)
<1>1. Quiet(w).web = w /\ Quiet(w).out = <<>>
  BY DEF Quiet
<1> QED
  BY <1>1 DEF HandledAlone, SentNone, Settled

LEMMA AcknowledgeAlone ==
  ASSUME NEW d \in Seq(Text), NEW w, WebSound(w, d), IsOpen(w), WebAlone(w, Len(d)),
         NEW underWay, underWay => w.version = Len(d),
         NEW id, NEW n \in 1 .. Len(d), id = w.flight.id => d[n] = w.flight.text
  PROVE  LET r == Acknowledge(w, id, n) IN
         HandledAlone(w, r, Len(d)) /\ Settled(w, r, Len(d), underWay)
<1>1. CASE w.flight = NoFlight \/ id # w.flight.id \/ n < w.version
  <2>1. Acknowledge(w, id, n) = Quiet(w)
    BY <1>1 DEF Acknowledge
  <2> QED
    BY <2>1, QuietAlone
<1>2. CASE ~(w.flight = NoFlight \/ id # w.flight.id \/ n < w.version)
  <2> DEFINE x == [w EXCEPT !.base = w.flight.text, !.version = n, !.flight = NoFlight]
  <2>1. Acknowledge(w, id, n) = Flush(x)
    BY <1>2 DEF Acknowledge
  <2>2. w \in WebType
    BY DEF WebSound
  <2>3. /\ w.version \in 1 .. Len(d) /\ Len(d) \in Nat /\ w.local \in Text /\ w.flight.text \in Text
        /\ w.base = d[w.version] /\ w.sequence \in Nat
    BY <1>2, OpenFacts, LenProperties
  <2>4. n \in w.version .. Len(d) /\ n \in Nat /\ d[n] = w.flight.text
    BY <1>2, <2>3
  <2>5. /\ x.version = n /\ x.base = w.flight.text /\ x.local = w.local /\ x.flight = NoFlight
        /\ x.sequence = w.sequence /\ x.conflict = w.conflict
    BY <2>2 DEF WebType
  <2>6. x \in WebType
    BY <2>2, <2>3, <2>4, NoFlightFacts DEF WebType
  <2> HIDE DEF x
  <2>7. ~InConflict(w)
    BY <1>2 DEF WebSound
  <2>8. WebSound(x, d) /\ IsOpen(x) /\ ~InConflict(x)
    BY <2>3, <2>4, <2>5, <2>6, <2>7, NewsFacts
  <2>9. n # w.version
    BY <1>2, <2>3, <2>4 DEF WebAlone
  <2>10. n = Len(d) /\ w.version # Len(d)
    <3>1. Len(d) \in {w.version, w.version + 1}
      BY <1>2 DEF WebAlone
    <3>2. n > w.version
      BY <2>3, <2>4, <2>9
    <3> QED
      BY <2>3, <2>4, <3>1, <3>2
  <2>11. NearlyAlone(x, Len(d))
    BY <2>5, <2>8, <2>10 DEF NearlyAlone, WebAlone
  <2>12. ~underWay
    BY <2>10
  <2> QED
    BY <2>1, <2>5, <2>8, <2>11, <2>12, FlushAloneFrom
<1> QED
  BY <1>1, <1>2

\* An open webview alone takes a text of the file.
LEMMA ReceiveAlone ==
  ASSUME NEW d \in Seq(Text), NEW w, WebSound(w, d), IsOpen(w), WebAlone(w, Len(d)),
         w.flight # NoFlight /\ Len(d) # w.version => d[Len(d)] = w.flight.text,
         NEW underWay, underWay => w.version = Len(d),
         NEW m, m.version \in 1 .. Len(d), m.text = d[m.version], ~m.rejected,
         m.authoritative \in BOOLEAN,
         m.authoritative /\ w.flight # NoFlight /\ m.recoveryId = w.flight.id =>
           m.version = Len(d) /\ ~underWay,
         w.flight = NoFlight => ~underWay
  PROVE  LET r == Receive(w, m) IN
         HandledAlone(w, r, Len(d)) /\ Settled(w, r, Len(d), underWay)
<1> DEFINE r == Receive(w, m)
<1>1. w \in WebType
  BY DEF WebSound
<1>2. /\ w.version \in 1 .. Len(d) /\ Len(d) \in Nat /\ w.local \in Text
      /\ w.base = d[w.version] /\ w.base \in Text /\ w.sequence \in Nat
  BY OpenFacts, LenProperties
<1>3. CASE m.version < w.version \/ (m.authoritative /\ m.recoveryId # w.flight.id)
  <2>1. r = Quiet(w)
    BY <1>3 DEF Receive
  <2> QED
    BY <2>1, QuietAlone
<1>4. CASE ~(m.version < w.version \/ (m.authoritative /\ m.recoveryId # w.flight.id))
  <2>1. /\ m.version \in w.version .. Len(d)
        /\ m.version \in Nat \ {0} /\ m.text \in Text
    <3>1. m.version \in w.version .. Len(d)
      BY <1>2, <1>4
    <3> QED
      BY <3>1, VersionFacts
  <2>2. /\ m.version \in {w.version, Len(d)}
        /\ m.version # w.version => w.flight # NoFlight /\ m.text = w.flight.text
    <3>1. CASE w.flight = NoFlight
      BY <1>2, <2>1, <3>1 DEF WebAlone
    <3>2. CASE w.flight # NoFlight
      <4>1. Len(d) \in {w.version, w.version + 1}
        BY <3>2 DEF WebAlone
      <4> QED
        BY <1>2, <2>1, <3>2, <4>1
    <3> QED
      BY <3>1, <3>2
  <2>3. m.version = w.version => m.text = w.base
    BY <1>2
  <2>4. CASE InConflict(w)
    <3> DEFINE offer == [text |-> m.text, version |-> m.version]
               x == [w EXCEPT !.conflict = offer]
    <3>1. r = Quiet(x)
      BY <1>4, <2>4 DEF Receive
    <3>2. offer # NoConflict
      BY <2>1 DEF NoConflict
    <3> HIDE DEF offer
    <3>3. /\ x.version = w.version /\ x.base = w.base /\ x.local = w.local /\ x.flight = w.flight
          /\ x.sequence = w.sequence /\ x.conflict = offer
      BY <1>1 DEF WebType
    <3> HIDE DEF x
    <3>4. WebAlone(x, Len(d))
      BY <2>4, <3>2, <3>3 DEF WebAlone, IsOpen, InConflict
    <3>5. r.web = x /\ r.out = <<>>
      BY <3>1 DEF Quiet
    <3> QED
      BY <3>3, <3>4, <3>5 DEF HandledAlone, SentNone, Settled
  <2>5. CASE ~InConflict(w) /\ w.flight # NoFlight /\ m.text = w.flight.text
    <3>1. r = Acknowledge(w, w.flight.id, m.version)
      BY <1>4, <2>5 DEF Receive
    <3>2. w.flight.id = w.flight.id => d[m.version] = w.flight.text
      BY <2>5
    <3> QED
      BY <3>1, <3>2, AcknowledgeAlone
  <2>6. CASE ~InConflict(w) /\ ~(w.flight # NoFlight /\ m.text = w.flight.text)
    <3>1. m.text = w.base /\ m.version = w.version
      BY <2>2, <2>3, <2>6
    <3>2. CASE m.authoritative
      <4> DEFINE x == [w EXCEPT !.flight = NoFlight, !.version = m.version]
      <4>1. r = Flush(x)
        BY <1>4, <2>6, <3>1, <3>2 DEF Receive
      <4>2. /\ x.version = w.version /\ x.base = w.base /\ x.local = w.local /\ x.flight = NoFlight
            /\ x.sequence = w.sequence /\ x.conflict = w.conflict
        BY <1>1, <3>1 DEF WebType
      <4>3. x \in WebType
        BY <1>1, <2>1, NoFlightFacts DEF WebType
      <4> HIDE DEF x
      <4>4. WebSound(x, d) /\ IsOpen(x) /\ ~InConflict(x)
        BY <1>2, <2>1, <2>6, <3>1, <4>2, <4>3, NewsFacts
      <4>5. w.version = Len(d) /\ ~underWay
        BY <1>4, <3>1, <3>2 DEF WebAlone
      <4>6. NearlyAlone(x, Len(d))
        BY <4>2, <4>4, <4>5 DEF NearlyAlone, WebAlone
      <4> QED
        BY <4>1, <4>2, <4>4, <4>5, <4>6, FlushAloneFrom
    <3>3. CASE ~m.authoritative
      <4> DEFINE x == [w EXCEPT !.version = m.version]
      <4>1. r = Quiet(x)
        BY <1>4, <2>6, <3>1, <3>3 DEF Receive
      <4>2. /\ x.version = w.version /\ x.base = w.base /\ x.local = w.local /\ x.flight = w.flight
            /\ x.sequence = w.sequence /\ x.conflict = w.conflict
        BY <1>1, <3>1 DEF WebType
      <4> HIDE DEF x
      <4>3. WebAlone(x, Len(d))
        BY <4>2 DEF WebAlone, IsOpen, InConflict
      <4>4. r.web = x /\ r.out = <<>>
        BY <4>1 DEF Quiet
      <4> QED
        BY <4>2, <4>3, <4>4 DEF HandledAlone, SentNone, Settled
    <3> QED
      BY <3>2, <3>3
  <2> QED
    BY <2>4, <2>5, <2>6
<1> QED
  BY <1>3, <1>4

\* Queueing an action and forgetting the recovery text do not matter.
LEMMA HandledAlike ==
  ASSUME NEW w, NEW r, NEW s, NEW v, NEW underWay, HandledAlone(w, r, v),
         Settled(w, r, v, underWay), SameSync(s.web, r.web), s.out = r.out
  PROVE  HandledAlone(w, s, v) /\ Settled(w, s, v, underWay)
<1>1. WebAlone(s.web, v)
  BY DEF HandledAlone, WebAlone, SameSync, IsOpen, InConflict
<1>2. SentNone(w, r) => SentNone(w, s)
  BY DEF SentNone, SameSync
<1>3. SentEdit(w, r) => SentEdit(w, s)
  BY DEF SentEdit, SameSync
<1> QED
  BY <1>1, <1>2, <1>3 DEF HandledAlone, Settled, SameSync

\* The first text meets a webview alone, with or without a draft to recover.
LEMMA RestoreAlone ==
  ASSUME NEW d \in Seq(Text), NEW w, WebSound(w, d), WebAlone(w, Len(d)),
         w.flight # NoFlight /\ Len(d) # w.version => d[Len(d)] = w.flight.text,
         NEW underWay, underWay => w.version = Len(d),
         NEW m, m.version \in 1 .. Len(d), m.text = d[m.version], ~m.rejected,
         m.rejected \in BOOLEAN, m.authoritative \in BOOLEAN,
         m.authoritative /\ w.flight # NoFlight /\ m.recoveryId = w.flight.id =>
           m.version = Len(d) /\ ~underWay,
         w.flight = NoFlight => ~underWay, ~IsOpen(w) => ~m.authoritative
  PROVE  LET r == Restore(w, m) IN
         HandledAlone(w, r, Len(d)) /\ Settled(w, r, Len(d), underWay)
<1> DEFINE q == Receive(w, m)
           r == Restore(w, m)
<1>1. w \in WebType
  BY DEF WebSound
<1>2. CASE IsOpen(w)
  <2> DEFINE v == [q.web EXCEPT !.recovery = NoText]
  <2>1. r = [q EXCEPT !.web = v]
    BY <1>2 DEF Restore
  <2>2. Continues(w, q, d)
    BY <1>2, ReceiveFacts
  <2>3. HandledAlone(w, q, Len(d)) /\ Settled(w, q, Len(d), underWay)
    BY <1>2, ReceiveAlone
  <2> HIDE DEF q, r
  <2>4. v \in WebType /\ SameSync(v, q.web)
    <3>1. q.web \in WebType
      BY <2>2 DEF Continues, ResultType
    <3> QED
      BY <3>1 DEF WebType, SameSync
  <2> HIDE DEF v
  <2>5. r.web = v /\ r.out = q.out
    BY <2>1, <2>2, <2>4, SameSyncFacts
  <2>6. HandledAlone(w, r, Len(d)) /\ Settled(w, r, Len(d), underWay)
    BY <2>3, <2>4, <2>5, HandledAlike
  <2> QED
    BY <2>6 DEF r
<1>3. CASE ~IsOpen(w)
  <2> DEFINE x == [w EXCEPT !.flight = NoFlight, !.base = m.text, !.local = m.text,
                            !.version = m.version]
  <2>1. /\ w.version = 0 /\ w.flight = NoFlight /\ w.conflict = NoConflict /\ w.sequence = 0
        /\ Len(d) = 1 /\ m.version = 1
    <3>1. w.sequence = 0 /\ Len(d) = 1
      BY <1>3 DEF WebAlone
    <3> QED
      BY <1>1, <1>3, <3>1 DEF WebSound, IsOpen
  <2>2. m.text \in Text /\ m.version \in Nat
    <3>1. m.text \in Text
      BY ElementOfSeq
    <3> QED
      BY <2>1, <3>1
  <2>3. q = Quiet(x)
    BY <1>3, <2>1 DEF Receive, Adopt
  <2>4. /\ x.version = 1 /\ x.base = m.text /\ x.local = m.text /\ x.flight = NoFlight
        /\ x.sequence = 0 /\ x.recovery = w.recovery /\ x.conflict = NoConflict
    BY <1>1, <2>1 DEF WebType
  <2>5. x \in WebType
    BY <1>1, <2>1, <2>2, NoFlightFacts DEF WebType
  <2> HIDE DEF x
  <2>6. q.web = x /\ q.out = <<>> /\ q = [web |-> x, out |-> <<>>]
    BY <2>3 DEF Quiet
  <2> HIDE DEF q
  <2>7. CASE w.recovery # NoText /\ w.recovery # m.text
    <3> DEFINE offer == [text |-> x.base, version |-> x.version]
               v == [x EXCEPT !.local = x.recovery, !.recovery = NoText, !.conflict = offer]
    <3>1. r = Quiet(v)
      BY <1>3, <2>4, <2>6, <2>7 DEF Restore, q
    <3>2. offer # NoConflict
      BY <2>4 DEF NoConflict
    <3> HIDE DEF offer
    <3>3. /\ v.version = 1 /\ v.flight = NoFlight /\ v.sequence = 0 /\ v.conflict = offer
      BY <2>4, <2>5 DEF WebType
    <3> HIDE DEF v, r
    <3>4. WebAlone(v, Len(d))
      BY <2>1, <3>2, <3>3 DEF WebAlone, IsOpen, InConflict
    <3>5. r.web = v /\ r.out = <<>>
      BY <3>1 DEF Quiet
    <3>6. HandledAlone(w, r, Len(d)) /\ Settled(w, r, Len(d), underWay)
      BY <2>1, <3>3, <3>4, <3>5 DEF HandledAlone, SentNone, Settled
    <3> QED
      BY <3>6 DEF r
  <2>8. CASE ~(w.recovery # NoText /\ w.recovery # m.text)
    <3> DEFINE v == [x EXCEPT !.recovery = NoText]
    <3>1. r = [q EXCEPT !.web = v]
      BY <2>4, <2>6, <2>8 DEF Restore, q
    <3>2. /\ v.version = 1 /\ v.flight = NoFlight /\ v.sequence = 0 /\ v.conflict = NoConflict
          /\ v.local = m.text /\ v.base = m.text
      BY <2>4, <2>5 DEF WebType
    <3> HIDE DEF v, r
    <3>3. WebAlone(v, Len(d))
      BY <2>1, <3>2 DEF WebAlone, IsOpen, InConflict
    <3>4. r.web = v /\ r.out = <<>>
      BY <2>6, <3>1
    <3>5. HandledAlone(w, r, Len(d)) /\ Settled(w, r, Len(d), underWay)
      BY <2>1, <3>2, <3>3, <3>4 DEF HandledAlone, SentNone, Settled
    <3> QED
      BY <3>5 DEF r
  <2> QED
    BY <2>7, <2>8
<1> QED
  BY <1>2, <1>3

\* After a handler a save or run may be sent.
LEMMA FlushActionAlone ==
  ASSUME NEW d \in Seq(Text), NEW w, NEW r, Continues(w, r, d), NEW v, NEW underWay,
         HandledAlone(w, r, v), Settled(w, r, v, underWay)
  PROVE  LET s == FlushAction(r) IN
         /\ Settled(w, s, v, underWay) /\ WebAlone(s.web, v)
         /\ SentNone(w, s) \/ (SentEdit(w, s) /\ s.web.version = v) \/ SentAction(w, s)
<1> DEFINE s == FlushAction(r)
           x == r.web
           y == [x EXCEPT !.queued = "none"]
           m == [type |-> "action", action |-> x.queued, version |-> x.version, seen |-> x.local]
<1>1. CASE x.queued = "none" \/ Pending(x) \/ InConflict(x) \/ ~IsOpen(x)
  <2>1. s = r
    BY <1>1 DEF FlushAction
  <2> HIDE DEF s
  <2>2. /\ Settled(w, s, v, underWay) /\ WebAlone(s.web, v)
        /\ SentNone(w, s) \/ (SentEdit(w, s) /\ s.web.version = v)
    BY <2>1 DEF HandledAlone
  <2> QED
    BY <2>2 DEF s
<1>2. CASE ~(x.queued = "none" \/ Pending(x) \/ InConflict(x) \/ ~IsOpen(x))
  <2>1. r \in ResultType /\ x \in WebType /\ WebSound(x, d) /\ IsOpen(x)
    BY DEF Continues, ResultType
  <2>2. s = [web |-> y, out |-> Append(r.out, m)]
    BY <1>2 DEF FlushAction
  <2>3. SameSync(y, x) /\ x.flight = NoFlight
    BY <1>2, <2>1 DEF WebType, SameSync, Pending
  <2>4. SentNone(w, r)
    <3>1. SUFFICES ASSUME SentEdit(w, r) PROVE FALSE
      BY DEF HandledAlone
    <3>2. PICK e \in RequestType : e.type = "edit" /\ x.flight.id = e.id
      BY <3>1 DEF SentEdit
    <3> QED
      BY <2>3, <3>2, RequestFacts, NoFlightFacts
  <2>5. s.web = y /\ s.out = <<m>>
    <3>1. r.out = <<>>
      BY <2>4 DEF SentNone
    <3>2. Append(<<>>, m) = <<m>>
      OBVIOUS
    <3> QED
      BY <2>2, <3>1, <3>2
  <2>6. x.version \in 1 .. Len(d) /\ x.local \in Text /\ x.queued \in Actions
    BY <1>2, <2>1, OpenFacts DEF WebType
  <2>7. m \in RequestType /\ m.type = "action" /\ m.version = x.version
    <3>1. x.version \in Nat \ {0}
      BY <2>6
    <3> QED
      BY <2>6, <3>1 DEF RequestType
  <2> HIDE DEF m, y, s, x
  <2>8. SentAction(w, s)
    <3>1. x.sequence = w.sequence
      BY <2>4 DEF SentNone, x
    <3> QED
      BY <2>3, <2>5, <2>7, <3>1 DEF SentAction, SameSync
  <2>9. WebAlone(s.web, v)
    BY <2>3, <2>5 DEF HandledAlone, WebAlone, SameSync, IsOpen, InConflict, x
  <2>10. Settled(w, s, v, underWay)
    BY <2>3, <2>5 DEF Settled, SameSync, x
  <2> QED
    BY <2>8, <2>9, <2>10 DEF s
<1> QED
  BY <1>1, <1>2
-----------------------------------------------------------------------------
(* What a step keeps of a file with one editor.                             *)

\* No edit is under way when none is awaited.
LEMMA UnderWayFacts ==
  ASSUME IInv, AInv, EditUnderWay(toHost, host.busy)
  PROVE  web.version = Version /\ web.flight # NoFlight /\ web.flight.id # 0
<1>1. /\ toHost \in Seq(RequestType) /\ host.busy \in BusyType /\ Version = Len(doc)
  BY DEF IInv, Typed, Version
<1>2. CASE EditIn(toHost)
  <2>1. PICK i \in 1 .. Len(toHost) : toHost[i].type = "edit"
    BY <1>2 DEF EditIn
  <2>2. toHost[i] \in RequestType
    BY <1>1, ElementOfSeq
  <2>3. toHost[i].id = web.flight.id /\ web.version = Version
    BY <2>1 DEF AInv, QueueAlone
  <2> QED
    BY <2>1, <2>2, <2>3, RequestFacts, NoFlightFacts
<1>3. CASE EditAsked(host.busy)
  <2>1. host.busy.id = web.flight.id /\ web.version = Version
    BY <1>1, <1>3 DEF AInv, BusyAlone
  <2> QED
    BY <1>1, <1>3, <2>1, BusyFacts, NoFlightFacts DEF EditAsked
<1> QED
  BY <1>2, <1>3 DEF EditUnderWay

\* A queue of one message.
LEMMA OneInQueue ==
  ASSUME NEW m \in RequestType
  PROVE  <<m>> \in Seq(RequestType) /\ Len(<<m>>) = 1 /\ \A i \in 1 .. 1 : <<m>>[i] = m
<1> HIDE DEF RequestType
<1> QED
  OBVIOUS

\* The queue gets a message more, for a webview whose flight is the same, or for
\* which no edit is under way.
LEMMA QueueGrows ==
  ASSUME NEW q \in Seq(RequestType), NEW b, NEW w, NEW x, NEW v, QueueAlone(q, b, w, v),
         NEW m \in RequestType, NEW p, p = q \o <<m>>,
         w.sequence \in Nat, x.sequence \in Nat, w.sequence <= x.sequence,
         (x.flight = w.flight /\ x.version = w.version) \/ ~EditUnderWay(q, b),
         /\ m.type = "edit" => /\ m.base = v /\ m.id = x.flight.id /\ x.version = v
                               /\ ~EditUnderWay(q, b) /\ m.id > w.sequence
         /\ m.type = "action" => m.version = v /\ ~EditUnderWay(q, b)
         /\ m.type = "sync" => m.recoveryId <= x.sequence
  PROVE  QueueAlone(p, b, x, v)
<1>1. /\ p \in Seq(RequestType) /\ Len(q) \in Nat /\ Len(p) = Len(q) + 1
      /\ \A i \in 1 .. Len(p) : \/ i \in 1 .. Len(q) /\ p[i] = q[i]
                                \/ i = Len(q) + 1 /\ p[i] = m
  <2>1. <<m>> \in Seq(RequestType) /\ Len(<<m>>) = 1 /\ \A i \in 1 .. 1 : <<m>>[i] = m
    BY OneInQueue
  <2> HIDE DEF RequestType
  <2>2. /\ q \o <<m>> \in Seq(RequestType) /\ Len(q) \in Nat /\ Len(q \o <<m>>) = Len(q) + 1
        /\ \A i \in 1 .. Len(q \o <<m>>) :
             \/ i \in 1 .. Len(q) /\ (q \o <<m>>)[i] = q[i]
             \/ i - Len(q) \in 1 .. 1 /\ (q \o <<m>>)[i] = <<m>>[i - Len(q)]
    BY <2>1, JoinFacts
  <2>3. ASSUME NEW i \in 1 .. Len(p)
        PROVE  \/ i \in 1 .. Len(q) /\ p[i] = q[i]
               \/ i = Len(q) + 1 /\ p[i] = m
    <3>1. CASE i \in 1 .. Len(q) /\ (q \o <<m>>)[i] = q[i]
      BY <3>1
    <3>2. CASE i - Len(q) \in 1 .. 1 /\ (q \o <<m>>)[i] = <<m>>[i - Len(q)]
      <4>1. i = Len(q) + 1 /\ i - Len(q) = 1
        BY <2>2, <3>2
      <4> QED
        BY <2>1, <3>2, <4>1
    <3> QED
      BY <2>2, <3>1, <3>2
  <2> QED
    BY <2>2, <2>3
<1>2. \A i \in 1 .. Len(q) : q[i] \in RequestType
  BY ElementOfSeq
<1>3. ASSUME ~EditUnderWay(q, b)
      PROVE  ~EditAsked(b) /\ \A i \in 1 .. Len(q) : q[i].type # "edit"
  BY <1>3 DEF EditUnderWay, EditIn
<1>4. ASSUME NEW i \in 1 .. Len(p)
      PROVE  /\ p[i].type = "edit" => p[i].base = v /\ p[i].id = x.flight.id /\ x.version = v
             /\ p[i].type = "action" => p[i].version = v
             /\ p[i].type = "sync" => p[i].recoveryId <= x.sequence
             /\ EditAsked(b) => p[i].type \notin {"edit", "action"}
  <2>1. CASE i \in 1 .. Len(q) /\ p[i] = q[i]
    <3>1. q[i].type = "sync" => q[i].recoveryId <= x.sequence
      <4> SUFFICES ASSUME q[i].type = "sync" PROVE q[i].recoveryId <= x.sequence
        OBVIOUS
      <4>1. q[i].recoveryId \in Nat /\ q[i].recoveryId <= w.sequence
        BY <1>2, <2>1, RequestFacts DEF QueueAlone
      <4> QED
        BY <4>1
    <3>2. q[i].type = "edit" => q[i].base = v /\ q[i].id = x.flight.id /\ x.version = v
      BY <1>3, <2>1 DEF QueueAlone
    <3> QED
      BY <2>1, <3>1, <3>2 DEF QueueAlone
  <2>2. CASE p[i] = m
    BY <1>3, <2>2
  <2> QED
    BY <1>1, <2>1, <2>2
<1>5. ASSUME NEW i \in 1 .. Len(p), NEW j \in 1 .. Len(p), i < j
      PROVE  /\ p[i].type = "edit" => p[j].type \notin {"edit", "action"}
             /\ p[i].type = "sync" /\ p[i].recoveryId = x.flight.id => p[j].type # "edit"
  <2>1. i \in 1 .. Len(q) /\ p[i] = q[i]
    BY <1>1, <1>5
  <2>2. CASE j \in 1 .. Len(q) /\ p[j] = q[j]
    BY <1>3, <1>5, <2>1, <2>2 DEF QueueAlone
  <2>3. CASE p[j] = m
    <3>1. q[i].type = "edit" => m.type \notin {"edit", "action"}
      BY <1>3, <2>1
    <3>2. q[i].type = "sync" /\ q[i].recoveryId = x.flight.id => m.type # "edit"
      <4> SUFFICES ASSUME q[i].type = "sync", q[i].recoveryId = x.flight.id, m.type = "edit"
                   PROVE  FALSE
        OBVIOUS
      <4>1. q[i].recoveryId \in Nat /\ q[i].recoveryId <= w.sequence
        BY <1>2, <2>1, RequestFacts DEF QueueAlone
      <4>2. m.id = q[i].recoveryId /\ m.id > w.sequence
        OBVIOUS
      <4> QED
        BY <4>1, <4>2
    <3> QED
      BY <2>1, <2>3, <3>1, <3>2
  <2> QED
    BY <1>1, <2>2, <2>3
<1> QED
  BY <1>4, <1>5 DEF QueueAlone

\* A handler of the webview ends.
LEMMA WebStepAlone ==
  ASSUME IInv, AInv, NEW r, Continues(web, r, doc), WebDoes(r), doc' = doc, host' = host,
         toWeb' = toWeb \/ (toWeb # <<>> /\ toWeb' = Tail(toWeb)),
         WebAlone(r.web, Version),
         Settled(web, r, Version, EditUnderWay(toHost, host.busy)),
         SentNone(web, r) \/ (SentEdit(web, r) /\ r.web.version = Version) \/ SentAction(web, r)
  PROVE  AInv'
<1> DEFINE u == EditUnderWay(toHost, host.busy)
           x == r.web
<1>1. /\ web' = x /\ toHost' = toHost \o r.out /\ Version' = Version /\ Current' = Current
  BY DEF WebDoes, Version, Current
<1>2. /\ toHost \in Seq(RequestType) /\ toWeb \in Seq(AnswerType) /\ web \in WebType
      /\ web.sequence \in Nat /\ web.flight.id <= web.sequence /\ web.flight.id \in Nat
      /\ x.sequence \in Nat /\ web.sequence <= x.sequence
  <2>1. x \in WebType /\ web \in WebType /\ web.flight.id <= web.sequence
    BY DEF IInv, WebSound, Continues
  <2>2. web.flight.id \in Nat
    BY <2>1 DEF WebType, FlightType, NoFlight
  <2> QED
    BY <2>1, <2>2 DEF IInv, Typed, WebType, Continues
<1>3. u => web.flight # NoFlight /\ web.version = Version
  BY UnderWayFacts
<1>4. /\ WebAlone(web, Version) /\ QueueAlone(toHost, host.busy, web, Version)
      /\ BusyAlone(host.busy, web, doc) /\ AnswersAlone(toWeb, web, Version, u)
      /\ web.flight # NoFlight /\ Version # web.version => Current = web.flight.text
  BY DEF AInv
<1>5. (x.flight = web.flight /\ x.version = web.version)
      \/ (~u /\ (x.flight # NoFlight => x.version = Version))
  BY DEF Settled
<1> HIDE DEF u
<1>6. SentEdit(web, r) => ~u /\ x.flight.id = web.sequence + 1
  BY <1>2, <1>5 DEF SentEdit
<1>7. SentAction(web, r) => ~u
  BY <1>3, <1>5 DEF SentAction
<1>8. QueueAlone(toHost', host.busy, x, Version)
  <2>1. CASE SentNone(web, r)
    <3>1. toHost' = toHost
      BY <1>1, <1>2, <2>1, ConcatEmptySeq DEF SentNone
    <3>2. ASSUME ~u PROVE ~EditAsked(host.busy) /\ \A i \in 1 .. Len(toHost) : toHost[i].type # "edit"
      BY <3>2 DEF EditUnderWay, EditIn, u
    <3>3. x.sequence = web.sequence
      BY <2>1 DEF SentNone
    <3> QED
      BY <1>4, <1>5, <3>1, <3>2, <3>3 DEF QueueAlone
  <2>2. CASE SentEdit(web, r) /\ x.version = Version
    <3>1. PICK m \in RequestType : /\ r.out = <<m>> /\ m.type = "edit" /\ m.id = web.sequence + 1
                                   /\ m.base = x.version /\ x.flight.id = m.id
      BY <2>2 DEF SentEdit
    <3>2. m.id > web.sequence /\ ~u
      BY <1>2, <1>6, <2>2, <3>1
    <3>3. toHost' = toHost \o <<m>>
      BY <1>1, <3>1
    <3> QED
      BY <1>2, <1>4, <2>2, <3>1, <3>2, <3>3, QueueGrows DEF u
  <2>3. CASE SentAction(web, r)
    <3>1. PICK m \in RequestType : /\ r.out = <<m>> /\ m.type = "action" /\ m.version = x.version
                                   /\ x.flight = NoFlight
      BY <2>3 DEF SentAction
    <3>2. x.version = Version /\ ~u
      BY <1>7, <2>3, <3>1 DEF WebAlone, Continues
    <3>3. toHost' = toHost \o <<m>>
      BY <1>1, <3>1
    <3> QED
      BY <1>2, <1>4, <3>1, <3>2, <3>3, QueueGrows DEF u
  <2> QED
    BY <2>1, <2>2, <2>3
<1>9. BusyAlone(host.busy, x, doc)
  <2>1. EditAsked(host.busy) => u
    BY DEF EditUnderWay, u
  <2> QED
    BY <1>4, <1>5, <2>1 DEF BusyAlone
<1>10. x.flight # NoFlight /\ Version # x.version => Current = x.flight.text
  BY <1>4, <1>5
<1>11. AnswersAlone(toWeb, x, Version, EditUnderWay(toHost', host.busy))
  <2> SUFFICES ASSUME NEW i \in 1 .. Len(toWeb), toWeb[i].type = "setText"
               PROVE  /\ ~toWeb[i].rejected /\ toWeb[i].recoveryId <= x.sequence
                      /\ /\ toWeb[i].authoritative /\ x.flight # NoFlight
                         /\ toWeb[i].recoveryId = x.flight.id
                         => toWeb[i].version = Version /\ ~EditUnderWay(toHost', host.busy)
    BY DEF AnswersAlone
  <2>1. toWeb[i] \in AnswerType
    BY <1>2, ElementOfSeq
  <2>2. /\ ~toWeb[i].rejected /\ toWeb[i].recoveryId <= web.sequence /\ toWeb[i].recoveryId \in Nat
        /\ toWeb[i].authoritative /\ web.flight # NoFlight /\ toWeb[i].recoveryId = web.flight.id
             => toWeb[i].version = Version /\ ~u
    BY <1>4, <2>1, AnswerFacts DEF AnswersAlone
  <2>3. toWeb[i].recoveryId <= x.sequence
    BY <1>2, <2>2
  <2>4. ASSUME toWeb[i].authoritative, x.flight # NoFlight, toWeb[i].recoveryId = x.flight.id
        PROVE  toWeb[i].version = Version /\ ~EditUnderWay(toHost', host.busy)
    <3>1. SentNone(web, r)
      <4>1. ~SentEdit(web, r)
        BY <1>2, <1>6, <2>2, <2>4
      <4>2. ~SentAction(web, r)
        BY <2>4 DEF SentAction
      <4> QED
        BY <4>1, <4>2
    <3>2. x.flight = web.flight
      BY <2>4, <3>1 DEF SentNone
    <3>3. toHost' = toHost
      BY <1>1, <1>2, <3>1, ConcatEmptySeq DEF SentNone
    <3> QED
      BY <2>2, <2>4, <3>2, <3>3 DEF u
  <2> QED
    BY <2>2, <2>3, <2>4
<1>12. AnswersAlone(toWeb', web', Version', EditUnderWay(toHost', host'.busy))
  <2>1. CASE toWeb' = toWeb
    BY <1>1, <1>11, <2>1
  <2>2. CASE toWeb # <<>> /\ toWeb' = Tail(toWeb)
    <3> HIDE DEF AnswerType
    <3>1. \A i \in 1 .. Len(toWeb') : toWeb'[i] = toWeb[i + 1] /\ i + 1 \in 1 .. Len(toWeb)
      BY <1>2, <2>2, RestFacts
    <3> HIDE DEF x
    <3> QED
      BY <1>1, <1>11, <3>1 DEF AnswersAlone
  <2> QED
    BY <2>1, <2>2
<1> QED
  BY <1>1, <1>8, <1>9, <1>10, <1>12 DEF AInv

\* The provider's steps that leave the document alone: the queue may have lost its
\* first request, and what is posted rejects nothing.
LEMMA HostStepAlone ==
  ASSUME IInv, AInv, web' = web, doc' = doc,
         QueueAlone(toHost', host'.busy, web, Version), BusyAlone(host'.busy, web, doc),
         EditUnderWay(toHost', host'.busy) => EditUnderWay(toHost, host.busy),
         NEW p \in Seq(AnswerType),
         toWeb' = toWeb \o p,
         AnswersAlone(p, web, Version, EditUnderWay(toHost', host'.busy))
  PROVE  AInv'
<1>1. Version' = Version /\ Current' = Current
  BY DEF Version, Current
<1>2. toWeb \in Seq(AnswerType) /\ AnswersAlone(toWeb, web, Version, EditUnderWay(toHost, host.busy))
  BY DEF IInv, Typed, AInv
<1>3. AnswersAlone(toWeb', web, Version, EditUnderWay(toHost', host'.busy))
  <2> HIDE DEF AnswerType
  <2>1. \A i \in 1 .. Len(toWeb') : \/ i \in 1 .. Len(toWeb) /\ toWeb'[i] = toWeb[i]
                                    \/ i - Len(toWeb) \in 1 .. Len(p)
                                       /\ toWeb'[i] = p[i - Len(toWeb)]
    BY <1>2, JoinFacts
  <2> QED
    BY <1>2, <2>1 DEF AnswersAlone
<1> QED
  BY <1>1, <1>3 DEF AInv

\* The first request is taken.
LEMMA QueueRests ==
  ASSUME NEW q \in Seq(RequestType), q # <<>>, NEW b, NEW w, NEW v, QueueAlone(q, b, w, v)
  PROVE  /\ QueueAlone(Tail(q), b, w, v)
         /\ EditIn(Tail(q)) => EditIn(q)
         /\ Head(q).type = "edit" => /\ Head(q).base = v /\ Head(q).id = w.flight.id /\ w.version = v
                                     /\ \A i \in 1 .. Len(Tail(q)) :
                                          Tail(q)[i].type \notin {"edit", "action"}
         /\ Head(q).type = "action" => Head(q).version = v
         /\ Head(q).type = "sync" => /\ Head(q).recoveryId <= w.sequence
                                     /\ Head(q).recoveryId = w.flight.id => ~EditIn(Tail(q))
<1> HIDE DEF RequestType
<1>1. /\ Tail(q) \in Seq(RequestType) /\ Head(q) = q[1]
      /\ Len(q) \in Nat \ {0} /\ Len(Tail(q)) = Len(q) - 1
      /\ \A i \in 1 .. Len(Tail(q)) : Tail(q)[i] = q[i + 1] /\ i + 1 \in 1 .. Len(q)
  BY RestFacts
<1>2. 1 \in 1 .. Len(q) /\ \A i \in 1 .. Len(Tail(q)) : 1 < i + 1
  BY <1>1
<1>3. QueueAlone(Tail(q), b, w, v)
  <2>1. \A i, j \in 1 .. Len(Tail(q)) : i < j => i + 1 < j + 1
    OBVIOUS
  <2> QED
    BY <1>1, <2>1 DEF QueueAlone
<1>4. EditIn(Tail(q)) => EditIn(q)
  BY <1>1 DEF EditIn
<1>5. Head(q).type = "edit" => \A i \in 1 .. Len(Tail(q)) : Tail(q)[i].type \notin {"edit", "action"}
  BY <1>1, <1>2 DEF QueueAlone
<1>6. Head(q).type = "sync" /\ Head(q).recoveryId = w.flight.id => ~EditIn(Tail(q))
  BY <1>1, <1>2 DEF QueueAlone, EditIn
<1> QED
  BY <1>1, <1>2, <1>3, <1>4, <1>5, <1>6 DEF QueueAlone
-----------------------------------------------------------------------------
(* The webview's actions, alone with the file.                             *)

\* What the handlers know of a webview alone.
LEMMA AloneFacts ==
  ASSUME IInv, AInv
  PROVE  /\ doc \in Seq(Text) /\ doc # <<>> /\ Version = Len(doc) /\ Version \in Nat \ {0}
         /\ WebSound(web, doc) /\ web \in WebType /\ WebAlone(web, Version)
         /\ web.flight # NoFlight /\ Version # web.version => Current = web.flight.text
         /\ EditUnderWay(toHost, host.busy) => web.version = Version /\ web.flight # NoFlight
         /\ used \in UsedType
<1>1. doc \in Seq(Text) /\ doc # <<>> /\ Len(doc) \in Nat \ {0}
  BY StaySound
<1> QED
  BY <1>1, UnderWayFacts DEF IInv, AInv, Typed, WebSound, Version

LEMMA TypeAlone ==
  ASSUME IInv, AInv, NEW t \in Text, Type(t)
  PROVE  AInv'
<1> DEFINE x == [web EXCEPT !.local = t]
           r == Flush(x)
           u == EditUnderWay(toHost, host.busy)
<1>1. IsOpen(web) /\ WebDoes(r) /\ toWeb' = toWeb /\ doc' = doc /\ host' = host
  BY DEF Type
<1>2. /\ doc \in Seq(Text) /\ Version = Len(doc) /\ WebSound(web, doc) /\ web \in WebType
      /\ WebAlone(web, Version)
      /\ u => web.flight # NoFlight
  BY AloneFacts
<1>3. Continues(web, r, doc)
  BY <1>1, <1>2, TypingFacts
<1>4. /\ x.version = web.version /\ x.base = web.base /\ x.local = t /\ x.flight = web.flight
      /\ x.sequence = web.sequence /\ x.conflict = web.conflict /\ x \in WebType
  BY <1>2 DEF WebType
<1> HIDE DEF x, u
<1>5. WebSound(x, doc) /\ IsOpen(x)
  BY <1>1, <1>2, <1>4 DEF WebSound, IsOpen, InConflict
<1>6. NearlyAlone(x, Version)
  BY <1>1, <1>2, <1>4 DEF NearlyAlone, WebAlone, InConflict
<1>7. /\ HandledAlone(x, r, Version) /\ SameBuffer(r.web, x)
      /\ IF x.flight # NoFlight THEN r.web.flight = x.flight ELSE r.web.version = Version
  BY <1>2, <1>5, <1>6, FlushAlone
<1> HIDE DEF r
<1>8. Settled(web, r, Version, u)
  BY <1>2, <1>4, <1>7 DEF Settled, SameBuffer
<1>9. WebAlone(r.web, Version) /\ (SentNone(web, r) \/ (SentEdit(web, r) /\ r.web.version = Version))
  BY <1>4, <1>7 DEF HandledAlone, SentNone, SentEdit
<1> QED
  BY <1>1, <1>3, <1>8, <1>9, WebStepAlone DEF u

LEMMA PressAlone ==
  ASSUME IInv, AInv, NEW action \in Actions, Press(action)
  PROVE  AInv'
<1> DEFINE x == [web EXCEPT !.queued = action]
           q == Quiet(x)
           r == FlushAction(q)
           u == EditUnderWay(toHost, host.busy)
<1>1. IsOpen(web) /\ WebDoes(r) /\ toWeb' = toWeb /\ doc' = doc /\ host' = host
  BY DEF Press
<1>2. /\ doc \in Seq(Text) /\ Version = Len(doc) /\ WebSound(web, doc) /\ web \in WebType
      /\ WebAlone(web, Version)
  BY AloneFacts
<1>3. x \in WebType /\ SameSync(x, web)
  BY <1>2 DEF WebType, SameSync
<1> HIDE DEF x, u
<1>4. q.web = x /\ q.out = <<>>
  BY DEF Quiet
<1>5. Quiet(web).web = web /\ Quiet(web).out = <<>>
  BY DEF Quiet
<1>6. HandledAlone(web, q, Version) /\ Settled(web, q, Version, u)
  BY <1>2, <1>3, <1>4, <1>5, QuietAlone, HandledAlike
<1>7. Continues(web, q, doc)
  <2>1. WebSound(x, doc) /\ IsOpen(x)
    BY <1>1, <1>2, <1>3 DEF WebSound, SameSync, IsOpen, InConflict
  <2>2. Continues(x, q, doc)
    BY <2>1, QuietFacts
  <2> QED
    BY <1>3, <2>2, ContinuesFrom DEF SameSync
<1>8. Continues(web, r, doc)
  BY <1>1, <1>2, PressFacts DEF x
<1> HIDE DEF q
<1>9. /\ Settled(web, r, Version, u) /\ WebAlone(r.web, Version)
      /\ SentNone(web, r) \/ (SentEdit(web, r) /\ r.web.version = Version) \/ SentAction(web, r)
  BY <1>2, <1>6, <1>7, FlushActionAlone
<1> HIDE DEF r
<1> QED
  BY <1>1, <1>8, <1>9, WebStepAlone DEF u

LEMMA ResolveAlone ==
  ASSUME IInv, AInv, NEW keep \in BOOLEAN, Resolve(keep)
  PROVE  AInv'
<1> DEFINE l == IF keep THEN web.local ELSE web.conflict.text
           x == [web EXCEPT !.base = web.conflict.text, !.version = web.conflict.version,
                            !.conflict = NoConflict, !.local = l, !.queued = "none"]
           r == ResolveWith(web, keep)
           u == EditUnderWay(toHost, host.busy)
<1>1. InConflict(web) /\ WebDoes(r) /\ toWeb' = toWeb /\ doc' = doc /\ host' = host
  BY DEF Resolve
<1>2. /\ doc \in Seq(Text) /\ Version = Len(doc) /\ WebSound(web, doc) /\ web \in WebType
      /\ WebAlone(web, Version)
      /\ u => web.flight # NoFlight
  BY AloneFacts
<1>3. Continues(web, r, doc)
  BY <1>1, <1>2, ResolveFacts
<1>4. r = Flush(x)
  BY DEF ResolveWith
<1>5. /\ IsOpen(web) /\ web.flight = NoFlight /\ web.sequence = 0 /\ Version = 1
      /\ web.conflict.version \in web.version .. Len(doc)
      /\ web.conflict.text = doc[web.conflict.version]
  BY <1>1, <1>2 DEF WebSound, WebAlone, InConflict
<1>6. /\ web.version \in 1 .. Len(doc) /\ web.local \in Text
      /\ web.conflict.version = 1 /\ web.conflict.text \in Text
  <2>1. web.version \in 1 .. Len(doc) /\ web.local \in Text
    BY <1>2, <1>5, OpenFacts
  <2>2. web.conflict.text \in Text
    BY <1>2, <1>5, VersionFacts
  <2> QED
    BY <1>2, <1>5, <2>1, <2>2
<1>7. l \in Text
  BY <1>6
<1> HIDE DEF l
<1>8. /\ x.version = 1 /\ x.base = web.conflict.text /\ x.local = l /\ x.flight = NoFlight
      /\ x.sequence = 0 /\ x.conflict = NoConflict /\ x \in WebType
  <2>1. /\ x.version = web.conflict.version /\ x.base = web.conflict.text /\ x.local = l
        /\ x.flight = web.flight /\ x.sequence = web.sequence /\ x.conflict = NoConflict
    BY <1>2 DEF WebType
  <2>2. web.conflict.version \in Nat
    BY <1>6
  <2>3. x \in WebType
    BY <1>2, <1>6, <1>7, <2>2 DEF WebType
  <2> QED
    BY <1>5, <1>6, <2>1, <2>3
<1> HIDE DEF x, r, u
<1>9. WebSound(x, doc) /\ IsOpen(x) /\ ~InConflict(x)
  BY <1>2, <1>5, <1>6, <1>7, <1>8, NoFlightFacts DEF WebSound, IsOpen, InConflict
<1>10. NearlyAlone(x, Version)
  BY <1>5, <1>8, <1>9 DEF NearlyAlone
<1>11. HandledAlone(web, r, Version) /\ Settled(web, r, Version, u)
  BY <1>2, <1>4, <1>5, <1>8, <1>9, <1>10, FlushAloneFrom
<1> QED
  BY <1>1, <1>3, <1>11, WebStepAlone DEF u, HandledAlone

LEMMA GetTextAlone ==
  ASSUME IInv, AInv, GetText
  PROVE  AInv'
<1> DEFINE m == Head(toWeb)
           q == Restore(web, m)
           v == IF InConflict(q.web) THEN [q.web EXCEPT !.queued = "none"] ELSE q.web
           p == [q EXCEPT !.web = v]
           r == FlushAction(p)
           u == EditUnderWay(toHost, host.busy)
<1>1. /\ toWeb # <<>> /\ m.type = "setText" /\ WebDoes(r) /\ toWeb' = Tail(toWeb)
      /\ doc' = doc /\ host' = host
  BY DEF GetText, Message
<1>2. /\ doc \in Seq(Text) /\ Version = Len(doc) /\ WebSound(web, doc) /\ web \in WebType
      /\ WebAlone(web, Version)
      /\ u => web.version = Version /\ web.flight # NoFlight
      /\ web.flight # NoFlight /\ Len(doc) # web.version => doc[Len(doc)] = web.flight.text
  BY AloneFacts DEF Current
<1>3. /\ toWeb \in Seq(AnswerType) /\ AnswersSound(toWeb, web, doc)
      /\ AnswersAlone(toWeb, web, Version, u)
  BY DEF IInv, Typed, AInv
<1> HIDE DEF u
<1>4. m \in AnswerType /\ AnswerSound(m, web, doc) /\ m = toWeb[1] /\ 1 \in 1 .. Len(toWeb)
  <2>1. m = toWeb[1] /\ 1 \in 1 .. Len(toWeb)
    <3> HIDE DEF AnswerType
    <3>1. m = toWeb[1] /\ Len(toWeb) \in Nat \ {0}
      BY <1>1, <1>3, RestFacts
    <3> QED
      BY <3>1
  <2>2. m \in AnswerType /\ AnswerSound(m, web, doc)
    BY <1>1, <1>3, RestSound
  <2> QED
    BY <2>1, <2>2
<1>5. /\ ~m.rejected
      /\ m.authoritative /\ web.flight # NoFlight /\ m.recoveryId = web.flight.id =>
           m.version = Len(doc) /\ ~u
  BY <1>1, <1>2, <1>3, <1>4 DEF AnswersAlone
<1> HIDE DEF m
<1>6. /\ m.version \in 1 .. Len(doc) /\ m.text = doc[m.version]
      /\ m.rejected \in BOOLEAN /\ m.authoritative \in BOOLEAN
      /\ ~IsOpen(web) => ~m.authoritative
  BY <1>1, <1>2, <1>4, AnswerFacts, LenProperties DEF AnswerSound
<1>7. Continues(web, r, doc) /\ Continues(web, q, doc)
  BY <1>2, <1>6, GetTextFacts, RestoreFacts
<1>8. HandledAlone(web, q, Len(doc)) /\ Settled(web, q, Len(doc), u)
  BY <1>2, <1>5, <1>6, RestoreAlone
<1> HIDE DEF q
<1>9. v \in WebType /\ SameSync(v, q.web)
  <2>1. q.web \in WebType
    BY <1>7 DEF Continues, ResultType
  <2> QED
    BY <2>1 DEF WebType, SameSync
<1> HIDE DEF v
<1>10. Continues(web, p, doc) /\ p.web = v /\ p.out = q.out
  BY <1>7, <1>9, SameSyncFacts
<1> HIDE DEF p
<1>11. HandledAlone(web, p, Len(doc)) /\ Settled(web, p, Len(doc), u)
  BY <1>8, <1>9, <1>10, HandledAlike
<1>12. /\ Settled(web, r, Len(doc), u) /\ WebAlone(r.web, Len(doc))
       /\ SentNone(web, r) \/ (SentEdit(web, r) /\ r.web.version = Len(doc)) \/ SentAction(web, r)
  BY <1>2, <1>10, <1>11, FlushActionAlone
<1> HIDE DEF r
<1> QED
  BY <1>1, <1>2, <1>7, <1>12, WebStepAlone DEF u

LEMMA GetAckAlone ==
  ASSUME IInv, AInv, GetAck
  PROVE  AInv'
<1> DEFINE m == Head(toWeb)
           q == Acknowledge(web, m.id, m.version)
           r == FlushAction(q)
           u == EditUnderWay(toHost, host.busy)
<1>1. /\ toWeb # <<>> /\ m.type = "ack" /\ WebDoes(r) /\ toWeb' = Tail(toWeb)
      /\ doc' = doc /\ host' = host
  BY DEF GetAck, Message
<1>2. /\ doc \in Seq(Text) /\ Version = Len(doc) /\ WebSound(web, doc) /\ web \in WebType
      /\ WebAlone(web, Version)
      /\ u => web.version = Version
  BY AloneFacts
<1>3. toWeb \in Seq(AnswerType) /\ AnswersSound(toWeb, web, doc)
  BY DEF IInv, Typed
<1> HIDE DEF u
<1>4. m \in AnswerType /\ AnswerSound(m, web, doc)
  BY <1>1, <1>3, RestSound
<1> HIDE DEF m
<1>5. /\ m.version \in 1 .. Len(doc) /\ IsOpen(web)
      /\ m.id = web.flight.id => doc[m.version] = web.flight.text
  BY <1>1, <1>2, <1>4, AnswerFacts, LenProperties DEF AnswerSound
<1>6. Continues(web, q, doc)
  BY <1>2, <1>5, AcknowledgeFacts
<1>7. HandledAlone(web, q, Len(doc)) /\ Settled(web, q, Len(doc), u)
  BY <1>2, <1>5, AcknowledgeAlone
<1> HIDE DEF q
<1>8. Continues(web, r, doc)
  BY <1>2, <1>6, FlushActionFacts
<1>9. /\ Settled(web, r, Len(doc), u) /\ WebAlone(r.web, Len(doc))
      /\ SentNone(web, r) \/ (SentEdit(web, r) /\ r.web.version = Len(doc)) \/ SentAction(web, r)
  BY <1>2, <1>6, <1>7, FlushActionAlone
<1> HIDE DEF r
<1> QED
  BY <1>1, <1>2, <1>8, <1>9, WebStepAlone DEF u

LEMMA RequestConnectionAlone ==
  ASSUME IInv, AInv, RequestConnection
  PROVE  AInv'
<1> DEFINE m == IF IsOpen(web) THEN [type |-> "sync", recoveryId |-> web.flight.id] ELSE Ready
<1>1. /\ toHost' = Append(toHost, m) /\ web' = web /\ toWeb' = toWeb /\ doc' = doc /\ host' = host
  BY DEF RequestConnection
<1>2. /\ toHost \in Seq(RequestType) /\ WebSound(web, doc) /\ doc \in Seq(Text)
      /\ web.sequence \in Nat /\ QueueAlone(toHost, host.busy, web, Version)
  BY DEF IInv, Typed, WebSound, WebType, AInv
<1>3. /\ m \in RequestType /\ m.type \in {"ready", "sync"}
      /\ m.type = "sync" => m.recoveryId <= web.sequence
  <2>1. CASE IsOpen(web)
    <3>1. web.flight.id \in Nat /\ web.flight.id <= web.sequence
      BY <1>2, <2>1, OpenFacts
    <3> QED
      BY <2>1, <3>1 DEF RequestType
  <2>2. CASE ~IsOpen(web)
    BY <2>2 DEF RequestType, Ready
  <2> QED
    BY <2>1, <2>2
<1> HIDE DEF m
<1>4. toHost' = toHost \o <<m>>
  BY <1>1, <1>2, <1>3, AppendIsConcat
<1>5. Version' = Version /\ Current' = Current
  BY <1>1 DEF Version, Current
<1>6. QueueAlone(toHost', host.busy, web, Version)
  <2>1. web.sequence <= web.sequence
    BY <1>2
  <2> QED
    BY <1>2, <1>3, <1>4, <2>1, QueueGrows
<1>7. EditIn(toHost') => EditIn(toHost)
  <2>1. /\ EditsIn(toHost') = EditsIn(toHost) \cup EditsIn(<<m>>) /\ EditsIn(<<m>>) = {}
    BY <1>2, <1>3, <1>4, OneSent, EditsJoin
  <2>2. ASSUME NEW i \in 1 .. Len(toHost'), toHost'[i].type = "edit"
        PROVE  EditIn(toHost)
    <3>1. [of |-> toHost'[i].base, text |-> toHost'[i].change.to] \in EditsIn(toHost')
      BY <2>2 DEF EditsIn
    <3>2. EditsIn(toHost) # {}
      BY <2>1, <3>1
    <3> QED
      BY <3>2 DEF EditsIn, EditIn
  <2> QED
    BY <2>2 DEF EditIn
<1>8. AnswersAlone(toWeb, web, Version, EditUnderWay(toHost', host.busy))
  BY <1>7 DEF AInv, AnswersAlone, EditUnderWay
<1> QED
  BY <1>1, <1>5, <1>6, <1>8 DEF AInv
-----------------------------------------------------------------------------
(* The provider's actions, alone with the file, and the ways of a message. *)

LEMMA IdleFacts == Idle \in BusyType /\ Idle.kind = "idle" /\ ~EditAsked(Idle)
BY DEF BusyType, Idle, EditAsked

\* What the provider posts: one message, or a full text, or nothing.
LEMMA OneAnswerAlone ==
  ASSUME NEW m \in AnswerType, NEW w, NEW v, NEW underWay,
         m.type = "setText" =>
           /\ ~m.rejected /\ m.recoveryId <= w.sequence
           /\ m.authoritative /\ w.flight # NoFlight /\ m.recoveryId = w.flight.id =>
                m.version = v /\ ~underWay
  PROVE  AnswersAlone(<<m>>, w, v, underWay)
<1> HIDE DEF AnswerType
<1>1. Len(<<m>>) = 1 /\ <<m>>[1] = m
  OBVIOUS
<1>2. \A i \in 1 .. Len(<<m>>) : <<m>>[i] = m
  BY <1>1
<1> QED
  BY <1>2 DEF AnswersAlone

LEMMA NoAnswerAlone == \A w, v, underWay : AnswersAlone(<<>>, w, v, underWay)
<1>1. Len(<<>>) = 0
  BY EmptySeq
<1> QED
  BY <1>1 DEF AnswersAlone

LEMMA FullSyncAlone ==
  ASSUME NEW d \in Seq(Text), d # <<>>, NEW w, w.sequence \in Nat, NEW underWay,
         NEW authoritative \in BOOLEAN, NEW recoveryId \in Nat, recoveryId <= w.sequence,
         authoritative /\ w.flight # NoFlight /\ recoveryId = w.flight.id => ~underWay
  PROVE  LET answer == FullSync(d, FALSE, authoritative, recoveryId) IN
         answer \in Seq(AnswerType) /\ AnswersAlone(answer, w, Len(d), underWay)
<1> DEFINE m == [type |-> "setText", text |-> d[Len(d)], version |-> Len(d), rejected |-> FALSE,
                 authoritative |-> authoritative, recoveryId |-> recoveryId]
           answer == FullSync(d, FALSE, authoritative, recoveryId)
<1>1. m \in AnswerType
  <2>1. Len(d) \in Nat \ {0} /\ Len(d) \in 1 .. Len(d)
    BY EmptySeq
  <2>2. d[Len(d)] \in Text
    BY <2>1, ElementOfSeq
  <2> QED
    BY <2>1, <2>2 DEF AnswerType
<1>2. /\ m.type = "setText" /\ ~m.rejected /\ m.recoveryId = recoveryId /\ m.version = Len(d)
      /\ m.authoritative <=> authoritative
  OBVIOUS
<1>3. answer \in {<<>>, <<m>>}
  BY DEF FullSync
<1> HIDE DEF m, answer
<1>4. AnswersAlone(<<m>>, w, Len(d), underWay)
  BY <1>1, <1>2, OneAnswerAlone
<1>5. <<m>> \in Seq(AnswerType)
  <2> HIDE DEF AnswerType
  <2> QED
    BY <1>1
<1>6. answer \in Seq(AnswerType) /\ AnswersAlone(answer, w, Len(d), underWay)
  BY <1>3, <1>4, <1>5, NoAnswer, NoAnswerAlone
<1> QED
  BY <1>6 DEF answer

\* The provider is not applying an edit when it takes a request.
LEMMA NextAloneFacts ==
  ASSUME IInv, AInv, NEW type, Next1(type)
  PROVE  /\ host.busy = Idle /\ Request \in RequestType /\ Request.type = type
         /\ QueueAlone(toHost', host.busy, web, Version)
         /\ \A b : ~EditAsked(b) => QueueAlone(toHost', b, web, Version)
         /\ BusyAlone(host.busy, web, doc)
         /\ EditUnderWay(toHost', host.busy) => EditUnderWay(toHost, host.busy)
         /\ type = "edit" => /\ Request.base = Version /\ Request.id = web.flight.id
                             /\ web.version = Version
                             /\ \A i \in 1 .. Len(toHost') : toHost'[i].type \notin {"edit", "action"}
                             /\ EditUnderWay(toHost, host.busy)
         /\ type = "action" => Request.version = Version
         /\ type = "sync" => /\ Request.recoveryId <= web.sequence
                             /\ Request.recoveryId = web.flight.id =>
                                  ~EditUnderWay(toHost', host.busy)
<1>1. host.busy = Idle /\ toHost # <<>> /\ Head(toHost).type = type /\ toHost' = Tail(toHost)
  BY DEF Next1
<1>2. toHost \in Seq(RequestType) /\ QueueAlone(toHost, host.busy, web, Version)
  BY DEF IInv, Typed, AInv
<1>3. Request \in RequestType /\ Request.type = type
  BY NextFacts
<1>4. /\ QueueAlone(toHost', host.busy, web, Version)
      /\ EditIn(toHost') => EditIn(toHost)
      /\ type = "edit" => /\ Request.base = Version /\ Request.id = web.flight.id
                          /\ web.version = Version
                          /\ \A i \in 1 .. Len(toHost') : toHost'[i].type \notin {"edit", "action"}
      /\ type = "action" => Request.version = Version
      /\ type = "sync" => /\ Request.recoveryId <= web.sequence
                          /\ Request.recoveryId = web.flight.id => ~EditIn(toHost')
  <2> HIDE DEF RequestType
  <2> QED
    BY <1>1, <1>2, QueueRests DEF Request
<1>5. type = "edit" => EditIn(toHost)
  <2> HIDE DEF RequestType
  <2>1. Head(toHost) = toHost[1] /\ Len(toHost) \in Nat \ {0}
    BY <1>1, <1>2, RestFacts
  <2>2. 1 \in 1 .. Len(toHost)
    BY <2>1
  <2> QED
    BY <1>1, <2>1, <2>2 DEF EditIn
<1>6. \A b : ~EditAsked(b) => QueueAlone(toHost', b, web, Version)
  BY <1>4 DEF QueueAlone
<1>7. BusyAlone(host.busy, web, doc)
  BY DEF AInv
<1> QED
  BY <1>1, <1>3, <1>4, <1>5, <1>6, <1>7, IdleFacts DEF EditUnderWay

LEMMA HandleReadyAlone ==
  ASSUME IInv, AInv, HandleReady
  PROVE  AInv'
<1> DEFINE m == [type |-> "setText", text |-> doc[Len(doc)], version |-> Len(doc),
                 rejected |-> FALSE, authoritative |-> FALSE, recoveryId |-> 0]
<1>1. /\ Next1("ready") /\ host' = [host EXCEPT !.ready = TRUE] /\ toWeb' = toWeb \o <<m>>
      /\ web' = web /\ doc' = doc
  BY DEF HandleReady, Post, Current, Version
<1>2. /\ doc \in Seq(Text) /\ doc # <<>> /\ web.sequence \in Nat
      /\ host \in [ready : BOOLEAN, busy : BusyType]
  BY AloneFacts DEF IInv, Typed, WebType
<1>3. m \in AnswerType
  BY <1>2, TextAnswer
<1>4. m.type = "setText" /\ ~m.rejected /\ ~m.authoritative /\ m.recoveryId = 0
  OBVIOUS
<1> HIDE DEF m
<1>5. host'.busy = host.busy
  BY <1>1, <1>2
<1>6. /\ QueueAlone(toHost', host'.busy, web, Version) /\ BusyAlone(host'.busy, web, doc)
      /\ EditUnderWay(toHost', host'.busy) => EditUnderWay(toHost, host.busy)
  BY <1>1, <1>5, NextAloneFacts
<1>7. AnswersAlone(<<m>>, web, Version, EditUnderWay(toHost', host'.busy))
  <2>1. m.recoveryId <= web.sequence
    BY <1>2, <1>4
  <2> QED
    BY <1>3, <1>4, <2>1, OneAnswerAlone
<1>8. <<m>> \in Seq(AnswerType)
  <2> HIDE DEF AnswerType
  <2> QED
    BY <1>3
<1> QED
  BY <1>1, <1>6, <1>7, <1>8, HostStepAlone

LEMMA HandleSyncAlone ==
  ASSUME IInv, AInv, HandleSync
  PROVE  AInv'
<1> DEFINE answer == FullSync(doc, FALSE, TRUE, Request.recoveryId)
<1>1. Next1("sync") /\ toWeb' = toWeb \o answer /\ web' = web /\ doc' = doc /\ host' = host
  BY DEF HandleSync, Post
<1>2. /\ doc \in Seq(Text) /\ doc # <<>> /\ web.sequence \in Nat /\ Version = Len(doc)
  BY AloneFacts DEF WebType
<1>3. /\ QueueAlone(toHost', host'.busy, web, Version) /\ BusyAlone(host'.busy, web, doc)
      /\ EditUnderWay(toHost', host'.busy) => EditUnderWay(toHost, host.busy)
      /\ Request \in RequestType /\ Request.type = "sync" /\ Request.recoveryId <= web.sequence
      /\ Request.recoveryId = web.flight.id => ~EditUnderWay(toHost', host'.busy)
  BY <1>1, NextAloneFacts
<1>4. Request.recoveryId \in Nat
  BY <1>3, RequestFacts
<1>5. answer \in Seq(AnswerType) /\ AnswersAlone(answer, web, Version, EditUnderWay(toHost', host'.busy))
  BY <1>2, <1>3, <1>4, FullSyncAlone
<1> HIDE DEF answer
<1> QED
  BY <1>1, <1>3, <1>5, HostStepAlone

LEMMA NothingPosted ==
  ASSUME IInv
  PROVE  toWeb = toWeb \o <<>> /\ <<>> \in Seq(AnswerType)
         /\ \A w, v, underWay : AnswersAlone(<<>>, w, v, underWay)
<1>1. toWeb \in Seq(AnswerType)
  BY DEF IInv, Typed
<1> QED
  BY <1>1, NoAnswer, NoAnswerAlone, ConcatEmptySeq

\* The edit is for the latest version, and there is no other.
LEMMA HandleEditAlone ==
  ASSUME IInv, AInv, HandleEdit
  PROVE  AInv'
<1> DEFINE b == [kind |-> "edit", id |-> Request.id, version |-> Version,
                 expected |-> Apply(Request.change, Current), phase |-> "asked"]
<1>1. Next1("edit") /\ web' = web /\ doc' = doc
  BY DEF HandleEdit
<1>2. /\ Request.base = Version /\ Request.id = web.flight.id /\ web.version = Version
      /\ \A i \in 1 .. Len(toHost') : toHost'[i].type \notin {"edit", "action"}
      /\ EditUnderWay(toHost, host.busy) /\ QueueAlone(toHost', host.busy, web, Version)
  BY <1>1, NextAloneFacts
<1>3. host' = [host EXCEPT !.busy = b] /\ toWeb' = toWeb
  BY <1>2 DEF HandleEdit
<1>4. host \in [ready : BOOLEAN, busy : BusyType]
  BY DEF IInv, Typed
<1>5. host'.busy = b /\ b.kind = "edit" /\ b.version = Version /\ b.id = Request.id /\ b.phase = "asked"
  BY <1>3, <1>4
<1> HIDE DEF b
<1>6. QueueAlone(toHost', b, web, Version)
  BY <1>2 DEF QueueAlone
<1>7. BusyAlone(b, web, doc)
  BY <1>2, <1>5 DEF BusyAlone, EditAsked, Version
<1> QED
  BY <1>1, <1>2, <1>3, <1>5, <1>6, <1>7, NothingPosted, HostStepAlone

LEMMA HandleActionAlone ==
  ASSUME IInv, AInv, HandleAction
  PROVE  AInv'
<1> DEFINE b == [kind |-> "action", action |-> Request.action]
<1>1. Next1("action") /\ web' = web /\ doc' = doc
  BY DEF HandleAction
<1>2. /\ Request.version = Version /\ host.busy = Idle
      /\ \A c : ~EditAsked(c) => QueueAlone(toHost', c, web, Version)
      /\ EditUnderWay(toHost', host.busy) => EditUnderWay(toHost, host.busy)
  BY <1>1, NextAloneFacts
<1>3. host' = [host EXCEPT !.busy = b] /\ toWeb' = toWeb
  BY <1>2 DEF HandleAction
<1>4. host \in [ready : BOOLEAN, busy : BusyType]
  BY DEF IInv, Typed
<1>5. host'.busy = b /\ b.kind = "action"
  BY <1>3, <1>4
<1> HIDE DEF b
<1>6. ~EditAsked(b) /\ BusyAlone(b, web, doc)
  BY <1>5 DEF BusyAlone, EditAsked
<1>7. EditUnderWay(toHost', b) => EditUnderWay(toHost, host.busy)
  BY <1>2, <1>6, IdleFacts DEF EditUnderWay
<1> QED
  BY <1>1, <1>2, <1>3, <1>5, <1>6, <1>7, NothingPosted, HostStepAlone

\* The file gets the flight's text, of which no answer has told the webview yet.
LEMMA ApplyEditAlone ==
  ASSUME IInv, AInv, ApplyEdit
  PROVE  AInv'
<1> DEFINE t == host.busy.expected
           u == EditUnderWay(toHost, host.busy)
<1>1. /\ host.busy.kind = "edit" /\ EditAsked(host.busy)
      /\ doc' = Append(doc, t) /\ host' = [host EXCEPT !.busy.phase = "applied"]
      /\ web' = web /\ toHost' = toHost /\ toWeb' = toWeb
  BY DEF ApplyEdit, Editing, EditAsked
<1>2. /\ doc \in Seq(Text) /\ WebSound(web, doc) /\ web \in WebType /\ Version = Len(doc)
      /\ WebAlone(web, Version) /\ Version \in Nat \ {0}
  BY AloneFacts
<1>3. u /\ web.version = Version /\ web.flight # NoFlight /\ web.flight.id # 0
  BY <1>1, UnderWayFacts DEF EditUnderWay
<1>4. /\ QueueAlone(toHost, host.busy, web, Version) /\ BusyAlone(host.busy, web, doc)
      /\ AnswersAlone(toWeb, web, Version, u)
  BY DEF AInv
<1>5. t \in Text /\ t = web.flight.text
  BY <1>1, <1>4, EditingFacts DEF BusyAlone
<1>6. /\ host'.busy.kind = "edit" /\ host'.busy.phase = "applied" /\ host'.busy.expected = t
  <2>1. host \in [ready : BOOLEAN, busy : BusyType]
    BY DEF IInv, Typed
  <2>2. host.busy \in [kind : {"edit"}, id : Nat \ {0}, version : Nat \ {0},
                       expected : Text, phase : {"asked", "applied", "refused"}]
    BY <1>1, EditingFacts
  <2> DEFINE c == [host.busy EXCEPT !.phase = "applied"]
  <2>3. c.kind = "edit" /\ c.phase = "applied" /\ c.expected = t
    BY <2>2
  <2> HIDE DEF c
  <2>4. host' = [host EXCEPT !.busy = c]
    BY <1>1 DEF c
  <2> QED
    BY <2>1, <2>3, <2>4
<1> HIDE DEF t, u
<1>7. Version' = Version + 1 /\ Current' = t /\ doc'[Len(doc')] = t
  BY <1>1, <1>2, <1>5, GrowthFacts DEF Version, Current
<1>8. WebAlone(web, Version')
  <2>1. IsOpen(web) /\ ~InConflict(web)
    BY <1>2, <1>3 DEF WebSound
  <2>2. web.sequence # 0
    <3>1. web.flight.id \in Nat /\ web.flight.id <= web.sequence /\ web.sequence \in Nat
      BY <1>2, <2>1, OpenFacts
    <3> QED
      BY <1>3, <3>1
  <2> QED
    BY <1>2, <1>3, <1>7, <2>1, <2>2 DEF WebAlone
<1>9. \A i \in 1 .. Len(toHost) : toHost[i].type \notin {"edit", "action"}
  BY <1>1, <1>4 DEF QueueAlone
<1>10. QueueAlone(toHost, host'.busy, web, Version')
  BY <1>4, <1>9 DEF QueueAlone
<1>11. BusyAlone(host'.busy, web, doc')
  BY <1>6, <1>7 DEF BusyAlone, EditAsked
<1>12. AnswersAlone(toWeb, web, Version', EditUnderWay(toHost', host'.busy))
  BY <1>3, <1>4 DEF AnswersAlone
<1> QED
  BY <1>1, <1>5, <1>7, <1>8, <1>10, <1>11, <1>12 DEF AInv

\* VS Code refuses an edit of the latest version only when something goes wrong.
LEMMA RefuseEditAlone ==
  ASSUME IInv, AInv, Alone
  PROVE  ~RefuseEdit
<1> SUFFICES ASSUME RefuseEdit PROVE FALSE
  OBVIOUS
<1>1. EditAsked(host.busy)
  BY DEF RefuseEdit, Editing, EditAsked
<1>2. host.busy.version = Version
  BY <1>1 DEF AInv, BusyAlone, Version
<1>3. Disturb("refuse")
  BY <1>2 DEF RefuseEdit
<1> QED
  BY <1>3 DEF Alone, Disturb

\* What was being awaited is over; the queue is as it was.
LEMMA DoneAlone ==
  ASSUME IInv, AInv, host' = [host EXCEPT !.busy = Idle], web' = web, toHost' = toHost, doc' = doc,
         NEW p \in Seq(AnswerType), toWeb' = toWeb \o p,
         AnswersAlone(p, web, Version, EditUnderWay(toHost, Idle))
  PROVE  AInv'
<1>1. host'.busy = Idle
  BY DEF IInv, Typed
<1>2. QueueAlone(toHost', Idle, web, Version)
  BY IdleFacts DEF AInv, QueueAlone
<1>3. BusyAlone(Idle, web, doc)
  BY IdleFacts DEF BusyAlone
<1>4. EditUnderWay(toHost', Idle) => EditUnderWay(toHost, host.busy)
  BY IdleFacts DEF EditUnderWay
<1> QED
  BY <1>1, <1>2, <1>3, <1>4, HostStepAlone

LEMMA FinishEditAlone ==
  ASSUME IInv, AInv, FinishEdit
  PROVE  AInv'
<1> DEFINE ack == [type |-> "ack", id |-> host.busy.id, version |-> Version]
<1>1. /\ host.busy.kind = "edit" /\ ~EditAsked(host.busy) /\ host' = [host EXCEPT !.busy = Idle]
      /\ web' = web /\ toHost' = toHost /\ doc' = doc
  BY DEF FinishEdit, Editing, EditAsked
<1>2. host.busy.phase = "applied" /\ Current = host.busy.expected
  BY <1>1 DEF AInv, BusyAlone, Current, Version
<1>3. toWeb' = toWeb \o <<ack>>
  BY <1>2 DEF FinishEdit, Editing, Post
<1>4. ack \in AnswerType /\ ack.type = "ack"
  BY <1>1, EditingFacts, AloneFacts DEF AnswerType
<1> HIDE DEF ack
<1>5. AnswersAlone(<<ack>>, web, Version, EditUnderWay(toHost, Idle))
  BY <1>4, OneAnswerAlone
<1>6. <<ack>> \in Seq(AnswerType)
  <2> HIDE DEF AnswerType
  <2> QED
    BY <1>4
<1> QED
  BY <1>1, <1>3, <1>5, <1>6, DoneAlone

LEMMA FinishActionAlone ==
  ASSUME IInv, AInv, Alone, FinishAction
  PROVE  AInv'
<1>1. /\ host' = [host EXCEPT !.busy = Idle] /\ web' = web /\ toHost' = toHost /\ doc' = doc
      /\ toWeb' = toWeb
  BY DEF FinishAction, Alone, Disturb
<1> QED
  BY <1>1, NothingPosted, DoneAlone

LEMMA ShowAlone ==
  ASSUME IInv, AInv, Show
  PROVE  AInv'
<1> DEFINE answer == FullSync(doc, FALSE, FALSE, 0)
<1>1. /\ toWeb' = toWeb \o answer /\ web' = web /\ toHost' = toHost /\ doc' = doc /\ host' = host
  BY DEF Show, Post
<1>2. /\ doc \in Seq(Text) /\ doc # <<>> /\ web.sequence \in Nat /\ Version = Len(doc)
      /\ 0 <= web.sequence
  BY AloneFacts DEF WebType
<1>3. answer \in Seq(AnswerType) /\ AnswersAlone(answer, web, Version, EditUnderWay(toHost', host'.busy))
  BY <1>2, FullSyncAlone
<1> HIDE DEF answer
<1>4. QueueAlone(toHost', host'.busy, web, Version) /\ BusyAlone(host'.busy, web, doc)
  BY <1>1 DEF AInv
<1>5. EditUnderWay(toHost', host'.busy) => EditUnderWay(toHost, host.busy)
  BY <1>1
<1> QED
  BY <1>1, <1>3, <1>4, <1>5, HostStepAlone

LEMMA LoseAlone ==
  ASSUME IInv, AInv, Lose
  PROVE  AInv'
<1>1. web' = web /\ doc' = doc /\ host' = host
  BY DEF Lose
<1>2. /\ toHost \in Seq(RequestType) /\ QueueAlone(toHost, host.busy, web, Version)
      /\ BusyAlone(host.busy, web, doc)
      /\ toWeb \in Seq(AnswerType) /\ AnswersAlone(toWeb, web, Version, EditUnderWay(toHost, host.busy))
  BY DEF IInv, Typed, AInv
<1>3. CASE toHost # <<>> /\ toHost' = Tail(toHost) /\ toWeb' = toWeb
  <2>1. QueueAlone(toHost', host'.busy, web, Version) /\ (EditIn(toHost') => EditIn(toHost))
    <3> HIDE DEF RequestType
    <3> QED
      BY <1>1, <1>2, <1>3, QueueRests
  <2>2. EditUnderWay(toHost', host'.busy) => EditUnderWay(toHost, host.busy)
    BY <1>1, <2>1 DEF EditUnderWay
  <2> QED
    BY <1>1, <1>2, <1>3, <2>1, <2>2, NothingPosted, HostStepAlone
<1>4. CASE toWeb # <<>> /\ toWeb' = Tail(toWeb) /\ toHost' = toHost
  <2>1. AnswersAlone(toWeb', web, Version, EditUnderWay(toHost, host.busy))
    <3> HIDE DEF AnswerType
    <3>1. \A i \in 1 .. Len(toWeb') : toWeb'[i] = toWeb[i + 1] /\ i + 1 \in 1 .. Len(toWeb)
      BY <1>2, <1>4, RestFacts
    <3> QED
      BY <1>2, <3>1 DEF AnswersAlone
  <2>2. Version' = Version /\ Current' = Current
    BY <1>1 DEF Version, Current
  <2> QED
    BY <1>1, <1>4, <2>1, <2>2 DEF AInv
<1> QED
  BY <1>3, <1>4 DEF Lose
-----------------------------------------------------------------------------
(* The theorem about an editor alone with its file.                        *)

LEMMA InitAlone == Init => AInv
<1> SUFFICES ASSUME Init PROVE AInv
  OBVIOUS
<1>1. PICK t \in Text : doc = <<t>>
  BY DEF Init
<1>2. /\ web.version = 0 /\ web.flight = NoFlight /\ web.conflict = NoConflict /\ web.sequence = 0
  BY DEF Init, Opening
<1>3. Version = 1
  BY <1>1 DEF Version
<1>4. WebAlone(web, Version)
  BY <1>2, <1>3 DEF WebAlone, IsOpen, InConflict
<1>5. host.busy = Idle
  BY DEF Init
<1>6. QueueAlone(toHost, host.busy, web, Version)
  <2>1. Ready \in RequestType /\ Ready.type = "ready"
    BY DEF Ready, RequestType
  <2>2. \A i \in 1 .. Len(toHost) : toHost[i] = Ready
    <3>1. Len(<<Ready>>) = 1 /\ \A i \in 1 .. 1 : <<Ready>>[i] = Ready
      BY <2>1, OneInQueue
    <3> QED
      BY <3>1 DEF Init
  <2> QED
    BY <2>1, <2>2 DEF QueueAlone
<1>7. BusyAlone(host.busy, web, doc)
  BY <1>5, IdleFacts DEF BusyAlone
<1>8. toWeb = <<>>
  BY DEF Init
<1> QED
  BY <1>2, <1>4, <1>6, <1>7, <1>8, NoAnswerAlone DEF AInv

LEMMA StillAlone ==
  ASSUME AInv, web' = web, toHost' = toHost, toWeb' = toWeb, doc' = doc, host' = host
  PROVE  AInv'
<1>1. Version' = Version /\ Current' = Current
  BY DEF Version, Current
<1> QED
  BY <1>1 DEF AInv

LEMMA NextAlone ==
  ASSUME Alone, IInv, AInv, [Next]_vars
  PROVE  AInv'
<1>1. CASE \E t \in Text : Type(t)
  BY <1>1, TypeAlone
<1>2. CASE (\E t \in Text : External(t)) \/ Reload
  BY <1>2 DEF External, Reload, Disturb, Alone
<1>3. CASE \E action \in Actions : Press(action)
  BY <1>3, PressAlone
<1>4. CASE \E keep \in BOOLEAN : Resolve(keep)
  BY <1>4, ResolveAlone
<1>5. CASE GetText \/ GetAck
  BY <1>5, GetTextAlone, GetAckAlone
<1>6. CASE Timeout \/ AskAgain
  BY <1>6, RequestConnectionAlone DEF Timeout, AskAgain
<1>7. CASE ClickWhileOpening
  BY <1>7, StillAlone DEF ClickWhileOpening
<1>8. CASE HandleReady \/ HandleSync \/ HandleEdit \/ HandleAction
  BY <1>8, HandleReadyAlone, HandleSyncAlone, HandleEditAlone, HandleActionAlone
<1>9. CASE ApplyEdit \/ RefuseEdit \/ FinishEdit \/ FinishAction
  BY <1>9, ApplyEditAlone, RefuseEditAlone, FinishEditAlone, FinishActionAlone
<1>10. CASE Show \/ Lose
  BY <1>10, ShowAlone, LoseAlone
<1>11. CASE UNCHANGED vars
  BY <1>11, StillAlone DEF vars
<1> QED
  BY <1>1, <1>2, <1>3, <1>4, <1>5, <1>6, <1>7, <1>8, <1>9, <1>10, <1>11 DEF Next

\* An editor alone with its file never quarrels with itself: no loss, late answer or
\* repeated request makes DocumentSync take its own edit for somebody else's, and
\* when nothing is under way the buffer is the file's latest text.
THEOREM AloneAgreesHolds == ASSUME Alone PROVE Spec => []AloneAgrees
<1>1. Init => AInv
  BY InitAlone
<1>2. IInv /\ AInv /\ [Next]_vars => AInv'
  BY NextAlone
<1>3. IInv /\ AInv => AloneAgrees
  <2> SUFFICES ASSUME IInv, AInv, Quiescent
               PROVE  IF InConflict(web) THEN web.sequence = 0
                      ELSE web.version = Version /\ web.local = Current
    BY DEF AloneAgrees
  <2>1. WebSound(web, doc) /\ WebAlone(web, Version)
    BY AloneFacts
  <2>2. IsOpen(web) /\ web.flight = NoFlight
    BY DEF Quiescent
  <2> QED
    BY <2>1, <2>2 DEF WebSound, WebAlone, Current
<1> QED
  BY <1>1, <1>2, <1>3, Invariant, PTL DEF Spec
=============================================================================
