----------------------------- MODULE SharedText -----------------------------
(***************************************************************************)
(* What the right-to-left editor promises its writer about a file other    *)
(* programs may change too.  The file is the sequence of its texts; a      *)
(* version is an index into it.  The writer has a draft built on a version *)
(* seen.  Only whole drafts are submitted, one at a time; a submission     *)
(* enters the file only as the direct successor of the version it was      *)
(* built on; a draft the file does not have is replaced by nobody but the  *)
(* writer; and a foreign text is never passed over without asking.         *)
(***************************************************************************)
EXTENDS Naturals, Sequences

CONSTANTS Text,     \* the contents a file can have
          NoText    \* no text: no draft yet, or no submission awaited

VARIABLES
  doc,         \* every text the file has had, the current one last
  seen,        \* the version the draft is built on, 0 while the file is opened
  draft,       \* what the writer sees, or what is kept for the writer meanwhile
  strokes,     \* how many times the writer has changed the draft
  choosing,    \* is the writer asked to choose between draft and file?
  waiting,     \* the submitted text whose fate is awaited
  submitted    \* the submissions under way: [of, text]

vars == <<doc, seen, draft, strokes, choosing, waiting, submitted>>

Opened == seen # 0

Init == /\ \E t \in Text : doc = <<t>>
        /\ seen = 0
        /\ draft \in Text \cup {NoText}
        /\ strokes = 0
        /\ choosing = FALSE
        /\ waiting = NoText
        /\ submitted = {}

\* With w awaited, a step at the writer's side may submit the draft it leaves.
MaySubmit(w) == \/ waiting' = w /\ submitted' = submitted
                \/ /\ w = NoText
                   /\ ~choosing'
                   /\ draft' # doc[seen']
                   /\ waiting' = draft'
                   /\ submitted' = submitted \cup {[of |-> seen', text |-> draft']}

Type == /\ Opened
        /\ draft' \in Text \ {draft}
        /\ strokes' = strokes + 1
        /\ MaySubmit(waiting)
        /\ UNCHANGED <<doc, seen, choosing>>

\* The file arrives: it becomes the draft, unless a kept draft differs from it.
Open == /\ ~Opened
        /\ seen' \in 1 .. Len(doc)
        /\ draft' = IF draft = NoText THEN doc[seen'] ELSE draft
        /\ choosing' = (draft' # doc[seen'])
        /\ UNCHANGED <<doc, strokes, waiting, submitted>>

\* The draft is rebased onto a text that is not news to the writer.
Rebase == /\ Opened /\ ~choosing
          /\ seen' \in seen .. Len(doc)
          /\ doc[seen'] \in {doc[seen], waiting, draft}
          /\ \E w \in {waiting, NoText} : MaySubmit(w)
          /\ UNCHANGED <<doc, draft, strokes, choosing>>

\* The draft had nothing of its own: it follows the file.
Follow == /\ Opened /\ ~choosing
          /\ draft = doc[seen] /\ waiting = NoText
          /\ seen' \in seen .. Len(doc)
          /\ draft' = doc[seen']
          /\ UNCHANGED <<doc, strokes, choosing, waiting, submitted>>

\* The draft and the file have both moved on: the writer is asked.
Ask == /\ Opened
       /\ choosing' = TRUE
       /\ waiting' = NoText
       /\ UNCHANGED <<doc, seen, draft, strokes, submitted>>

\* The writer chooses the draft, or the text the file had at a version.
Choose == /\ choosing
          /\ choosing' = FALSE
          /\ seen' \in seen .. Len(doc)
          /\ draft' \in {draft, doc[seen']}
          /\ MaySubmit(NoText)
          /\ UNCHANGED <<doc, strokes>>

\* A submission becomes the file's next text.
Commit(s) == /\ s.of = Len(doc)
             /\ doc' = Append(doc, s.text)

Enter == \E s \in submitted : /\ Commit(s)
                              /\ submitted' \in {submitted, submitted \ {s}}
                              /\ UNCHANGED <<seen, draft, strokes, choosing, waiting>>

Forget == /\ submitted' \in SUBSET submitted
          /\ UNCHANGED <<doc, seen, draft, strokes, choosing, waiting>>

\* Another program changes the file, or only its line ends.
Foreign == /\ \E t \in Text : doc' = Append(doc, t)
           /\ UNCHANGED <<seen, draft, strokes, choosing, waiting, submitted>>

\* The editor closes and opens again; it keeps a draft the file may not have.
Reopen == /\ seen' = 0
          /\ \/ draft' = draft
             \/ Opened /\ draft = doc[seen] /\ draft' = NoText
          /\ choosing' = FALSE
          /\ waiting' = NoText
          /\ submitted' = {}
          /\ doc' = doc \/ \E s \in submitted : Commit(s)
          /\ UNCHANGED strokes

Next == \/ Type \/ Open \/ Rebase \/ Follow \/ Ask \/ Choose
        \/ Enter \/ Forget \/ Foreign \/ Reopen

Spec == Init /\ [][Next]_vars
=============================================================================
