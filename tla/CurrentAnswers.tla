--------------------------- MODULE CurrentAnswers ---------------------------
(***************************************************************************)
(* What the language services promise the writer: whatever is shown about  *)
(* a program is about the program as it is now.  The error list and the    *)
(* colours belong to the text in the editor, the entries of VS Code's      *)
(* Problems list to the text of the document, and colours that came from   *)
(* the parser are not replaced by guessed ones.  Nothing here mentions     *)
(* requests, processes or timers: LanguageServices implements this module. *)
(***************************************************************************)
CONSTANTS Text, NoText

VARIABLES
  view,      \* the text in the editor
  file,      \* the text of the document
  panel,     \* the text whose errors the editor lists, or NoText
  problems,  \* the text whose errors VS Code lists, or NoText
  colours    \* "outdated" | "lexical" | "parser": what colours the view

vars == <<view, file, panel, problems, colours>>

Init == /\ view \in Text /\ file \in Text
        /\ panel = NoText /\ problems = NoText
        /\ colours = "outdated"

\* The writer, an undo, a formatter or an adopted file changes the view: nothing
\* known about the old text is shown any more.
Rewrite(t) == /\ view' = t
              /\ panel' = NoText
              /\ colours' = "outdated"
              /\ UNCHANGED <<file, problems>>

\* The document changes or is saved: its entries leave the Problems list.
FileEvent(t) == /\ file' = t
                /\ problems' = NoText
                /\ UNCHANGED <<view, panel, colours>>

\* The errors of the text in view are listed, or no errors are known.
List == /\ panel' \in {view, NoText}
        /\ UNCHANGED <<view, file, problems, colours>>

Publish == /\ problems' \in {file, NoText}
           /\ UNCHANGED <<view, file, panel, colours>>

\* Guessed colours until the parser answers, never after it.
Colour == /\ \/ colours' = "parser"
             \/ colours # "parser" /\ colours' = "lexical"
          /\ UNCHANGED <<view, file, panel, problems>>

\* Settings or trust change: everything about the view is asked for again.
Refresh == /\ panel' = NoText
           /\ colours' = "outdated"
           /\ UNCHANGED <<view, file, problems>>

Next == \/ \E t \in Text : Rewrite(t) \/ FileEvent(t)
        \/ List \/ Publish \/ Colour \/ Refresh

Spec == Init /\ [][Next]_vars
=============================================================================
