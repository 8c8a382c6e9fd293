----------------------------- MODULE MCLanguage -----------------------------
(***************************************************************************)
(* The editor's servants on small instances: the language services, the    *)
(* running of a program, and the editor's own reading of texts.  They      *)
(* share nothing that any of them changes, so a behaviour is about one of  *)
(* them, its `subject`, and the others rest.                               *)
(***************************************************************************)
EXTENDS LanguageServices, LanguageTools, TLC

CONSTANTS t1, t2, t3,    \* three texts
          MaxTasks, MaxClicks

ASSUME RunAssumption == MaxTasks \in Nat /\ MaxClicks \in Nat

VARIABLES
  subject,   \* what this behaviour is about
  pieces,    \* the pieces of a text, a report or a token list, growing at its end
  queue, phase, execution, task, notified, disposed, messages, running

run == <<queue, phase, execution, task, notified, disposed, messages, running>>

Run == INSTANCE ProgramRun

\* The formatter turns t2 into t3.
Formatted == [t \in Text |-> IF t = t2 THEN t3 ELSE t]

\* One service at a time, or none.
NoService == {{}}
OneByOne  == {{}, {"check"}, {"semanticTokens"}, {"format"}, {"native"}}
-----------------------------------------------------------------------------
(* Pieces of texts, compiler reports and token lists.                       *)

Header(severity)        == [kind |-> "header", severity |-> severity]
PlaceAt(line, column)   == [kind |-> "place", line |-> line, column |-> column]
TokenAt(line, start, length) == [line |-> line, start |-> start, length |-> length]

Vocabulary ==
  [characters |-> {<<u>> : u \in {"a", "x", "0", "#", "q", "b", "n"}} \cup {<<"H", "L">>},
   lines  |-> {indent \o <<"f", "s", "a", "n">> : indent \in {<<>>, <<"s">>, <<"t">>, <<"s", "t", "s">>}}
              \cup {indent \o <<"c", "s", "a", "n">> : indent \in {<<>>, <<"t">>}}
              \cup {<<"s", "b", "n">>, <<"a", "#", "t", "n">>, <<"s", "q", "s", "n">>},
   pairs  |-> {<<"a">>, <<"H", "L">>, <<"G", "L">>, <<"H", "M">>},
   report |-> {Header("error"), Header("warning"), [kind |-> "other"]}
              \cup {PlaceAt(1, c) : c \in 1 .. 3} \cup {PlaceAt(2, 9), PlaceAt(9, 1), PlaceAt(0, 0)},
   tokens |-> {TokenAt(l, s, n) : l \in {0, 1}, s \in {0, 1}, n \in {1, 2}}
              \cup {TokenAt(-1, 0, 1), TokenAt(2, 0, 1), TokenAt(0, -1, 1), TokenAt(0, 0, 0)}]

Longest == [characters |-> 4, lines |-> 3, pairs |-> 3, report |-> 3, tokens |-> 3]

\* The text that reports and tokens are about.
Program == <<"a", "H", "L", "n", "a">>

Source == FlattenSeq(pieces)

ShortTexts == UNION {{FlattenSeq(p) : p \in [1 .. n -> Vocabulary.pairs]} : n \in 0 .. Longest.pairs}

Grow == /\ subject \in DOMAIN Vocabulary
        /\ Len(pieces) < Longest[subject]
        /\ \E p \in Vocabulary[subject] : pieces' = Append(pieces, p)
-----------------------------------------------------------------------------
MCInit == /\ Init /\ Run!Init
          /\ pieces = <<>>
          /\ subject \in {"services", "run"} \cup DOMAIN Vocabulary
          /\ subject = "services" <=> asked # {}
          /\ subject # "services" => view = t1

MCNext == \/ subject = "services" /\ Next /\ UNCHANGED <<subject, pieces, run>>
          \/ subject = "run" /\ Run!Next /\ UNCHANGED <<subject, pieces, vars>>
          \/ Grow /\ UNCHANGED <<subject, vars, run>>

\* What rests has no fair step to take.
MCSpec == /\ MCInit /\ [][MCNext]_<<subject, pieces, vars, run>>
          /\ Fairness /\ Run!Fairness
-----------------------------------------------------------------------------
\* The types of the services' and the run's variables.
TypesAgree == TypeOK /\ Run!TypeOK

\* The stop button and the program (ProgramRun).
ButtonAgrees    == Run!ButtonAgrees
StopEndsProgram == Run!StopEndsProgram
CloseEndsLaunch == Run!CloseEndsLaunch

\* LanguageTools' promises, each for the texts, reports and tokens it is about.
OutlineIsNesting   == subject = "lines" => OutlineNests(Source)
FormatIsLayout     == subject = "lines" => FormattingIsLayout(Source)
ColoursFit         == subject = "characters" => LocalColoursFit(Source)
PlacesComeBack     == subject = "characters" => PlacesReturn(Source)
DiagnosticsHaveAPlace == subject = "report" => DiagnosticsFall(pieces, Program)
DecorationsInOrder == subject = "tokens" => RangesAreOrdered(Program, pieces)
ChangesApply       == subject = "pairs" => \A after \in ShortTexts : ChangeApplies(Source, after)

\* What documentSync.js:10 says of the change between two texts, "Never split a
\* surrogate pair", for all pairs of short texts.
ChangesKeepPairs   == subject = "pairs" => \A after \in ShortTexts : ChangeKeepsPairs(Source, after)
=============================================================================
