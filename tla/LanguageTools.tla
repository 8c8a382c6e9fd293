---------------------------- MODULE LanguageTools ----------------------------
(***************************************************************************)
(* The editor's own reading of a program, where the parser is not asked:   *)
(* the outline, local colours, places named by line and column, the        *)
(* compiler's report turned into places, and the edit that turns one text  *)
(* into another.  All are functions of texts.                              *)
(*                                                                         *)
(* A text is a sequence of UTF-16 code units, as JavaScript has it, of     *)
(* which only the class is kept: "n" ends a line, "s" and "t" are blanks,  *)
(* "a" and "x" are letters, and "x" may also stand in a number, "f" and    *)
(* "c" are the words that declare a function and a class, and a letter     *)
(* outside the basic plane is one of the pairs of "H" or "G" and "L" or    *)
(* "M".  Offsets count the units before a place, lines and columns from 0. *)
(***************************************************************************)
EXTENDS Integers, Sequences, FiniteSets, SequencesExt, FiniteSetsExt

CONSTANTS
  TabSize,    \* settings.tabSize
  MaxShown    \* diagnostics that are shown of one report (30)

ASSUME SizesAssumption == TabSize \in Nat \ {0} /\ MaxShown \in Nat

Blank    == {"s", "t"}
Quote    == {"'", "q"}
High     == {"H", "G"}
Low      == {"L", "M"}
Letter   == {"a", "x", "f", "c"}
Digit    == {"0"}
NumberPart == Digit \cup {"x"}
Operator == {"+"}
Unit     == Blank \cup Quote \cup High \cup Low \cup Letter \cup Digit \cup Operator
            \cup {"n", "#", "b"}
-----------------------------------------------------------------------------
(* Units, characters and lines.                                             *)

\* Where a run of units of S that begins at an offset ends.
RunEnd(text, from, S) ==
  Min({i \in from .. Len(text) : i = Len(text) \/ text[i + 1] \notin S})

Trimmed(line) ==
  SubSeq(line, 1, Max({0} \cup {i \in DOMAIN line : line[i] \notin Blank}))

Lines(text) ==
  FoldLeft(LAMBDA ls, u : IF u = "n" THEN Append(ls, <<>>)
                          ELSE [ls EXCEPT ![Len(ls)] = Append(@, u)],
           <<(<<>>)>>, text)

\* The offset of line l, the first being line 0.
LineFrom(text, l) ==
  FoldLeft(LAMBDA sum, line : sum + Len(line) + 1, 0, SubSeq(Lines(text), 1, l))

\* The offsets between characters, and the offset after k of them.
Boundaries(line) == {i \in 0 .. Len(line) : i = Len(line) \/ line[i + 1] \notin Low}
AfterFault(line, k) == IF k < Len(line) THEN k ELSE Len(line)
After(line, k) ==
  LET ends == SetToSortSeq(Boundaries(line), <)
  IN  ends[IF k < Len(ends) THEN k + 1 ELSE Len(ends)]
-----------------------------------------------------------------------------
(* Outline and whitespace.                                                  *)

\* A line's code, with strings blanked and the comment cut off, and the quote of
\* the string that is still open at its end.
ScanLine(line, initialQuote) ==
  LET Step(s, u) ==
        CASE s.cut -> s
          [] ~s.cut /\ s.quote # "none" ->
               [s EXCEPT !.quote = IF ~s.escaped /\ u = s.quote THEN "none" ELSE @,
                         !.escaped = ~s.escaped /\ u = "b",
                         !.code = Append(@, "s")]
          [] ~s.cut /\ s.quote = "none" /\ u = "#" -> [s EXCEPT !.cut = TRUE]
          [] ~s.cut /\ s.quote = "none" /\ u \in Quote ->
               [s EXCEPT !.quote = u, !.code = Append(@, "s")]
          [] OTHER -> [s EXCEPT !.code = Append(@, u)]
  IN  FoldLeft(Step, [code |-> <<>>, quote |-> initialQuote, escaped |-> FALSE, cut |-> FALSE], line)

Width(blanks) ==
  FoldLeft(LAMBDA w, u : IF u = "t" THEN w + TabSize - (w % TabSize) ELSE w + 1, 0, blanks)

Indentation(line) == Width(SubSeq(line, 1, RunEnd(line, 0, Blank)))

\* Where the declared name of a line of code stands, or nothing.
Declaration(code) ==
  LET word  == RunEnd(code, 0, Blank)
      start == RunEnd(code, word + 1, Blank)
      end   == RunEnd(code, start, Letter \cup High \cup Low \cup Digit)
  IN  IF /\ word < Len(code) /\ code[word + 1] \in {"f", "c"}
         /\ word + 1 < start /\ start < Len(code) /\ code[start + 1] \in Letter \cup High
      THEN {[class |-> code[word + 1] = "c", start |-> start, end |-> end]}
      ELSE {}

\* The declarations that a line with this indentation may lie inside.
PoppedFault(stack, indent) ==
  SubSeq(stack, 1, Max({i \in 0 .. Len(stack) : i > 0 => stack[i].indent <= indent}))
Popped(stack, indent) ==
  SubSeq(stack, 1, Max({i \in 0 .. Len(stack) : i > 0 => stack[i].indent < indent}))

DocumentOutline(source) ==
  LET Symbol(d, line, offset, indent, stack) ==
        [kind |-> IF d.class THEN "class"
                  ELSE IF stack # <<>> /\ Last(stack).kind = "class" THEN "method" ELSE "function",
         line |-> line, from |-> offset + d.start, to |-> offset + d.end, indent |-> indent,
         container |-> [i \in DOMAIN stack |-> stack[i].line]]
      Step(s, text) ==
        LET scanned == ScanLine(text, s.quote)
            quiet   == s.quote # "none" \/ Trimmed(scanned.code) = <<>>
            indent  == Indentation(text)
            stack   == IF quiet THEN s.stack ELSE Popped(s.stack, indent)
            found   == IF quiet THEN {}
                       ELSE {Symbol(d, s.line, s.offset, indent, stack) : d \in Declaration(scanned.code)}
        IN  [symbols |-> s.symbols \o SetToSeq(found), stack |-> stack \o SetToSeq(found),
             quote |-> scanned.quote, line |-> s.line + 1, offset |-> s.offset + Len(text) + 1]
  IN  FoldLeft(Step, [symbols |-> <<>>, stack |-> <<>>, quote |-> "none", line |-> 0, offset |-> 0],
               Lines(source)).symbols

\* A line formatted, between the quote open before it and the one open after it.
Reindented(line) == [i \in 1 .. Indentation(line) |-> "s"]
                    \o SubSeq(line, RunEnd(line, 0, Blank) + 1, Len(line))
FormattedLineFault(line, before, after) ==
  IF after = "none" THEN Trimmed(Reindented(line)) ELSE Reindented(line)
FormattedLine(line, before, after) ==
  LET indented == IF before # "none" THEN line ELSE Reindented(line)
  IN  IF after = "none" THEN Trimmed(indented) ELSE indented

FormatWhitespace(text) ==
  LET Step(s, line) ==
        LET quote == ScanLine(line, s.quote).quote
        IN  [text |-> s.text \o FormattedLine(line, s.quote, quote) \o <<"n">>, quote |-> quote]
      done == FoldLeft(Step, [text |-> <<>>, quote |-> "none"], Lines(text))
      formatted == Front(done.text)
  IN  IF formatted # <<>> /\ done.quote = "none" /\ Last(formatted) # "n"
      THEN Append(formatted, "n") ELSE formatted
-----------------------------------------------------------------------------
(* Places.                                                                  *)

\* The place a line and a column name; a line that is not there names none.
LineLocation(doc, number, column) ==
  IF number < 1 \/ number > Len(Lines(doc)) \/ column < 1 THEN {}
  ELSE {LineFrom(doc, number - 1) + After(Lines(doc)[number], column - 1)}

\* What openLineNavigation shows for the caret.
Caret(doc, head) ==
  LET number == Max({n \in DOMAIN Lines(doc) : LineFrom(doc, n - 1) <= head})
      column == head - LineFrom(doc, number - 1)
  IN  [number |-> number,
       column |-> Cardinality(Boundaries(Lines(doc)[number]) \cap (0 .. column - 1)) + 1]

\* Half of a character is marked, where it has two units.
PlacedFault(d, place, lines) ==
  LET line    == Min({Len(lines) - 1, Max({0, place.line - 1})})
      content == lines[line + 1]
      start   == After(content, Max({0, place.column - 1}))
  IN  [d EXCEPT !.line = line, !.start = start,
                !.length = IF start < Len(content) THEN 1 ELSE 0]

\* A diagnostic with the place the report gives it, brought into the text.
Placed(d, place, lines) ==
  LET line    == Min({Len(lines) - 1, Max({0, place.line - 1})})
      content == lines[line + 1]
      start   == After(content, Max({0, place.column - 1}))
  IN  [d EXCEPT !.line = line, !.start = start,
                !.length = IF start = Len(content) THEN 0
                           ELSE IF content[start + 1] \in High THEN 2 ELSE 1]

\* A report is a sequence of headers, places and other lines.
ParseDiagnostics(report, source) ==
  LET Step(s, r) ==
        CASE r.kind = "header" ->
               [found |-> Append(s.found, [severity |-> r.severity, line |-> 0, start |-> 0, length |-> 1]),
                open |-> TRUE]
          [] r.kind = "place" /\ s.open ->
               [found |-> [s.found EXCEPT ![Len(s.found)] = Placed(@, r, Lines(source))], open |-> FALSE]
          [] OTHER -> s
      found == FoldLeft(Step, [found |-> <<>>, open |-> FALSE], report).found
  IN  SubSeq(found, 1, Min({MaxShown, Len(found)}))
-----------------------------------------------------------------------------
(* Colours.                                                                 *)

\* Where a string that opens at an offset ends: after its quote or with its line.
StringEndFault(text, from) ==
  LET close == {i \in from + 1 .. Len(text) - 1 : text[i + 1] \in {text[from + 1], "n"}}
  IN  IF close = {} THEN Len(text)
      ELSE IF text[Min(close) + 1] = "n" THEN Min(close) ELSE Min(close) + 1
StringEnd(text, from) ==
  LET Step(s, u) ==
        IF s.closed \/ u = "n" THEN [s EXCEPT !.closed = TRUE]
        ELSE [end |-> s.end + 1, closed |-> ~s.escaped /\ u = text[from + 1],
              escaped |-> ~s.escaped /\ u = "b"]
  IN  FoldLeft(Step, [end |-> from + 1, closed |-> FALSE, escaped |-> FALSE],
               SubSeq(text, from + 2, Len(text))).end

\* The type and the end of the token that begins at an offset.
Token(text, from) ==
  LET u == text[from + 1]
      Is(type, end) == [type |-> type, end |-> end]
      Pair == u \in High /\ from + 1 < Len(text) /\ text[from + 2] \in Low
  IN  CASE u = "n" -> Is("newline", from + 1)
        [] u = "#" -> Is("comment", RunEnd(text, from, Unit \ {"n"}))
        [] u \in Quote -> Is("string", StringEnd(text, from))
        [] u \in Letter ->
             LET end == RunEnd(text, from, Letter \cup Digit)
             IN  Is(IF end = from + 1 /\ u \in {"f", "c"} THEN "keyword" ELSE "variable", end)
        [] u \in Digit -> Is("number", RunEnd(text, from, NumberPart))
        [] u \in Operator -> Is("operator", RunEnd(text, from, Operator))
        [] OTHER -> Is("none", IF Pair THEN from + 2 ELSE from + 1)

\* Line and column are counted along; the fold is the loop, which moves on each time.
LexicalTokens(text) ==
  LET Step(s, i) ==
        IF s.offset = Len(text) THEN s ELSE
        LET t == Token(text, s.offset)
            length == t.end - s.offset
        IN  [offset |-> t.end,
             line   |-> IF t.type = "newline" THEN s.line + 1 ELSE s.line,
             column |-> IF t.type = "newline" THEN 0 ELSE s.column + length,
             tokens |-> IF t.type \in {"newline", "none"} THEN s.tokens
                        ELSE Append(s.tokens, [line |-> s.line, start |-> s.column,
                                               length |-> length, type |-> t.type])]
  IN  FoldLeftDomain(Step, [offset |-> 0, line |-> 0, column |-> 0, tokens |-> <<>>], text).tokens

\* Of ranges in order, those that do not begin inside the last one kept.
ApartFault(ranges) == ranges
Apart(ranges) ==
  FoldLeft(LAMBDA kept, r : IF kept # <<>> /\ r.from < Last(kept).to THEN kept ELSE Append(kept, r),
           <<>>, ranges)

\* The ranges that are coloured for tokens that may belong to another text: those
\* that fit, in order, apart from each other.
BuildDecorations(doc, tokens) ==
  LET Place(i) == LET from == LineFrom(doc, tokens[i].line) + tokens[i].start
                  IN  [from |-> from, to |-> from + tokens[i].length, token |-> i]
      Fits(i) == /\ tokens[i].length > 0
                 /\ tokens[i].line \in 0 .. Len(Lines(doc)) - 1
                 /\ tokens[i].start >= 0
                 /\ tokens[i].start + tokens[i].length <= Len(Lines(doc)[tokens[i].line + 1])
      Before(r, q) == \/ r.from < q.from
                      \/ r.from = q.from /\ r.to < q.to
                      \/ r.from = q.from /\ r.to = q.to /\ r.token < q.token
  IN  Apart(SetToSortSeq({Place(i) : i \in {j \in DOMAIN tokens : Fits(j)}}, Before))
-----------------------------------------------------------------------------
(* Edits.                                                                   *)

\* How many units two texts have in common at their ends, beyond the first ones.
CommonTailFault(before, after, same) ==
  Max({k \in 0 .. Len(before) - same : /\ k <= Len(after)
                                       /\ \A j \in 0 .. k - 1 : before[Len(before) - j] = after[Len(after) - j]})
CommonTail(before, after, same) ==
  Max({k \in 0 .. Len(before) - same : /\ k <= Len(after) - same
                                       /\ \A j \in 0 .. k - 1 : before[Len(before) - j] = after[Len(after) - j]})

\* The least part of a text to replace; its start does not fall inside a pair.
TextChange(before, after) ==
  LET same == Max({i \in 0 .. Len(before) : i <= Len(after) /\ \A j \in 1 .. i : before[j] = after[j]})
      tail == CommonTail(before, after, same)
      from == IF same > 0 /\ before[same] \in High THEN same - 1 ELSE same
  IN  [from |-> from, to |-> Len(before) - tail, insert |-> SubSeq(after, from + 1, Len(after) - tail)]

\* The text the provider expects of an edit and compares the document with afterwards.
\* VS Code itself, which is not modelled, widens a range that ends inside a pair.
Expected(before, change) ==
  SubSeq(before, 1, change.from) \o change.insert \o SubSeq(before, change.to + 1, Len(before))
-----------------------------------------------------------------------------
(* What these functions promise each other.                                 *)

OpenBefore(text, l) ==
  FoldLeft(LAMBDA quote, line : ScanLine(line, quote).quote, "none", SubSeq(Lines(text), 1, l))

InString(line, quote, i) ==
  \E k \in {i - 1, i} : ScanLine(SubSeq(line, 1, k), quote).quote # "none"

\* The outline of a text read off its lines: a declaration lies inside another if no
\* line of code since then is indented as little as that one.
OutlineNests(text) ==
  LET ls      == Lines(text)
      Code(l) == ScanLine(ls[l + 1], OpenBefore(text, l)).code
      spoken  == {l \in 0 .. Len(ls) - 1 : OpenBefore(text, l) = "none" /\ Trimmed(Code(l)) # <<>>}
      declaring == {l \in spoken : Declaration(Code(l)) # {}}
      Around(l) == {d \in declaring : d < l /\ \A k \in spoken : d < k /\ k <= l
                                        => Indentation(ls[k + 1]) > Indentation(ls[d + 1])}
      outline == DocumentOutline(text)
      Kind(l) == (CHOOSE i \in DOMAIN outline : outline[i].line = l)
  IN  /\ [i \in DOMAIN outline |-> outline[i].line] = SetToSortSeq(declaring, <)
      /\ \A i \in DOMAIN outline :
           LET symbol == outline[i] IN
           /\ symbol.container = SetToSortSeq(Around(symbol.line), <)
           /\ symbol.kind = "method" <=>
                /\ Code(symbol.line)[RunEnd(Code(symbol.line), 0, Blank) + 1] = "f"
                /\ Around(symbol.line) # {} /\ outline[Kind(Max(Around(symbol.line)))].kind = "class"
           /\ {symbol.from, symbol.to} \subseteq Boundaries(text)

\* Formatting again changes nothing; formatting leaves the code, the strings and the
\* outline's structure alone.
FormattingIsLayout(text) ==
  LET formatted  == FormatWhitespace(text)
      Solid(u)   == u \notin Blank \cup {"n"}
      Strings(t) == FoldLeftDomain(LAMBDA all, l :
                      LET line == Lines(t)[l] quote == OpenBefore(t, l - 1)
                      IN  all \o FoldLeftDomain(LAMBDA part, i :
                                   IF InString(line, quote, i) THEN Append(part, line[i]) ELSE part,
                                   <<>>, line),
                      <<>>, Lines(t))
      Structure(t) == [i \in DOMAIN DocumentOutline(t) |->
                         LET symbol == DocumentOutline(t)[i]
                         IN  <<symbol.kind, symbol.line, symbol.indent, symbol.container>>]
  IN  /\ FormatWhitespace(formatted) = formatted
      /\ SelectSeq(formatted, Solid) = SelectSeq(text, Solid)
      /\ Strings(formatted) = Strings(text)
      /\ Structure(formatted) = Structure(text)

\* The local tokens are all coloured, never colour half a character, leave out only
\* what has no colour, and see strings and comments where the outline's scanner does.
LocalColoursFit(text) ==
  LET tokens == LexicalTokens(text)
      ranges == BuildDecorations(text, tokens)
      On(i, type) == \E r \in DOMAIN ranges : /\ i \in ranges[r].from + 1 .. ranges[r].to
                                              /\ tokens[ranges[r].token].type \in type
      Place(l, i) == LineFrom(text, l - 1) + i
  IN  /\ Len(ranges) = Len(tokens)
      /\ \A r \in DOMAIN ranges : {ranges[r].from, ranges[r].to} \subseteq Boundaries(text)
      /\ \A i \in DOMAIN text :
           text[i] \notin Blank \cup High \cup Low \cup {"n", "b"}
             => On(i, {"comment", "string", "variable", "keyword", "number", "operator"})
      /\ \A l \in DOMAIN Lines(text) : LET line == Lines(text)[l] IN \A i \in DOMAIN line :
           /\ On(Place(l, i), {"string"}) <=> InString(line, "none", i)
           /\ On(Place(l, i), {"comment"}) <=> i > Len(ScanLine(line, "none").code)

\* Whatever tokens come for whatever text: the ranges are in order and apart, as the
\* editor's builder demands, each inside a line, and only a token that does not fit
\* or begins inside another is left out.
RangesAreOrdered(doc, tokens) ==
  LET ranges == BuildDecorations(doc, tokens)
      LineOf(r) == {l \in DOMAIN Lines(doc) : LineFrom(doc, l - 1) <= r.from
                                              /\ r.to <= LineFrom(doc, l - 1) + Len(Lines(doc)[l])}
  IN  /\ \A r, q \in DOMAIN ranges : r < q => ranges[r].to <= ranges[q].from
      /\ \A r \in DOMAIN ranges : ranges[r].from < ranges[r].to /\ LineOf(ranges[r]) # {}
      /\ \A i \in DOMAIN tokens :
           LET t == tokens[i] IN
           \/ t.line \notin 0 .. Len(Lines(doc)) - 1 \/ t.length <= 0 \/ t.start < 0
           \/ t.start + t.length > Len(Lines(doc)[t.line + 1])
           \/ \E r \in DOMAIN ranges :
                LET from == LineFrom(doc, t.line) + t.start
                IN  from \in ranges[r].from .. ranges[r].to - 1

\* The place shown for the caret leads back to it, and no line and column lead into
\* a pair or to another line.
PlacesReturn(doc) ==
  /\ \A head \in Boundaries(doc) :
       LineLocation(doc, Caret(doc, head).number, Caret(doc, head).column) = {head}
  /\ \A number, column \in 0 .. Len(doc) + 2 : \A place \in LineLocation(doc, number, column) :
       place \in Boundaries(doc) /\ Caret(doc, place).number = number

\* A diagnostic takes the first place after its header and before the next one, and
\* marks the character there, one line's end at most.
DiagnosticsFall(report, source) ==
  LET found   == ParseDiagnostics(report, source)
      headers == SetToSortSeq({i \in DOMAIN report : report[i].kind = "header"}, <)
      After1(h) == {i \in DOMAIN report : report[i].kind = "place" /\ h < i
                                          /\ \A k \in h + 1 .. i - 1 : report[k].kind = "other"}
      Content(d) == Lines(source)[d.line + 1]
  IN  /\ Len(found) = Min({MaxShown, Len(headers)})
      /\ \A n \in DOMAIN found :
           LET d == found[n] IN
           /\ d.severity = report[headers[n]].severity
           /\ After1(headers[n]) = {} => <<d.line, d.start>> = <<0, 0>>
           /\ \A i \in After1(headers[n]) :
                /\ report[i].line - 1 \in DOMAIN Lines(source) \cup {0} => d.line <= report[i].line
                /\ {d.start, d.start + d.length} \subseteq Boundaries(Content(d))
                /\ d.length = 0 <=> d.start = Len(Content(d))
                /\ Cardinality(Boundaries(Content(d)) \cap (d.start .. d.start + d.length)) <= 2
                /\ report[i].column \in 1 .. Cardinality(Boundaries(Content(d)))
                     => Cardinality(Boundaries(Content(d)) \cap (0 .. d.start)) = report[i].column

\* The text expected of a change is the one it was computed for, nothing is changed
\* only where there is nothing to change, and a change does not begin inside a pair
\* (its end is the matter of ChangeKeepsPairs).
ChangeApplies(before, after) ==
  LET change == TextChange(before, after)
  IN  /\ Expected(before, change) = after
      /\ before = after <=> change.from = change.to /\ change.insert = <<>>
      /\ change.from \in Boundaries(before) \cap Boundaries(after)

\* documentSync.js:10 says of textChange "Never split a surrogate pair": what a change
\* replaces has whole characters on both sides.
ChangeKeepsPairs(before, after) ==
  LET change == TextChange(before, after)
  IN  {change.from, change.to} \subseteq Boundaries(before)
=============================================================================
