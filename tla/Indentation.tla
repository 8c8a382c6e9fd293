---------------------------- MODULE Indentation ----------------------------
(***************************************************************************)
(* The lexer's blocks: what lex_token does at the start of each line, in   *)
(* and out of brackets, and at the end of the file.  A line is the white   *)
(* space before it and whether its text leaves a bracket open or none; a   *)
(* blank line or a comment has no text.  Tabs are read twice, with stops   *)
(* of m_indent_size and of TABWIDTH columns.                               *)
(*                                                                         *)
(* An operator named ...Fault is no part of the model: it is a bug one     *)
(* could make in the definition after it, and a property has to notice it. *)
(***************************************************************************)
EXTENDS Integers, Sequences, FiniteSets, SequencesExt

CONSTANTS
  Spaces,       \* the white space that lines may begin with
  IndentSize,   \* m_indent_size: 4
  TabWidth,     \* TABWIDTH: 8
  MaxIndent,    \* MAX_ALLOWED_INDENT
  MaxLines      \* bound

BlocksAssumption ==
  /\ Spaces \subseteq Seq({"space", "tab", "feed", "slash"})
  /\ IndentSize \in Nat \ {0} /\ TabWidth \in Nat \ {0} /\ MaxIndent \in Nat

VARIABLES
  read,         \* the lines of text outside brackets so far, by the columns of both readings
  indents,      \* m_indent_stack and m_alt_indent_stack; m_indent_level is its length
  inside,       \* brackets: m_bracket_depth > 0
  tokens,       \* the INDENT and DEDENT tokens so far
  lexer         \* "starting", "reading", "ended", or the error that ended it

lexing == <<read, indents, inside, tokens, lexer>>

LexerInit ==
  /\ read = <<>> /\ indents = <<>> /\ inside = FALSE /\ tokens = <<>> /\ lexer = "starting"

\* The column after white space, with tab stops of so many columns.
Stop(column, width) == (column \div width + 1) * width

\* Both columns; a form feed starts over, and what follows a backslash on the same
\* line does not count for either.
Columns(space) ==
  LET step(s, c) ==
        CASE c = "space" -> [s EXCEPT !.size = @ + 1, !.alt = @ + 1]
          [] c = "tab"   -> [s EXCEPT !.size = Stop(@, IndentSize), !.alt = Stop(@, TabWidth)]
          [] c = "feed"  -> [s EXCEPT !.size = 0, !.alt = 0]
          [] c = "slash" -> [s EXCEPT !.slash = IF @ = 0 THEN s.size ELSE @]
      s == FoldLeft(step, [size |-> 0, alt |-> 0, slash |-> 0], space)
  IN IF s.slash = 0 THEN [size |-> s.size, alt |-> s.alt] ELSE [size |-> s.slash, alt |-> s.slash]

\* The innermost block's columns.
Innermost(stack) == IF stack = <<>> THEN [size |-> 0, alt |-> 0] ELSE Last(stack)

\* The blocks that are left when those deeper than a line are popped.
Enclosing(stack, size) ==
  SubSeq(stack, 1, Max({k \in 0 .. Len(stack) : k > 0 => stack[k].size <= size}))

Ends(error) == lexer' = error /\ UNCHANGED <<indents, tokens>>

Indented(c) ==
  /\ c.size > Innermost(indents).size
  /\ IF Len(indents) + 1 > MaxIndent THEN Ends("TOO_MANY_INDENT_LEVELS")
     ELSE IF c.alt <= Innermost(indents).alt THEN Ends("MIXED_INDENTATION")
     ELSE /\ indents' = Append(indents, c)
          /\ tokens' = Append(tokens, "INDENT")
          /\ UNCHANGED lexer

\* Only the blocks' columns in the first reading are compared.
DedentedFault(c) ==
  LET kept == Enclosing(indents, c.size) IN
  /\ c.size <= Innermost(indents).size
  /\ IF c.size # Innermost(kept).size THEN Ends("INVALID_UNINDENT")
     ELSE /\ indents' = kept
          /\ tokens' = tokens \o [i \in 1 .. Len(indents) - Len(kept) |-> "DEDENT"]
          /\ UNCHANGED lexer

Dedented(c) ==
  LET kept == Enclosing(indents, c.size) IN
  /\ c.size <= Innermost(indents).size
  /\ IF c.size # Innermost(kept).size THEN Ends("INVALID_UNINDENT")
     ELSE IF c.alt # Innermost(kept).alt THEN Ends("INCONSISTENT_INDENTATION")
     ELSE /\ indents' = kept
          /\ tokens' = tokens \o [i \in 1 .. Len(indents) - Len(kept) |-> "DEDENT"]
          /\ UNCHANGED lexer

\* A line up to the next newline.  The first line's columns are not looked at, nor a
\* blank line's or those of a line that begins inside brackets.
Line(space, text) ==
  /\ lexer \in {"starting", "reading"} /\ Len(read) < MaxLines
  /\ inside' = CASE text = "opens"  -> TRUE
                 [] text = "closes" -> FALSE
                 [] OTHER           -> inside
  /\ IF lexer = "starting" \/ inside \/ text = "blank"
     THEN lexer' = "reading" /\ UNCHANGED <<read, indents, tokens>>
     ELSE /\ read' = Append(read, Columns(space))
          /\ Indented(Columns(space)) \/ Dedented(Columns(space))

\* The end of the file, in unclosed brackets too.
EndMarker ==
  /\ lexer \in {"starting", "reading"}
  /\ tokens' = tokens \o [i \in DOMAIN indents |-> "DEDENT"]
  /\ indents' = <<>>
  /\ inside' = FALSE
  /\ lexer' = "ended"
  /\ UNCHANGED read

LexerNext ==
  \/ \E space \in Spaces, text \in {"plain", "blank", "opens", "closes"} : Line(space, text)
  \/ EndMarker
-----------------------------------------------------------------------------
(* Properties.                                                              *)

\* One reading of the lines, below a line at column 0.
Reading(which) == [i \in 0 .. Len(read) |-> IF i = 0 THEN 0 ELSE read[i][which]]

\* The last line is deeper than the one before it, or where an earlier line was that
\* none has come before since.
Aligned(c) == LET n == Len(read) IN
              \/ c[n] > c[n - 1]
              \/ \E i \in 0 .. n - 1 : c[i] = c[n] /\ \A j \in i .. n - 1 : c[j] >= c[n]

\* The blocks the last line is in: the lines that are followed by deeper ones only.
Depth(c) == LET n == Len(read) IN
            Cardinality({i \in 0 .. n - 1 : c[i] < c[n] /\ \A j \in i + 1 .. n - 1 : c[j] > c[i]})

\* How many of the blocks that the first k tokens open they leave open.
Open(k) ==
  Cardinality({i \in 1 .. k : tokens[i] = "INDENT"}) - Cardinality({i \in 1 .. k : tokens[i] = "DEDENT"})

\* A line is accepted exactly when either width of a tab alone puts it into the same
\* blocks, which are the ones that its INDENT and DEDENT tokens leave open; the tokens
\* nest, and all are closed at the end.
BlocksAgree ==
  /\ read # <<>> =>
       LET size == Reading("size")
           alt  == Reading("alt")
           same == Aligned(size) /\ Aligned(alt) /\ Depth(size) = Depth(alt)
       IN /\ lexer = "reading" => same /\ Depth(size) = Open(Len(tokens)) /\ Depth(size) <= MaxIndent
          /\ lexer = "TOO_MANY_INDENT_LEVELS" => Depth(size) > MaxIndent
          /\ lexer \notin {"reading", "ended", "TOO_MANY_INDENT_LEVELS"} => ~same
  /\ \A k \in DOMAIN tokens : Open(k) >= 0
  /\ lexer = "ended" => Open(Len(tokens)) = 0
=============================================================================
