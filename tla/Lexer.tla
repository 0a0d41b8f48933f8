------------------------------- MODULE Lexer -------------------------------
(***************************************************************************)
(* Two gates look for forbidden words in Lean sources and must not find    *)
(* them in prose, so each takes comments and strings out first, with a     *)
(* lexer of its own:                                                       *)
(*                                                                         *)
(*   check_mathlib_style.py     code_only, line by line, after             *)
(*                              strip_string_literals on the line          *)
(*   check_explicit_numerical_  code_without_comments_or_strings, over the *)
(*   data.py                    whole file, character by character         *)
(*                                                                         *)
(* gates.sh runs them one after the other.  A step is one turn of a loop.  *)
(* A character is itself where a lexer looks at it or should, and Other    *)
(* else; Blank is the space that replaces what is taken out.               *)
(***************************************************************************)
EXTENDS Integers, Sequences, FiniteSets

CONSTANT Sources             \* the files

Slash     == "/"
Dash      == "-"
Quote     == "quote"
Backslash == "backslash"
Newline   == "newline"
Blank     == "blank"
Tick      == "tick"          \* an apostrophe that opens a character literal, and
RawMark   == "raw"           \*   an r that begins a name: no lexer looks at them,
Hash      == "hash"          \*   nor at a hash
Other     == "x"

Char == {Slash, Dash, Quote, Backslash, Newline, Blank, Tick, RawMark, Hash, Other}

ASSUME SourcesAssumption == Sources \subseteq Seq(Char)

VARIABLES
  source,       \* the file
  gate,         \* which lexer runs: "style", "data", then "done"
  from, s, col, \* code_only: the start of its line, the stripped line, i
  depth,        \*   the block comments it is in
  buf, out,     \*   the line so far, the lines done
  i,            \* code_without_comments_or_strings: the next character
  block_depth, in_string,
  result

style == <<from, s, col, depth, buf, out>>
data  == <<i, block_depth, in_string, result>>
vars  == <<source, gate, style, data>>

TypeOK ==
  /\ source \in Seq(Char)
  /\ gate \in {"style", "data", "done"}
  /\ from \in 1..Len(source) + 1
  /\ s \in Seq(Char) /\ col \in 1..Len(s) + 1
  /\ depth \in Nat
  /\ buf \in Seq(Char) /\ out \in Seq(Seq(Char))
  /\ i \in 1..Len(source) + 1
  /\ block_depth \in Nat /\ in_string \in BOOLEAN
  /\ result \in Seq(Char)

(***************************************************************************)
(* Lines and tokens.                                                       *)
(***************************************************************************)
\* startswith: the two characters a and b stand at p of t.
Starts(t, p, a, b) == p < Len(t) /\ t[p] = a /\ t[p + 1] = b

\* The line of t that holds p ends before e.
EndsLine(t, p, e) ==
  /\ e \in p..Len(t) + 1
  /\ e <= Len(t) => t[e] = Newline
  /\ \A k \in p..e - 1 : t[k] # Newline

\* The character at e is escaped: the backslashes between a and e that end before it are
\* odd in number.
Escaped(t, a, e) ==
  \E n \in 1..e - a - 1 : /\ n % 2 = 1 /\ t[e - n - 1] # Backslash
                          /\ \A j \in e - n..e - 1 : t[j] = Backslash

\* The quote at a opens a string that the one at e closes.
Closes(t, a, e) ==
  /\ a < e /\ t[a] = Quote /\ t[e] = Quote /\ ~Escaped(t, a, e)
  /\ \A k \in a + 1..e - 1 : t[k] = Quote => Escaped(t, a, k)

\* Where the match that covers a character of the line ends, zero where there is none.
Matches(line) ==
  LET end[j \in 0..Len(line)] ==
        IF j = 0 THEN 0
        ELSE IF end[j - 1] >= j THEN end[j - 1]
        ELSE IF \E e \in j + 1..Len(line) : Closes(line, j, e)
             THEN CHOOSE e \in j + 1..Len(line) : Closes(line, j, e)
             ELSE 0
  IN  end

\* k lies inside a string that opens and closes on the line.
Inside(line, k) == Matches(line)[k] > k /\ Matches(line)[k - 1] >= k

strip_string_literals(line) ==
  [k \in 1..Len(line) |-> IF Inside(line, k) THEN Blank ELSE line[k]]

\* The line that begins at p (there is one).
LineFrom(t, p) ==
  {strip_string_literals(SubSeq(t, p, e - 1)) : e \in {e \in p..Len(t) + 1 : EndsLine(t, p, e)}}

(***************************************************************************)
(* code_only.                                                              *)
(***************************************************************************)
\* Mutant: comments do not nest.
MutFlatStyle ==
  /\ gate = "style" /\ Starts(s, col, Slash, Dash)
  /\ depth' = 1
  /\ col' = col + 2
  /\ UNCHANGED <<source, gate, from, s, buf, out, data>>

StyleOpen ==
  /\ gate = "style" /\ Starts(s, col, Slash, Dash)
  /\ depth' = depth + 1
  /\ col' = col + 2
  /\ UNCHANGED <<source, gate, from, s, buf, out, data>>

\* Mutant: a closer outside a comment counts too.
MutCloseAnywhere ==
  /\ gate = "style" /\ Starts(s, col, Dash, Slash)
  /\ depth' = depth - 1
  /\ col' = col + 2
  /\ UNCHANGED <<source, gate, from, s, buf, out, data>>

StyleClose ==
  /\ gate = "style" /\ Starts(s, col, Dash, Slash)
  /\ depth > 0
  /\ depth' = depth - 1
  /\ col' = col + 2
  /\ UNCHANGED <<source, gate, from, s, buf, out, data>>

Comment == depth = 0 /\ Starts(s, col, Dash, Dash)

StyleKeep ==
  /\ gate = "style" /\ col <= Len(s)
  /\ ~Starts(s, col, Slash, Dash) /\ ~(depth > 0 /\ Starts(s, col, Dash, Slash)) /\ ~Comment
  /\ buf' = Append(buf, IF depth > 0 THEN Blank ELSE s[col])
  /\ col' = col + 1
  /\ UNCHANGED <<source, gate, from, s, depth, out, data>>

\* The line is over, or the rest of it is a comment.
StyleNextLine ==
  /\ gate = "style" /\ (col > Len(s) \/ Comment)
  /\ out' = Append(out, buf)
  /\ buf' = <<>> /\ col' = 1
  /\ \E e \in from..Len(source) + 1 :
       /\ EndsLine(source, from, e)
       /\ \/ /\ e > Len(source)
             /\ gate' = "data"
             /\ s' = <<>> /\ UNCHANGED from
          \/ /\ e <= Len(source)
             /\ from' = e + 1 /\ s' \in LineFrom(source, e + 1)
             /\ UNCHANGED gate
  /\ UNCHANGED <<source, depth, data>>

(***************************************************************************)
(* code_without_comments_or_strings.                                       *)
(***************************************************************************)
\* What a comment or a string leaves of a character.
Shadow(c) == IF c = Newline THEN Newline ELSE Blank

Emit(t) ==
  /\ gate = "data"
  /\ result' = result \o t
  /\ i' = i + Len(t)
  /\ UNCHANGED <<source, gate, style>>

\* Mutant: comments do not nest.
MutFlatData ==
  /\ ~in_string /\ Starts(source, i, Slash, Dash)
  /\ block_depth' = 1
  /\ Emit(<<Blank, Blank>>) /\ UNCHANGED in_string

OpenBlock ==
  /\ ~in_string /\ Starts(source, i, Slash, Dash)
  /\ block_depth' = block_depth + 1
  /\ Emit(<<Blank, Blank>>) /\ UNCHANGED in_string

CloseBlock ==
  /\ block_depth > 0 /\ Starts(source, i, Dash, Slash)
  /\ block_depth' = block_depth - 1
  /\ Emit(<<Blank, Blank>>) /\ UNCHANGED in_string

InBlock ==
  /\ block_depth > 0 /\ i <= Len(source)
  /\ ~Starts(source, i, Slash, Dash) /\ ~Starts(source, i, Dash, Slash)
  /\ Emit(<<Shadow(source[i])>>) /\ UNCHANGED <<block_depth, in_string>>

\* Mutant: an escape without the test for the end of the file.
MutEscapeAtEnd ==
  /\ in_string /\ i <= Len(source) /\ source[i] = Backslash
  /\ Emit(<<Blank, Blank>>) /\ UNCHANGED <<block_depth, in_string>>

Escape ==
  /\ in_string /\ i < Len(source) /\ source[i] = Backslash
  /\ Emit(<<Blank, Blank>>) /\ UNCHANGED <<block_depth, in_string>>

\* Mutant: the closing quote stays.
MutKeepQuote ==
  /\ in_string /\ i <= Len(source) /\ source[i] = Quote
  /\ in_string' = FALSE
  /\ Emit(<<Quote>>) /\ UNCHANGED block_depth

EndString ==
  /\ in_string /\ i <= Len(source) /\ source[i] = Quote
  /\ in_string' = FALSE
  /\ Emit(<<Blank>>) /\ UNCHANGED block_depth

\* Mutant: a last backslash is left to the escape, which needs one more character.
MutNoLastBackslash ==
  /\ in_string /\ i <= Len(source) /\ source[i] \notin {Quote, Backslash}
  /\ Emit(<<Shadow(source[i])>>) /\ UNCHANGED <<block_depth, in_string>>

InString ==
  /\ in_string /\ i <= Len(source) /\ source[i] # Quote
  /\ ~(source[i] = Backslash /\ i < Len(source))
  /\ Emit(<<Shadow(source[i])>>) /\ UNCHANGED <<block_depth, in_string>>

InCode == block_depth = 0 /\ ~in_string /\ i <= Len(source)

LineComment ==
  /\ InCode /\ Starts(source, i, Dash, Dash)
  /\ \E e \in i + 1..Len(source) + 1 :
       EndsLine(source, i, e) /\ Emit([k \in 1..e - i |-> Blank])
  /\ UNCHANGED <<block_depth, in_string>>

OpenString ==
  /\ InCode /\ source[i] = Quote
  /\ in_string' = TRUE
  /\ Emit(<<Blank>>) /\ UNCHANGED block_depth

Keep ==
  /\ InCode /\ source[i] # Quote
  /\ ~Starts(source, i, Dash, Dash) /\ ~Starts(source, i, Slash, Dash)
  /\ Emit(<<source[i]>>) /\ UNCHANGED <<block_depth, in_string>>

Finish ==
  /\ gate = "data" /\ i > Len(source)
  /\ gate' = "done"
  /\ UNCHANGED <<source, style, data>>

(***************************************************************************)
(* The specification.                                                      *)
(***************************************************************************)
Init ==
  /\ source \in Sources
  /\ gate = "style"
  /\ from = 1 /\ s \in LineFrom(source, 1) /\ col = 1 /\ depth = 0
  /\ buf = <<>> /\ out = <<>>
  /\ i = 1 /\ block_depth = 0 /\ in_string = FALSE /\ result = <<>>

Next ==
  \/ StyleOpen \/ StyleClose \/ StyleKeep \/ StyleNextLine
  \/ OpenBlock \/ CloseBlock \/ InBlock
  \/ Escape \/ EndString \/ InString
  \/ LineComment \/ OpenString \/ Keep \/ Finish

\* Both are loops of a sequential program: as long as one can go on, it does.
Spec == Init /\ [][Next]_vars /\ WF_vars(Next)

(***************************************************************************)
(* Properties.                                                             *)
(***************************************************************************)
\* Positions of the result are positions of the source, since the numerical-data gate
\* reports lines of the one as lines of the other: what is read is kept or blanked, and
\* the only end of line it can lose is one that a backslash escapes.
Aligned ==
  /\ Len(result) = i - 1 /\ Len(result) <= Len(source)
  /\ \A k \in DOMAIN result :
       /\ result[k] \in {source[k], Blank}
       /\ source[k] = Newline =>
            result[k] = Newline \/ (k > 1 /\ source[k - 1] = Backslash)

\* No string and no comment begins in what the numerical-data gate keeps: a second pass
\* would find nothing to take out.
NoProseLeft ==
  \A k \in DOMAIN result :
    /\ result[k] # Quote
    /\ ~Starts(result, k, Dash, Dash) /\ ~Starts(result, k, Slash, Dash)

\* "Replace Lean comments and strings by spaces while preserving newlines". False, and in no
\* run: README, section 4.
NewlinesKept ==
  \A k \in DOMAIN result : source[k] = Newline => result[k] = Newline

\* Both loops end, on a file that breaks off in a comment, a string or an escape too.
Terminates == <>(gate = "done")
=============================================================================
