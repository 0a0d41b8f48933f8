------------------------------ MODULE Grammar ------------------------------
(***************************************************************************)
(* What the lexers should make of a file, read by descent from left to     *)
(* right, without depth or flags: the comments, strings, raw strings and   *)
(* character literals of Lean.  Interpolated strings, names between French *)
(* quotes and the comment that is opened and closed by three characters    *)
(* are left out.                                                           *)
(***************************************************************************)
EXTENDS Lexer

\* Where a comment ends, of which p is the first character that is not read yet.
BlockEnds(t) ==
  LET end[p \in 1..Len(t) + 1] ==
        IF p > Len(t) THEN p
        ELSE IF Starts(t, p, Dash, Slash) THEN p + 2
        ELSE IF Starts(t, p, Slash, Dash) THEN end[end[p + 2]]
        ELSE end[p + 1]
  IN  end

EndOfLine(t, p) == CHOOSE e \in p..Len(t) + 1 : EndsLine(t, p, e)

StringEnd(t, p) ==
  IF \E e \in p + 1..Len(t) : Closes(t, p, e)
  THEN (CHOOSE e \in p + 1..Len(t) : Closes(t, p, e)) + 1
  ELSE Len(t) + 1

\* A raw string, fenced by n hashes, opens at p.
RawOpens(t, p, n) ==
  /\ t[p] = RawMark /\ p + n < Len(t) /\ t[p + n + 1] = Quote
  /\ \A k \in p + 1..p + n : t[k] = Hash

\* A quote and n hashes stand before e: a raw string ends with the first, escaped or not.
Fenced(t, n, e) == t[e - n - 1] = Quote /\ \A k \in e - n..e - 1 : t[k] = Hash

RawEnd(t, p, n) ==
  LET ends == {e \in p + 2 * n + 3..Len(t) + 1 : Fenced(t, n, e)}
  IN  IF ends = {} THEN Len(t) + 1 ELSE CHOOSE e \in ends : \A f \in ends : e <= f

Raw(t, p) == \E n \in 0..Len(t) : RawOpens(t, p, n)

\* The comment or string that begins at p ends before this; p itself, if none does.
SegmentEnd(t, p) ==
  IF Starts(t, p, Dash, Dash) THEN EndOfLine(t, p)
  ELSE IF Starts(t, p, Slash, Dash) THEN BlockEnds(t)[p + 2]
  ELSE IF t[p] = Quote THEN StringEnd(t, p)
  ELSE IF Raw(t, p) THEN RawEnd(t, p, CHOOSE n \in 0..Len(t) : RawOpens(t, p, n))
  ELSE p

\* A character literal holds a quote, escaped or not, which opens no string.
Literal(t, p) ==
  t[p] = Tick /\ (Starts(t, p, Tick, Quote) \/ Starts(t, p + 1, Backslash, Quote))

\* Where the next comment, string, literal or character of code begins.
NextCut(t, p) ==
  IF Literal(t, p) THEN p + (IF t[p + 1] = Quote THEN 2 ELSE 3)
  ELSE IF SegmentEnd(t, p) = p THEN p + 1
  ELSE SegmentEnd(t, p)

\* The places from p on where one of these begins.
Cuts(t) ==
  LET cuts[p \in 1..Len(t) + 1] ==
        IF p > Len(t) THEN {} ELSE {p} \cup cuts[NextCut(t, p)]
  IN  cuts

Prose(t) == UNION {p..SegmentEnd(t, p) - 1 : p \in Cuts(t)[1]}

\* No literal holds a quote, and no string is raw: the two things the lexers do not know.
Ordinary(t) == \A p \in Cuts(t)[1] : ~Literal(t, p) /\ ~Raw(t, p)

\* Besides, every string closes on its own line, and no comment in a block quotes anything.
Tame(t) ==
  Ordinary(t) /\ \A p \in Cuts(t)[1] :
    LET e == SegmentEnd(t, p)
    IN  /\ t[p] = Quote => Closes(t, p, e - 1) /\ \A k \in p..e - 1 : t[k] # Newline
        /\ Starts(t, p, Slash, Dash) => \A k \in p..e - 1 : t[k] # Quote

\* Comments and strings are taken out, and nothing else is.
Erased ==
  /\ Len(result) = Len(source)
  /\ \A k \in 1..Len(source) :
       IF k \in Prose(source) THEN result[k] \in {Blank, Newline} ELSE result[k] = source[k]

\* Of a file without raw strings and without quotes in character literals, the
\* numerical-data gate takes out what the grammar says is comment or string, and nothing
\* else (ends of lines are the subject of Aligned).
ErasesByGrammar == gate = "done" /\ Ordinary(source) => Erased

\* "Replace Lean comments and strings by spaces", of any file.  False, and in no run: README,
\* section 4.
ErasesAlways == gate = "done" => Erased

\* The sequences of ss, one after the other.
Flat(ss) ==
  LET f[n \in 0..Len(ss)] == IF n = 0 THEN <<>> ELSE f[n - 1] \o ss[n]
  IN  f[Len(ss)]

\* What a gate can find a word in.
Words(t) == Flat([k \in 1..Len(t) |-> IF t[k] \in {Blank, Quote} THEN <<>> ELSE <<t[k]>>])

Joined(lines) == Flat([n \in 1..Len(lines) |-> IF n = 1 THEN lines[n] ELSE <<Newline>> \o lines[n]])

\* The two gates judge the same words, line by line, of such a file whose strings close on
\* their lines and whose block comments quote nothing: where one gate sees code, so does
\* the other, however deep the comments nest and wherever they break off.
GatesAgree == gate = "done" /\ Tame(source) => Words(Joined(out)) = Words(result)
=============================================================================
