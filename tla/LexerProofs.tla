---------------------------- MODULE LexerProofs ----------------------------
(***************************************************************************)
(* Proofs about Lexer for every file.                                      *)
(*                                                                         *)
(* Every property of the result is one of a single character and its place *)
(* in the source (Good): a step adds characters behind the result, and     *)
(* each is good where it lands.  NoProseLeft is about neighbours, but a    *)
(* character that is kept says what its neighbour in the source is not.    *)
(*                                                                         *)
(* That the result is the one of the grammar needs to know where in the    *)
(* grammar the lexer is (Place): a depth of d is d unfinished calls of the *)
(* descent, of which each ends where the one inside it returns (Nest).     *)
(* BlockEnds and BareCuts are recursive functions, so that they satisfy their  *)
(* own equations is shown first, by induction from the end of the file.    *)
(*                                                                         *)
(* That both gates judge the same words needs to know as much of the style *)
(* gate (AtStyle), which sees a line of which the strings are blanked, and *)
(* of a tame file only: there a match on the line is a string of the file, *)
(* so that the lines the gate has written hold the words of the code it    *)
(* has read (Following).                                                   *)
(***************************************************************************)
EXTENDS Grammar, SequenceTheorems, WellFoundedInduction, TLAPS

\* c may stand at k of the result.
Good(k, c) ==
  /\ c \in {source[k], Blank}
  /\ source[k] = Newline => c = Newline \/ (k > 1 /\ source[k - 1] = Backslash)
  /\ c \notin {Blank, Newline} =>
       /\ source[k] # Quote
       /\ ~Starts(source, k, Dash, Dash) /\ ~Starts(source, k, Slash, Dash)

AllGood == Len(result) = i - 1 /\ \A k \in DOMAIN result : Good(k, result[k])

IInv == TypeOK /\ AllGood

\* A stripped line is a line.
LEMMA StripType ==
  ASSUME NEW l \in Seq(Char)
  PROVE  strip_string_literals(l) \in Seq(Char)
<1>1. \A k \in 1..Len(l) : (IF Inside(l, k) THEN Blank ELSE l[k]) \in Char
  BY DEF Char
<1>2. strip_string_literals(l) \in [1..Len(l) -> Char]
  BY <1>1 DEF strip_string_literals
<1> QED
  BY <1>2

\* So is the line that begins at p.
LEMMA LineType ==
  ASSUME NEW t \in Seq(Char), NEW p \in 1..Len(t) + 1, NEW l \in LineFrom(t, p)
  PROVE  l \in Seq(Char)
<1>1. PICK e \in p..Len(t) + 1 : l = strip_string_literals(SubSeq(t, p, e - 1))
  BY DEF LineFrom
<1>2. SubSeq(t, p, e - 1) \in Seq(Char)
  BY SubSeqProperties
<1> QED
  BY <1>1, <1>2, StripType

\* What the numerical-data gate emits is of type and in place.
LEMMA EmitGood ==
  ASSUME IInv, NEW t \in Seq(Char), Emit(t), i + Len(t) <= Len(source) + 1,
         block_depth' \in Nat, in_string' \in BOOLEAN,
         \A k \in 1..Len(t) : Good(i + k - 1, t[k])
  PROVE  IInv'
<1>1. source \in Seq(Char) /\ i \in 1..Len(source) + 1 /\ result \in Seq(Char)
      /\ Len(result) = i - 1
  BY DEF IInv, TypeOK, AllGood
<1>2. /\ result' = result \o t /\ i' = i + Len(t)
      /\ UNCHANGED <<source, gate, from, s, col, depth, buf, out>>
  BY DEF Emit, style
<1>3. Len(t) \in Nat /\ Len(source) \in Nat /\ Len(result) \in Nat
  BY <1>1
<1>4. i' \in 1..Len(source) + 1
  BY <1>1, <1>2, <1>3
<1>5. result' \in Seq(Char) /\ Len(result') = Len(result) + Len(t)
  BY <1>1, <1>2, ConcatProperties
<1>6. TypeOK'
  BY <1>2, <1>4, <1>5 DEF IInv, TypeOK
<1>7. ASSUME NEW k \in DOMAIN result' PROVE Good(k, result[k])'
  <2>0. k \in 1..Len(result) + Len(t) /\ k \in Int
    BY <1>3, <1>5, LenProperties
  <2>1. CASE k <= Len(result)
    <3>1. result'[k] = result[k] /\ k \in DOMAIN result
      BY <1>1, <1>2, <1>3, <2>0, <2>1, ConcatProperties, LenProperties
    <3> QED
      BY <1>2, <3>1 DEF IInv, AllGood, Good, Starts
  <2>2. CASE k > Len(result)
    <3>1. /\ k - Len(result) \in 1..Len(t) /\ result'[k] = t[k - Len(result)]
          /\ i + (k - Len(result)) - 1 = k
      <4>1. k - Len(result) \in 1..Len(t) /\ i + (k - Len(result)) - 1 = k
        BY <1>1, <1>3, <2>0, <2>2
      <4>2. (result \o t)[k] = t[k - Len(result)]
        BY <1>1, <1>3, <2>0, <2>2, ConcatProperties
      <4> QED
        BY <1>2, <4>1, <4>2
    <3>2. Good(k, t[k - Len(result)])
      BY <3>1
    <3> QED
      BY <1>2, <3>1, <3>2 DEF Good, Starts
  <2> QED
    BY <2>0, <2>1, <2>2, <1>3
<1>8. Len(result') = i' - 1
  BY <1>1, <1>2, <1>3, <1>5
<1> QED
  BY <1>6, <1>7, <1>8 DEF IInv, AllGood

\* A step of the style gate keeps the types.
LEMMA StyleTypes ==
  ASSUME TypeOK, StyleOpen \/ StyleClose \/ StyleKeep \/ StyleNextLine
  PROVE  TypeOK'
<1> USE DEF TypeOK, data
<1>1. CASE StyleOpen
  BY <1>1 DEF StyleOpen, Starts
<1>2. CASE StyleClose
  BY <1>2 DEF StyleClose, Starts
<1>3. CASE StyleKeep
  <2>1. (IF depth > 0 THEN Blank ELSE s[col]) \in Char
    BY <1>3 DEF StyleKeep, Char
  <2>2. buf' \in Seq(Char)
    BY <1>3, <2>1, AppendProperties DEF StyleKeep
  <2> QED
    BY <1>3, <2>2 DEF StyleKeep
<1>4. CASE StyleNextLine
  <2>1. out' \in Seq(Seq(Char)) /\ buf' \in Seq(Char) /\ col' = 1
    BY <1>4, AppendProperties DEF StyleNextLine
  <2>2. gate' \in {"style", "data"} /\ from' \in 1..Len(source) + 1 /\ s' \in Seq(Char)
    <3>1. PICK e \in from..Len(source) + 1 :
            \/ e > Len(source) /\ gate' = "data" /\ s' = <<>> /\ from' = from
            \/ /\ e <= Len(source) /\ from' = e + 1
               /\ s' \in LineFrom(source, e + 1) /\ gate' = gate
      BY <1>4 DEF StyleNextLine
    <3>2. CASE e > Len(source) /\ gate' = "data" /\ s' = <<>> /\ from' = from
      BY <3>2
    <3>3. CASE /\ e <= Len(source) /\ from' = e + 1
               /\ s' \in LineFrom(source, e + 1) /\ gate' = gate
      <4>1. e + 1 \in 1..Len(source) + 1
        BY <3>3
      <4>2. s' \in Seq(Char)
        BY <3>3, <4>1, LineType
      <4> QED
        BY <1>4, <3>3, <4>1, <4>2 DEF StyleNextLine
    <3> QED
      BY <3>1, <3>2, <3>3
  <2> QED
    BY <1>4, <2>1, <2>2 DEF StyleNextLine
<1> QED
  BY <1>1, <1>2, <1>3, <1>4

\* At the beginning every character of the result, of which there is none, is good.
LEMMA InitHolds ==
  ASSUME Init
  PROVE  IInv
<1>1. source \in Seq(Char) /\ 1 \in 1..Len(source) + 1
  BY SourcesAssumption DEF Init
<1>2. s \in Seq(Char)
  BY <1>1, LineType DEF Init
<1>3. TypeOK
  <2>1. <<>> \in Seq(Char) /\ <<>> \in Seq(Seq(Char)) /\ Len(s) \in Nat
    BY <1>2
  <2>2. gate = "style" /\ from = 1 /\ col = 1 /\ depth = 0 /\ buf = <<>> /\ out = <<>>
        /\ i = 1 /\ block_depth = 0 /\ in_string = FALSE /\ result = <<>>
    BY DEF Init
  <2>3. gate \in {"style", "data", "done"} /\ in_string \in BOOLEAN
    BY <2>2
  <2>4. /\ from \in 1..Len(source) + 1 /\ i \in 1..Len(source) + 1
        /\ col \in 1..Len(s) + 1 /\ depth \in Nat /\ block_depth \in Nat
    BY <1>1, <2>1, <2>2
  <2>5. buf \in Seq(Char) /\ out \in Seq(Seq(Char)) /\ result \in Seq(Char)
    BY <2>1, <2>2
  <2> QED
    BY <1>1, <1>2, <2>3, <2>4, <2>5 DEF TypeOK
<1> QED
  BY <1>3 DEF Init, IInv, AllGood

\* Every step keeps the types, and what it emits is good.
LEMMA StepHolds ==
  ASSUME IInv, [Next]_vars
  PROVE  IInv'
<1>0. TypeOK /\ AllGood
  BY DEF IInv
<1>i. i \in 1..Len(source) + 1 /\ source \in Seq(Char) /\ Len(source) \in Nat
      /\ block_depth \in Nat /\ in_string \in BOOLEAN
  BY <1>0 DEF TypeOK
<1>a. \A k : Good(k, Blank) <=>
             (source[k] = Newline => k > 1 /\ source[k - 1] = Backslash)
  BY DEF Good, Blank, Newline
<1>b. <<Blank, Blank>> \in Seq(Char) /\ <<Blank>> \in Seq(Char)
  BY DEF Char
<1>c. ASSUME i < Len(source), source[i] # Newline, Emit(<<Blank, Blank>>),
             source[i + 1] # Newline \/ source[i] = Backslash,
             block_depth' \in Nat, in_string' \in BOOLEAN
      PROVE  IInv'
  <2>1. Good(i, Blank) /\ Good(i + 1, Blank)
    BY <1>a, <1>c, <1>i
  <2>2. \A k \in 1..2 : Good(i + k - 1, <<Blank, Blank>>[k])
    BY <2>1, <1>i
  <2>3. Len(<<Blank, Blank>>) = 2 /\ i + 2 <= Len(source) + 1
    BY <1>c, <1>i
  <2> QED
    BY <1>b, <1>c, <2>2, <2>3, EmitGood
<1>d. ASSUME NEW c \in Char, i <= Len(source), Good(i, c), Emit(<<c>>),
             block_depth' \in Nat, in_string' \in BOOLEAN
      PROVE  IInv'
  <2>1. <<c>> \in Seq(Char) /\ \A k \in 1..1 : Good(i + k - 1, <<c>>[k])
    BY <1>d, <1>i
  <2>2. Len(<<c>>) = 1 /\ i + 1 <= Len(source) + 1
    BY <1>d, <1>i
  <2> QED
    BY <1>d, <2>1, <2>2, EmitGood
<1>e. ASSUME i <= Len(source) PROVE Shadow(source[i]) \in Char /\ Good(i, Shadow(source[i]))
  BY <1>e, <1>i DEF Shadow, Good, Char, Blank, Newline
<1>1. CASE StyleOpen \/ StyleClose \/ StyleKeep \/ StyleNextLine
  <2>1. TypeOK'
    BY <1>0, <1>1, StyleTypes
  <2>2. UNCHANGED <<source, i, result>>
    BY <1>1 DEF StyleOpen, StyleClose, StyleKeep, StyleNextLine, data
  <2> QED
    BY <1>0, <2>1, <2>2 DEF IInv, AllGood, Good, Starts
<1>2. CASE OpenBlock
  BY <1>2, <1>c, <1>i DEF OpenBlock, Starts, Slash, Dash, Newline
<1>3. CASE CloseBlock
  BY <1>3, <1>c, <1>i DEF CloseBlock, Starts, Slash, Dash, Newline
<1>4. CASE InBlock
  BY <1>4, <1>d, <1>e, <1>i DEF InBlock
<1>5. CASE Escape
  BY <1>5, <1>c, <1>i DEF Escape, Backslash, Newline
<1>6. CASE EndString
  <2>1. Good(i, Blank) /\ Blank \in Char
    BY <1>6, <1>a DEF EndString, Quote, Newline, Char
  <2> QED
    BY <1>6, <1>d, <1>i, <2>1 DEF EndString
<1>7. CASE InString
  BY <1>7, <1>d, <1>e, <1>i DEF InString
<1>8. CASE LineComment
  <2>1. PICK e \in i + 1..Len(source) + 1 :
          EndsLine(source, i, e) /\ Emit([k \in 1..e - i |-> Blank])
    BY <1>8 DEF LineComment
  <2> DEFINE t == [k \in 1..e - i |-> Blank]
  <2>2. t \in Seq(Char) /\ Len(t) = e - i
    BY <1>i DEF Char
  <2>3. \A k \in 1..Len(t) : Good(i + k - 1, t[k])
    <3>1. SUFFICES ASSUME NEW k \in 1..e - i PROVE Good(i + k - 1, Blank)
      BY <2>2
    <3>2. i + k - 1 \in i..e - 1
      BY <1>i
    <3> QED
      BY <2>1, <3>2, <1>a DEF EndsLine
  <2>4. UNCHANGED <<block_depth, in_string>>
    BY <1>8 DEF LineComment
  <2>5. i + Len(t) <= Len(source) + 1 /\ Emit(t)
    BY <2>1, <2>2, <1>i
  <2> HIDE DEF t
  <2> QED
    BY <1>i, <2>2, <2>3, <2>4, <2>5, EmitGood
<1>9. CASE OpenString
  <2>1. Good(i, Blank) /\ Blank \in Char
    BY <1>9, <1>a DEF OpenString, Quote, Newline, Char
  <2> QED
    BY <1>9, <1>d, <1>i, <2>1 DEF OpenString, InCode
<1>10. CASE Keep
  <2>1. i <= Len(source) /\ source[i] \in Char
    BY <1>10, <1>i DEF Keep, InCode
  <2>2. Good(i, source[i])
    BY <1>10 DEF Keep, Good
  <2> QED
    BY <1>10, <1>d, <1>i, <2>1, <2>2 DEF Keep
<1>11. CASE Finish
  BY <1>0, <1>11 DEF Finish, style, data, IInv, TypeOK, AllGood, Good, Starts
<1>12. CASE UNCHANGED vars
  BY <1>0, <1>12 DEF vars, style, data, IInv, TypeOK, AllGood, Good, Starts
<1> QED
  BY <1>1, <1>2, <1>3, <1>4, <1>5, <1>6, <1>7, <1>8, <1>9, <1>10, <1>11, <1>12 DEF Next

\* The invariant holds of every file.
THEOREM Invariance == Spec => []IInv
BY InitHolds, StepHolds, PTL DEF Spec

\* Every variable of the two lexers keeps its type: neither depth goes below zero, and
\* no index runs off the file.
THEOREM TypeCorrect == Spec => []TypeOK
<1>1. IInv => TypeOK
  BY DEF IInv
<1> QED
  BY <1>1, Invariance, PTL

\* Of any file, every character is kept or blanked in its place, and the only end of
\* line that is lost is an escaped one.
THEOREM PlacesAgree == Spec => []Aligned
<1>1. IInv => Aligned
  BY DEF IInv, TypeOK, AllGood, Good, Aligned
<1> QED
  BY <1>1, Invariance, PTL

\* Of any file, what the numerical-data gate keeps opens no comment and no string.
THEOREM NoProse == Spec => []NoProseLeft
<1>1. ASSUME IInv PROVE NoProseLeft
  <2>1. result \in Seq(Char) /\ \A k \in DOMAIN result : Good(k, result[k])
        /\ source \in Seq(Char) /\ Len(result) <= Len(source)
    BY <1>1 DEF IInv, TypeOK, AllGood
  <2>2. ASSUME NEW k \in DOMAIN result
        PROVE  result[k] # Quote /\ ~Starts(result, k, Dash, Dash)
               /\ ~Starts(result, k, Slash, Dash)
    <3>1. result[k] # Quote
      BY <2>1, <2>2 DEF Good, Quote, Blank, Newline
    <3>2. ASSUME k < Len(result), result[k] \in {Dash, Slash}, result[k + 1] = Dash
          PROVE  FALSE
      <4>1. k + 1 \in DOMAIN result
        BY <2>1, <3>2, LenProperties
      <4>2. source[k] = result[k] /\ source[k + 1] = Dash
        BY <2>1, <2>2, <3>2, <4>1 DEF Good, Dash, Slash, Blank
      <4>3. ~Starts(source, k, Dash, Dash) /\ ~Starts(source, k, Slash, Dash)
        BY <2>1, <2>2, <3>2 DEF Good, Dash, Slash, Blank, Newline
      <4>4. k \in Int /\ k < Len(source)
        BY <2>1, <3>2, LenProperties
      <4> QED
        BY <3>2, <4>2, <4>3, <4>4 DEF Starts
    <3> QED
      BY <3>1, <3>2 DEF Starts
  <2> QED
    BY <2>2 DEF NoProseLeft
<1> QED
  BY <1>1, Invariance, PTL

(***************************************************************************)
(* Recursive functions over a file, by induction.                          *)
(***************************************************************************)
\* A set of numbers has a least one.
LEMMA Least ==
  ASSUME NEW T, T \subseteq Nat, T # {}
  PROVE  \E x \in T : \A y \in T : x <= y
<1>1. IsWellFoundedOn(OpToRel(<, Nat), Nat)
  BY NatLessThanWellFounded
<1>2. PICK x \in T : \A y \in T : ~(<<y, x>> \in OpToRel(<, Nat))
  BY <1>1, WFMin
<1>3. \A y \in T : ~(y < x)
  BY <1>2 DEF OpToRel
<1> QED BY <1>3

\* A set that holds 0 and with a number the next one holds them all.
LEMMA Induct ==
  ASSUME NEW T, 0 \in T, \A n \in Nat : n \in T => n + 1 \in T
  PROVE  Nat \subseteq T
<1>1. SUFFICES ASSUME Nat \ T # {} PROVE FALSE
  OBVIOUS
<1>2. PICK x \in Nat \ T : \A y \in Nat \ T : x <= y
  BY <1>1, Least
<1>3. x # 0 /\ x - 1 \in Nat /\ x - 1 \in T
  BY <1>2
<1> QED BY <1>2, <1>3

\* What holds of 0 and goes from each number up to N to the next one holds up to N.
LEMMA Climb ==
  ASSUME NEW N \in Nat, NEW T, 0 \in T, \A n \in 1..N : n - 1 \in T => n \in T
  PROVE  0..N \subseteq T
<1> DEFINE U == {n \in Nat : n <= N => n \in T}
<1>1. 0 \in U
  OBVIOUS
<1>2. ASSUME NEW n \in Nat, n \in U PROVE n + 1 \in U
  <2> SUFFICES ASSUME n + 1 <= N PROVE n + 1 \in T
    OBVIOUS
  <2>1. n + 1 \in 1..N /\ (n + 1) - 1 = n /\ n \in T
    BY <1>2
  <2> QED BY <2>1
<1> HIDE DEF U
<1>3. Nat \subseteq U
  BY <1>1, <1>2, Induct
<1> QED BY <1>3 DEF U

\* A function may be defined from each place to the next one: g says how.
Scans(f, N, S, b, g) ==
  f \in [0..N -> S] /\ f[0] = b /\ \A n \in 1..N : f[n] = g[n][f[n - 1]]

\* There is such a function: one more place at a time.
LEMMA Scan ==
  ASSUME NEW N \in Nat, NEW S, NEW b \in S, NEW g \in [1..N -> [S -> S]]
  PROVE  \E f : Scans(f, N, S, b, g)
<1> DEFINE Fine(f, m) == f[0] = b /\ \A n \in 1..N : n <= m => f[n] = g[n][f[n - 1]]
           T == {m \in 0..N : \E f \in [0..N -> S] : Fine(f, m)}
<1>1. 0 \in T
  <2> DEFINE f == [n \in 0..N |-> b]
  <2>1. f \in [0..N -> S] /\ f[0] = b
    OBVIOUS
  <2> HIDE DEF f
  <2> QED BY <2>1
<1>2. ASSUME NEW m \in 1..N, m - 1 \in T PROVE m \in T
  <2>1. PICK f \in [0..N -> S] : Fine(f, m - 1)
    BY <1>2
  <2> DEFINE h == [f EXCEPT ![m] = g[m][f[m - 1]]]
  <2>2. m - 1 \in 0..N /\ m \in 0..N
    OBVIOUS
  <2>3. g[m][f[m - 1]] \in S
    BY <2>2
  <2>4. h \in [0..N -> S] /\ h[m] = g[m][f[m - 1]] /\ \A n \in 0..N : n # m => h[n] = f[n]
    BY <2>2, <2>3
  <2> HIDE DEF h
  <2>5. h[0] = b
    BY <2>1, <2>4
  <2>6. ASSUME NEW n \in 1..N, n <= m PROVE h[n] = g[n][h[n - 1]]
    <3>1. n - 1 \in 0..N /\ n - 1 # m /\ n \in 0..N /\ h[n - 1] = f[n - 1]
      BY <2>4, <2>6
    <3>2. CASE n = m
      BY <2>4, <3>1, <3>2
    <3>3. CASE n # m
      <4>1. n <= m - 1
        BY <2>6, <3>3
      <4> QED BY <2>1, <2>4, <3>1, <3>3, <4>1
    <3> QED BY <3>2, <3>3
  <2> QED BY <2>2, <2>4, <2>5, <2>6
<1> HIDE DEF T
<1>3. 0..N \subseteq T
  BY <1>1, <1>2, Climb
<1>4. PICK f \in [0..N -> S] : Fine(f, N)
  <2>1. N \in 0..N
    OBVIOUS
  <2> QED BY <1>3, <2>1 DEF T
<1> QED BY <1>4 DEF Scans

\* The equation of BlockEnds.
EndStep(t, f, p) ==
  IF p > Len(t) THEN p
  ELSE IF Starts(t, p, Dash, Slash) THEN p + 2
  ELSE IF Starts(t, p, Slash, Dash) THEN f[f[p + 2]]
  ELSE f[p + 1]
AreEnds(t, f) == f = [p \in 1..Len(t) + 1 |-> EndStep(t, f, p)]

\* A function that satisfies the equation of BlockEnds ends every comment behind its
\* beginning and inside the file.
LEMMA EndsRange ==
  ASSUME NEW t \in Seq(Char), NEW f, AreEnds(t, f)
  PROVE  \A p \in 1..Len(t) + 1 : f[p] \in p..Len(t) + 1 /\ (p <= Len(t) => f[p] > p)
<1> DEFINE L == Len(t)
           T == {n \in Nat : \A p \in 1..L + 1 : p >= L + 1 - n =>
                               f[p] \in p..L + 1 /\ (p <= L => f[p] > p)}
<1>1. L \in Nat
  OBVIOUS
<1>2. \A p \in 1..L + 1 : f[p] = EndStep(t, f, p)
  BY DEF AreEnds
<1> HIDE DEF L
<1>3. 0 \in T
  BY <1>1, <1>2 DEF EndStep, L
<1>4. ASSUME NEW n \in Nat, n \in T PROVE n + 1 \in T
  <2> SUFFICES ASSUME NEW p \in 1..L + 1, p >= L + 1 - (n + 1)
               PROVE  f[p] \in p..L + 1 /\ (p <= L => f[p] > p)
    OBVIOUS
  <2>1. \A q \in 1..L + 1 : q >= L + 1 - n => f[q] \in q..L + 1
    BY <1>4
  <2>2. CASE p >= L + 1 - n
    BY <1>4, <2>2
  <2>3. CASE ~(p >= L + 1 - n)
    <3>1. p = L - n /\ p <= L /\ p \in 1..L
      BY <1>1, <2>3
    <3>2. f[p] = EndStep(t, f, p)
      BY <1>2
    <3>3. CASE Starts(t, p, Dash, Slash)
      <4>1. f[p] = p + 2 /\ p < L
        BY <3>1, <3>2, <3>3 DEF EndStep, Starts, L
      <4> QED BY <1>1, <3>1, <4>1
    <3>4. CASE ~Starts(t, p, Dash, Slash) /\ Starts(t, p, Slash, Dash)
      <4>1. f[p] = f[f[p + 2]] /\ p < L
        BY <3>1, <3>2, <3>4 DEF EndStep, Starts, L
      <4>2. p + 2 \in 1..L + 1 /\ p + 2 >= L + 1 - n
        BY <1>1, <3>1, <4>1
      <4>3. f[p + 2] \in p + 2..L + 1
        BY <2>1, <4>2
      <4>4. f[p + 2] \in 1..L + 1 /\ f[p + 2] >= L + 1 - n
        BY <1>1, <3>1, <4>2, <4>3
      <4>5. f[f[p + 2]] \in f[p + 2]..L + 1
        BY <2>1, <4>4
      <4> QED BY <1>1, <3>1, <4>1, <4>3, <4>5
    <3>5. CASE ~Starts(t, p, Dash, Slash) /\ ~Starts(t, p, Slash, Dash)
      <4>1. f[p] = f[p + 1]
        BY <3>1, <3>2, <3>5, <1>1 DEF EndStep, L
      <4>2. p + 1 \in 1..L + 1 /\ p + 1 >= L + 1 - n
        BY <1>1, <3>1
      <4>3. f[p + 1] \in p + 1..L + 1
        BY <2>1, <4>2
      <4> QED BY <1>1, <3>1, <4>1, <4>3
    <3> QED BY <3>3, <3>4, <3>5
  <2> QED BY <2>2, <2>3
<1> HIDE DEF T
<1>5. L \in T
  BY <1>1, <1>3, <1>4, Induct
<1> QED BY <1>1, <1>5 DEF T, L

\* There is such a function: one is built from the end of the file backwards.
LEMMA EndsThere ==
  ASSUME NEW t \in Seq(Char)
  PROVE  \E f : AreEnds(t, f)
<1> DEFINE L == Len(t)
           Fine(f, n) == \A p \in 1..L + 1 : p >= L + 1 - n => f[p] = EndStep(t, f, p) /\ f[p] >= p
           T == {n \in Nat : n <= L => \E f \in [1..L + 1 -> 1..L + 1] : Fine(f, n)}
<1>1. L \in Nat
  OBVIOUS
<1>2. 0 \in T
  <2> DEFINE f == [p \in 1..L + 1 |-> L + 1]
  <2>1. f \in [1..L + 1 -> 1..L + 1] /\ Fine(f, 0)
    BY <1>1 DEF EndStep
  <2> QED BY <2>1
<1>3. ASSUME NEW n \in Nat, n \in T PROVE n + 1 \in T
  <2> SUFFICES ASSUME n + 1 <= L PROVE \E f \in [1..L + 1 -> 1..L + 1] : Fine(f, n + 1)
    OBVIOUS
  <2>1. PICK g \in [1..L + 1 -> 1..L + 1] : Fine(g, n)
    BY <1>1, <1>3
  <2> DEFINE m == L - n
             f == [g EXCEPT ![m] = EndStep(t, g, m)]
  <2>2. m \in 1..L
    BY <1>1
  <2>3. EndStep(t, g, m) \in 1..L + 1 /\ EndStep(t, g, m) >= m
    <3>1. CASE Starts(t, m, Dash, Slash)
      BY <1>1, <2>2, <3>1 DEF EndStep, Starts
    <3>2. CASE ~Starts(t, m, Dash, Slash) /\ Starts(t, m, Slash, Dash)
      <4>1. EndStep(t, g, m) = g[g[m + 2]] /\ m < L
        BY <1>1, <2>2, <3>2 DEF EndStep, Starts
      <4> HIDE DEF m
      <4>2. m + 2 \in 1..L + 1 /\ m + 2 >= L + 1 - n
        BY <1>1, <2>2, <4>1 DEF m
      <4>3. g[m + 2] \in 1..L + 1 /\ g[m + 2] >= m + 2
        BY <2>1, <4>2
      <4>4. g[m + 2] >= L + 1 - n
        BY <1>1, <2>2, <4>3 DEF m
      <4>5. g[g[m + 2]] \in 1..L + 1 /\ g[g[m + 2]] >= g[m + 2]
        BY <2>1, <4>3, <4>4
      <4> QED BY <1>1, <2>2, <4>1, <4>3, <4>5
    <3>3. CASE ~Starts(t, m, Dash, Slash) /\ ~Starts(t, m, Slash, Dash)
      <4>1. EndStep(t, g, m) = g[m + 1]
        BY <1>1, <2>2, <3>3 DEF EndStep
      <4> HIDE DEF m
      <4>2. m + 1 \in 1..L + 1 /\ m + 1 >= L + 1 - n
        BY <1>1, <2>2 DEF m
      <4>3. g[m + 1] \in 1..L + 1 /\ g[m + 1] >= m + 1
        BY <2>1, <4>2
      <4> QED BY <1>1, <2>2, <4>1, <4>3
    <3> QED BY <3>1, <3>2, <3>3
  <2>4. f \in [1..L + 1 -> 1..L + 1] /\ f[m] = EndStep(t, g, m)
        /\ \A q \in 1..L + 1 : q # m => f[q] = g[q]
    BY <1>1, <2>2, <2>3
  <2> HIDE DEF f
  <2>5. ASSUME NEW p \in 1..L + 1, p >= m PROVE EndStep(t, f, p) = EndStep(t, g, p)
    <3>1. CASE p > L \/ Starts(t, p, Dash, Slash)
      BY <3>1 DEF EndStep
    <3>2. CASE p <= L /\ ~Starts(t, p, Dash, Slash) /\ Starts(t, p, Slash, Dash)
      <4>1. EndStep(t, f, p) = f[f[p + 2]] /\ EndStep(t, g, p) = g[g[p + 2]] /\ p < L
        BY <1>1, <3>2 DEF EndStep, Starts
      <4>2. p + 2 \in 1..L + 1 /\ p + 2 # m /\ p + 2 >= L + 1 - n
        BY <1>1, <2>2, <2>5, <4>1
      <4>3. f[p + 2] = g[p + 2] /\ g[p + 2] \in 1..L + 1 /\ g[p + 2] >= p + 2
        BY <2>1, <2>4, <4>2
      <4>4. g[p + 2] # m
        BY <1>1, <2>2, <2>5, <4>3
      <4> QED BY <2>4, <4>1, <4>3, <4>4
    <3>3. CASE p <= L /\ ~Starts(t, p, Dash, Slash) /\ ~Starts(t, p, Slash, Dash)
      <4>1. EndStep(t, f, p) = f[p + 1] /\ EndStep(t, g, p) = g[p + 1]
        BY <1>1, <3>3 DEF EndStep
      <4>2. p + 1 \in 1..L + 1 /\ p + 1 # m
        BY <1>1, <2>2, <2>5, <3>3
      <4> QED BY <2>4, <4>1, <4>2
    <3> QED BY <1>1, <3>1, <3>2, <3>3
  <2>6. Fine(f, n + 1)
    <3> SUFFICES ASSUME NEW p \in 1..L + 1, p >= L + 1 - (n + 1)
                 PROVE  f[p] = EndStep(t, f, p) /\ f[p] >= p
      OBVIOUS
    <3>1. p >= m
      BY <1>1
    <3>2. EndStep(t, f, p) = EndStep(t, g, p)
      BY <2>5, <3>1
    <3>3. CASE p = m
      BY <2>3, <2>4, <3>2, <3>3
    <3>4. CASE p # m
      <4>1. p >= L + 1 - n
        BY <1>1, <3>1, <3>4
      <4> QED BY <2>1, <2>4, <3>2, <3>4, <4>1
    <3> QED BY <3>3, <3>4
  <2> QED BY <2>4, <2>6
<1> HIDE DEF T
<1>4. L \in T
  BY <1>1, <1>2, <1>3, Induct
<1>5. PICK f \in [1..L + 1 -> 1..L + 1] : Fine(f, L)
  BY <1>1, <1>4 DEF T
<1>6. \A p \in 1..L + 1 : f[p] = EndStep(t, f, p)
  BY <1>1, <1>5
<1> QED BY <1>6 DEF AreEnds

\* BlockEnds therefore satisfies its equation.
LEMMA EndsAre ==
  ASSUME NEW t \in Seq(Char)
  PROVE  /\ \A p \in 1..Len(t) + 1 : BlockEnds(t)[p] = EndStep(t, BlockEnds(t), p)
         /\ \A p \in 1..Len(t) + 1 : /\ BlockEnds(t)[p] \in p..Len(t) + 1
                                     /\ p <= Len(t) => BlockEnds(t)[p] > p
<1>1. BlockEnds(t) = CHOOSE f : AreEnds(t, f)
  BY DEF BlockEnds, AreEnds, EndStep
<1>2. AreEnds(t, BlockEnds(t))
  BY <1>1, EndsThere
<1>3. \A p \in 1..Len(t) + 1 : BlockEnds(t)[p] = EndStep(t, BlockEnds(t), p)
  BY <1>2 DEF AreEnds
<1> QED BY <1>2, <1>3, EndsRange

(***************************************************************************)
(* Where segments end.                                                     *)
(***************************************************************************)
\* Every line ends, at one place.
LEMMA LineEnds ==
  ASSUME NEW t \in Seq(Char), NEW p \in 1..Len(t) + 1
  PROVE  /\ EndsLine(t, p, EndOfLine(t, p)) /\ EndOfLine(t, p) \in p..Len(t) + 1
         /\ \A e : EndsLine(t, p, e) => EndOfLine(t, p) = e
<1> DEFINE L == Len(t)
           T == {e \in Nat : e >= p /\ (e > L \/ t[e] = Newline)}
<1>1. L \in Nat /\ T \subseteq Nat /\ L + 1 \in T
  OBVIOUS
<1>2. PICK e \in T : \A f \in T : e <= f
  <2> HIDE DEF T
  <2> QED BY <1>1, Least
<1>3. e \in p..L + 1 /\ EndsLine(t, p, e)
  BY <1>1, <1>2 DEF EndsLine
<1>4. EndsLine(t, p, EndOfLine(t, p)) /\ EndOfLine(t, p) \in p..Len(t) + 1
  BY <1>3 DEF EndOfLine
<1>5. ASSUME NEW f, EndsLine(t, p, f), NEW h, EndsLine(t, p, h) PROVE f = h
  BY <1>1, <1>5 DEF EndsLine
<1> QED BY <1>4, <1>5

\* A string ends behind its first closing quote, or with the file.
LEMMA StringEnds ==
  ASSUME NEW t \in Seq(Char), NEW a \in 1..Len(t)
  PROVE  /\ StringEnd(t, a) \in a + 1..Len(t) + 1
         /\ \A e \in a + 1..Len(t) : Closes(t, a, e) => StringEnd(t, a) = e + 1
         /\ (\A e \in a + 1..Len(t) : ~Closes(t, a, e)) => StringEnd(t, a) = Len(t) + 1
<1>0. Len(t) \in Nat
  OBVIOUS
<1>1. ASSUME NEW e \in a + 1..Len(t), Closes(t, a, e), NEW f \in a + 1..Len(t), Closes(t, a, f)
      PROVE  e = f
  <2>1. CASE e < f
    <3>1. e \in a + 1..f - 1 /\ t[e] = Quote
      BY <1>0, <1>1, <2>1 DEF Closes
    <3>2. Escaped(t, a, e)
      BY <1>1, <3>1 DEF Closes
    <3> QED BY <1>1, <3>2 DEF Closes
  <2>2. CASE f < e
    <3>1. f \in a + 1..e - 1 /\ t[f] = Quote
      BY <1>0, <1>1, <2>2 DEF Closes
    <3>2. Escaped(t, a, f)
      BY <1>1, <3>1 DEF Closes
    <3> QED BY <1>1, <3>2 DEF Closes
  <2> QED BY <1>0, <2>1, <2>2
<1>2. ASSUME NEW e \in a + 1..Len(t), Closes(t, a, e) PROVE StringEnd(t, a) = e + 1
  <2>1. (CHOOSE f \in a + 1..Len(t) : Closes(t, a, f)) = e
    BY <1>1, <1>2
  <2> QED BY <1>2, <2>1 DEF StringEnd
<1>3. ASSUME \A e \in a + 1..Len(t) : ~Closes(t, a, e) PROVE StringEnd(t, a) = Len(t) + 1
  BY <1>3 DEF StringEnd
<1>4. StringEnd(t, a) \in a + 1..Len(t) + 1
  <2>1. CASE \E e \in a + 1..Len(t) : Closes(t, a, e)
    <3>1. PICK e \in a + 1..Len(t) : Closes(t, a, e)
      BY <2>1
    <3>2. StringEnd(t, a) = e + 1
      BY <1>2, <3>1
    <3> QED BY <1>0, <3>2
  <2>2. CASE \A e \in a + 1..Len(t) : ~Closes(t, a, e)
    BY <1>0, <1>3, <2>2
  <2> QED BY <2>1, <2>2
<1> QED BY <1>2, <1>3, <1>4

\* The grammar of a file without raw strings and quotes in character literals: OrdinaryIsBare
\* below says that it is the grammar of such a file.
BareEnd(t, p) ==
  IF Starts(t, p, Dash, Dash) THEN EndOfLine(t, p)
  ELSE IF Starts(t, p, Slash, Dash) THEN BlockEnds(t)[p + 2]
  ELSE IF t[p] = Quote THEN StringEnd(t, p)
  ELSE p

BareCuts(t) ==
  LET cuts[p \in 1..Len(t) + 1] ==
        IF p > Len(t) THEN {}
        ELSE {p} \cup cuts[IF BareEnd(t, p) = p THEN p + 1 ELSE BareEnd(t, p)]
  IN  cuts

BareProse(t) == UNION {p..BareEnd(t, p) - 1 : p \in BareCuts(t)[1]}

BareTame(t) ==
  \A p \in BareCuts(t)[1] :
    LET e == BareEnd(t, p)
    IN  /\ t[p] = Quote => Closes(t, p, e - 1) /\ \A k \in p..e - 1 : t[k] # Newline
        /\ Starts(t, p, Slash, Dash) => \A k \in p..e - 1 : t[k] # Quote

\* No segment leaves the file.
LEMMA SegmentEnds ==
  ASSUME NEW t \in Seq(Char), NEW p \in 1..Len(t)
  PROVE  BareEnd(t, p) \in p..Len(t) + 1
<1>0. Len(t) \in Nat /\ p \in 1..Len(t) + 1
  OBVIOUS
<1>1. CASE Starts(t, p, Dash, Dash)
  BY <1>0, <1>1, LineEnds DEF BareEnd
<1>2. CASE ~Starts(t, p, Dash, Dash) /\ Starts(t, p, Slash, Dash)
  <2>1. BareEnd(t, p) = BlockEnds(t)[p + 2] /\ p + 2 \in 1..Len(t) + 1
    BY <1>0, <1>2 DEF BareEnd, Starts
  <2>2. BlockEnds(t)[p + 2] \in p + 2..Len(t) + 1
    BY <2>1, EndsAre
  <2> QED BY <1>0, <2>1, <2>2
<1>3. CASE ~Starts(t, p, Dash, Dash) /\ ~Starts(t, p, Slash, Dash) /\ t[p] = Quote
  <2>1. BareEnd(t, p) = StringEnd(t, p)
    BY <1>3 DEF BareEnd
  <2>2. StringEnd(t, p) \in p + 1..Len(t) + 1
    BY StringEnds
  <2> QED BY <1>0, <2>1, <2>2
<1>4. CASE ~Starts(t, p, Dash, Dash) /\ ~Starts(t, p, Slash, Dash) /\ t[p] # Quote
  BY <1>0, <1>4 DEF BareEnd
<1> QED BY <1>1, <1>2, <1>3, <1>4

\* Where the next cut is.
After(t, p) == IF BareEnd(t, p) = p THEN p + 1 ELSE BareEnd(t, p)
\* The equation of the cuts.
CutStep(t, c, p) == IF p > Len(t) THEN {} ELSE {p} \cup c[After(t, p)]

\* The same, where f says which cut follows which.
Onwards(t, f) == \A p \in 1..Len(t) : f[p] \in p + 1..Len(t) + 1
StepBy(t, f, c, p) == IF p > Len(t) THEN {} ELSE {p} \cup c[f[p]]
CutsBy(t, f, c) == c = [p \in 1..Len(t) + 1 |-> StepBy(t, f, c, p)]

\* The descent gets ahead.
LEMMA AfterRange ==
  ASSUME NEW t \in Seq(Char), NEW p \in 1..Len(t)
  PROVE  After(t, p) \in p + 1..Len(t) + 1
<1>1. BareEnd(t, p) \in p..Len(t) + 1 /\ Len(t) \in Nat
  BY SegmentEnds
<1> QED BY <1>1 DEF After

\* The cuts from p on lie from p on.
LEMMA CutsRange ==
  ASSUME NEW t \in Seq(Char), NEW f, Onwards(t, f), NEW c, CutsBy(t, f, c)
  PROVE  \A p \in 1..Len(t) + 1 : c[p] \subseteq p..Len(t)
<1> DEFINE L == Len(t)
           T == {n \in Nat : \A p \in 1..L + 1 : p >= L + 1 - n => c[p] \subseteq p..L}
<1>1. L \in Nat
  OBVIOUS
<1>2. \A p \in 1..L + 1 : c[p] = StepBy(t, f, c, p)
  BY DEF CutsBy
<1>3. \A p \in 1..L : f[p] \in p + 1..L + 1
  BY DEF Onwards
<1> HIDE DEF L
<1>4. 0 \in T
  <2> SUFFICES ASSUME NEW p \in 1..L + 1, p >= L + 1 - 0 PROVE c[p] \subseteq p..L
    OBVIOUS
  <2>1. p > Len(t)
    BY <1>1 DEF L
  <2>2. c[p] = StepBy(t, f, c, p)
    BY <1>2
  <2> QED BY <2>1, <2>2 DEF StepBy
<1>5. ASSUME NEW n \in Nat, n \in T PROVE n + 1 \in T
  <2> SUFFICES ASSUME NEW p \in 1..L + 1, p >= L + 1 - (n + 1) PROVE c[p] \subseteq p..L
    OBVIOUS
  <2>1. CASE p >= L + 1 - n
    BY <1>5, <2>1
  <2>2. CASE ~(p >= L + 1 - n)
    <3>1. p = L - n /\ p \in 1..L
      BY <1>1, <2>2
    <3>2. f[p] \in p + 1..L + 1
      BY <1>3, <3>1
    <3>3. c[f[p]] \subseteq f[p]..L
      BY <1>1, <1>5, <3>1, <3>2
    <3>4. c[p] = {p} \cup c[f[p]]
      <4>1. ~(p > Len(t))
        BY <1>1, <3>1 DEF L
      <4>2. c[p] = StepBy(t, f, c, p)
        BY <1>2
      <4> QED BY <4>1, <4>2 DEF StepBy
    <3> QED BY <1>1, <3>1, <3>2, <3>3, <3>4
  <2> QED BY <2>1, <2>2
<1> HIDE DEF T
<1>6. L \in T
  BY <1>1, <1>4, <1>5, Induct
<1> QED BY <1>1, <1>6 DEF T, L

\* The equation of BareCuts has a solution, by the same construction.
LEMMA CutsThere ==
  ASSUME NEW t \in Seq(Char), NEW f, Onwards(t, f)
  PROVE  \E c : CutsBy(t, f, c)
<1> DEFINE L == Len(t)
           Fine(c, n) == \A p \in 1..L + 1 : p >= L + 1 - n => c[p] = StepBy(t, f, c, p)
           T == {n \in Nat : n <= L => \E c \in [1..L + 1 -> SUBSET (1..L)] : Fine(c, n)}
<1>1. L \in Nat
  OBVIOUS
<1>2. 0 \in T
  <2> DEFINE c == [p \in 1..L + 1 |-> {}]
  <2>1. c \in [1..L + 1 -> SUBSET (1..L)] /\ Fine(c, 0)
    BY <1>1 DEF StepBy
  <2> QED BY <2>1
<1>3. ASSUME NEW n \in Nat, n \in T PROVE n + 1 \in T
  <2> SUFFICES ASSUME n + 1 <= L PROVE \E c \in [1..L + 1 -> SUBSET (1..L)] : Fine(c, n + 1)
    OBVIOUS
  <2>1. PICK g \in [1..L + 1 -> SUBSET (1..L)] : Fine(g, n)
    BY <1>1, <1>3
  <2> DEFINE m == L - n
             c == [g EXCEPT ![m] = StepBy(t, f, g, m)]
  <2>2. m \in 1..L
    BY <1>1
  <2>3. StepBy(t, f, g, m) \in SUBSET (1..L)
    <3>1. f[m] \in m + 1..L + 1
      BY <2>2 DEF Onwards
    <3>2. f[m] \in 1..L + 1
      BY <1>1, <2>2, <3>1
    <3>3. g[f[m]] \subseteq 1..L
      BY <2>1, <3>2
    <3> HIDE DEF m
    <3> QED BY <2>2, <3>3 DEF StepBy
  <2>4. c \in [1..L + 1 -> SUBSET (1..L)] /\ c[m] = StepBy(t, f, g, m)
        /\ \A q \in 1..L + 1 : q # m => c[q] = g[q]
    BY <1>1, <2>2, <2>3
  <2> HIDE DEF c
  <2>5. ASSUME NEW p \in 1..L + 1, p >= m PROVE StepBy(t, f, c, p) = StepBy(t, f, g, p)
    <3>1. CASE p > L
      BY <3>1 DEF StepBy
    <3>2. CASE p <= L
      <4>1. f[p] \in p + 1..L + 1
        BY <1>1, <3>2 DEF Onwards
      <4>2. f[p] \in 1..L + 1 /\ f[p] # m
        BY <1>1, <2>2, <2>5, <4>1
      <4>3. c[f[p]] = g[f[p]]
        BY <2>4, <4>2
      <4> QED BY <4>3 DEF StepBy
    <3> QED BY <1>1, <3>1, <3>2
  <2>6. Fine(c, n + 1)
    <3> SUFFICES ASSUME NEW p \in 1..L + 1, p >= L + 1 - (n + 1) PROVE c[p] = StepBy(t, f, c, p)
      OBVIOUS
    <3>1. p >= m
      BY <1>1
    <3>2. StepBy(t, f, c, p) = StepBy(t, f, g, p)
      BY <2>5, <3>1
    <3>3. CASE p = m
      BY <2>4, <3>2, <3>3
    <3>4. CASE p # m
      <4>1. p >= L + 1 - n
        BY <1>1, <3>1, <3>4
      <4> QED BY <2>1, <2>4, <3>2, <3>4, <4>1
    <3> QED BY <3>3, <3>4
  <2> QED BY <2>4, <2>6
<1> HIDE DEF T
<1>4. L \in T
  BY <1>1, <1>2, <1>3, Induct
<1>5. PICK c \in [1..L + 1 -> SUBSET (1..L)] : Fine(c, L)
  BY <1>1, <1>4 DEF T
<1>6. \A p \in 1..L + 1 : c[p] = StepBy(t, f, c, p)
  BY <1>1, <1>5
<1> QED BY <1>6 DEF CutsBy

\* BareCuts therefore satisfies its equation.
LEMMA CutsAre ==
  ASSUME NEW t \in Seq(Char)
  PROVE  /\ \A p \in 1..Len(t) + 1 : BareCuts(t)[p] = CutStep(t, BareCuts(t), p)
         /\ \A p \in 1..Len(t) + 1 : BareCuts(t)[p] \subseteq p..Len(t)
<1> DEFINE f == [p \in 1..Len(t) |-> After(t, p)]
<1>0. Len(t) \in Nat
  OBVIOUS
<1>1. Onwards(t, f)
  BY AfterRange DEF Onwards
<1>2. ASSUME NEW c, NEW p \in 1..Len(t) + 1 PROVE StepBy(t, f, c, p) = CutStep(t, c, p)
  <2>1. CASE p > Len(t)
    BY <2>1 DEF StepBy, CutStep
  <2>2. CASE ~(p > Len(t))
    <3>1. p \in 1..Len(t)
      BY <1>0, <2>2
    <3>2. f[p] = After(t, p)
      BY <3>1
    <3> HIDE DEF f
    <3> QED BY <2>2, <3>2 DEF StepBy, CutStep
  <2> QED BY <2>1, <2>2
<1>3. ASSUME NEW c
      PROVE  CutsBy(t, f, c) <=> c = [p \in 1..Len(t) + 1 |-> CutStep(t, c, p)]
  <2>1. [p \in 1..Len(t) + 1 |-> StepBy(t, f, c, p)] = [p \in 1..Len(t) + 1 |-> CutStep(t, c, p)]
    BY <1>2
  <2> QED BY <2>1 DEF CutsBy
<1> HIDE DEF f
<1>4. BareCuts(t) = CHOOSE c : c = [p \in 1..Len(t) + 1 |-> CutStep(t, c, p)]
  BY DEF BareCuts, CutStep, After
<1>5. PICK c : CutsBy(t, f, c)
  BY <1>1, CutsThere
<1>6. BareCuts(t) = [p \in 1..Len(t) + 1 |-> CutStep(t, BareCuts(t), p)]
  BY <1>3, <1>4, <1>5
<1>7. CutsBy(t, f, BareCuts(t))
  BY <1>3, <1>6
<1> QED BY <1>1, <1>6, <1>7, CutsRange

\* Of a raw string, and of the file as the grammar reads it, the next cut lies ahead.
LEMMA NextCutRange ==
  ASSUME NEW t \in Seq(Char), NEW p \in 1..Len(t)
  PROVE  NextCut(t, p) \in p + 1..Len(t) + 1
<1>0. Len(t) \in Nat /\ p \in Nat /\ BareEnd(t, p) \in p..Len(t) + 1
  BY SegmentEnds
<1>1. CASE Literal(t, p)
  <2>1. CASE Starts(t, p, Tick, Quote)
    BY <1>0, <1>1, <2>1 DEF NextCut, Starts
  <2>2. CASE Starts(t, p + 1, Backslash, Quote)
    BY <1>0, <1>1, <2>2 DEF NextCut, Starts, Backslash, Quote
  <2> QED BY <1>1, <2>1, <2>2 DEF Literal
<1>2. CASE ~Literal(t, p) /\ Raw(t, p)
  <2>1. PICK n \in 0..Len(t) : n = (CHOOSE m \in 0..Len(t) : RawOpens(t, p, m)) /\ RawOpens(t, p, n)
    BY <1>2 DEF Raw
  <2> DEFINE ends == {e \in p + 2 * n + 3..Len(t) + 1 : Fenced(t, n, e)}
  <2>2. RawEnd(t, p, n) \in p + 1..Len(t) + 1
    <3>1. CASE ends = {}
      BY <1>0, <3>1 DEF RawEnd
    <3>2. CASE ends # {}
      <4>0. n \in Nat /\ p + 2 * n + 3 \in Nat /\ p + 2 * n + 3 >= p + 1
        BY <1>0, <2>1
      <4>1. ends \subseteq Nat /\ ends \subseteq p + 1..Len(t) + 1
        <5>1. ASSUME NEW e \in ends PROVE e \in Nat /\ e \in p + 1..Len(t) + 1
          <6>1. e \in p + 2 * n + 3..Len(t) + 1
            BY <5>1
          <6> HIDE DEF ends
          <6> QED BY <1>0, <4>0, <6>1
        <5> HIDE DEF ends
        <5> QED BY <5>1
      <4>2. RawEnd(t, p, n) = CHOOSE e \in ends : \A f \in ends : e <= f
        BY <3>2 DEF RawEnd
      <4> HIDE DEF ends
      <4>3. PICK k \in ends : TRUE
        BY <3>2
      <4>4. \E e \in ends : \A f \in ends : e <= f
        BY <4>1, <4>3, Least
      <4>5. RawEnd(t, p, n) \in ends
        BY <4>2, <4>4
      <4> QED BY <4>1, <4>5
    <3> QED BY <3>1, <3>2
  <2>3. SegmentEnd(t, p) = RawEnd(t, p, n)
    <3>1. t[p] = RawMark
      BY <2>1 DEF RawOpens
    <3>2. t[p] # Dash /\ t[p] # Slash /\ t[p] # Quote
      BY <3>1 DEF RawMark, Dash, Slash, Quote
    <3> QED BY <1>2, <2>1, <3>2 DEF SegmentEnd, Starts
  <2> QED BY <1>0, <1>2, <2>2, <2>3 DEF NextCut
<1>3. CASE ~Literal(t, p) /\ ~Raw(t, p)
  <2>1. SegmentEnd(t, p) = BareEnd(t, p)
    BY <1>3 DEF SegmentEnd, BareEnd
  <2> QED BY <1>0, <1>3, <2>1 DEF NextCut
<1> QED BY <1>1, <1>2, <1>3

\* Cuts satisfies its equation as well.
LEMMA NextCutsAre ==
  ASSUME NEW t \in Seq(Char)
  PROVE  /\ \A p \in 1..Len(t) : Cuts(t)[p] = {p} \cup Cuts(t)[NextCut(t, p)]
         /\ Cuts(t)[Len(t) + 1] = {}
         /\ \A p \in 1..Len(t) + 1 : Cuts(t)[p] \subseteq p..Len(t)
<1> DEFINE f == [p \in 1..Len(t) |-> NextCut(t, p)]
           Step(c, p) == IF p > Len(t) THEN {} ELSE {p} \cup c[NextCut(t, p)]
<1>0. Len(t) \in Nat
  OBVIOUS
<1>1. Onwards(t, f)
  BY NextCutRange DEF Onwards
<1>2. ASSUME NEW c, NEW p \in 1..Len(t) + 1 PROVE StepBy(t, f, c, p) = Step(c, p)
  <2>1. CASE p > Len(t)
    BY <2>1 DEF StepBy
  <2>2. CASE ~(p > Len(t))
    <3>1. p \in 1..Len(t)
      BY <1>0, <2>2
    <3>2. f[p] = NextCut(t, p)
      BY <3>1
    <3> HIDE DEF f
    <3> QED BY <2>2, <3>2 DEF StepBy
  <2> QED BY <2>1, <2>2
<1>3. ASSUME NEW c
      PROVE  CutsBy(t, f, c) <=> c = [p \in 1..Len(t) + 1 |-> Step(c, p)]
  <2>1. [p \in 1..Len(t) + 1 |-> StepBy(t, f, c, p)] = [p \in 1..Len(t) + 1 |-> Step(c, p)]
    BY <1>2
  <2> QED BY <2>1 DEF CutsBy
<1> HIDE DEF f
<1>4. Cuts(t) = CHOOSE c : c = [p \in 1..Len(t) + 1 |-> Step(c, p)]
  BY DEF Cuts
<1>5. PICK c : CutsBy(t, f, c)
  BY <1>1, CutsThere
<1>6. Cuts(t) = [p \in 1..Len(t) + 1 |-> Step(Cuts(t), p)]
  BY <1>3, <1>4, <1>5
<1>7. CutsBy(t, f, Cuts(t))
  BY <1>3, <1>6
<1>8. \A p \in 1..Len(t) + 1 : Cuts(t)[p] = Step(Cuts(t), p)
  BY <1>6
<1>9. Len(t) + 1 \in 1..Len(t) + 1 /\ Len(t) + 1 > Len(t)
      /\ \A p \in 1..Len(t) : p \in 1..Len(t) + 1 /\ ~(p > Len(t))
  BY <1>0
<1>10. Cuts(t)[Len(t) + 1] = {}
  BY <1>8, <1>9
<1>11. \A p \in 1..Len(t) : Cuts(t)[p] = {p} \cup Cuts(t)[NextCut(t, p)]
  BY <1>8, <1>9
<1> QED BY <1>1, <1>7, <1>10, <1>11, CutsRange

\* A file without raw strings and quotes in literals is read as if there were no such thing.
LEMMA OrdinaryIsBare ==
  ASSUME NEW t \in Seq(Char), Ordinary(t)
  PROVE  Prose(t) = BareProse(t) /\ (Tame(t) => BareTame(t))
<1> DEFINE L == Len(t)
           T == {n \in Nat : \A p \in 1..L + 1 :
                   p >= L + 1 - n /\ Cuts(t)[p] \subseteq Cuts(t)[1] => Cuts(t)[p] = BareCuts(t)[p]}
<1>0. L \in Nat
  OBVIOUS
<1>1. ASSUME NEW p \in Cuts(t)[1], p \in 1..L
      PROVE  SegmentEnd(t, p) = BareEnd(t, p) /\ NextCut(t, p) = After(t, p)
  <2>1. ~Literal(t, p) /\ ~Raw(t, p)
    BY <1>1 DEF Ordinary
  <2>2. SegmentEnd(t, p) = BareEnd(t, p)
    BY <2>1 DEF SegmentEnd, BareEnd
  <2> QED BY <2>1, <2>2 DEF NextCut, After
<1>2. 0 \in T
  <2> SUFFICES ASSUME NEW p \in 1..L + 1, p >= L + 1 - 0 PROVE Cuts(t)[p] = BareCuts(t)[p]
    OBVIOUS
  <2>1. p = L + 1 /\ p > Len(t)
    BY <1>0
  <2>2. BareCuts(t)[p] = CutStep(t, BareCuts(t), p)
    BY CutsAre
  <2> QED BY <2>1, <2>2, NextCutsAre DEF CutStep
<1>3. ASSUME NEW n \in Nat, n \in T PROVE n + 1 \in T
  <2> SUFFICES ASSUME NEW p \in 1..L + 1, p >= L + 1 - (n + 1), Cuts(t)[p] \subseteq Cuts(t)[1]
               PROVE  Cuts(t)[p] = BareCuts(t)[p]
    OBVIOUS
  <2>1. CASE p >= L + 1 - n
    BY <1>3, <2>1
  <2>2. CASE ~(p >= L + 1 - n)
    <3>1. p = L - n /\ p \in 1..L /\ ~(p > Len(t))
      BY <1>0, <2>2
    <3>2. NextCut(t, p) \in p + 1..L + 1
      BY <3>1, NextCutRange
    <3>3. Cuts(t)[p] = {p} \cup Cuts(t)[NextCut(t, p)]
      BY <3>1, NextCutsAre
    <3>4. NextCut(t, p) = After(t, p)
      BY <1>1, <3>1, <3>3
    <3>5. NextCut(t, p) \in 1..L + 1 /\ NextCut(t, p) >= L + 1 - n
      BY <1>0, <3>1, <3>2
    <3>6. Cuts(t)[NextCut(t, p)] \subseteq Cuts(t)[1]
      BY <3>3
    <3>7. Cuts(t)[NextCut(t, p)] = BareCuts(t)[NextCut(t, p)]
      BY <1>3, <3>5, <3>6
    <3>8. BareCuts(t)[p] = CutStep(t, BareCuts(t), p)
      BY CutsAre
    <3> QED BY <3>1, <3>3, <3>4, <3>7, <3>8 DEF CutStep
  <2> QED BY <2>1, <2>2
<1>4. L \in T
  <2> HIDE DEF T
  <2> QED BY <1>0, <1>2, <1>3, Induct
<1>5. Cuts(t)[1] = BareCuts(t)[1] /\ Cuts(t)[1] \subseteq 1..L
  <2>1. 1 \in 1..L + 1 /\ 1 >= L + 1 - L
    BY <1>0
  <2> QED BY <1>4, <2>1, NextCutsAre
<1> HIDE DEF L
<1>6. \A p \in Cuts(t)[1] : SegmentEnd(t, p) = BareEnd(t, p)
  BY <1>1, <1>5
<1>7. Prose(t) = BareProse(t)
  BY <1>5, <1>6 DEF Prose, BareProse
<1>8. ASSUME Tame(t) PROVE BareTame(t)
  BY <1>5, <1>6, <1>8 DEF Tame, BareTame
<1> QED BY <1>7, <1>8

\* A place where a comment, a string or a character of code begins, or the end.
Cut(t, p) == p \in BareCuts(t)[1] \cup {Len(t) + 1}

\* Of a cut, the next one is a cut.
LEMMA CutsOn ==
  ASSUME NEW t \in Seq(Char)
  PROVE  Cut(t, 1) /\ \A q \in 1..Len(t) : Cut(t, q) => Cut(t, After(t, q))
<1> DEFINE L == Len(t)
           c == BareCuts(t)
           T == {n \in Nat : \A p \in 1..L + 1 : p >= L + 1 - n =>
                               \A q \in c[p] : q <= L => After(t, q) \in c[p] \cup {L + 1}}
<1>1. L \in Nat
  OBVIOUS
<1>2. \A p \in 1..L + 1 : c[p] \subseteq p..L
  BY CutsAre
<1>3. \A p \in 1..L : After(t, p) \in p + 1..L + 1
  BY AfterRange
<1>4. \A p \in 1..L : c[p] = {p} \cup c[After(t, p)]
  <2> SUFFICES ASSUME NEW p \in 1..L PROVE c[p] = {p} \cup c[After(t, p)]
    OBVIOUS
  <2>1. c[p] = CutStep(t, c, p) /\ ~(p > Len(t))
    BY <1>1, CutsAre
  <2> QED BY <2>1 DEF CutStep
<1> HIDE DEF L, c
<1>5. 0 \in T
  BY <1>1, <1>2
<1>6. ASSUME NEW n \in Nat, n \in T PROVE n + 1 \in T
  <2> SUFFICES ASSUME NEW p \in 1..L + 1, p >= L + 1 - (n + 1), NEW q \in c[p], q <= L
               PROVE  After(t, q) \in c[p] \cup {L + 1}
    OBVIOUS
  <2>1. CASE p >= L + 1 - n
    BY <1>6, <2>1
  <2>2. CASE ~(p >= L + 1 - n)
    <3>1. p = L - n /\ p \in 1..L
      BY <1>1, <2>2
    <3>2. After(t, p) \in p + 1..L + 1
      BY <1>3, <3>1
    <3>3. After(t, p) \in 1..L + 1 /\ After(t, p) >= L + 1 - n
      BY <1>1, <3>1, <3>2
    <3>4. CASE q = p
      <4>1. CASE After(t, p) \in 1..L
        BY <1>4, <3>1, <3>4, <4>1
      <4> QED BY <1>1, <3>3, <3>4, <4>1
    <3>5. CASE q \in c[After(t, p)]
      BY <1>4, <1>6, <3>1, <3>3, <3>5
    <3> QED BY <1>4, <3>1, <3>4, <3>5
  <2> QED BY <2>1, <2>2
<1> HIDE DEF T
<1>7. L \in T
  BY <1>1, <1>5, <1>6, Induct
<1>8. \A q \in c[1] : q <= L => After(t, q) \in c[1] \cup {L + 1}
  BY <1>1, <1>7 DEF T
<1>9. 1 \in c[1] \cup {L + 1}
  BY <1>1, <1>4
<1> QED BY <1>1, <1>8, <1>9 DEF Cut, L, c

(***************************************************************************)
(* What is prose, from a place on.                                         *)
(***************************************************************************)
\* The prose from p on.
ProseFrom(t, p) == UNION {q..BareEnd(t, q) - 1 : q \in BareCuts(t)[p]}

\* The prose from p on is the segment at p, if there is one, and the prose behind it.
LEMMA ProseIs ==
  ASSUME NEW t \in Seq(Char), NEW p \in 1..Len(t) + 1
  PROVE  /\ ProseFrom(t, p) \subseteq p..Len(t)
         /\ p > Len(t) => ProseFrom(t, p) = {}
         /\ p <= Len(t) /\ BareEnd(t, p) = p => ProseFrom(t, p) = ProseFrom(t, p + 1)
         /\ p <= Len(t) /\ BareEnd(t, p) # p =>
              ProseFrom(t, p) = (p..BareEnd(t, p) - 1) \cup ProseFrom(t, BareEnd(t, p))
<1>0. Len(t) \in Nat
  OBVIOUS
<1>1. BareCuts(t)[p] = CutStep(t, BareCuts(t), p) /\ BareCuts(t)[p] \subseteq p..Len(t)
  BY CutsAre
<1>2. ProseFrom(t, p) \subseteq p..Len(t)
  <2> SUFFICES ASSUME NEW q \in BareCuts(t)[p], NEW k \in q..BareEnd(t, q) - 1
               PROVE  k \in p..Len(t)
    BY DEF ProseFrom
  <2>1. q \in p..Len(t) /\ q \in 1..Len(t)
    BY <1>0, <1>1
  <2>2. BareEnd(t, q) \in q..Len(t) + 1
    BY <2>1, SegmentEnds
  <2> QED BY <1>0, <2>1, <2>2
<1>3. ASSUME p > Len(t) PROVE ProseFrom(t, p) = {}
  BY <1>1, <1>3 DEF ProseFrom, CutStep
<1>4. ASSUME p <= Len(t)
      PROVE  ProseFrom(t, p) = (p..BareEnd(t, p) - 1) \cup ProseFrom(t, After(t, p))
  <2>1. BareCuts(t)[p] = {p} \cup BareCuts(t)[After(t, p)]
    BY <1>0, <1>1, <1>4 DEF CutStep
  <2> QED BY <2>1 DEF ProseFrom
<1>5. p..p - 1 = {}
  BY <1>0
<1> QED BY <1>2, <1>3, <1>4, <1>5 DEF After

(***************************************************************************)
(* Escapes.                                                                *)
(***************************************************************************)
\* What a backslash does to what follows it.
LEMMA Escapes ==
  ASSUME NEW t \in Seq(Char), NEW a \in 1..Len(t), NEW j \in a + 1..Len(t), t[a] = Quote,
         ~Escaped(t, a, j)
  PROVE  /\ t[j] # Backslash => ~Escaped(t, a, j + 1)
         /\ t[j] = Backslash => Escaped(t, a, j + 1) /\ ~Escaped(t, a, j + 2)
<1>0. a \in Nat /\ j \in Nat /\ a >= 1 /\ a < j
  OBVIOUS
<1>1. ASSUME t[j] # Backslash, Escaped(t, a, j + 1) PROVE FALSE
  <2>1. PICK n \in 1..j + 1 - a - 1 : \A h \in j + 1 - n..j + 1 - 1 : t[h] = Backslash
    BY <1>1 DEF Escaped
  <2>2. j \in j + 1 - n..j + 1 - 1
    BY <1>0
  <2> QED BY <1>1, <2>1, <2>2
<1>2. ASSUME t[j] = Backslash, Escaped(t, a, j + 2) PROVE FALSE
  <2>1. PICK n \in 1..j + 2 - a - 1 : /\ n % 2 = 1 /\ t[j + 2 - n - 1] # Backslash
                                      /\ \A h \in j + 2 - n..j + 2 - 1 : t[h] = Backslash
    BY <1>2 DEF Escaped
  <2>2. n # 1
    <3>1. n = 1 => j + 2 - n - 1 = j
      BY <1>0
    <3> QED BY <1>2, <2>1, <3>1
  <2>3. n - 2 \in 1..j - a - 1 /\ (n - 2) % 2 = 1
    BY <1>0, <2>1, <2>2
  <2>4. j + 2 - n - 1 = j - (n - 2) - 1
    BY <1>0
  <2>5. \A h \in j - (n - 2)..j - 1 : t[h] = Backslash
    BY <1>0, <2>1
  <2> QED BY <2>1, <2>3, <2>4, <2>5 DEF Escaped
<1>3. ASSUME t[j] = Backslash PROVE Escaped(t, a, j + 1)
  <2> DEFINE T == {n \in Nat : n <= j - a - 1 /\ t[j - n - 1] # Backslash}
  <2>1. j - a - 1 \in T
    <3>1. j - (j - a - 1) - 1 = a /\ j - a - 1 \in Nat
      BY <1>0
    <3>2. t[a] # Backslash
      BY DEF Quote, Backslash
    <3> QED BY <3>1, <3>2
  <2>2. PICK n \in T : \A m \in T : n <= m
    <3>1. T \subseteq Nat
      OBVIOUS
    <3> HIDE DEF T
    <3> QED BY <2>1, <3>1, Least
  <2>3. n \in Nat /\ n <= j - a - 1 /\ t[j - n - 1] # Backslash
    OBVIOUS
  <2>4. \A h \in j - n..j - 1 : t[h] = Backslash
    <3> SUFFICES ASSUME NEW h \in j - n..j - 1, t[h] # Backslash PROVE FALSE
      OBVIOUS
    <3>1. j - h - 1 \in Nat /\ j - h - 1 <= j - a - 1 /\ j - (j - h - 1) - 1 = h /\ j - h - 1 < n
      BY <1>0, <2>3
    <3>2. j - h - 1 \in T
      BY <3>1
    <3>3. n <= j - h - 1
      BY <2>2, <3>2
    <3> QED BY <1>0, <2>3, <3>1, <3>3
  <2>5. n % 2 # 1
    <3> SUFFICES ASSUME n % 2 = 1 PROVE FALSE
      OBVIOUS
    <3>1. n \in 1..j - a - 1
      BY <1>0, <2>3
    <3> QED BY <2>3, <2>4, <3>1 DEF Escaped
  <2>6. n + 1 \in 1..j + 1 - a - 1 /\ (n + 1) % 2 = 1
    BY <1>0, <2>3, <2>5
  <2>7. j + 1 - (n + 1) - 1 = j - n - 1
    BY <1>0, <2>3
  <2>8. \A h \in j + 1 - (n + 1)..j + 1 - 1 : t[h] = Backslash
    <3> SUFFICES ASSUME NEW h \in j + 1 - (n + 1)..j + 1 - 1 PROVE t[h] = Backslash
      OBVIOUS
    <3>1. h = j \/ h \in j - n..j - 1
      BY <1>0, <2>3
    <3> QED BY <1>3, <2>4, <3>1
  <2> QED BY <2>3, <2>6, <2>7, <2>8 DEF Escaped
<1> QED BY <1>1, <1>2, <1>3

(***************************************************************************)
(* Where the lexer is in the grammar.                                      *)
(***************************************************************************)
\* What is left of the prose from j on.
Left(t, j, prose) == \A k \in j..Len(t) : k \in BareProse(t) <=> k \in prose

\* The present segment goes on from j up to p, in a tame file without x.
Rest(t, j, p, x) ==
  /\ Cut(t, p) /\ Left(t, j, (j..p - 1) \cup ProseFrom(t, p))
  /\ BareTame(t) => \A k \in j..p - 1 : t[k] # x

\* The lexer is at j: in code; in d comments, of which the k-th ends at c[k - 1]; or in a
\* string that began at a.
AtCode(t, j) == Cut(t, j) /\ Left(t, j, ProseFrom(t, j))
Nest(t, j, d, c) ==
  /\ c \in [0..d -> 1..Len(t) + 1] /\ c[d] = j
  /\ \A k \in 1..d : c[k - 1] = BlockEnds(t)[c[k]]
  /\ \A k \in 0..d : c[k] <= c[0]
AtBlock(t, j, d) ==
  \E c : Nest(t, j, d, c) /\ Rest(t, j, c[0], Quote)
AtString(t, j) ==
  \E a \in 1..j - 1 :
    /\ t[a] = Quote /\ (j <= Len(t) => ~Escaped(t, a, j))
    /\ \A k \in a + 1..j - 1 : t[k] = Quote => Escaped(t, a, k)
    /\ Rest(t, j, StringEnd(t, a), Newline)

\* Inside a segment that goes up to p, what is read up to e is prose.
LEMMA LeftOf ==
  ASSUME NEW t \in Seq(Char), NEW j \in 1..Len(t) + 1, NEW p \in 1..Len(t) + 1, NEW x,
         NEW e \in j..Len(t) + 1, Rest(t, j, p, x), e <= p
  PROVE  j..e - 1 \subseteq BareProse(t) /\ Rest(t, e, p, x)
<1>0. Len(t) \in Nat
  OBVIOUS
<1>1. j..e - 1 \subseteq BareProse(t)
  BY <1>0 DEF Rest, Left
<1>2. ASSUME NEW k \in e..Len(t)
      PROVE  k \in BareProse(t) <=> k \in (e..p - 1) \cup ProseFrom(t, p)
  <2>1. k \in j..Len(t) /\ (k \in j..p - 1 <=> k \in e..p - 1)
    BY <1>0
  <2> QED BY <2>1 DEF Rest, Left
<1>3. e..p - 1 \subseteq j..p - 1
  BY <1>0
<1> QED BY <1>1, <1>2, <1>3 DEF Rest, Left

\* At the end of what is left of the present segment begins code.
LEMMA LeftCode ==
  ASSUME NEW t \in Seq(Char), NEW j \in 1..Len(t) + 1, NEW p \in j..Len(t) + 1, NEW x,
         Rest(t, j, p, x)
  PROVE  j..p - 1 \subseteq BareProse(t) /\ AtCode(t, p)
<1>0. Len(t) \in Nat /\ p \in 1..Len(t) + 1 /\ p - 1 < p
  OBVIOUS
<1>1. j..p - 1 \subseteq BareProse(t) /\ Rest(t, p, p, x)
  <2>1. p <= p
    BY <1>0
  <2> QED BY <1>0, <2>1, LeftOf
<1>2. p..p - 1 = {}
  BY <1>0
<1> QED BY <1>1, <1>2 DEF AtCode, Rest

\* A character at which no segment begins is code.
LEMMA CodeKept ==
  ASSUME NEW t \in Seq(Char), NEW j \in 1..Len(t), AtCode(t, j), BareEnd(t, j) = j
  PROVE  j \notin BareProse(t) /\ AtCode(t, j + 1)
<1>0. Len(t) \in Nat /\ j \in 1..Len(t) + 1 /\ j + 1 \in 1..Len(t) + 1
  OBVIOUS
<1>1. ProseFrom(t, j) = ProseFrom(t, j + 1)
  BY <1>0, ProseIs
<1>2. ProseFrom(t, j + 1) \subseteq j + 1..Len(t)
  BY <1>0, ProseIs
<1>3. j \notin BareProse(t)
  BY <1>0, <1>1, <1>2 DEF AtCode, Left
<1>4. Cut(t, j + 1)
  <2>1. Cut(t, After(t, j))
    BY CutsOn DEF AtCode
  <2> QED BY <2>1 DEF After
<1> QED BY <1>0, <1>1, <1>3, <1>4 DEF AtCode, Left

\* A segment begins.
LEMMA CodeLeft ==
  ASSUME NEW t \in Seq(Char), NEW j \in 1..Len(t), AtCode(t, j), NEW x,
         NEW p \in j + 1..Len(t) + 1, BareEnd(t, j) = p,
         BareTame(t) => \A k \in j..p - 1 : t[k] # x
  PROVE  Rest(t, j, p, x)
<1>1. ProseFrom(t, j) = (j..p - 1) \cup ProseFrom(t, p)
  BY ProseIs
<1>2. Cut(t, p)
  <2>1. Cut(t, After(t, j)) /\ p # j
    BY CutsOn DEF AtCode
  <2> QED BY <2>1 DEF After
<1> QED BY <1>1, <1>2 DEF AtCode, Rest

\* A line comment goes up to the end of its line.
LEMMA LineTaken ==
  ASSUME NEW t \in Seq(Char), NEW j \in 1..Len(t), AtCode(t, j), Starts(t, j, Dash, Dash),
         NEW e, EndsLine(t, j, e)
  PROVE  j..e - 1 \subseteq BareProse(t) /\ AtCode(t, e)
<1>0. Len(t) \in Nat /\ j \in 1..Len(t) + 1
  OBVIOUS
<1>1. BareEnd(t, j) = e
  BY <1>0, LineEnds DEF BareEnd
<1>2. e \in j..Len(t) + 1
  BY <1>0 DEF EndsLine
<1>3. e # j
  BY DEF EndsLine, Starts, Dash, Newline
<1>4. e \in j + 1..Len(t) + 1
  BY <1>0, <1>2, <1>3
<1>5. Rest(t, j, e, Newline)
  <2>1. \A k \in j..e - 1 : t[k] # Newline
    BY DEF EndsLine
  <2> QED BY <1>1, <1>4, <2>1, CodeLeft
<1> QED BY <1>0, <1>2, <1>5, LeftCode

\* A block comment opens in code.
LEMMA BlockBegins ==
  ASSUME NEW t \in Seq(Char), NEW j \in 1..Len(t), AtCode(t, j), Starts(t, j, Slash, Dash)
  PROVE  {j, j + 1} \subseteq BareProse(t) /\ AtBlock(t, j + 2, 1)
<1> DEFINE e == BlockEnds(t)[j + 2]
           c == [k \in 0..1 |-> IF k = 0 THEN e ELSE j + 2]
<1>0. Len(t) \in Nat /\ j < Len(t) /\ j + 2 \in 1..Len(t) + 1
  BY DEF Starts
<1>1. e \in j + 2..Len(t) + 1
  BY <1>0, EndsAre
<1>2. ~Starts(t, j, Dash, Dash)
  BY DEF Starts, Slash, Dash
<1>3. BareEnd(t, j) = e
  BY <1>2 DEF BareEnd
<1> HIDE DEF e
<1>4. Rest(t, j, e, Quote)
  <2>1. BareTame(t) => \A k \in j..e - 1 : t[k] # Quote
    <3>1. j \in BareCuts(t)[1]
      BY <1>0 DEF AtCode, Cut
    <3> QED BY <1>3, <3>1 DEF BareTame
  <2>2. e \in j + 1..Len(t) + 1
    BY <1>0, <1>1
  <2> QED BY <1>3, <2>1, <2>2, CodeLeft
<1>5. j..j + 2 - 1 \subseteq BareProse(t) /\ Rest(t, j + 2, e, Quote)
  <2>1. e \in 1..Len(t) + 1 /\ j + 2 \in j..Len(t) + 1 /\ j \in 1..Len(t) + 1 /\ j + 2 <= e
    BY <1>0, <1>1
  <2> QED BY <1>4, <2>1, LeftOf
<1>6. Nest(t, j + 2, 1, c) /\ c[0] = e
  <2>1. c[0] = e /\ c[1] = j + 2 /\ c \in [0..1 -> 1..Len(t) + 1]
    BY <1>0, <1>1
  <2>2. \A k \in 0..1 : k = 0 \/ k = 1
    OBVIOUS
  <2>3. \A k \in 1..1 : k = 1 /\ k - 1 = 0
    OBVIOUS
  <2> HIDE DEF c
  <2> QED BY <1>0, <1>1, <2>1, <2>2, <2>3 DEF Nest, e
<1>7. {j, j + 1} \subseteq BareProse(t)
  BY <1>0, <1>5
<1> HIDE DEF c
<1> QED BY <1>5, <1>6, <1>7 DEF AtBlock

(***************************************************************************)
(* Block comments.                                                         *)
(***************************************************************************)
\* The innermost comment ends where the grammar says, and inside the outermost one.
LEMMA NestTop ==
  ASSUME NEW t \in Seq(Char), NEW j \in 1..Len(t), NEW d \in Nat \ {0}, NEW c, Nest(t, j, d, c)
  PROVE  /\ c[d - 1] = BlockEnds(t)[j] /\ BlockEnds(t)[j] \in j + 1..Len(t) + 1
         /\ BlockEnds(t)[j] <= c[0] /\ c[0] \in 1..Len(t) + 1
<1>0. Len(t) \in Nat /\ j \in 1..Len(t) + 1 /\ d \in 1..d /\ d - 1 \in 0..d /\ 0 \in 0..d
  OBVIOUS
<1>1. c[d - 1] = BlockEnds(t)[c[d]] /\ c[d] = j /\ c[d - 1] <= c[0] /\ c[0] \in 1..Len(t) + 1
  BY <1>0 DEF Nest
<1>2. BlockEnds(t)[j] \in j..Len(t) + 1 /\ BlockEnds(t)[j] > j
  BY <1>0, EndsAre
<1> QED BY <1>0, <1>1, <1>2

\* The lexer goes on to e, in the same outermost comment.
LEMMA BlockMoves ==
  ASSUME NEW t \in Seq(Char), NEW j \in 1..Len(t), NEW p \in 1..Len(t) + 1,
         Rest(t, j, p, Quote),
         NEW e \in j..Len(t) + 1, e <= p, NEW d \in Nat, NEW c, Nest(t, e, d, c), c[0] = p
  PROVE  j..e - 1 \subseteq BareProse(t) /\ AtBlock(t, e, d)
<1>1. j \in 1..Len(t) + 1
  OBVIOUS
<1>2. j..e - 1 \subseteq BareProse(t) /\ Rest(t, e, p, Quote)
  BY <1>1, LeftOf
<1> QED BY <1>2 DEF AtBlock

\* A character of a comment that opens and closes none.
LEMMA BlockIn ==
  ASSUME NEW t \in Seq(Char), NEW j \in 1..Len(t), NEW d \in Nat \ {0}, AtBlock(t, j, d),
         ~Starts(t, j, Slash, Dash), ~Starts(t, j, Dash, Slash)
  PROVE  j \in BareProse(t) /\ AtBlock(t, j + 1, d)
<1>1. PICK c : Nest(t, j, d, c) /\ Rest(t, j, c[0], Quote)
  BY DEF AtBlock
<1> DEFINE f == [k \in 0..d |-> IF k = d THEN j + 1 ELSE c[k]]
           p == c[0]
<1>2. c[d - 1] = BlockEnds(t)[j] /\ BlockEnds(t)[j] > j /\ BlockEnds(t)[j] <= p
      /\ p \in 1..Len(t) + 1 /\ BlockEnds(t)[j] \in 1..Len(t) + 1
  BY <1>1, NestTop
<1>3. BlockEnds(t)[j] = BlockEnds(t)[j + 1]
  <2>1. BlockEnds(t)[j] = EndStep(t, BlockEnds(t), j) /\ ~(j > Len(t))
    BY EndsAre
  <2> QED BY <2>1 DEF EndStep
<1>4. f \in [0..d -> 1..Len(t) + 1] /\ f[d] = j + 1 /\ f[0] = p
      /\ \A k \in 0..d : k # d => f[k] = c[k]
  <2>1. c \in [0..d -> 1..Len(t) + 1] /\ j + 1 \in 1..Len(t) + 1
    BY <1>1 DEF Nest
  <2> QED BY <2>1
<1> HIDE DEF f, p
<1>5. Nest(t, j + 1, d, f)
  <2>1. ASSUME NEW k \in 1..d PROVE f[k - 1] = BlockEnds(t)[f[k]]
    <3>1. k - 1 \in 0..d /\ k - 1 # d /\ k \in 0..d
      OBVIOUS
    <3>2. f[k - 1] = c[k - 1] /\ c[k - 1] = BlockEnds(t)[c[k]]
      BY <1>1, <1>4, <3>1 DEF Nest
    <3>3. CASE k = d
      BY <1>1, <1>2, <1>3, <1>4, <3>2, <3>3
    <3>4. CASE k # d
      BY <1>4, <3>1, <3>2, <3>4
    <3> QED BY <3>3, <3>4
  <2>2. ASSUME NEW k \in 0..d PROVE f[k] <= f[0]
    <3>1. CASE k = d
      BY <1>2, <1>4, <3>1
    <3>2. CASE k # d
      BY <1>1, <1>4, <3>2 DEF Nest, p
    <3> QED BY <3>1, <3>2
  <2> QED BY <1>4, <2>1, <2>2 DEF Nest
<1>6. j + 1 <= p /\ j + 1 \in j..Len(t) + 1
  BY <1>2
<1>7. j..j + 1 - 1 \subseteq BareProse(t) /\ AtBlock(t, j + 1, d)
  <2>1. Rest(t, j, p, Quote)
    BY <1>1 DEF p
  <2> QED BY <1>2, <1>4, <1>5, <1>6, <2>1, BlockMoves
<1> QED BY <1>7

\* A comment opens in a comment.
LEMMA BlockOpens ==
  ASSUME NEW t \in Seq(Char), NEW j \in 1..Len(t), NEW d \in Nat \ {0}, AtBlock(t, j, d),
         Starts(t, j, Slash, Dash)
  PROVE  {j, j + 1} \subseteq BareProse(t) /\ AtBlock(t, j + 2, d + 1)
<1>1. PICK c : Nest(t, j, d, c) /\ Rest(t, j, c[0], Quote)
  BY DEF AtBlock
<1> DEFINE e == BlockEnds(t)[j + 2]
           f == [k \in 0..d + 1 |-> IF k = d + 1 THEN j + 2 ELSE IF k = d THEN e ELSE c[k]]
           p == c[0]
<1>2. c[d - 1] = BlockEnds(t)[j] /\ BlockEnds(t)[j] > j /\ BlockEnds(t)[j] <= p
      /\ p \in 1..Len(t) + 1 /\ BlockEnds(t)[j] \in 1..Len(t) + 1
  BY <1>1, NestTop
<1>0. Len(t) \in Nat /\ j + 2 \in 1..Len(t) + 1
  BY DEF Starts
<1>3. e \in j + 2..Len(t) + 1 /\ BlockEnds(t)[j] = BlockEnds(t)[e]
  <2>1. BlockEnds(t)[j] = EndStep(t, BlockEnds(t), j) /\ ~(j > Len(t))
    BY EndsAre
  <2>2. ~Starts(t, j, Dash, Slash)
    BY DEF Starts, Slash, Dash
  <2>3. e \in j + 2..Len(t) + 1
    BY <1>0, EndsAre
  <2> QED BY <2>1, <2>2, <2>3 DEF EndStep
<1>4. BlockEnds(t)[e] \in e..Len(t) + 1
  <2>1. e \in 1..Len(t) + 1
    BY <1>0, <1>3
  <2> HIDE DEF e
  <2> QED BY <2>1, EndsAre
<1> HIDE DEF e
<1>5. f \in [0..d + 1 -> 1..Len(t) + 1] /\ f[d + 1] = j + 2 /\ f[d] = e /\ f[0] = p
      /\ \A k \in 0..d : k # d => f[k] = c[k]
  <2>1. c \in [0..d -> 1..Len(t) + 1] /\ j + 2 \in 1..Len(t) + 1 /\ e \in 1..Len(t) + 1
    BY <1>0, <1>1, <1>3 DEF Nest
  <2> QED BY <2>1
<1> HIDE DEF f, p
<1>6. Nest(t, j + 2, d + 1, f)
  <2>1. ASSUME NEW k \in 1..d + 1 PROVE f[k - 1] = BlockEnds(t)[f[k]]
    <3>1. CASE k = d + 1
      BY <1>5, <3>1 DEF e
    <3>2. CASE k = d
      <4>1. k - 1 \in 0..d /\ k - 1 # d
        BY <3>2
      <4>2. f[k - 1] = c[d - 1] /\ f[k] = e
        BY <1>5, <3>2, <4>1
      <4> QED BY <1>2, <1>3, <4>2
    <3>3. CASE k # d /\ k # d + 1
      <4>1. k \in 1..d /\ k - 1 \in 0..d /\ k - 1 # d /\ k \in 0..d
        BY <3>3
      <4>2. f[k - 1] = c[k - 1] /\ f[k] = c[k]
        BY <1>5, <3>3, <4>1
      <4> QED BY <1>1, <4>1, <4>2 DEF Nest
    <3> QED BY <3>1, <3>2, <3>3
  <2>2. ASSUME NEW k \in 0..d + 1 PROVE f[k] <= f[0]
    <3>1. CASE k = d + 1 \/ k = d
      BY <1>0, <1>2, <1>3, <1>4, <1>5, <3>1
    <3>2. CASE k # d /\ k # d + 1
      <4>1. k \in 0..d
        BY <3>2
      <4> QED BY <1>1, <1>5, <3>2, <4>1 DEF Nest, p
    <3> QED BY <3>1, <3>2
  <2> QED BY <1>5, <2>1, <2>2 DEF Nest
<1>7. j + 2 <= p /\ j + 2 \in j..Len(t) + 1
  BY <1>0, <1>2, <1>3, <1>4
<1>8. j..j + 2 - 1 \subseteq BareProse(t) /\ AtBlock(t, j + 2, d + 1)
  <2>1. Rest(t, j, p, Quote)
    BY <1>1 DEF p
  <2> DEFINE m == j + 2
             h == d + 1
  <2>2. h \in Nat /\ m \in j..Len(t) + 1 /\ m <= p /\ Nest(t, m, h, f)
    BY <1>6, <1>7
  <2>3. j..m - 1 \subseteq BareProse(t) /\ AtBlock(t, m, h)
    <3> HIDE DEF m, h
    <3> QED BY <1>2, <1>5, <2>1, <2>2, BlockMoves
  <2> QED BY <2>3
<1> QED BY <1>8

\* The innermost comment closes.
LEMMA BlockCloses ==
  ASSUME NEW t \in Seq(Char), NEW j \in 1..Len(t), NEW d \in Nat \ {0}, AtBlock(t, j, d),
         Starts(t, j, Dash, Slash)
  PROVE  /\ {j, j + 1} \subseteq BareProse(t)
         /\ d = 1 => AtCode(t, j + 2)
         /\ d > 1 => AtBlock(t, j + 2, d - 1)
<1>1. PICK c : Nest(t, j, d, c) /\ Rest(t, j, c[0], Quote)
  BY DEF AtBlock
<1> DEFINE f == [k \in 0..d - 1 |-> c[k]]
           p == c[0]
<1>2. c[d - 1] = BlockEnds(t)[j] /\ BlockEnds(t)[j] <= p /\ p \in 1..Len(t) + 1
  BY <1>1, NestTop
<1>0. Len(t) \in Nat /\ j + 2 \in j..Len(t) + 1 /\ j \in 1..Len(t) + 1
  BY DEF Starts
<1>3. BlockEnds(t)[j] = j + 2
  <2>1. BlockEnds(t)[j] = EndStep(t, BlockEnds(t), j) /\ ~(j > Len(t))
    BY EndsAre
  <2> QED BY <2>1 DEF EndStep
<1>4. f \in [0..d - 1 -> 1..Len(t) + 1] /\ f[d - 1] = j + 2 /\ f[0] = p
      /\ \A k \in 0..d - 1 : f[k] = c[k]
  <2>1. c \in [0..d -> 1..Len(t) + 1]
    BY <1>1 DEF Nest
  <2> QED BY <1>2, <1>3, <2>1
<1> HIDE DEF f, p
<1>5. Nest(t, j + 2, d - 1, f)
  <2>1. \A k \in 1..d - 1 : k \in 1..d /\ k - 1 \in 0..d - 1 /\ k \in 0..d - 1
    OBVIOUS
  <2>2. \A k \in 0..d - 1 : k \in 0..d
    OBVIOUS
  <2>3. ASSUME NEW k \in 1..d - 1 PROVE f[k - 1] = BlockEnds(t)[f[k]]
    BY <1>1, <1>4, <2>1 DEF Nest
  <2>4. ASSUME NEW k \in 0..d - 1 PROVE f[k] <= f[0]
    BY <1>1, <1>4, <2>2 DEF Nest, p
  <2> QED BY <1>4, <2>3, <2>4 DEF Nest
<1>6. Rest(t, j, p, Quote) /\ j + 2 <= p
  BY <1>1, <1>2, <1>3 DEF p
<1>7. j..j + 2 - 1 \subseteq BareProse(t) /\ AtBlock(t, j + 2, d - 1)
  <2> DEFINE m == j + 2
             h == d - 1
  <2>1. h \in Nat /\ m \in j..Len(t) + 1 /\ m <= p /\ Nest(t, m, h, f)
    BY <1>0, <1>5, <1>6
  <2>2. j..m - 1 \subseteq BareProse(t) /\ AtBlock(t, m, h)
    <3> HIDE DEF m, h
    <3> QED BY <1>2, <1>4, <1>6, <2>1, BlockMoves
  <2> QED BY <2>2
<1>8. ASSUME d = 1 PROVE AtCode(t, j + 2)
  <2>1. p = j + 2
    BY <1>2, <1>3, <1>8 DEF p
  <2> QED BY <1>0, <1>6, <2>1, LeftCode
<1> QED BY <1>7, <1>8

(***************************************************************************)
(* Strings.                                                                *)
(***************************************************************************)
\* A string does not end before a place up to which no quote closes it.
LEMMA StringLasts ==
  ASSUME NEW t \in Seq(Char), NEW a \in 1..Len(t), NEW m \in a + 1..Len(t) + 1, t[a] = Quote,
         \A k \in a + 1..m - 1 : t[k] = Quote => Escaped(t, a, k)
  PROVE  m <= StringEnd(t, a) /\ StringEnd(t, a) \in a + 1..Len(t) + 1
<1> DEFINE e == StringEnd(t, a)
<1>0. Len(t) \in Nat
  OBVIOUS
<1>1. e \in a + 1..Len(t) + 1
  BY StringEnds
<1>2. CASE \E f \in a + 1..Len(t) : Closes(t, a, f)
  <2>1. PICK f \in a + 1..Len(t) : Closes(t, a, f)
    BY <1>2
  <2>2. e = f + 1
    BY <2>1, StringEnds
  <2>3. ~(f \in a + 1..m - 1)
    BY <2>1 DEF Closes
  <2> HIDE DEF e
  <2>4. m <= e
    BY <1>0, <2>2, <2>3
  <2> QED BY <1>1, <2>4 DEF e
<1>3. CASE \A f \in a + 1..Len(t) : ~Closes(t, a, f)
  <2>1. e = Len(t) + 1
    BY <1>3, StringEnds
  <2> HIDE DEF e
  <2>2. m <= e
    BY <1>0, <2>1
  <2> QED BY <1>1, <2>2 DEF e
<1> QED BY <1>2, <1>3

\* The lexer goes on to m, in the same string.
LEMMA StringMoves ==
  ASSUME NEW t \in Seq(Char), NEW j \in 1..Len(t), NEW a \in 1..j, t[a] = Quote,
         NEW m \in j..Len(t) + 1, a < m, m <= Len(t) => ~Escaped(t, a, m),
         \A k \in a + 1..m - 1 : t[k] = Quote => Escaped(t, a, k),
         Rest(t, j, StringEnd(t, a), Newline)
  PROVE  j..m - 1 \subseteq BareProse(t) /\ AtString(t, m)
<1>0. Len(t) \in Nat /\ a \in 1..Len(t) /\ a \in 1..m - 1 /\ j \in 1..Len(t) + 1
  OBVIOUS
<1> DEFINE e == StringEnd(t, a)
<1>1. e \in a + 1..Len(t) + 1 /\ m <= e
  <2>1. m \in a + 1..Len(t) + 1
    BY <1>0
  <2> QED BY <1>0, <2>1, StringLasts
<1>3. j..m - 1 \subseteq BareProse(t) /\ Rest(t, m, e, Newline)
  <2>1. e \in 1..Len(t) + 1 /\ Rest(t, j, e, Newline)
    BY <1>0, <1>1
  <2> HIDE DEF e
  <2> QED BY <1>0, <1>1, <2>1, LeftOf
<1> QED BY <1>0, <1>3, Zenon DEF AtString

\* A string opens.
LEMMA StringBegins ==
  ASSUME NEW t \in Seq(Char), NEW j \in 1..Len(t), AtCode(t, j), t[j] = Quote
  PROVE  j \in BareProse(t) /\ AtString(t, j + 1)
<1> DEFINE e == StringEnd(t, j)
<1>0. Len(t) \in Nat /\ j \in 1..j /\ j < j + 1 /\ j + 1 \in j..Len(t) + 1
  OBVIOUS
<1>1. e \in j + 1..Len(t) + 1
  BY StringEnds
<1>2. BareEnd(t, j) = e
  BY DEF BareEnd, Starts, Quote, Dash, Slash
<1> HIDE DEF e
<1>3. Rest(t, j, e, Newline)
  <2>1. BareTame(t) => \A k \in j..e - 1 : t[k] # Newline
    <3>1. j \in BareCuts(t)[1]
      BY <1>0 DEF AtCode, Cut
    <3> QED BY <1>2, <3>1 DEF BareTame
  <2> QED BY <1>1, <1>2, <2>1, CodeLeft
<1>4. Rest(t, j, StringEnd(t, j), Newline)
  BY <1>3 DEF e
<1>5. ~Escaped(t, j, j + 1)
  BY <1>0 DEF Escaped
<1>6. \A k \in j + 1..j + 1 - 1 : t[k] = Quote => Escaped(t, j, k)
  BY <1>0
<1>7. j..j + 1 - 1 \subseteq BareProse(t) /\ AtString(t, j + 1)
  BY <1>0, <1>4, <1>5, <1>6, StringMoves
<1> QED BY <1>0, <1>7

\* A character of a string that is no escape.
LEMMA StringIn ==
  ASSUME NEW t \in Seq(Char), NEW j \in 1..Len(t), AtString(t, j), t[j] # Quote,
         ~(t[j] = Backslash /\ j < Len(t))
  PROVE  j \in BareProse(t) /\ AtString(t, j + 1)
<1>0. Len(t) \in Nat /\ j <= Len(t) /\ j + 1 \in j..Len(t) + 1
  OBVIOUS
<1>1. PICK a \in 1..j - 1 :
        /\ t[a] = Quote /\ ~Escaped(t, a, j)
        /\ \A k \in a + 1..j - 1 : t[k] = Quote => Escaped(t, a, k)
        /\ Rest(t, j, StringEnd(t, a), Newline)
  BY <1>0 DEF AtString
<1>2. a \in 1..Len(t) /\ j \in a + 1..Len(t)
  BY <1>0
<1>3. ASSUME j + 1 <= Len(t) PROVE ~Escaped(t, a, j + 1)
  <2>1. t[j] # Backslash
    BY <1>0, <1>3
  <2> QED BY <1>1, <1>2, <2>1, Escapes
<1>4. ASSUME NEW k \in a + 1..j + 1 - 1, t[k] = Quote PROVE Escaped(t, a, k)
  <2>1. k = j \/ k \in a + 1..j - 1
    BY <1>0, <1>2
  <2> QED BY <1>1, <1>4, <2>1
<1>5. j..j + 1 - 1 \subseteq BareProse(t) /\ AtString(t, j + 1)
  BY <1>0, <1>1, <1>3, <1>4, StringMoves
<1>6. j \in j..j + 1 - 1
  BY <1>0
<1> QED BY <1>5, <1>6

\* A backslash takes the character behind it into the string.
LEMMA StringEscapes ==
  ASSUME NEW t \in Seq(Char), NEW j \in 1..Len(t), AtString(t, j), t[j] = Backslash, j < Len(t)
  PROVE  {j, j + 1} \subseteq BareProse(t) /\ AtString(t, j + 2)
<1>0. Len(t) \in Nat /\ j <= Len(t) /\ j + 2 \in j..Len(t) + 1
  OBVIOUS
<1>1. PICK a \in 1..j - 1 :
        /\ t[a] = Quote /\ ~Escaped(t, a, j)
        /\ \A k \in a + 1..j - 1 : t[k] = Quote => Escaped(t, a, k)
        /\ Rest(t, j, StringEnd(t, a), Newline)
  BY <1>0 DEF AtString
<1>2. a \in 1..Len(t) /\ j \in a + 1..Len(t)
  BY <1>0
<1>3. Escaped(t, a, j + 1) /\ ~Escaped(t, a, j + 2)
  BY <1>1, <1>2, Escapes
<1>4. ASSUME NEW k \in a + 1..j + 2 - 1, t[k] = Quote PROVE Escaped(t, a, k)
  <2>1. k = j \/ k = j + 1 \/ k \in a + 1..j - 1
    BY <1>0, <1>2
  <2>2. k # j
    BY <1>4 DEF Quote, Backslash
  <2> QED BY <1>1, <1>3, <1>4, <2>1, <2>2
<1>5. j..j + 2 - 1 \subseteq BareProse(t) /\ AtString(t, j + 2)
  BY <1>0, <1>1, <1>3, <1>4, StringMoves
<1>6. {j, j + 1} \subseteq j..j + 2 - 1
  BY <1>0
<1> QED BY <1>5, <1>6

\* No string of a tame file escapes the end of a line.
LEMMA EscapePlain ==
  ASSUME NEW t \in Seq(Char), BareTame(t), NEW j \in 1..Len(t), AtString(t, j),
         t[j] = Backslash, j < Len(t)
  PROVE  t[j + 1] # Newline
<1>0. Len(t) \in Nat /\ j <= Len(t)
  OBVIOUS
<1>1. PICK a \in 1..j - 1 :
        /\ t[a] = Quote /\ ~Escaped(t, a, j)
        /\ \A k \in a + 1..j - 1 : t[k] = Quote => Escaped(t, a, k)
        /\ Rest(t, j, StringEnd(t, a), Newline)
  BY <1>0 DEF AtString
<1>2. a \in 1..Len(t) /\ j \in a + 1..Len(t)
  BY <1>0
<1>3. Escaped(t, a, j + 1)
  BY <1>1, <1>2, Escapes
<1> DEFINE m == j + 2
<1>4. ASSUME NEW k \in a + 1..m - 1, t[k] = Quote PROVE Escaped(t, a, k)
  <2>1. k = j \/ k = j + 1 \/ k \in a + 1..j - 1
    BY <1>0, <1>2
  <2>2. k # j
    BY <1>4 DEF Quote, Backslash
  <2> QED BY <1>1, <1>3, <1>4, <2>1, <2>2
<1>5. m \in a + 1..Len(t) + 1
  BY <1>0, <1>2
<1>6. m <= StringEnd(t, a) /\ StringEnd(t, a) \in a + 1..Len(t) + 1
  <2> HIDE DEF m
  <2> QED BY <1>1, <1>2, <1>4, <1>5, StringLasts
<1> DEFINE e == StringEnd(t, a)
<1> HIDE DEF e
<1>7. j + 1 \in j..e - 1
  BY <1>0, <1>6 DEF e
<1> QED BY <1>1, <1>7 DEF Rest, e

\* The first quote that is not escaped closes the string.
LEMMA StringCloses ==
  ASSUME NEW t \in Seq(Char), NEW j \in 1..Len(t), AtString(t, j), t[j] = Quote
  PROVE  j \in BareProse(t) /\ AtCode(t, j + 1)
<1>0. Len(t) \in Nat /\ j <= Len(t) /\ j + 1 \in j..Len(t) + 1 /\ j \in 1..Len(t) + 1
  OBVIOUS
<1>1. PICK a \in 1..j - 1 :
        /\ t[a] = Quote /\ ~Escaped(t, a, j)
        /\ \A k \in a + 1..j - 1 : t[k] = Quote => Escaped(t, a, k)
        /\ Rest(t, j, StringEnd(t, a), Newline)
  BY <1>0 DEF AtString
<1>2. a \in 1..Len(t) /\ j \in a + 1..Len(t) /\ a < j
  BY <1>0
<1>3. Closes(t, a, j)
  BY <1>1, <1>2 DEF Closes
<1>4. StringEnd(t, a) = j + 1
  BY <1>2, <1>3, StringEnds
<1>5. Rest(t, j, j + 1, Newline)
  BY <1>1, <1>4
<1>6. j..j + 1 - 1 \subseteq BareProse(t) /\ AtCode(t, j + 1)
  BY <1>0, <1>5, LeftCode
<1> QED BY <1>0, <1>6

(***************************************************************************)
(* The invariant.                                                          *)
(***************************************************************************)
\* The character c may stand at k of the result.
Fits(t, k, c) == IF k \in BareProse(t) THEN c \in {Blank, Newline} ELSE c = t[k]

\* The result so far is what the grammar says, and the lexer knows where it is.
Told == \A k \in DOMAIN result : Fits(source, k, result[k])
Place ==
  /\ in_string => block_depth = 0 /\ AtString(source, i)
  /\ block_depth > 0 => AtBlock(source, i, block_depth)
  /\ block_depth = 0 /\ ~in_string => AtCode(source, i)
AtEnd == gate = "done" => i > Len(source)

GInv == IInv /\ Told /\ Place /\ AtEnd

\* What the numerical-data gate emits is what the grammar says.
LEMMA EmitTold ==
  ASSUME IInv, Told, NEW w \in Seq(Char), Emit(w),
         \A k \in 1..Len(w) : Fits(source, i + k - 1, w[k])
  PROVE  Told' /\ AtEnd'
<1>1. source \in Seq(Char) /\ i \in 1..Len(source) + 1 /\ result \in Seq(Char)
      /\ Len(result) = i - 1
  BY DEF IInv, TypeOK, AllGood
<1>2. result' = result \o w /\ UNCHANGED <<source, gate>> /\ gate = "data"
  BY DEF Emit
<1>3. Len(w) \in Nat /\ Len(result) \in Nat
  BY <1>1
<1>4. Len(result') = Len(result) + Len(w) /\ result' \in Seq(Char)
  BY <1>1, <1>2, ConcatProperties
<1>5. ASSUME NEW k \in DOMAIN result' PROVE Fits(source, k, result'[k])
  <2>0. k \in 1..Len(result) + Len(w) /\ k \in Int
    BY <1>3, <1>4, LenProperties
  <2>1. CASE k <= Len(result)
    <3>1. result'[k] = result[k] /\ k \in DOMAIN result
      BY <1>1, <1>2, <1>3, <2>0, <2>1, ConcatProperties, LenProperties
    <3> QED BY <3>1 DEF Told
  <2>2. CASE k > Len(result)
    <3>1. k - Len(result) \in 1..Len(w) /\ i + (k - Len(result)) - 1 = k
      BY <1>1, <1>3, <2>0, <2>2
    <3>2. (result \o w)[k] = w[k - Len(result)]
      BY <1>1, <1>3, <2>0, <2>2, ConcatProperties
    <3> QED BY <1>2, <3>1, <3>2
  <2> QED BY <2>0, <2>1, <2>2, <1>3
<1>6. Told'
  BY <1>2, <1>5 DEF Told
<1> QED BY <1>2, <1>6 DEF AtEnd

\* Code begins at the beginning of the file.
LEMMA GInit ==
  ASSUME Init
  PROVE  GInv
<1>1. IInv
  BY InitHolds
<1>2. source \in Seq(Char) /\ i = 1 /\ block_depth = 0 /\ in_string = FALSE /\ result = <<>>
      /\ gate = "style"
  BY <1>1 DEF Init, IInv, TypeOK
<1>3. AtCode(source, 1)
  BY <1>2, CutsOn DEF AtCode, Left, BareProse, ProseFrom
<1>4. Told
  BY <1>2 DEF Told
<1> QED BY <1>1, <1>2, <1>3, <1>4 DEF GInv, Place, AtEnd

\* Every step leaves the lexer where the grammar is.
LEMMA GStep ==
  ASSUME GInv, [Next]_vars
  PROVE  GInv'
<1>0. IInv /\ Told /\ Place /\ AtEnd /\ IInv'
  BY StepHolds DEF GInv
<1>i. i \in 1..Len(source) + 1 /\ source \in Seq(Char) /\ Len(source) \in Nat
      /\ block_depth \in Nat /\ in_string \in BOOLEAN
  BY <1>0 DEF IInv, TypeOK
<1>p. /\ in_string => block_depth = 0 /\ AtString(source, i)
      /\ block_depth > 0 => AtBlock(source, i, block_depth)
      /\ block_depth = 0 /\ ~in_string => AtCode(source, i)
  BY <1>0 DEF Place
<1>l. i <= Len(source) => i \in 1..Len(source)
  BY <1>i
<1>c. ASSUME Emit(<<Blank, Blank>>), {i, i + 1} \subseteq BareProse(source)
      PROVE  Told' /\ AtEnd' /\ source' = source /\ i' = i + 2
  <2>1. <<Blank, Blank>> \in Seq(Char) /\ Len(<<Blank, Blank>>) = 2
    BY DEF Char
  <2>2. \A k \in 1..2 : (k = 1 \/ k = 2) /\ i + 1 - 1 = i /\ i + 2 - 1 = i + 1
    BY <1>i
  <2>3. \A k \in 1..2 : Fits(source, i + k - 1, <<Blank, Blank>>[k])
    BY <1>c, <2>2 DEF Fits
  <2>4. Told' /\ AtEnd'
    BY <1>0, <1>c, <2>1, <2>3, EmitTold
  <2> QED BY <1>c, <2>1, <2>4 DEF Emit
<1>d. ASSUME NEW c \in Char, Emit(<<c>>), Fits(source, i, c)
      PROVE  Told' /\ AtEnd' /\ source' = source /\ i' = i + 1
  <2>1. <<c>> \in Seq(Char) /\ Len(<<c>>) = 1
    OBVIOUS
  <2>2. \A k \in 1..1 : Fits(source, i + k - 1, <<c>>[k])
    BY <1>d, <1>i
  <2>3. Told' /\ AtEnd'
    BY <1>0, <1>d, <2>1, <2>2, EmitTold
  <2> QED BY <1>d, <2>1, <2>3 DEF Emit
<1>e. ASSUME i \in BareProse(source) PROVE Fits(source, i, Blank) /\ Blank \in Char
  BY <1>e DEF Fits, Char
<1>f. ASSUME i \in BareProse(source), i <= Len(source)
      PROVE  Fits(source, i, Shadow(source[i])) /\ Shadow(source[i]) \in Char
  BY <1>f DEF Fits, Char, Shadow
<1>q. ASSUME Told', AtEnd', Place' PROVE GInv'
  BY <1>0, <1>q DEF GInv
<1>1. CASE StyleOpen \/ StyleClose \/ StyleKeep \/ StyleNextLine
  <2>1. UNCHANGED <<source, i, block_depth, in_string, result>> /\ gate = "style"
        /\ gate' \in {"style", "data"}
    BY <1>1 DEF StyleOpen, StyleClose, StyleKeep, StyleNextLine, data
  <2>2. Told' /\ AtEnd'
    BY <1>0, <2>1 DEF Told, AtEnd
  <2> QED BY <1>0, <1>q, <2>1, <2>2 DEF Place
<1>2. CASE OpenBlock
  <2>1. /\ ~in_string /\ Starts(source, i, Slash, Dash) /\ i <= Len(source)
        /\ block_depth' = block_depth + 1 /\ in_string' = in_string /\ Emit(<<Blank, Blank>>)
    BY <1>2, <1>i DEF OpenBlock, Starts
  <2>2. {i, i + 1} \subseteq BareProse(source) /\ AtBlock(source, i + 2, block_depth + 1)
    <3>1. CASE block_depth = 0
      BY <1>i, <1>l, <1>p, <2>1, <3>1, BlockBegins
    <3>2. CASE block_depth > 0
      BY <1>i, <1>l, <1>p, <2>1, <3>2, BlockOpens
    <3> QED BY <1>i, <3>1, <3>2
  <2>3. Told' /\ AtEnd' /\ source' = source /\ i' = i + 2
    BY <1>c, <2>1, <2>2
  <2>4. Place'
    BY <1>i, <2>1, <2>2, <2>3 DEF Place
  <2> QED BY <1>q, <2>3, <2>4
<1>3. CASE CloseBlock
  <2>1. /\ block_depth > 0 /\ Starts(source, i, Dash, Slash) /\ i <= Len(source)
        /\ block_depth' = block_depth - 1 /\ in_string' = in_string /\ Emit(<<Blank, Blank>>)
    BY <1>3, <1>i DEF CloseBlock, Starts
  <2>2. /\ {i, i + 1} \subseteq BareProse(source)
        /\ block_depth = 1 => AtCode(source, i + 2)
        /\ block_depth > 1 => AtBlock(source, i + 2, block_depth - 1)
    BY <1>i, <1>l, <1>p, <2>1, BlockCloses
  <2>3. Told' /\ AtEnd' /\ source' = source /\ i' = i + 2
    BY <1>c, <2>1, <2>2
  <2>4. ~in_string
    BY <1>p, <2>1
  <2>5. Place'
    BY <1>i, <2>1, <2>2, <2>3, <2>4 DEF Place
  <2> QED BY <1>q, <2>3, <2>5
<1>4. CASE InBlock
  <2>1. /\ block_depth > 0 /\ i <= Len(source) /\ ~Starts(source, i, Slash, Dash)
        /\ ~Starts(source, i, Dash, Slash) /\ Emit(<<Shadow(source[i])>>)
        /\ UNCHANGED <<block_depth, in_string>>
    BY <1>4 DEF InBlock
  <2>2. i \in BareProse(source) /\ AtBlock(source, i + 1, block_depth)
    BY <1>i, <1>l, <1>p, <2>1, BlockIn
  <2>3. Told' /\ AtEnd' /\ source' = source /\ i' = i + 1
    BY <1>d, <1>f, <2>1, <2>2
  <2>4. Place'
    BY <1>p, <2>1, <2>2, <2>3 DEF Place
  <2> QED BY <1>q, <2>3, <2>4
<1>5. CASE Escape
  <2>1. /\ in_string /\ i < Len(source) /\ source[i] = Backslash /\ Emit(<<Blank, Blank>>)
        /\ UNCHANGED <<block_depth, in_string>>
    BY <1>5 DEF Escape
  <2>2. {i, i + 1} \subseteq BareProse(source) /\ AtString(source, i + 2)
    BY <1>i, <1>l, <1>p, <2>1, StringEscapes
  <2>3. Told' /\ AtEnd' /\ source' = source /\ i' = i + 2
    BY <1>c, <2>1, <2>2
  <2>4. Place'
    BY <1>p, <2>1, <2>2, <2>3 DEF Place
  <2> QED BY <1>q, <2>3, <2>4
<1>6. CASE EndString
  <2>1. /\ in_string /\ i <= Len(source) /\ source[i] = Quote /\ in_string' = FALSE
        /\ Emit(<<Blank>>) /\ block_depth' = block_depth
    BY <1>6 DEF EndString
  <2>2. i \in BareProse(source) /\ AtCode(source, i + 1)
    BY <1>i, <1>l, <1>p, <2>1, StringCloses
  <2>3. Told' /\ AtEnd' /\ source' = source /\ i' = i + 1
    BY <1>d, <1>e, <2>1, <2>2
  <2>4. Place'
    BY <1>p, <2>1, <2>2, <2>3 DEF Place
  <2> QED BY <1>q, <2>3, <2>4
<1>7. CASE InString
  <2>1. /\ in_string /\ i <= Len(source) /\ source[i] # Quote
        /\ ~(source[i] = Backslash /\ i < Len(source)) /\ Emit(<<Shadow(source[i])>>)
        /\ UNCHANGED <<block_depth, in_string>>
    BY <1>7 DEF InString
  <2>2. i \in BareProse(source) /\ AtString(source, i + 1)
    BY <1>i, <1>l, <1>p, <2>1, StringIn
  <2>3. Told' /\ AtEnd' /\ source' = source /\ i' = i + 1
    BY <1>d, <1>f, <2>1, <2>2
  <2>4. Place'
    BY <1>p, <2>1, <2>2, <2>3 DEF Place
  <2> QED BY <1>q, <2>3, <2>4
<1>8. CASE LineComment
  <2>1. PICK e \in i + 1..Len(source) + 1 :
          EndsLine(source, i, e) /\ Emit([k \in 1..e - i |-> Blank])
    BY <1>8 DEF LineComment
  <2>2. /\ block_depth = 0 /\ ~in_string /\ i <= Len(source) /\ Starts(source, i, Dash, Dash)
        /\ UNCHANGED <<block_depth, in_string>>
    BY <1>8 DEF LineComment, InCode
  <2>3. i..e - 1 \subseteq BareProse(source) /\ AtCode(source, e)
    BY <1>i, <1>l, <1>p, <2>1, <2>2, LineTaken
  <2> DEFINE w == [k \in 1..e - i |-> Blank]
  <2>4. w \in Seq(Char) /\ Len(w) = e - i
    BY <1>i DEF Char
  <2>5. \A k \in 1..Len(w) : Fits(source, i + k - 1, w[k])
    <3>1. SUFFICES ASSUME NEW k \in 1..e - i PROVE Fits(source, i + k - 1, Blank)
      BY <2>4
    <3>2. i + k - 1 \in i..e - 1
      BY <1>i
    <3> QED BY <2>3, <3>2 DEF Fits
  <2>6. Emit(w)
    BY <2>1
  <2> HIDE DEF w
  <2>7. Told' /\ AtEnd'
    BY <1>0, <2>4, <2>5, <2>6, EmitTold
  <2>8. source' = source /\ i' = e
    <3>1. source' = source /\ i' = i + Len(w)
      BY <2>6 DEF Emit
    <3> QED BY <1>i, <2>4, <3>1
  <2>9. Place'
    BY <2>2, <2>3, <2>8 DEF Place
  <2> QED BY <1>q, <2>7, <2>9
<1>9. CASE OpenString
  <2>1. /\ block_depth = 0 /\ ~in_string /\ i <= Len(source) /\ source[i] = Quote
        /\ in_string' = TRUE /\ Emit(<<Blank>>) /\ block_depth' = block_depth
    BY <1>9 DEF OpenString, InCode
  <2>2. i \in BareProse(source) /\ AtString(source, i + 1)
    BY <1>i, <1>l, <1>p, <2>1, StringBegins
  <2>3. Told' /\ AtEnd' /\ source' = source /\ i' = i + 1
    BY <1>d, <1>e, <2>1, <2>2
  <2>4. Place'
    BY <2>1, <2>2, <2>3 DEF Place
  <2> QED BY <1>q, <2>3, <2>4
<1>10. CASE Keep
  <2>1. /\ block_depth = 0 /\ ~in_string /\ i <= Len(source) /\ source[i] # Quote
        /\ ~Starts(source, i, Dash, Dash) /\ ~Starts(source, i, Slash, Dash)
        /\ Emit(<<source[i]>>) /\ UNCHANGED <<block_depth, in_string>>
    BY <1>10 DEF Keep, InCode
  <2>2. BareEnd(source, i) = i
    BY <2>1 DEF BareEnd
  <2>3. i \notin BareProse(source) /\ AtCode(source, i + 1)
    BY <1>i, <1>l, <1>p, <2>1, <2>2, CodeKept
  <2>4. Fits(source, i, source[i]) /\ source[i] \in Char
    BY <1>i, <1>l, <2>1, <2>3 DEF Fits
  <2>5. Told' /\ AtEnd' /\ source' = source /\ i' = i + 1
    BY <1>d, <2>1, <2>4
  <2>6. Place'
    BY <2>1, <2>3, <2>5 DEF Place
  <2> QED BY <1>q, <2>5, <2>6
<1>11. CASE Finish
  <2>1. UNCHANGED <<source, i, block_depth, in_string, result>> /\ i > Len(source)
    BY <1>11 DEF Finish, data
  <2>2. Told' /\ AtEnd'
    BY <1>0, <2>1 DEF Told, AtEnd
  <2> QED BY <1>0, <1>q, <2>1, <2>2 DEF Place
<1>12. CASE UNCHANGED vars
  <2>1. UNCHANGED <<source, gate, i, block_depth, in_string, result>>
    BY <1>12 DEF vars, data
  <2>2. Told' /\ AtEnd'
    BY <1>0, <2>1 DEF Told, AtEnd
  <2> QED BY <1>0, <1>q, <2>1, <2>2 DEF Place
<1> QED
  BY <1>1, <1>2, <1>3, <1>4, <1>5, <1>6, <1>7, <1>8, <1>9, <1>10, <1>11, <1>12 DEF Next

\* Of any file without raw strings and without quotes in character literals, however its
\* comments nest and wherever they or a string break off, the numerical-data gate takes out
\* what the grammar says is comment or string, and nothing else.
THEOREM GrammarHolds == Spec => []ErasesByGrammar
<1>1. ASSUME GInv PROVE ErasesByGrammar
  <2>0. source \in Seq(Char)
    BY <1>1 DEF GInv, IInv, TypeOK
  <2>1. SUFFICES ASSUME gate = "done"
                 PROVE  /\ Len(result) = Len(source)
                        /\ \A k \in 1..Len(source) : Fits(source, k, result[k])
    BY <2>0, OrdinaryIsBare DEF ErasesByGrammar, Erased, Fits
  <2>2. /\ source \in Seq(Char) /\ result \in Seq(Char) /\ i \in 1..Len(source) + 1
        /\ Len(result) = i - 1 /\ i > Len(source)
    BY <1>1, <2>1 DEF GInv, IInv, TypeOK, AllGood, AtEnd
  <2>3. Len(result) = Len(source)
    BY <2>2
  <2>4. DOMAIN result = 1..Len(source)
    BY <2>2, <2>3
  <2> QED BY <1>1, <2>3, <2>4 DEF GInv, Told
<1> QED
  BY <1>1, GInit, GStep, PTL DEF Spec

(***************************************************************************)
(* Words.                                                                  *)
(***************************************************************************)
\* The equation of Flat.
AreFlat(ss, f) == f = [n \in 0..Len(ss) |-> IF n = 0 THEN <<>> ELSE f[n - 1] \o ss[n]]
FlatTo(ss) == CHOOSE f : AreFlat(ss, f)

\* Flat is defined from each sequence to the next one.
LEMMA FlatIs ==
  ASSUME NEW ss \in Seq(Seq(Char))
  PROVE  /\ FlatTo(ss)[0] = <<>> /\ Flat(ss) = FlatTo(ss)[Len(ss)]
         /\ \A n \in 1..Len(ss) : FlatTo(ss)[n] = FlatTo(ss)[n - 1] \o ss[n]
         /\ \A n \in 0..Len(ss) : FlatTo(ss)[n] \in Seq(Char)
<1> DEFINE N == Len(ss)
           S == Seq(Char)
           g == [n \in 1..N |-> [x \in S |-> x \o ss[n]]]
           F == FlatTo(ss)
<1>1. N \in Nat /\ \A n \in 1..N : ss[n] \in S
  OBVIOUS
<1>2. \A n \in 1..N : \A x \in S : x \o ss[n] \in S
  BY <1>1, ConcatProperties
<1>3. g \in [1..N -> [S -> S]] /\ <<>> \in S
  BY <1>2
<1> HIDE DEF S
<1>4. PICK f \in [0..N -> S] : f[0] = <<>> /\ \A n \in 1..N : f[n] = g[n][f[n - 1]]
  <2> DEFINE b == <<>>
  <2>1. N \in Nat /\ b \in S /\ g \in [1..N -> [S -> S]]
    BY <1>1, <1>3
  <2> HIDE DEF g, N, b
  <2>2. \E f : Scans(f, N, S, b, g)
    BY <2>1, Scan
  <2> QED BY <2>2 DEF b, Scans
<1>5. \A n \in 1..N : f[n - 1] \in S /\ f[n] = f[n - 1] \o ss[n]
  <2> SUFFICES ASSUME NEW n \in 1..N PROVE f[n - 1] \in S /\ f[n] = f[n - 1] \o ss[n]
    OBVIOUS
  <2>1. n - 1 \in 0..N
    BY <1>1
  <2> QED BY <1>4, <2>1
<1>6. AreFlat(ss, f)
  <2>1. f = [n \in 0..N |-> IF n = 0 THEN <<>> ELSE f[n - 1] \o ss[n]]
    <3>1. f = [n \in 0..N |-> f[n]]
      BY <1>4
    <3>2. \A n \in 0..N : n = 0 \/ n \in 1..N
      BY <1>1
    <3>3. \A n \in 0..N : f[n] = IF n = 0 THEN <<>> ELSE f[n - 1] \o ss[n]
      BY <1>4, <1>5, <3>2
    <3> QED BY <3>1, <3>3
  <2> QED BY <2>1 DEF AreFlat
<1>7. AreFlat(ss, F)
  BY <1>6 DEF FlatTo
<1>8. F[0] = <<>> /\ \A n \in 1..N : F[n] = F[n - 1] \o ss[n]
  <2>1. \A n \in 0..N : F[n] = IF n = 0 THEN <<>> ELSE F[n - 1] \o ss[n]
    BY <1>7 DEF AreFlat
  <2>2. 0 \in 0..N /\ \A n \in 1..N : n \in 0..N /\ n # 0
    BY <1>1
  <2> QED BY <2>1, <2>2
<1>9. Flat(ss) = F[N]
  BY DEF Flat, FlatTo, AreFlat
<1>10. \A n \in 0..N : F[n] \in S
  <2> HIDE DEF F, N
  <2> DEFINE T == {n \in 0..N : F[n] \in S}
  <2>1. 0 \in T
    BY <1>1, <1>3, <1>8
  <2>2. ASSUME NEW n \in 1..N, n - 1 \in T PROVE n \in T
    <3>1. F[n - 1] \in S
      BY <2>2
    <3>2. F[n] = F[n - 1] \o ss[n]
      BY <1>8
    <3>3. n \in 0..N
      BY <1>1
    <3> QED BY <1>2, <3>1, <3>2, <3>3
  <2> HIDE DEF T
  <2>3. 0..N \subseteq T
    BY <1>1, <2>1, <2>2, Climb
  <2> QED BY <2>3 DEF T
<1> QED BY <1>8, <1>9, <1>10 DEF S

\* Of no sequences nothing is left.
LEMMA FlatEmpty == Flat(<<>>) = <<>>
<1>1. <<>> \in Seq(Seq(Char)) /\ Len(<<>>) = 0
  OBVIOUS
<1> QED BY <1>1, FlatIs

\* A sequence more is added behind.
LEMMA FlatAppend ==
  ASSUME NEW ss \in Seq(Seq(Char)), NEW x \in Seq(Char)
  PROVE  Flat(ss) \in Seq(Char) /\ Flat(Append(ss, x)) = Flat(ss) \o x
<1> DEFINE N == Len(ss)
           F == FlatTo(ss)
           rr == Append(ss, x)
           G == FlatTo(rr)
<1>1. N \in Nat /\ rr \in Seq(Seq(Char)) /\ Len(rr) = N + 1 /\ rr[N + 1] = x
      /\ \A n \in 1..N : rr[n] = ss[n]
  BY AppendProperties
<1>2. F[0] = <<>> /\ Flat(ss) = F[N] /\ \A n \in 1..N : F[n] = F[n - 1] \o ss[n]
  BY FlatIs
<1>3. F[N] \in Seq(Char)
  <2>1. N \in 0..N
    BY <1>1
  <2> QED BY <2>1, FlatIs
<1> HIDE DEF rr
<1>4. G[0] = <<>> /\ Flat(rr) = G[N + 1] /\ \A n \in 1..N + 1 : G[n] = G[n - 1] \o rr[n]
  BY <1>1, FlatIs
<1> HIDE DEF F, G, N
<1>5. G[N] = F[N]
  <2> DEFINE T == {n \in 0..N : G[n] = F[n]}
  <2>1. 0 \in T
    BY <1>1, <1>2, <1>4
  <2>2. ASSUME NEW n \in 1..N, n - 1 \in T PROVE n \in T
    <3>1. n \in 1..N + 1 /\ n \in 0..N
      BY <1>1
    <3>2. G[n] = G[n - 1] \o rr[n] /\ F[n] = F[n - 1] \o ss[n] /\ rr[n] = ss[n]
      BY <1>1, <1>2, <1>4, <3>1
    <3>3. G[n - 1] = F[n - 1]
      BY <2>2
    <3> QED BY <3>1, <3>2, <3>3
  <2> HIDE DEF T
  <2>3. 0..N \subseteq T
    BY <1>1, <2>1, <2>2, Climb
  <2>4. N \in 0..N
    BY <1>1
  <2> QED BY <2>3, <2>4 DEF T
<1>6. G[N + 1] = G[N] \o x
  <2>1. N + 1 \in 1..N + 1 /\ (N + 1) - 1 = N
    BY <1>1
  <2> QED BY <1>1, <1>4, <2>1
<1> QED BY <1>2, <1>3, <1>4, <1>5, <1>6 DEF rr

WordOf(c) == IF c \in {Blank, Quote} THEN <<>> ELSE <<c>>

\* A character more adds its word behind.
LEMMA WordsAppend ==
  ASSUME NEW u \in Seq(Char), NEW c \in Char
  PROVE  Words(Append(u, c)) = Words(u) \o WordOf(c)
<1> DEFINE N == Len(u)
           r == [k \in 1..N |-> WordOf(u[k])]
           w == Append(u, c)
           q == [k \in 1..N + 1 |-> WordOf(w[k])]
<1>1. N \in Nat /\ Len(w) = N + 1 /\ w[N + 1] = c /\ \A k \in 1..N : w[k] = u[k] /\ u[k] \in Char
  BY AppendProperties
<1>2. \A x \in Char : WordOf(x) \in Seq(Char)
  BY DEF WordOf
<1>3. r \in Seq(Seq(Char)) /\ Len(r) = N
  BY <1>1, <1>2
<1>4. q = Append(r, WordOf(c))
  <2>1. Len(Append(r, WordOf(c))) = N + 1 /\ Append(r, WordOf(c))[N + 1] = WordOf(c)
        /\ \A k \in 1..N : Append(r, WordOf(c))[k] = r[k]
    BY <1>1, <1>2, <1>3, AppendProperties
  <2>2. Append(r, WordOf(c)) \in Seq(Seq(Char)) /\ q \in Seq(Seq(Char)) /\ Len(q) = N + 1
    <3>1. \A k \in 1..N + 1 : w[k] \in Char
      BY <1>1
    <3> QED BY <1>1, <1>2, <1>3, <3>1, AppendProperties
  <2>3. \A k \in 1..N + 1 : q[k] = Append(r, WordOf(c))[k]
    <3>1. \A k \in 1..N + 1 : k = N + 1 \/ k \in 1..N
      BY <1>1
    <3> QED BY <1>1, <2>1, <3>1
  <2> HIDE DEF q, r
  <2> QED BY <2>1, <2>2, <2>3, SeqEqual
<1>5. Words(u) = Flat(r) /\ Words(w) = Flat(q)
  BY <1>1 DEF Words, WordOf
<1> HIDE DEF q, r
<1> QED BY <1>2, <1>3, <1>4, <1>5, FlatAppend DEF w

\* What the n-th line adds to the text.
LinePart(n, l) == IF n = 1 THEN l ELSE <<Newline>> \o l

\* A line more is added behind.
LEMMA JoinedAppend ==
  ASSUME NEW ls \in Seq(Seq(Char)), NEW l \in Seq(Char)
  PROVE  /\ Joined(ls) \in Seq(Char)
         /\ Joined(Append(ls, l)) = Joined(ls) \o LinePart(Len(ls) + 1, l)
<1> DEFINE N == Len(ls)
           r == [k \in 1..N |-> LinePart(k, ls[k])]
           w == Append(ls, l)
           q == [k \in 1..N + 1 |-> LinePart(k, w[k])]
           x == LinePart(N + 1, l)
<1>1. N \in Nat /\ Len(w) = N + 1 /\ w[N + 1] = l
      /\ \A k \in 1..N : w[k] = ls[k] /\ ls[k] \in Seq(Char)
  BY AppendProperties
<1>2. \A k, y : y \in Seq(Char) => LinePart(k, y) \in Seq(Char)
  <2>1. <<Newline>> \in Seq(Char)
    BY DEF Char
  <2> QED BY <2>1, ConcatProperties DEF LinePart
<1>3. r \in Seq(Seq(Char)) /\ Len(r) = N /\ x \in Seq(Char)
  BY <1>1, <1>2
<1>4. q = Append(r, x)
  <2> HIDE DEF x
  <2>1. Append(r, x) \in Seq(Seq(Char)) /\ Len(Append(r, x)) = N + 1 /\ Append(r, x)[N + 1] = x
        /\ \A k \in 1..N : Append(r, x)[k] = r[k]
    BY <1>1, <1>3, AppendProperties
  <2>2. q \in Seq(Seq(Char)) /\ Len(q) = N + 1
    <3>1. \A k \in 1..N + 1 : w[k] \in Seq(Char)
      BY <1>1
    <3>2. \A k \in 1..N + 1 : LinePart(k, w[k]) \in Seq(Char)
      BY <1>2, <3>1
    <3>3. q \in [1..N + 1 -> Seq(Char)]
      BY <3>2
    <3> QED BY <1>1, <3>3
  <2>3. \A k \in 1..N + 1 : q[k] = Append(r, x)[k]
    <3>1. \A k \in 1..N + 1 : k = N + 1 \/ k \in 1..N
      BY <1>1
    <3> QED BY <1>1, <2>1, <3>1 DEF x
  <2> HIDE DEF q, r
  <2> QED BY <2>1, <2>2, <2>3, SeqEqual
<1>5. Joined(ls) = Flat(r) /\ Joined(w) = Flat(q)
  BY <1>1 DEF Joined, LinePart
<1> HIDE DEF q, r, x, w
<1> QED BY <1>3, <1>4, <1>5, FlatAppend DEF w, x

\* The text so far, of which l is the last line: a character more, an empty line more.
LEMMA JoinedGrows ==
  ASSUME NEW ls \in Seq(Seq(Char)), NEW l \in Seq(Char), NEW c \in Char
  PROVE  /\ Joined(Append(ls, l)) \in Seq(Char)
         /\ Joined(Append(ls, Append(l, c))) = Append(Joined(Append(ls, l)), c)
         /\ Joined(Append(Append(ls, l), <<>>)) = Append(Joined(Append(ls, l)), Newline)
<1> DEFINE n == Len(ls) + 1
           w == Append(ls, l)
<1>1. n \in Nat /\ w \in Seq(Seq(Char)) /\ Len(w) = n /\ Append(l, c) \in Seq(Char)
      /\ <<>> \in Seq(Char)
  BY AppendProperties
<1>2. Joined(ls) \in Seq(Char) /\ Joined(w) = Joined(ls) \o LinePart(n, l)
      /\ Joined(Append(ls, Append(l, c))) = Joined(ls) \o LinePart(n, Append(l, c))
  BY <1>1, JoinedAppend
<1>3. Joined(w) \in Seq(Char) /\ Joined(Append(w, <<>>)) = Joined(w) \o LinePart(n + 1, <<>>)
  <2> HIDE DEF w
  <2> QED BY <1>1, JoinedAppend
<1>4. LinePart(n, l) \in Seq(Char) /\ LinePart(n, Append(l, c)) = Append(LinePart(n, l), c)
  <2>1. <<Newline>> \in Seq(Char)
    BY DEF Char
  <2>2. <<Newline>> \o Append(l, c) = Append(<<Newline>> \o l, c)
    BY <2>1, <1>1
  <2> QED BY <1>1, <2>1, <2>2, ConcatProperties DEF LinePart
<1>5. Joined(ls) \o Append(LinePart(n, l), c) = Append(Joined(ls) \o LinePart(n, l), c)
  <2> DEFINE a == Joined(ls)
             b == LinePart(n, l)
  <2>1. a \in Seq(Char) /\ b \in Seq(Char)
    BY <1>2, <1>4
  <2>2. a \o Append(b, c) = Append(a \o b, c)
    <3> HIDE DEF a, b
    <3> QED BY <2>1
  <2> QED BY <2>2
<1>6. LinePart(n + 1, <<>>) = <<Newline>>
  <2>1. n + 1 # 1 /\ <<Newline>> \in Seq(Char)
    BY <1>1 DEF Char
  <2>2. <<Newline>> \o <<>> = <<Newline>>
    BY <2>1
  <2> QED BY <2>1, <2>2 DEF LinePart
<1>7. Joined(w) \o <<Newline>> = Append(Joined(w), Newline)
  <2> DEFINE a == Joined(w)
  <2>1. a \in Seq(Char)
    BY <1>3
  <2> HIDE DEF a
  <2>2. a \o <<Newline>> = Append(a, Newline)
    BY <2>1 DEF Char
  <2> QED BY <2>2 DEF a
<1> QED BY <1>2, <1>3, <1>4, <1>5, <1>6, <1>7

\* What the grammar leaves of the characters up to p: the ends of lines, and the code.
Drops(t, k) == (k \in BareProse(t) /\ t[k] # Newline) \/ t[k] \in {Blank, Quote}
KeptPart(t, k) == IF Drops(t, k) THEN <<>> ELSE <<t[k]>>
Kept(t, p) == Flat([k \in 1..p |-> KeptPart(t, k)])

\* What is kept up to p is what is kept before it, and what is kept of it.
LEMMA KeptStep ==
  ASSUME NEW t \in Seq(Char), NEW p \in 1..Len(t)
  PROVE  Kept(t, p - 1) \in Seq(Char) /\ Kept(t, p) = Kept(t, p - 1) \o KeptPart(t, p)
<1> DEFINE r == [k \in 1..p - 1 |-> KeptPart(t, k)]
           q == [k \in 1..p |-> KeptPart(t, k)]
           x == KeptPart(t, p)
<1>0. p - 1 \in Nat /\ p \in Nat /\ \A k \in 1..p : k \in 1..Len(t)
  OBVIOUS
<1>1. \A k \in 1..Len(t) : KeptPart(t, k) \in Seq(Char)
  BY DEF KeptPart
<1>2. r \in Seq(Seq(Char)) /\ Len(r) = p - 1 /\ x \in Seq(Char)
  BY <1>0, <1>1
<1>3. q \in Seq(Seq(Char)) /\ Len(q) = p
  BY <1>0, <1>1
<1>4. q = Append(r, x)
  <2>1. Append(r, x) \in Seq(Seq(Char)) /\ Len(Append(r, x)) = p /\ Append(r, x)[p] = x
        /\ \A k \in 1..p - 1 : Append(r, x)[k] = r[k]
    <3> HIDE DEF x, r
    <3> QED BY <1>0, <1>2, AppendProperties
  <2>2. \A k \in 1..p : q[k] = Append(r, x)[k]
    <3>1. \A k \in 1..p : k = p \/ k \in 1..p - 1
      BY <1>0
    <3> QED BY <1>0, <2>1, <3>1
  <2> HIDE DEF q, r, x
  <2> QED BY <1>3, <2>1, <2>2, SeqEqual
<1>5. Kept(t, p - 1) = Flat(r) /\ Kept(t, p) = Flat(q)
  BY DEF Kept
<1> HIDE DEF q, r, x
<1> QED BY <1>2, <1>4, <1>5, FlatAppend DEF x

\* Nothing is kept of characters that are dropped.
LEMMA KeptSkip ==
  ASSUME NEW t \in Seq(Char), NEW p \in 1..Len(t) + 1, NEW e \in p..Len(t) + 1,
         \A k \in p..e - 1 : Drops(t, k)
  PROVE  Kept(t, e - 1) = Kept(t, p - 1)
<1> DEFINE N == e - p
           T == {n \in 0..N : Kept(t, p - 1 + n) = Kept(t, p - 1)}
<1>1. N \in Nat /\ Len(t) \in Nat
  OBVIOUS
<1>2. 0 \in T
  <2>1. p - 1 + 0 = p - 1
    OBVIOUS
  <2> QED BY <1>1, <2>1
<1>3. ASSUME NEW n \in 1..N, n - 1 \in T PROVE n \in T
  <2> DEFINE k == p - 1 + n
  <2>1. k \in 1..Len(t) /\ k \in p..e - 1 /\ k - 1 = p - 1 + (n - 1) /\ n \in 0..N
    BY <1>1
  <2>2. Kept(t, k - 1) \in Seq(Char) /\ Kept(t, k) = Kept(t, k - 1) \o KeptPart(t, k)
    <3> HIDE DEF k
    <3> QED BY <2>1, KeptStep
  <2>3. KeptPart(t, k) = <<>>
    BY <2>1 DEF KeptPart
  <2>4. Kept(t, k) = Kept(t, k - 1)
    <3> HIDE DEF k
    <3> QED BY <2>2, <2>3
  <2>5. Kept(t, p - 1 + (n - 1)) = Kept(t, p - 1)
    BY <1>3
  <2> QED BY <2>1, <2>4, <2>5
<1>4. 0..N \subseteq T
  <2> HIDE DEF T
  <2> QED BY <1>1, <1>2, <1>3, Climb
<1>5. Kept(t, p - 1 + N) = Kept(t, p - 1)
  <2>1. N \in T
    <3>1. N \in 0..N
      BY <1>1
    <3> HIDE DEF T, N
    <3> QED BY <1>4, <3>1
  <2> QED BY <2>1
<1>6. p - 1 + N = e - 1
  OBVIOUS
<1> QED BY <1>5, <1>6

(***************************************************************************)
(* The matches on a line.                                                  *)
(***************************************************************************)
\* The equation of Matches.
MatchStep(line, j, x) ==
  IF x >= j THEN x
  ELSE IF \E e \in j + 1..Len(line) : Closes(line, j, e)
       THEN CHOOSE e \in j + 1..Len(line) : Closes(line, j, e)
       ELSE 0
AreMatches(line, f) ==
  f = [j \in 0..Len(line) |-> IF j = 0 THEN 0 ELSE MatchStep(line, j, f[j - 1])]

\* Matches therefore satisfies its equation, and no match leaves the line.
LEMMA MatchesAre ==
  ASSUME NEW line \in Seq(Char)
  PROVE  /\ Matches(line)[0] = 0
         /\ \A j \in 1..Len(line) : Matches(line)[j] = MatchStep(line, j, Matches(line)[j - 1])
         /\ \A j \in 0..Len(line) : Matches(line)[j] \in 0..Len(line)
<1> DEFINE N == Len(line)
           S == 0..N
           g == [j \in 1..N |-> [x \in S |-> MatchStep(line, j, x)]]
           b == 0
<1>1. N \in Nat /\ b \in S
  OBVIOUS
<1>2. ASSUME NEW j \in 1..N, NEW x \in S PROVE MatchStep(line, j, x) \in S
  <2>1. CASE x >= j
    BY <2>1 DEF MatchStep
  <2>2. CASE ~(x >= j) /\ \E e \in j + 1..Len(line) : Closes(line, j, e)
    <3>1. MatchStep(line, j, x) \in j + 1..Len(line)
      BY <2>2 DEF MatchStep
    <3> QED BY <1>1, <3>1
  <2>3. CASE ~(x >= j) /\ ~\E e \in j + 1..Len(line) : Closes(line, j, e)
    BY <1>1, <2>3 DEF MatchStep
  <2> QED BY <2>1, <2>2, <2>3
<1> HIDE DEF S
<1>3. g \in [1..N -> [S -> S]]
  BY <1>2
<1>4. PICK f : Scans(f, N, S, b, g)
  <2> HIDE DEF g, N, b
  <2> QED BY <1>1, <1>3, Scan
<1>5. f \in [0..N -> S] /\ f[0] = 0 /\ \A j \in 1..N : f[j] = MatchStep(line, j, f[j - 1])
  <2>1. f \in [0..N -> S] /\ f[0] = 0 /\ \A j \in 1..N : f[j] = g[j][f[j - 1]]
    BY <1>4 DEF Scans
  <2>2. ASSUME NEW j \in 1..N PROVE f[j] = MatchStep(line, j, f[j - 1])
    <3>1. f[j] = g[j][f[j - 1]]
      BY <2>1
    <3>2. j - 1 \in 0..N
      BY <1>1
    <3>3. f[j - 1] \in S
      BY <2>1, <3>2
    <3> QED BY <3>1, <3>3
  <2> QED BY <2>1, <2>2
<1>6. AreMatches(line, f)
  <2>1. f = [j \in 0..N |-> f[j]]
    BY <1>5
  <2>2. \A j \in 0..N : j = 0 \/ j \in 1..N
    BY <1>1
  <2>3. \A j \in 0..N : f[j] = IF j = 0 THEN 0 ELSE MatchStep(line, j, f[j - 1])
    BY <1>5, <2>2
  <2>4. f = [j \in 0..N |-> IF j = 0 THEN 0 ELSE MatchStep(line, j, f[j - 1])]
    BY <2>1, <2>3
  <2> QED BY <2>4 DEF AreMatches
<1>7. Matches(line) = CHOOSE h : AreMatches(line, h)
  BY DEF Matches, AreMatches, MatchStep
<1>8. AreMatches(line, Matches(line))
  BY <1>6, <1>7
<1>9. \A j \in 0..N : Matches(line)[j] =
                        IF j = 0 THEN 0 ELSE MatchStep(line, j, Matches(line)[j - 1])
  BY <1>8 DEF AreMatches
<1>10. 0 \in 0..N /\ \A j \in 1..N : j \in 0..N /\ j # 0
  BY <1>1
<1>11. \A j \in 0..N : Matches(line)[j] \in S
  <2> DEFINE T == {j \in 0..N : Matches(line)[j] \in S}
  <2>1. 0 \in T
    BY <1>1, <1>9, <1>10
  <2>2. ASSUME NEW j \in 1..N, j - 1 \in T PROVE j \in T
    <3>1. Matches(line)[j - 1] \in S
      BY <2>2
    <3>2. Matches(line)[j] = MatchStep(line, j, Matches(line)[j - 1]) /\ j \in 0..N
      BY <1>9, <1>10
    <3> QED BY <1>2, <3>1, <3>2
  <2> HIDE DEF T
  <2>3. 0..N \subseteq T
    BY <1>1, <2>1, <2>2, Climb
  <2> QED BY <2>3 DEF T
<1> QED BY <1>9, <1>10, <1>11 DEF S

-----------------------------------------------------------------------------

\* A line of the file, its characters in their places.
LineOf(t, h, e) == SubSeq(t, h, e - 1)

\* The k-th character of the line is the one at h + k - 1 of the file.
LEMMA LineIs ==
  ASSUME NEW t \in Seq(Char), NEW h \in 1..Len(t) + 1, NEW e, EndsLine(t, h, e)
  PROVE  /\ e \in h..Len(t) + 1 /\ LineOf(t, h, e) \in Seq(Char) /\ Len(LineOf(t, h, e)) = e - h
         /\ \A k \in 1..e - h : LineOf(t, h, e)[k] = t[h + k - 1]
<1>1. e \in h..Len(t) + 1 /\ Len(t) \in Nat
  BY DEF EndsLine
<1>2. h \in Int /\ e - 1 \in Int
  BY <1>1
<1>3. LineOf(t, h, e) \in Seq(Char) /\ Len(LineOf(t, h, e)) = e - h
  BY <1>1, SubSeqProperties DEF LineOf
<1>4. \A k \in 1..e - h : LineOf(t, h, e)[k] = t[h + k - 1]
  <2> SUFFICES ASSUME NEW k \in 1..e - h PROVE LineOf(t, h, e)[k] = t[h + k - 1]
    OBVIOUS
  <2> QED BY <1>1 DEF LineOf
<1> QED BY <1>1, <1>3, <1>4

\* A match on the line is a match in the file.
LEMMA EscapedShift ==
  ASSUME NEW t \in Seq(Char), NEW l \in Seq(Char), NEW h \in Nat \ {0},
         \A k \in 1..Len(l) : l[k] = t[h + k - 1],
         NEW a \in 1..Len(l), NEW e \in a + 1..Len(l)
  PROVE  Escaped(l, a, e) <=> Escaped(t, h + a - 1, h + e - 1)
<1> DEFINE b == h + a - 1
           f == h + e - 1
           P(n) == n % 2 = 1
<1>1. e - a - 1 = f - b - 1 /\ Len(l) \in Nat
  OBVIOUS
<1>2. ASSUME NEW n \in 1..e - a - 1
      PROVE  /\ l[e - n - 1] = t[f - n - 1]
             /\ (\A j \in e - n..e - 1 : l[j] = Backslash) <=>
                \A j \in f - n..f - 1 : t[j] = Backslash
  <2>1. e - n - 1 \in 1..Len(l) /\ h + (e - n - 1) - 1 = f - n - 1
    BY <1>1
  <2>2. l[e - n - 1] = t[f - n - 1]
    BY <2>1
  <2>3. ASSUME NEW j \in e - n..e - 1
        PROVE  j + h - 1 \in f - n..f - 1 /\ l[j] = t[j + h - 1]
    <3>1. j \in 1..Len(l) /\ h + j - 1 = j + h - 1 /\ j + h - 1 \in f - n..f - 1
      BY <1>1
    <3> QED BY <3>1
  <2>4. ASSUME NEW j \in f - n..f - 1
        PROVE  j - h + 1 \in e - n..e - 1 /\ l[j - h + 1] = t[j]
    <3>1. j - h + 1 \in e - n..e - 1 /\ j - h + 1 \in 1..Len(l) /\ h + (j - h + 1) - 1 = j
      BY <1>1
    <3> QED BY <3>1
  <2> QED BY <2>2, <2>3, <2>4
<1> HIDE DEF P
<1>3. Escaped(l, a, e) <=> \E n \in 1..e - a - 1 :
        P(n) /\ l[e - n - 1] # Backslash /\ \A j \in e - n..e - 1 : l[j] = Backslash
  BY DEF Escaped, P
<1>4. Escaped(t, b, f) <=> \E n \in 1..f - b - 1 :
        P(n) /\ t[f - n - 1] # Backslash /\ \A j \in f - n..f - 1 : t[j] = Backslash
  BY DEF Escaped, P
<1> HIDE DEF b, f
<1>5. Escaped(l, a, e) <=> Escaped(t, b, f)
  BY <1>1, <1>2, <1>3, <1>4
<1> QED BY <1>5 DEF b, f

\* The quotes of a string on the line are those of a string in the file.
LEMMA ClosesShift ==
  ASSUME NEW t \in Seq(Char), NEW l \in Seq(Char), NEW h \in Nat \ {0},
         \A k \in 1..Len(l) : l[k] = t[h + k - 1],
         NEW a \in 1..Len(l), NEW e \in a + 1..Len(l)
  PROVE  Closes(l, a, e) <=> Closes(t, h + a - 1, h + e - 1)
<1>1. a < e /\ h + a - 1 < h + e - 1 /\ l[a] = t[h + a - 1] /\ l[e] = t[h + e - 1]
      /\ Len(l) \in Nat /\ e \in 1..Len(l)
  OBVIOUS
<1>2. Escaped(l, a, e) <=> Escaped(t, h + a - 1, h + e - 1)
  BY EscapedShift
<1>3. ASSUME NEW k \in a + 1..e - 1
      PROVE  /\ k + h - 1 \in h + a - 1 + 1..h + e - 1 - 1 /\ l[k] = t[k + h - 1]
             /\ Escaped(l, a, k) <=> Escaped(t, h + a - 1, k + h - 1)
  <2>1. k \in a + 1..Len(l) /\ k \in 1..Len(l) /\ h + k - 1 = k + h - 1
        /\ k + h - 1 \in h + a - 1 + 1..h + e - 1 - 1
    <3> DEFINE N == Len(l)
    <3>1. N \in Nat /\ a \in 1..N /\ e \in a + 1..N
      BY <1>1
    <3> HIDE DEF N
    <3>2. k \in a + 1..N /\ k \in 1..N /\ h + k - 1 = k + h - 1
      BY <3>1
    <3>3. k + h - 1 \in h + a - 1 + 1..h + e - 1 - 1
      BY <3>1
    <3> QED BY <3>2, <3>3 DEF N
  <2>2. Escaped(l, a, k) <=> Escaped(t, h + a - 1, h + k - 1)
    BY <2>1, EscapedShift
  <2> QED BY <2>1, <2>2
<1>4. ASSUME NEW k \in h + a - 1 + 1..h + e - 1 - 1
      PROVE  k - h + 1 \in a + 1..e - 1 /\ (k - h + 1) + h - 1 = k
  BY <1>1
<1>5. (\A k \in a + 1..e - 1 : l[k] = Quote => Escaped(l, a, k)) <=>
      (\A k \in h + a - 1 + 1..h + e - 1 - 1 : t[k] = Quote => Escaped(t, h + a - 1, k))
  <2>1. ASSUME \A k \in a + 1..e - 1 : l[k] = Quote => Escaped(l, a, k),
               NEW k \in h + a - 1 + 1..h + e - 1 - 1, t[k] = Quote
        PROVE  Escaped(t, h + a - 1, k)
    BY <1>3, <1>4, <2>1
  <2>2. ASSUME \A k \in h + a - 1 + 1..h + e - 1 - 1 : t[k] = Quote => Escaped(t, h + a - 1, k),
               NEW k \in a + 1..e - 1, l[k] = Quote
        PROVE  Escaped(l, a, k)
    BY <1>3, <2>2
  <2> QED BY <2>1, <2>2
<1> QED BY <1>1, <1>2, <1>5 DEF Closes

\* The match that covers the character before c of the line, if one does.
MatchAt(t, h, e, c) == Matches(LineOf(t, h, e))[c - 1]
Stripped(t, h, e) == strip_string_literals(LineOf(t, h, e))

\* The stripped line, and how a match goes on along it.
LEMMA StrippedIs ==
  ASSUME NEW t \in Seq(Char), NEW h \in 1..Len(t) + 1, NEW e, EndsLine(t, h, e)
  PROVE  /\ Stripped(t, h, e) \in Seq(Char) /\ Len(Stripped(t, h, e)) = e - h
         /\ MatchAt(t, h, e, 1) = 0
         /\ \A c \in 1..e - h + 1 : MatchAt(t, h, e, c) \in 0..e - h
         /\ \A c \in 1..e - h :
              /\ MatchAt(t, h, e, c + 1) = MatchStep(LineOf(t, h, e), c, MatchAt(t, h, e, c))
              /\ Stripped(t, h, e)[c] =
                   IF MatchAt(t, h, e, c + 1) > c /\ MatchAt(t, h, e, c) >= c
                   THEN Blank ELSE t[h + c - 1]
<1> DEFINE l == LineOf(t, h, e)
           N == Len(l)
<1>1. l \in Seq(Char) /\ Len(l) = e - h /\ \A k \in 1..e - h : l[k] = t[h + k - 1]
  BY LineIs
<1> HIDE DEF l
<1>2. N \in Nat /\ N = e - h
  BY <1>1
<1>3. strip_string_literals(l) \in Seq(Char) /\ Len(strip_string_literals(l)) = N
  <2>1. strip_string_literals(l) \in Seq(Char)
    BY <1>1, StripType
  <2>2. Len(strip_string_literals(l)) = N
    BY <1>1 DEF strip_string_literals
  <2> QED BY <2>1, <2>2
<1>4. Matches(l)[0] = 0
      /\ \A j \in 1..Len(l) : Matches(l)[j] = MatchStep(l, j, Matches(l)[j - 1])
  BY <1>1, MatchesAre
<1>5. ASSUME NEW c \in 1..e - h
      PROVE  /\ Matches(l)[(c + 1) - 1] = MatchStep(l, c, Matches(l)[c - 1])
             /\ strip_string_literals(l)[c] =
                   IF Matches(l)[(c + 1) - 1] > c /\ Matches(l)[c - 1] >= c
                   THEN Blank ELSE t[h + c - 1]
  <2>1. (c + 1) - 1 = c /\ c \in 1..Len(l)
    BY <1>2
  <2>2. strip_string_literals(l)[c] = IF Inside(l, c) THEN Blank ELSE l[c]
    BY <2>1 DEF strip_string_literals
  <2> QED BY <1>1, <1>4, <2>1, <2>2 DEF Inside
<1>6. 1 - 1 = 0
  OBVIOUS
<1>8. \A c \in 1..e - h + 1 : Matches(l)[c - 1] \in 0..e - h
  <2> SUFFICES ASSUME NEW c \in 1..e - h + 1 PROVE Matches(l)[c - 1] \in 0..e - h
    OBVIOUS
  <2>1. c - 1 \in 0..Len(l)
    BY <1>2
  <2> QED BY <1>1, <1>2, <2>1, MatchesAre
<1>7. MatchAt(t, h, e, 1) = 0
  BY <1>4, <1>6 DEF MatchAt, l
<1> QED BY <1>2, <1>3, <1>5, <1>7, <1>8 DEF Stripped, MatchAt, l

\* Outside the matches the stripped line is the file.
LEMMA Plain ==
  ASSUME NEW t \in Seq(Char), NEW h \in 1..Len(t) + 1, NEW e, EndsLine(t, h, e),
         NEW c \in 1..e - h, MatchAt(t, h, e, c) < c
  PROVE  /\ Stripped(t, h, e)[c] = t[h + c - 1]
         /\ t[h + c - 1] # Quote => MatchAt(t, h, e, c + 1) = 0
         /\ t[h + c - 1] # Quote /\ c + 1 <= e - h => Stripped(t, h, e)[c + 1] = t[h + c]
<1> DEFINE l == LineOf(t, h, e)
           m == MatchAt(t, h, e, c)
           n == MatchAt(t, h, e, c + 1)
<1>0. e \in h..Len(t) + 1 /\ Len(t) \in Nat /\ Len(l) = e - h /\ l[c] = t[h + c - 1]
  BY LineIs
<1>1. n = MatchStep(l, c, m)
      /\ Stripped(t, h, e)[c] = IF n > c /\ m >= c THEN Blank ELSE t[h + c - 1]
  BY StrippedIs
<1>2. m \in Int /\ c \in Int
  <2>1. c \in 1..e - h + 1
    BY <1>0
  <2> QED BY <1>0, <2>1, StrippedIs
<1>3. ~(m >= c)
  <2> HIDE DEF m
  <2> QED BY <1>2 DEF m
<1>4. Stripped(t, h, e)[c] = t[h + c - 1]
  BY <1>1, <1>3
<1>5. ASSUME t[h + c - 1] # Quote PROVE n = 0
  <2>1. \A f \in c + 1..Len(l) : ~Closes(l, c, f)
    BY <1>0, <1>5 DEF Closes
  <2> HIDE DEF l, m, n
  <2> QED BY <1>1, <1>3, <2>1 DEF MatchStep
<1>6. ASSUME t[h + c - 1] # Quote, c + 1 <= e - h PROVE Stripped(t, h, e)[c + 1] = t[h + c]
  <2>1. c + 1 \in 1..e - h /\ h + (c + 1) - 1 = h + c
    BY <1>0, <1>2, <1>6
  <2>2. n = 0
    BY <1>5, <1>6
  <2>3. ~(n >= c + 1)
    BY <1>2, <2>2
  <2> HIDE DEF n
  <2>4. Stripped(t, h, e)[c + 1] = IF MatchAt(t, h, e, c + 1 + 1) > c + 1 /\ n >= c + 1
                                   THEN Blank ELSE t[h + (c + 1) - 1]
    BY <2>1, StrippedIs DEF n
  <2> QED BY <2>1, <2>3, <2>4
<1> QED BY <1>4, <1>5, <1>6

\* A token begins on the stripped line where it begins in the file.
LEMMA PlainStarts ==
  ASSUME NEW t \in Seq(Char), NEW h \in 1..Len(t) + 1, NEW e, EndsLine(t, h, e),
         NEW c \in 1..e - h, MatchAt(t, h, e, c) < c,
         NEW x \in {Slash, Dash}, NEW y \in {Slash, Dash}
  PROVE  Starts(Stripped(t, h, e), c, x, y) <=> Starts(t, h + c - 1, x, y)
<1> DEFINE u == Stripped(t, h, e)
           N == e - h
<1>0. e \in h..Len(t) + 1 /\ Len(t) \in Nat /\ N \in Nat /\ Len(u) = N /\ c \in 1..N
      /\ (e <= Len(t) => t[e] = Newline)
  <2>1. e \in h..Len(t) + 1 /\ (e <= Len(t) => t[e] = Newline)
    BY DEF EndsLine
  <2>2. Len(u) = N
    BY StrippedIs
  <2>3. Len(t) \in Nat
    OBVIOUS
  <2> HIDE DEF u
  <2> QED BY <2>1, <2>2, <2>3
<1>1. x # Quote /\ y # Newline
  BY DEF Quote, Newline, Slash, Dash
<1>2. /\ u[c] = t[h + c - 1]
      /\ t[h + c - 1] # Quote /\ c + 1 <= N => u[c + 1] = t[h + c]
  BY Plain
<1>3. h + c - 1 + 1 = h + c
  BY <1>0
<1> HIDE DEF u
<1>4. ASSUME Starts(u, c, x, y) PROVE Starts(t, h + c - 1, x, y)
  <2>1. c < N /\ u[c] = x /\ u[c + 1] = y
    BY <1>0, <1>4 DEF Starts
  <2>2. h + c - 1 < Len(t) /\ c + 1 <= N
    BY <1>0, <2>1
  <2> QED BY <1>1, <1>2, <1>3, <2>1, <2>2 DEF Starts
<1>5. ASSUME Starts(t, h + c - 1, x, y) PROVE Starts(u, c, x, y)
  <2>1. h + c - 1 < Len(t) /\ t[h + c - 1] = x /\ t[h + c] = y
    BY <1>3, <1>5 DEF Starts
  <2>2. c # N
    <3>1. c = N => h + c = e /\ e <= Len(t)
      BY <1>0, <2>1
    <3> QED BY <1>0, <1>1, <2>1, <3>1
  <2>3. c < N /\ c + 1 <= N
    BY <1>0, <2>2
  <2> QED BY <1>0, <1>1, <1>2, <2>1, <2>3 DEF Starts
<1> QED BY <1>4, <1>5 DEF u

(***************************************************************************)
(* Where the style gate is in the grammar.                                 *)
(***************************************************************************)
\* Where the style gate is, at c of the line that begins at h, in d comments: in code, in
\* a comment, or in a match, of which the last quote is at m.
InCodeAt(t, h, e, c, d) == d = 0 /\ MatchAt(t, h, e, c) < c /\ AtCode(t, h + c - 1)
InBlockAt(t, h, e, c, d) == d > 0 /\ MatchAt(t, h, e, c) < c /\ AtBlock(t, h + c - 1, d)
InMatchAt(t, h, e, c, d) ==
  LET m == MatchAt(t, h, e, c)
  IN  /\ d = 0 /\ m >= c /\ m <= e - h /\ t[h + m - 1] = Quote
      /\ Rest(t, h + c - 1, h + m, Newline)
AtStyle(t, h, e, c, d) ==
  InCodeAt(t, h, e, c, d) \/ InBlockAt(t, h, e, c, d) \/ InMatchAt(t, h, e, c, d)

\* The places of a line.
LEMMA Places ==
  ASSUME NEW t \in Seq(Char), NEW h \in 1..Len(t) + 1, NEW e, EndsLine(t, h, e),
         NEW c \in 1..e - h + 1
  PROVE  /\ e \in h..Len(t) + 1 /\ Len(t) \in Nat /\ h + c - 1 \in 1..Len(t) + 1
         /\ MatchAt(t, h, e, c) \in 0..e - h /\ h + c - 1 <= e /\ e \in Nat
         /\ c <= e - h => /\ h + c - 1 \in 1..Len(t) /\ t[h + c - 1] # Newline
                          /\ c \in 1..e - h /\ c + 1 \in 1..e - h + 1
                          /\ h + (c + 1) - 1 = h + c - 1 + 1
<1>1. e \in h..Len(t) + 1 /\ Len(t) \in Nat /\ \A k \in h..e - 1 : t[k] # Newline
  BY DEF EndsLine
<1>2. MatchAt(t, h, e, c) \in 0..e - h
  BY StrippedIs
<1>3. h + c - 1 \in 1..Len(t) + 1 /\ h + c - 1 <= e
  BY <1>1
<1>4. ASSUME c <= e - h
      PROVE  /\ h + c - 1 \in 1..Len(t) /\ h + c - 1 \in h..e - 1
             /\ c \in 1..e - h /\ c + 1 \in 1..e - h + 1 /\ h + (c + 1) - 1 = h + c - 1 + 1
  BY <1>1, <1>4
<1> QED BY <1>1, <1>2, <1>3, <1>4

\* A character inside a match is blanked, and the quote that closes it ends it.
LEMMA MatchGoesOn ==
  ASSUME NEW t \in Seq(Char), NEW h \in 1..Len(t) + 1, NEW e, EndsLine(t, h, e),
         NEW c \in 1..e - h, NEW d \in Nat, InMatchAt(t, h, e, c, d)
  PROVE  /\ Stripped(t, h, e)[c] \in {Blank, Quote} /\ Drops(t, h + c - 1) /\ d = 0
         /\ AtStyle(t, h, e, c + 1, d)
<1> DEFINE m == MatchAt(t, h, e, c)
           n == MatchAt(t, h, e, c + 1)
           p == h + c - 1
<1>0. /\ e \in h..Len(t) + 1 /\ Len(t) \in Nat /\ p \in 1..Len(t) /\ t[p] # Newline
      /\ m \in 0..e - h /\ c \in 1..e - h /\ h + (c + 1) - 1 = p + 1 /\ e \in Nat
  <2>1. e \in h..Len(t) + 1 /\ Len(t) \in Nat
    BY DEF EndsLine
  <2>2. c \in 1..e - h + 1 /\ c <= e - h
    BY <2>1
  <2> QED BY <2>2, Places
<1>1. d = 0 /\ m >= c /\ m <= e - h /\ t[h + m - 1] = Quote /\ Rest(t, p, h + m, Newline)
  BY DEF InMatchAt
<1>2. n = MatchStep(LineOf(t, h, e), c, m)
      /\ Stripped(t, h, e)[c] = IF n > c /\ m >= c THEN Blank ELSE t[p]
  BY StrippedIs
<1>3. n = m
  BY <1>1, <1>2 DEF MatchStep
<1>4. p \in 1..Len(t) + 1 /\ h + m \in 1..Len(t) + 1 /\ p + 1 \in p..Len(t) + 1 /\ p + 1 <= h + m
  <2> HIDE DEF m
  <2> QED BY <1>0, <1>1
<1> HIDE DEF m, n, p
<1>5. p..p + 1 - 1 \subseteq BareProse(t) /\ Rest(t, p + 1, h + m, Newline)
  BY <1>1, <1>4, LeftOf
<1>6. Drops(t, p)
  <2>1. p \in p..p + 1 - 1
    BY <1>0
  <2> QED BY <1>0, <1>5, <2>1 DEF Drops
<1>7. Stripped(t, h, e)[c] \in {Blank, Quote}
  <2>1. CASE m = c
    BY <1>1, <1>2, <1>3, <2>1 DEF p
  <2>2. CASE m # c
    <3>1. n > c /\ m >= c
      BY <1>0, <1>1, <1>3, <2>2
    <3> QED BY <1>2, <3>1
  <2> QED BY <2>1, <2>2
<1>8. CASE m = c
  <2>1. h + m = p + 1
    BY <1>0, <1>8 DEF p
  <2>2. AtCode(t, p + 1)
    <3>1. p + 1 \in 1..Len(t) + 1 /\ p + 1 \in p + 1..Len(t) + 1
      BY <1>0
    <3> QED BY <1>5, <2>1, <3>1, LeftCode
  <2>3. n < c + 1
    BY <1>0, <1>3, <1>8
  <2>4. InCodeAt(t, h, e, c + 1, d)
    BY <1>0, <1>1, <2>2, <2>3 DEF InCodeAt, n
  <2> QED BY <1>1, <1>6, <1>7, <2>4 DEF AtStyle, p
<1>9. CASE m # c
  <2>1. n >= c + 1 /\ n <= e - h
    BY <1>0, <1>1, <1>3, <1>9
  <2>2. InMatchAt(t, h, e, c + 1, d)
    BY <1>0, <1>1, <1>3, <1>5, <2>1 DEF InMatchAt, n
  <2> QED BY <1>1, <1>6, <1>7, <2>2 DEF AtStyle, p
<1> QED BY <1>8, <1>9

\* A comment of a tame file quotes nothing.
LEMMA BlockPlain ==
  ASSUME NEW t \in Seq(Char), NEW j \in 1..Len(t), NEW d \in Nat \ {0}, AtBlock(t, j, d), BareTame(t)
  PROVE  t[j] # Quote
<1>1. PICK c : Nest(t, j, d, c) /\ Rest(t, j, c[0], Quote)
  BY DEF AtBlock
<1>2. BlockEnds(t)[j] \in j + 1..Len(t) + 1 /\ BlockEnds(t)[j] <= c[0] /\ c[0] \in 1..Len(t) + 1
  BY <1>1, NestTop
<1>3. j \in j..c[0] - 1
  BY <1>2
<1> QED BY <1>1, <1>3 DEF Rest

\* A character of a comment.
LEMMA KeepBlock ==
  ASSUME NEW t \in Seq(Char), BareTame(t), NEW h \in 1..Len(t) + 1, NEW e, EndsLine(t, h, e),
         NEW c \in 1..e - h, NEW d \in Nat, InBlockAt(t, h, e, c, d),
         ~Starts(t, h + c - 1, Slash, Dash), ~Starts(t, h + c - 1, Dash, Slash)
  PROVE  Drops(t, h + c - 1) /\ AtStyle(t, h, e, c + 1, d)
<1> DEFINE p == h + c - 1
<1>0. /\ p \in 1..Len(t) /\ t[p] # Newline /\ h + (c + 1) - 1 = p + 1 /\ c \in Nat /\ c > 0
  <2>1. e \in h..Len(t) + 1 /\ Len(t) \in Nat
    BY DEF EndsLine
  <2>2. c \in 1..e - h + 1 /\ c <= e - h /\ c \in Nat /\ c > 0
    BY <2>1
  <2> QED BY <2>2, Places
<1>1. d \in Nat \ {0} /\ d > 0 /\ MatchAt(t, h, e, c) < c /\ AtBlock(t, p, d)
  BY DEF InBlockAt
<1>2. MatchAt(t, h, e, c + 1) = 0
  <2>1. t[p] # Quote
    <3> HIDE DEF p
    <3> QED BY <1>0, <1>1, BlockPlain
  <2> QED BY <1>1, <2>1, Plain
<1>3. p \in BareProse(t) /\ AtBlock(t, p + 1, d)
  <2>1. ~Starts(t, p, Slash, Dash) /\ ~Starts(t, p, Dash, Slash)
    OBVIOUS
  <2> HIDE DEF p
  <2> QED BY <1>0, <1>1, <2>1, BlockIn
<1>4. Drops(t, p)
  BY <1>0, <1>3 DEF Drops
<1>5. 0 < c + 1
  BY <1>0
<1> HIDE DEF p
<1>6. InBlockAt(t, h, e, c + 1, d)
  BY <1>0, <1>1, <1>2, <1>3, <1>5 DEF InBlockAt
<1> QED BY <1>4, <1>6 DEF AtStyle, p

\* A character of code that opens nothing.
LEMMA KeepCode ==
  ASSUME NEW t \in Seq(Char), NEW h \in 1..Len(t) + 1, NEW e, EndsLine(t, h, e),
         NEW c \in 1..e - h, NEW d \in Nat, InCodeAt(t, h, e, c, d), t[h + c - 1] # Quote,
         ~Starts(t, h + c - 1, Slash, Dash), ~Starts(t, h + c - 1, Dash, Dash)
  PROVE  /\ WordOf(Stripped(t, h, e)[c]) = KeptPart(t, h + c - 1)
         /\ AtStyle(t, h, e, c + 1, d)
<1> DEFINE p == h + c - 1
<1>0. /\ p \in 1..Len(t) /\ h + (c + 1) - 1 = p + 1 /\ c \in Nat /\ c > 0
  <2>1. e \in h..Len(t) + 1 /\ Len(t) \in Nat
    BY DEF EndsLine
  <2>2. c \in 1..e - h + 1 /\ c <= e - h /\ c \in Nat /\ c > 0
    BY <2>1
  <2> QED BY <2>2, Places
<1>1. d = 0 /\ MatchAt(t, h, e, c) < c /\ AtCode(t, p)
  BY DEF InCodeAt
<1>2. MatchAt(t, h, e, c + 1) = 0 /\ Stripped(t, h, e)[c] = t[p]
  BY <1>1, Plain
<1>3. BareEnd(t, p) = p
  BY DEF BareEnd
<1>4. t[p] # Quote
  OBVIOUS
<1> HIDE DEF p
<1>5. p \notin BareProse(t) /\ AtCode(t, p + 1)
  BY <1>0, <1>1, <1>3, CodeKept
<1>6. WordOf(Stripped(t, h, e)[c]) = KeptPart(t, p)
  BY <1>2, <1>4, <1>5 DEF WordOf, KeptPart, Drops
<1>7. 0 < c + 1
  BY <1>0
<1>8. InCodeAt(t, h, e, c + 1, d)
  BY <1>0, <1>1, <1>2, <1>5, <1>7 DEF InCodeAt
<1> QED BY <1>6, <1>8 DEF AtStyle, p

\* A quote in the code of a tame file: the match it opens is the string.
LEMMA KeepQuote ==
  ASSUME NEW t \in Seq(Char), BareTame(t), NEW h \in 1..Len(t) + 1, NEW e, EndsLine(t, h, e),
         NEW c \in 1..e - h, NEW d \in Nat, InCodeAt(t, h, e, c, d), t[h + c - 1] = Quote
  PROVE  /\ Stripped(t, h, e)[c] = Quote /\ Drops(t, h + c - 1)
         /\ AtStyle(t, h, e, c + 1, d)
<1> DEFINE p == h + c - 1
           q == StringEnd(t, p)
           l == LineOf(t, h, e)
           n == MatchAt(t, h, e, c + 1)
<1>0. /\ e \in h..Len(t) + 1 /\ Len(t) \in Nat /\ p \in 1..Len(t) /\ p <= e
      /\ h + (c + 1) - 1 = p + 1 /\ c \in Nat /\ c > 0 /\ h \in Nat \ {0} /\ e \in Nat
      /\ p = h + c - 1
  <2>1. e \in h..Len(t) + 1 /\ Len(t) \in Nat
    BY DEF EndsLine
  <2>2. c \in 1..e - h + 1 /\ c <= e - h /\ c \in Nat /\ c > 0
    BY <2>1
  <2> QED BY <2>1, <2>2, Places
<1>1. d = 0 /\ MatchAt(t, h, e, c) < c /\ AtCode(t, p)
  BY DEF InCodeAt
<1>2. t[p] = Quote /\ Stripped(t, h, e)[c] = Quote
  BY <1>1, Plain
<1>3. n = MatchStep(l, c, MatchAt(t, h, e, c)) /\ MatchAt(t, h, e, c) \in 0..e - h
  <2>1. c \in 1..e - h + 1
    BY <1>0
  <2> QED BY <2>1, StrippedIs
<1>4. l \in Seq(Char) /\ Len(l) = e - h /\ \A k \in 1..Len(l) : l[k] = t[h + k - 1]
  BY LineIs
<1> HIDE DEF p, q, l, n
<1>5. q \in p + 1..Len(t) + 1
  BY <1>0, StringEnds DEF q
<1>6. BareEnd(t, p) = q
  BY <1>2 DEF BareEnd, Starts, Quote, Dash, Slash, q
<1>7. Closes(t, p, q - 1) /\ \A k \in p..q - 1 : t[k] # Newline
  <2>1. p \in BareCuts(t)[1]
    BY <1>0, <1>1 DEF AtCode, Cut
  <2> QED BY <1>2, <1>6, <2>1 DEF BareTame
<1>8. Rest(t, p + 1, q, Newline) /\ p \in BareProse(t)
  <2>1. Rest(t, p, q, Newline)
    BY <1>0, <1>1, <1>5, <1>6, <1>7, CodeLeft
  <2> DEFINE m == p + 1
  <2>2. p \in 1..Len(t) + 1 /\ q \in 1..Len(t) + 1 /\ m \in p..Len(t) + 1 /\ m <= q
        /\ p \in p..m - 1
    BY <1>0, <1>5
  <2>3. p..m - 1 \subseteq BareProse(t) /\ Rest(t, m, q, Newline)
    <3> HIDE DEF m
    <3> QED BY <2>1, <2>2, LeftOf
  <2> QED BY <2>2, <2>3
<1>9. p < q - 1 /\ q - 1 < e
  <2>1. p < q - 1
    BY <1>7 DEF Closes
  <2>2. ASSUME ~(q - 1 < e) PROVE FALSE
    <3>1. e <= Len(t) /\ e \in p..q - 1
      BY <1>0, <1>5, <2>2
    <3> QED BY <1>7, <3>1 DEF EndsLine
  <2> QED BY <2>1, <2>2
<1>10. \E f \in c + 1..Len(l) : Closes(l, c, f)
  <2> DEFINE m == q - h
  <2>1. m \in c + 1..Len(l) /\ h + m - 1 = q - 1 /\ c \in 1..Len(l)
    BY <1>0, <1>4, <1>5, <1>9
  <2> HIDE DEF m
  <2>2. Closes(l, c, m) <=> Closes(t, h + c - 1, h + m - 1)
    BY <1>0, <1>4, <2>1, ClosesShift
  <2>3. Closes(l, c, m)
    BY <1>0, <1>7, <2>1, <2>2
  <2> QED BY <2>1, <2>3
<1>11. n \in c + 1..Len(l) /\ Closes(l, c, n)
  <2>1. ~(MatchAt(t, h, e, c) >= c)
    <3> DEFINE m == MatchAt(t, h, e, c)
    <3>1. m < c /\ m \in 0..e - h
      BY <1>1, <1>3
    <3> HIDE DEF m
    <3>2. ~(m >= c)
      BY <1>0, <3>1
    <3> QED BY <3>2 DEF m
  <2> QED BY <1>3, <1>10, <2>1 DEF MatchStep
<1>12. n >= c + 1 /\ n <= e - h /\ t[h + n - 1] = Quote /\ q = h + n
  <2>0. n \in c + 1..e - h
    BY <1>4, <1>11
  <2>1. n >= c + 1 /\ n <= e - h /\ c \in 1..Len(l) /\ h + n - 1 \in p + 1..Len(t)
        /\ h + n - 1 + 1 = h + n
    <3>1. n >= c + 1 /\ n <= e - h /\ h + n - 1 + 1 = h + n /\ c \in 1..e - h
      BY <1>0, <2>0
    <3>2. h + n - 1 \in p + 1..Len(t)
      BY <1>0, <2>0
    <3> QED BY <1>4, <3>1, <3>2
  <2>2. Closes(l, c, n) <=> Closes(t, h + c - 1, h + n - 1)
    BY <1>0, <1>4, <1>11, <2>1, ClosesShift
  <2>3. Closes(t, p, h + n - 1)
    BY <1>0, <1>11, <2>2
  <2>4. q = h + n - 1 + 1
    BY <1>0, <2>1, <2>3, StringEnds DEF q
  <2> QED BY <2>1, <2>3, <2>4 DEF Closes
<1>13. Drops(t, p)
  BY <1>2 DEF Drops
<1>14. InMatchAt(t, h, e, c + 1, d)
  BY <1>0, <1>1, <1>8, <1>12 DEF InMatchAt, n
<1> QED BY <1>2, <1>13, <1>14 DEF AtStyle, p

\* A turn of the loop that takes one character.
LEMMA KeepStep ==
  ASSUME NEW t \in Seq(Char), BareTame(t), NEW h \in 1..Len(t) + 1, NEW e, EndsLine(t, h, e),
         NEW c \in 1..e - h, NEW d \in Nat, AtStyle(t, h, e, c, d),
         ~Starts(Stripped(t, h, e), c, Slash, Dash),
         ~(d > 0 /\ Starts(Stripped(t, h, e), c, Dash, Slash)),
         ~(d = 0 /\ Starts(Stripped(t, h, e), c, Dash, Dash))
  PROVE  /\ WordOf(IF d > 0 THEN Blank ELSE Stripped(t, h, e)[c]) = KeptPart(t, h + c - 1)
         /\ AtStyle(t, h, e, c + 1, d)
<1> DEFINE u == Stripped(t, h, e)
           p == h + c - 1
<1>0. ASSUME MatchAt(t, h, e, c) < c
      PROVE  \A x \in {Slash, Dash}, y \in {Slash, Dash} : Starts(u, c, x, y) <=> Starts(t, p, x, y)
  BY <1>0, PlainStarts
<1>1. CASE InMatchAt(t, h, e, c, d)
  <2>1. u[c] \in {Blank, Quote} /\ Drops(t, p) /\ d = 0 /\ AtStyle(t, h, e, c + 1, d)
    BY <1>1, MatchGoesOn
  <2> QED BY <2>1 DEF WordOf, KeptPart
<1>2. CASE InBlockAt(t, h, e, c, d)
  <2>1. d > 0 /\ MatchAt(t, h, e, c) < c
    BY <1>2 DEF InBlockAt
  <2>2. ~Starts(t, p, Slash, Dash) /\ ~Starts(t, p, Dash, Slash)
    BY <1>0, <2>1
  <2>3. Drops(t, p) /\ AtStyle(t, h, e, c + 1, d)
    BY <1>2, <2>2, KeepBlock
  <2> QED BY <2>1, <2>3 DEF WordOf, KeptPart
<1>3. CASE InCodeAt(t, h, e, c, d)
  <2>1. d = 0 /\ ~(d > 0) /\ MatchAt(t, h, e, c) < c
    BY <1>3 DEF InCodeAt
  <2>2. ~Starts(t, p, Slash, Dash) /\ ~Starts(t, p, Dash, Dash)
    BY <1>0, <2>1
  <2>3. CASE t[p] = Quote
    <3>1. u[c] = Quote /\ Drops(t, p) /\ AtStyle(t, h, e, c + 1, d)
      BY <1>3, <2>3, KeepQuote
    <3> QED BY <2>1, <3>1 DEF WordOf, KeptPart
  <2>4. CASE t[p] # Quote
    <3>1. WordOf(u[c]) = KeptPart(t, p) /\ AtStyle(t, h, e, c + 1, d)
      BY <1>3, <2>2, <2>4, KeepCode
    <3> QED BY <2>1, <3>1
  <2> QED BY <2>3, <2>4
<1> QED BY <1>1, <1>2, <1>3 DEF AtStyle

\* A token of comments on the stripped line is one of the file, and outside the matches.
LEMMA TokenIs ==
  ASSUME NEW t \in Seq(Char), NEW h \in 1..Len(t) + 1, NEW e, EndsLine(t, h, e),
         NEW c \in 1..e - h + 1, NEW d \in Nat, AtStyle(t, h, e, c, d),
         NEW x \in {Slash, Dash}, NEW y \in {Slash, Dash}, Starts(Stripped(t, h, e), c, x, y)
  PROVE  /\ Starts(t, h + c - 1, x, y) /\ MatchAt(t, h, e, c) < c /\ MatchAt(t, h, e, c + 2) = 0
         /\ c + 2 \in 1..e - h + 1 /\ h + (c + 2) - 1 = h + c - 1 + 2 /\ 0 < c + 2
         /\ h + c - 1 \in 1..Len(t) /\ h + c - 1 < Len(t)
         /\ t[h + c - 1] \notin {Newline, Quote} /\ t[h + c - 1 + 1] \notin {Newline, Quote}
         /\ ~InMatchAt(t, h, e, c, d)
<1> DEFINE u == Stripped(t, h, e)
           p == h + c - 1
<1>1. e \in h..Len(t) + 1 /\ Len(t) \in Nat /\ Len(u) = e - h
  <2>1. e \in h..Len(t) + 1 /\ Len(t) \in Nat
    BY DEF EndsLine
  <2> QED BY <2>1, StrippedIs
<1>2. c < Len(u) /\ u[c] = x
  BY DEF Starts
<1> HIDE DEF u
<1>3. /\ c \in 1..e - h /\ c + 1 \in 1..e - h /\ c + 2 \in 1..e - h + 1 /\ c + 1 + 1 = c + 2
      /\ h + (c + 1) - 1 = p + 1 /\ h + (c + 2) - 1 = p + 2 /\ 0 < c + 2 /\ 0 < c + 1
      /\ p \in 1..Len(t) /\ p < Len(t)
  <2>1. c + 1 <= e - h /\ c >= 1 /\ h >= 1 /\ e <= Len(t) + 1
    BY <1>1, <1>2
  <2> QED BY <1>1, <2>1
<1>4. MatchAt(t, h, e, c) < c /\ ~InMatchAt(t, h, e, c, d)
  <2>1. x \notin {Blank, Quote}
    BY DEF Slash, Dash, Blank, Quote
  <2>2. ~InMatchAt(t, h, e, c, d)
    BY <1>2, <1>3, <2>1, MatchGoesOn DEF u
  <2> QED BY <2>2 DEF AtStyle, InCodeAt, InBlockAt
<1>5. Starts(t, p, x, y)
  BY <1>3, <1>4, PlainStarts
<1>6. t[p] = x /\ t[p + 1] = y /\ x \notin {Newline, Quote} /\ y \notin {Newline, Quote}
  BY <1>5 DEF Starts, Slash, Dash, Newline, Quote
<1>7. MatchAt(t, h, e, c + 1) = 0
  BY <1>3, <1>4, <1>6, Plain
<1>8. MatchAt(t, h, e, c + 2) = 0
  <2> DEFINE b == c + 1
  <2>1. b \in 1..e - h /\ MatchAt(t, h, e, b) < b /\ t[h + b - 1] # Quote
    BY <1>3, <1>6, <1>7
  <2>2. MatchAt(t, h, e, b + 1) = 0
    <3> HIDE DEF b
    <3> QED BY <2>1, Plain
  <2> QED BY <1>3, <2>2
<1> QED BY <1>3, <1>4, <1>5, <1>6, <1>8

\* A comment opens.
LEMMA OpenStep ==
  ASSUME NEW t \in Seq(Char), NEW h \in 1..Len(t) + 1, NEW e, EndsLine(t, h, e),
         NEW c \in 1..e - h + 1, NEW d \in Nat, AtStyle(t, h, e, c, d),
         Starts(Stripped(t, h, e), c, Slash, Dash)
  PROVE  /\ c + 2 \in 1..e - h + 1 /\ AtStyle(t, h, e, c + 2, d + 1)
         /\ Kept(t, h + (c + 2) - 2) = Kept(t, h + c - 2)
<1> DEFINE p == h + c - 1
           b == c + 2
<1>1. /\ Starts(t, p, Slash, Dash) /\ MatchAt(t, h, e, c) < c /\ MatchAt(t, h, e, b) = 0
      /\ b \in 1..e - h + 1 /\ h + b - 1 = p + 2 /\ 0 < b /\ p \in 1..Len(t) /\ p < Len(t)
      /\ t[p] \notin {Newline, Quote} /\ t[p + 1] \notin {Newline, Quote}
      /\ ~InMatchAt(t, h, e, c, d)
  <2>1. Slash \in {Slash, Dash} /\ Dash \in {Slash, Dash} /\ d \in Nat
    OBVIOUS
  <2>2. Starts(t, p, Slash, Dash) /\ MatchAt(t, h, e, c) < c /\ MatchAt(t, h, e, b) = 0
    BY <2>1, TokenIs
  <2>3. b \in 1..e - h + 1 /\ p \in 1..Len(t) /\ p < Len(t)
    BY <2>1, TokenIs
  <2>4. t[p] \notin {Newline, Quote} /\ t[p + 1] \notin {Newline, Quote}
    BY <2>1, TokenIs
  <2>5. ~InMatchAt(t, h, e, c, d)
    BY <2>1, TokenIs
  <2>6. h + b - 1 = p + 2 /\ 0 < b
    OBVIOUS
  <2> HIDE DEF b, p
  <2> QED BY <2>2, <2>3, <2>4, <2>5, <2>6
<1>2. d + 1 > 0 /\ h + b - 2 = p + 2 - 1 /\ h + c - 2 = p - 1
  OBVIOUS
<1>3. p = h + c - 1
  OBVIOUS
<1> HIDE DEF p, b
<1>4. {p, p + 1} \subseteq BareProse(t) /\ AtBlock(t, p + 2, d + 1)
  <2>1. CASE d = 0
    <3>1. AtCode(t, p)
      BY <1>1, <1>3, <2>1 DEF AtStyle, InCodeAt, InBlockAt
    <3>2. d + 1 = 1
      BY <2>1
    <3> QED BY <1>1, <3>1, <3>2, BlockBegins
  <2>2. CASE d > 0
    <3>1. AtBlock(t, p, d)
      BY <1>3, <2>2 DEF AtStyle, InCodeAt, InBlockAt, InMatchAt
    <3> QED BY <1>1, <2>2, <3>1, BlockOpens
  <2> QED BY <2>1, <2>2
<1>5. Kept(t, p + 2 - 1) = Kept(t, p - 1)
  <2> DEFINE f == p + 2
  <2>1. \A k \in p..f - 1 : k = p \/ k = p + 1
    BY <1>1
  <2>2. \A k \in p..f - 1 : Drops(t, k)
    BY <1>1, <1>4, <2>1 DEF Drops
  <2>3. f \in p..Len(t) + 1 /\ p \in 1..Len(t) + 1
    BY <1>1
  <2>4. Kept(t, f - 1) = Kept(t, p - 1)
    <3> HIDE DEF f
    <3> QED BY <2>2, <2>3, KeptSkip
  <2>5. f - 1 = p + 2 - 1
    BY <1>1
  <2> HIDE DEF f
  <2> QED BY <2>4, <2>5
<1>6. InBlockAt(t, h, e, b, d + 1)
  BY <1>1, <1>2, <1>4 DEF InBlockAt
<1> QED BY <1>1, <1>2, <1>5, <1>6 DEF AtStyle, b

\* A comment closes.
LEMMA CloseStep ==
  ASSUME NEW t \in Seq(Char), NEW h \in 1..Len(t) + 1, NEW e, EndsLine(t, h, e),
         NEW c \in 1..e - h + 1, NEW d \in Nat \ {0}, AtStyle(t, h, e, c, d),
         Starts(Stripped(t, h, e), c, Dash, Slash)
  PROVE  /\ c + 2 \in 1..e - h + 1 /\ AtStyle(t, h, e, c + 2, d - 1)
         /\ Kept(t, h + (c + 2) - 2) = Kept(t, h + c - 2)
<1> DEFINE p == h + c - 1
           b == c + 2
<1>1. /\ Starts(t, p, Dash, Slash) /\ MatchAt(t, h, e, c) < c /\ MatchAt(t, h, e, b) = 0
      /\ b \in 1..e - h + 1 /\ h + b - 1 = p + 2 /\ 0 < b /\ p \in 1..Len(t) /\ p < Len(t)
      /\ t[p] \notin {Newline, Quote} /\ t[p + 1] \notin {Newline, Quote}
      /\ ~InMatchAt(t, h, e, c, d)
  <2>1. Slash \in {Slash, Dash} /\ Dash \in {Slash, Dash} /\ d \in Nat
    OBVIOUS
  <2>2. Starts(t, p, Dash, Slash) /\ MatchAt(t, h, e, c) < c /\ MatchAt(t, h, e, b) = 0
    BY <2>1, TokenIs
  <2>3. b \in 1..e - h + 1 /\ p \in 1..Len(t) /\ p < Len(t)
    BY <2>1, TokenIs
  <2>4. t[p] \notin {Newline, Quote} /\ t[p + 1] \notin {Newline, Quote}
    BY <2>1, TokenIs
  <2>5. ~InMatchAt(t, h, e, c, d)
    BY <2>1, TokenIs
  <2>6. h + b - 1 = p + 2 /\ 0 < b
    OBVIOUS
  <2> HIDE DEF b, p
  <2> QED BY <2>2, <2>3, <2>4, <2>5, <2>6
<1>2. d > 0 /\ h + b - 2 = p + 2 - 1 /\ h + c - 2 = p - 1
  OBVIOUS
<1>3. p = h + c - 1
  OBVIOUS
<1> HIDE DEF p, b
<1>4. AtBlock(t, p, d)
  BY <1>2, <1>3 DEF AtStyle, InCodeAt, InBlockAt, InMatchAt
<1>5. /\ {p, p + 1} \subseteq BareProse(t)
      /\ d = 1 => AtCode(t, p + 2)
      /\ d > 1 => AtBlock(t, p + 2, d - 1)
  BY <1>1, <1>4, BlockCloses
<1>6. Kept(t, p + 2 - 1) = Kept(t, p - 1)
  <2> DEFINE f == p + 2
  <2>1. \A k \in p..f - 1 : k = p \/ k = p + 1
    BY <1>1
  <2>2. \A k \in p..f - 1 : Drops(t, k)
    BY <1>1, <1>5, <2>1 DEF Drops
  <2>3. f \in p..Len(t) + 1 /\ p \in 1..Len(t) + 1
    BY <1>1
  <2>4. Kept(t, f - 1) = Kept(t, p - 1)
    <3> HIDE DEF f
    <3> QED BY <2>2, <2>3, KeptSkip
  <2>5. f - 1 = p + 2 - 1
    BY <1>1
  <2> HIDE DEF f
  <2> QED BY <2>4, <2>5
<1>7. AtStyle(t, h, e, b, d - 1)
  <2>1. CASE d = 1
    <3>1. d - 1 = 0 /\ InCodeAt(t, h, e, b, d - 1)
      BY <1>1, <1>5, <2>1 DEF InCodeAt
    <3> QED BY <3>1 DEF AtStyle
  <2>2. CASE d > 1
    <3>1. d - 1 > 0
      BY <2>2
    <3>2. InBlockAt(t, h, e, b, d - 1)
      BY <1>1, <1>5, <2>2, <3>1 DEF InBlockAt
    <3> QED BY <3>2 DEF AtStyle
  <2> QED BY <1>2, <2>1, <2>2
<1> QED BY <1>1, <1>2, <1>6, <1>7 DEF b

\* The rest of the line is over, or a comment: what follows it is code or in the comments.
LEMMA RestOfLine ==
  ASSUME NEW t \in Seq(Char), NEW h \in 1..Len(t) + 1, NEW e, EndsLine(t, h, e),
         NEW c \in 1..e - h + 1, NEW d \in Nat, AtStyle(t, h, e, c, d),
         c = e - h + 1 \/ (d = 0 /\ Starts(Stripped(t, h, e), c, Dash, Dash))
  PROVE  /\ d = 0 => AtCode(t, e)
         /\ d > 0 => AtBlock(t, e, d)
         /\ Kept(t, e - 1) = Kept(t, h + c - 2)
<1> DEFINE p == h + c - 1
<1>0. e \in h..Len(t) + 1 /\ Len(t) \in Nat
  BY DEF EndsLine
<1>1. CASE c = e - h + 1
  <2>1. p = e /\ h + c - 2 = e - 1
    BY <1>0, <1>1
  <2>2. ~InMatchAt(t, h, e, c, d)
    <3> DEFINE m == MatchAt(t, h, e, c)
    <3>1. m \in 0..e - h
      BY StrippedIs
    <3> HIDE DEF m
    <3>2. ~(m >= c)
      BY <1>0, <1>1, <3>1
    <3> QED BY <3>2 DEF InMatchAt, m
  <2> QED BY <2>1, <2>2 DEF AtStyle, InCodeAt, InBlockAt
<1>2. CASE d = 0 /\ Starts(Stripped(t, h, e), c, Dash, Dash)
  <2>1. Starts(t, p, Dash, Dash) /\ MatchAt(t, h, e, c) < c /\ p \in 1..Len(t)
        /\ c + 2 \in 1..e - h + 1 /\ ~InMatchAt(t, h, e, c, d)
    BY <1>2, TokenIs
  <2>2. p \in h..e - 1 /\ c \in Nat /\ h + c - 2 = p - 1
    BY <1>0, <2>1
  <2>3. EndsLine(t, p, e)
    <3>1. e \in p..Len(t) + 1 /\ \A k \in p..e - 1 : k \in h..e - 1
      BY <1>0, <2>2
    <3> QED BY <3>1 DEF EndsLine
  <2>4. AtCode(t, p)
    BY <1>2, <2>1 DEF AtStyle, InCodeAt, InBlockAt
  <2> HIDE DEF p
  <2>5. p..e - 1 \subseteq BareProse(t) /\ AtCode(t, e)
    BY <2>1, <2>3, <2>4, LineTaken
  <2>6. \A k \in p..e - 1 : Drops(t, k)
    BY <2>3, <2>5 DEF Drops, EndsLine
  <2>7. p \in 1..Len(t) + 1 /\ e \in p..Len(t) + 1
    BY <1>0, <2>1, <2>2
  <2>8. Kept(t, e - 1) = Kept(t, p - 1)
    BY <2>6, <2>7, KeptSkip
  <2> QED BY <1>2, <2>2, <2>5, <2>8
<1> QED BY <1>1, <1>2

\* The end of a line is kept, and the next line begins where it is.
LEMMA NextLine ==
  ASSUME NEW t \in Seq(Char), NEW e \in 1..Len(t), t[e] = Newline, NEW d \in Nat,
         d = 0 => AtCode(t, e), d > 0 => AtBlock(t, e, d),
         NEW f, EndsLine(t, e + 1, f)
  PROVE  AtStyle(t, e + 1, f, 1, d) /\ Kept(t, e) = Append(Kept(t, e - 1), Newline)
<1> DEFINE h == e + 1
<1>0. h \in 1..Len(t) + 1 /\ h + 1 - 1 = h
  OBVIOUS
<1>1. \A x, y : y # Newline /\ x \in {Slash, Dash, Quote} => t[e] # x /\ ~Starts(t, e, x, y)
  BY DEF Starts, Slash, Dash, Quote, Newline
<1>2. /\ ~Starts(t, e, Slash, Dash) /\ ~Starts(t, e, Dash, Slash) /\ ~Starts(t, e, Dash, Dash)
      /\ t[e] # Quote /\ t[e] # Blank
  BY <1>1 DEF Slash, Dash, Quote, Blank, Newline
<1>3. MatchAt(t, h, f, 1) = 0 /\ MatchAt(t, h, f, 1) < 1
  <2> HIDE DEF h
  <2> QED BY <1>0, StrippedIs DEF h
<1>4. Kept(t, e) = Append(Kept(t, e - 1), Newline)
  <2>1. Kept(t, e - 1) \in Seq(Char) /\ Kept(t, e) = Kept(t, e - 1) \o KeptPart(t, e)
    BY KeptStep
  <2>2. KeptPart(t, e) = <<Newline>>
    BY <1>2 DEF KeptPart, Drops
  <2> DEFINE w == Kept(t, e - 1)
  <2>3. w \in Seq(Char) /\ Newline \in Char
    BY <2>1 DEF Char
  <2>4. w \o <<Newline>> = Append(w, Newline)
    <3> HIDE DEF w
    <3> QED BY <2>3
  <2> QED BY <2>1, <2>2, <2>4
<1>5. CASE d = 0
  <2>1. BareEnd(t, e) = e
    BY <1>2 DEF BareEnd
  <2>2. AtCode(t, h)
    BY <1>5, <2>1, CodeKept
  <2>3. InCodeAt(t, h, f, 1, d)
    BY <1>0, <1>3, <1>5, <2>2 DEF InCodeAt
  <2> QED BY <1>4, <2>3 DEF AtStyle
<1>6. CASE d > 0
  <2>1. AtBlock(t, h, d)
    BY <1>2, <1>6, BlockIn
  <2>2. InBlockAt(t, h, f, 1, d)
    BY <1>0, <1>3, <1>6, <2>1 DEF InBlockAt
  <2> QED BY <1>4, <2>2 DEF AtStyle
<1> QED BY <1>5, <1>6

(***************************************************************************)
(* Both gates.                                                             *)
(***************************************************************************)
\* The style gate is where the grammar is, its lines so far hold the words of the code so
\* far, and the numerical-data gate keeps the ends of lines.
Following ==
  gate = "style" =>
    \E e : /\ EndsLine(source, from, e) /\ s = Stripped(source, from, e)
           /\ AtStyle(source, from, e, col, depth)
           /\ Words(Joined(Append(out, buf))) = Kept(source, from + col - 2)
Followed == gate # "style" => Words(Joined(out)) = Kept(source, Len(source))
LinesThere == \A k \in DOMAIN result : source[k] = Newline => result[k] = Newline

SInv == GInv /\ (BareTame(source) => Following /\ Followed /\ LinesThere)

\* The line of the style gate.
LEMMA LineStripped ==
  ASSUME NEW t \in Seq(Char), NEW p \in 1..Len(t) + 1, NEW l \in LineFrom(t, p)
  PROVE  \E e : EndsLine(t, p, e) /\ l = Stripped(t, p, e)
<1>1. PICK e \in p..Len(t) + 1 : EndsLine(t, p, e) /\ l = strip_string_literals(SubSeq(t, p, e - 1))
  BY DEF LineFrom
<1> QED BY <1>1 DEF Stripped, LineOf

\* Nothing is read, and there are no words.
LEMMA NoWords ==
  ASSUME NEW t \in Seq(Char)
  PROVE  Words(Joined(Append(<<>>, <<>>))) = Kept(t, 0)
<1>1. Joined(<<>>) = <<>> /\ Words(<<>>) = <<>> /\ Kept(t, 0) = <<>>
  <2>1. Len(<<>>) = 0
    OBVIOUS
  <2>2. Joined(<<>>) = Flat(<<>>)
    BY <2>1 DEF Joined
  <2>3. Words(<<>>) = Flat(<<>>)
    BY <2>1 DEF Words
  <2>4. Kept(t, 0) = Flat(<<>>)
    BY DEF Kept
  <2> QED BY <2>2, <2>3, <2>4, FlatEmpty
<1>2. <<>> \in Seq(Seq(Char)) /\ <<>> \in Seq(Char) /\ Len(<<>>) + 1 = 1
  OBVIOUS
<1>3. Joined(Append(<<>>, <<>>)) = Joined(<<>>) \o LinePart(1, <<>>)
  BY <1>2, JoinedAppend
<1>4. Joined(Append(<<>>, <<>>)) = <<>>
  BY <1>1, <1>2, <1>3 DEF LinePart
<1> QED BY <1>1, <1>4

\* The style gate begins in code, with no words.
LEMMA SInit ==
  ASSUME Init
  PROVE  SInv
<1>1. GInv
  BY GInit
<1>2. /\ source \in Seq(Char) /\ 1 \in 1..Len(source) + 1 /\ gate = "style" /\ from = 1
      /\ s \in LineFrom(source, 1) /\ col = 1 /\ depth = 0 /\ buf = <<>> /\ out = <<>>
      /\ result = <<>> /\ AtCode(source, 1)
  BY <1>1 DEF Init, GInv, IInv, TypeOK, Place
<1>3. PICK e : EndsLine(source, 1, e) /\ s = Stripped(source, 1, e)
  BY <1>2, LineStripped
<1>4. AtStyle(source, 1, e, 1, 0)
  <2>1. MatchAt(source, 1, e, 1) = 0 /\ 1 + 1 - 1 = 1 /\ 0 < 1
    BY <1>2, <1>3, StrippedIs
  <2> QED BY <1>2, <2>1 DEF AtStyle, InCodeAt
<1>5. Words(Joined(Append(out, buf))) = Kept(source, from + col - 2)
  <2>1. from + col - 2 = 0
    BY <1>2
  <2> QED BY <1>2, <2>1, NoWords
<1>6. Following
  BY <1>2, <1>3, <1>4, <1>5 DEF Following
<1> QED BY <1>1, <1>2, <1>6 DEF SInv, Followed, LinesThere

\* What the numerical-data gate emits keeps the ends of lines.
LEMMA EmitLines ==
  ASSUME SInv, GInv', BareTame(source), NEW w \in Seq(Char), Emit(w),
         \A k \in 1..Len(w) : source[i + k - 1] = Newline => w[k] = Newline
  PROVE  SInv'
<1>1. source \in Seq(Char) /\ i \in 1..Len(source) + 1 /\ result \in Seq(Char)
      /\ Len(result) = i - 1
  BY DEF SInv, GInv, IInv, TypeOK, AllGood
<1>2. result' = result \o w /\ UNCHANGED <<source, gate, out>> /\ gate = "data"
  BY DEF Emit, style
<1>3. Len(w) \in Nat /\ Len(result) \in Nat
  BY <1>1
<1>4. Len(result') = Len(result) + Len(w) /\ result' \in Seq(Char)
  BY <1>1, <1>2, ConcatProperties
<1>5. ASSUME NEW k \in DOMAIN result', source[k] = Newline PROVE result'[k] = Newline
  <2>0. k \in 1..Len(result) + Len(w) /\ k \in Int
    BY <1>3, <1>4, LenProperties
  <2>1. CASE k <= Len(result)
    <3>1. result'[k] = result[k] /\ k \in DOMAIN result
      BY <1>1, <1>2, <1>3, <2>0, <2>1, ConcatProperties, LenProperties
    <3> QED BY <1>5, <3>1 DEF SInv, LinesThere
  <2>2. CASE k > Len(result)
    <3>1. k - Len(result) \in 1..Len(w) /\ i + (k - Len(result)) - 1 = k
      BY <1>1, <1>3, <2>0, <2>2
    <3>2. (result \o w)[k] = w[k - Len(result)]
      BY <1>1, <1>3, <2>0, <2>2, ConcatProperties
    <3> QED BY <1>2, <1>5, <3>1, <3>2
  <2> QED BY <2>0, <2>1, <2>2, <1>3
<1>6. LinesThere'
  BY <1>2, <1>5 DEF LinesThere
<1>7. Following' /\ Followed'
  BY <1>2 DEF SInv, Following, Followed
<1> QED BY <1>6, <1>7 DEF SInv

\* A turn of the style gate on a tame file leaves it where the grammar is.
LEMMA StyleFollows ==
  ASSUME TypeOK, BareTame(source), Following, gate = "style",
         StyleOpen \/ StyleClose \/ StyleKeep \/ StyleNextLine
  PROVE  Following' /\ Followed'
<1>0. /\ source \in Seq(Char) /\ Len(source) \in Nat /\ from \in 1..Len(source) + 1
      /\ col \in 1..Len(s) + 1 /\ depth \in Nat /\ buf \in Seq(Char) /\ out \in Seq(Seq(Char))
      /\ s \in Seq(Char)
  BY DEF TypeOK
<1>1. PICK e : /\ EndsLine(source, from, e) /\ s = Stripped(source, from, e)
               /\ AtStyle(source, from, e, col, depth)
               /\ Words(Joined(Append(out, buf))) = Kept(source, from + col - 2)
  BY DEF Following
<1>2. Len(s) = e - from /\ col \in 1..e - from + 1 /\ e \in from..Len(source) + 1
  <2>1. Len(s) = e - from
    BY <1>0, <1>1, StrippedIs
  <2>2. e \in from..Len(source) + 1
    BY <1>1 DEF EndsLine
  <2> QED BY <1>0, <2>1, <2>2
<1>3. Joined(Append(out, buf)) \in Seq(Char)
  <2>1. Blank \in Char
    BY DEF Char
  <2> QED BY <1>0, <2>1, JoinedGrows
<1>4. CASE StyleOpen
  <2>1. /\ Starts(s, col, Slash, Dash) /\ depth' = depth + 1 /\ col' = col + 2
        /\ UNCHANGED <<source, gate, from, s, buf, out>>
    BY <1>4 DEF StyleOpen
  <2>2. /\ AtStyle(source, from, e, col + 2, depth + 1)
        /\ Kept(source, from + (col + 2) - 2) = Kept(source, from + col - 2)
    <3>1. Starts(Stripped(source, from, e), col, Slash, Dash)
          /\ AtStyle(source, from, e, col, depth) /\ EndsLine(source, from, e)
      BY <1>1, <2>1
    <3> QED BY <1>0, <1>2, <3>1, OpenStep
  <2>3. Following'
    BY <1>1, <2>1, <2>2, Zenon DEF Following
  <2> QED BY <2>1, <2>3 DEF Followed
<1>5. CASE StyleClose
  <2>1. /\ Starts(s, col, Dash, Slash) /\ depth > 0 /\ depth' = depth - 1 /\ col' = col + 2
        /\ UNCHANGED <<source, gate, from, s, buf, out>>
    BY <1>5 DEF StyleClose
  <2>2. /\ AtStyle(source, from, e, col + 2, depth - 1)
        /\ Kept(source, from + (col + 2) - 2) = Kept(source, from + col - 2)
    <3>1. depth \in Nat \ {0}
      BY <1>0, <2>1
    <3>2. Starts(Stripped(source, from, e), col, Dash, Slash)
          /\ AtStyle(source, from, e, col, depth) /\ EndsLine(source, from, e)
      BY <1>1, <2>1
    <3> QED BY <1>0, <1>2, <3>1, <3>2, CloseStep
  <2>3. Following'
    BY <1>1, <2>1, <2>2, Zenon DEF Following
  <2> QED BY <2>1, <2>3 DEF Followed
<1>6. CASE StyleKeep
  <2> DEFINE x == IF depth > 0 THEN Blank ELSE s[col]
             J == Joined(Append(out, buf))
             p == from + col - 1
  <2>1. /\ col <= Len(s) /\ ~Starts(s, col, Slash, Dash)
        /\ ~(depth > 0 /\ Starts(s, col, Dash, Slash))
        /\ ~(depth = 0 /\ Starts(s, col, Dash, Dash))
        /\ buf' = Append(buf, x) /\ col' = col + 1
        /\ UNCHANGED <<source, gate, from, s, depth, out>>
    BY <1>6 DEF StyleKeep, Comment
  <2>2. /\ x \in Char /\ p \in 1..Len(source) /\ from + (col + 1) - 2 = p
        /\ from + col - 2 = p - 1 /\ col \in 1..e - from
    <3>1. x \in Char
      BY <1>0, <2>1 DEF Char
    <3>2. col \in 1..e - from /\ from + (col + 1) - 2 = p /\ from + col - 2 = p - 1
          /\ p \in 1..Len(source)
      BY <1>0, <1>2, <2>1
    <3> QED BY <3>1, <3>2
  <2>3. WordOf(x) = KeptPart(source, p) /\ AtStyle(source, from, e, col + 1, depth)
    <3>1. ~Starts(Stripped(source, from, e), col, Slash, Dash)
          /\ ~(depth > 0 /\ Starts(Stripped(source, from, e), col, Dash, Slash))
          /\ ~(depth = 0 /\ Starts(Stripped(source, from, e), col, Dash, Dash))
      BY <1>1, <2>1
    <3>2. WordOf(IF depth > 0 THEN Blank ELSE Stripped(source, from, e)[col]) = KeptPart(source, p)
          /\ AtStyle(source, from, e, col + 1, depth)
      BY <1>0, <1>1, <2>2, <3>1, KeepStep
    <3> QED BY <1>1, <3>2
  <2> HIDE DEF x, p
  <2>4. Joined(Append(out, Append(buf, x))) = Append(J, x)
    BY <1>0, <2>2, JoinedGrows
  <2>5. Words(Append(J, x)) = Words(J) \o WordOf(x)
    <3> HIDE DEF J
    <3> QED BY <1>3, <2>2, WordsAppend DEF J
  <2>6. Kept(source, p) = Kept(source, p - 1) \o KeptPart(source, p)
    BY <1>0, <2>2, KeptStep
  <2>7. Words(J) = Kept(source, p - 1)
    BY <1>1, <2>2
  <2>8. Words(Joined(Append(out, Append(buf, x)))) = Kept(source, from + (col + 1) - 2)
    <3>1. Words(J) \o WordOf(x) = Kept(source, p)
      BY <2>3, <2>6, <2>7
    <3> HIDE DEF J
    <3>2. Words(Joined(Append(out, Append(buf, x)))) = Kept(source, p)
      BY <2>4, <2>5, <3>1
    <3> QED BY <2>2, <3>2
  <2>9. Following'
    BY <1>1, <2>1, <2>3, <2>8, Zenon DEF Following
  <2> QED BY <1>6, <2>1, <2>9 DEF Followed
<1>7. CASE StyleNextLine
  <2> DEFINE J == Joined(Append(out, buf))
  <2>1. /\ col > Len(s) \/ (depth = 0 /\ Starts(s, col, Dash, Dash))
        /\ out' = Append(out, buf) /\ buf' = <<>> /\ col' = 1 /\ source' = source /\ depth' = depth
    BY <1>7 DEF StyleNextLine, Comment
  <2>2. PICK g \in from..Len(source) + 1 :
          /\ EndsLine(source, from, g)
          /\ \/ g > Len(source) /\ gate' = "data"
             \/ /\ g <= Len(source) /\ from' = g + 1 /\ s' \in LineFrom(source, g + 1)
                /\ gate' = gate
    BY <1>7 DEF StyleNextLine
  <2>3. g = e
    <3>1. EndOfLine(source, from) = g /\ EndOfLine(source, from) = e
      BY <1>0, <1>1, <2>2, LineEnds
    <3> QED BY <3>1
  <2>4. /\ depth = 0 => AtCode(source, e)
        /\ depth > 0 => AtBlock(source, e, depth)
        /\ Kept(source, e - 1) = Kept(source, from + col - 2)
    <3>1. col = e - from + 1 \/ (depth = 0 /\ Starts(Stripped(source, from, e), col, Dash, Dash))
      <4>1. CASE col > Len(s)
        BY <1>0, <1>2, <4>1
      <4> QED BY <1>1, <2>1, <4>1
    <3>2. AtStyle(source, from, e, col, depth) /\ EndsLine(source, from, e)
      BY <1>1
    <3>3. source \in Seq(Char) /\ from \in 1..Len(source) + 1 /\ depth \in Nat
          /\ col \in 1..e - from + 1
      BY <1>0, <1>2
    <3>4. Kept(source, e - 1) = Kept(source, from + col - 2)
      BY <3>1, <3>2, <3>3, RestOfLine
    <3>5. depth = 0 => AtCode(source, e)
      BY <3>1, <3>2, <3>3, RestOfLine
    <3>6. depth > 0 => AtBlock(source, e, depth)
      BY <3>1, <3>2, <3>3, RestOfLine
    <3> QED BY <3>4, <3>5, <3>6
  <2>5. Words(J) = Kept(source, e - 1)
    BY <1>1, <2>4
  <2>6. CASE e > Len(source)
    <3>1. e - 1 = Len(source) /\ gate' = "data" /\ ~(e <= Len(source))
      BY <1>0, <1>2, <2>2, <2>3, <2>6
    <3>2. Words(Joined(out')) = Kept(source', Len(source'))
      BY <2>1, <2>5, <3>1
    <3> QED BY <3>1, <3>2 DEF Following, Followed
  <2>7. CASE e <= Len(source)
    <3>1. from' = e + 1 /\ s' \in LineFrom(source, e + 1) /\ gate' = "style"
          /\ e \in 1..Len(source) /\ e + 1 \in 1..Len(source) + 1
      BY <1>0, <1>2, <2>2, <2>3, <2>7
    <3>2. PICK f : EndsLine(source, e + 1, f) /\ s' = Stripped(source, e + 1, f)
      BY <1>0, <3>1, LineStripped
    <3>3. /\ AtStyle(source, e + 1, f, 1, depth)
          /\ Kept(source, e) = Append(Kept(source, e - 1), Newline)
      <4>1. source[e] = Newline
        BY <1>1, <2>7 DEF EndsLine
      <4> QED BY <1>0, <2>4, <3>1, <3>2, <4>1, NextLine
    <3>4. Words(Joined(Append(out', <<>>))) = Kept(source, e)
      <4>1. Newline \in Char /\ WordOf(Newline) = <<Newline>>
        BY DEF Char, WordOf, Newline, Blank, Quote
      <4>2. Joined(Append(Append(out, buf), <<>>)) = Append(J, Newline)
        BY <1>0, <4>1, JoinedGrows
      <4>3. Words(Append(J, Newline)) = Words(J) \o <<Newline>>
        <5> HIDE DEF J
        <5>1. Words(Append(J, Newline)) = Words(J) \o WordOf(Newline)
          BY <1>3, <4>1, WordsAppend DEF J
        <5> QED BY <4>1, <5>1
      <4>4. Kept(source, e - 1) \in Seq(Char)
        BY <1>0, <3>1, KeptStep
      <4>5. Words(J) \o <<Newline>> = Append(Words(J), Newline)
        <5> DEFINE a == Words(J)
        <5>1. a \in Seq(Char)
          BY <2>5, <4>4
        <5> HIDE DEF a
        <5>2. a \o <<Newline>> = Append(a, Newline)
          BY <4>1, <5>1
        <5> QED BY <5>2 DEF a
      <4> HIDE DEF J
      <4> QED BY <2>1, <2>5, <3>3, <4>2, <4>3, <4>5
    <3>5. from' + col' - 2 = e
      BY <1>0, <2>1, <3>1
    <3>6. Following'
      BY <2>1, <3>1, <3>2, <3>3, <3>4, <3>5, Zenon DEF Following
    <3> QED BY <3>1, <3>6 DEF Followed
  <2> QED BY <1>0, <1>2, <2>6, <2>7
<1> QED BY <1>4, <1>5, <1>6, <1>7

\* Every step of either gate leaves the style gate where the grammar is.
LEMMA SStep ==
  ASSUME SInv, [Next]_vars
  PROVE  SInv'
<1>1. GInv /\ GInv'
  BY GStep DEF SInv
<1>2. source' = source
  BY DEF Next, vars, StyleOpen, StyleClose, StyleKeep, StyleNextLine, OpenBlock, CloseBlock,
         InBlock, Escape, EndString, InString, LineComment, OpenString, Keep, Finish, Emit
<1>3. SUFFICES ASSUME BareTame(source) PROVE SInv'
  BY <1>1, <1>2 DEF SInv
<1>4. Following /\ Followed /\ LinesThere
  BY <1>3 DEF SInv
<1>i. /\ i \in 1..Len(source) + 1 /\ source \in Seq(Char) /\ Len(source) \in Nat /\ TypeOK
      /\ \A k \in 1..Len(source) : source[k] \in Char
      /\ in_string => AtString(source, i)
  <2>1. TypeOK /\ (in_string => AtString(source, i))
    BY <1>1 DEF GInv, IInv, Place
  <2>2. i \in 1..Len(source) + 1 /\ source \in Seq(Char)
    BY <2>1 DEF TypeOK
  <2> QED BY <2>1, <2>2
<1>c. ASSUME Emit(<<Blank, Blank>>), source[i] # Newline, source[i + 1] # Newline PROVE SInv'
  <2>1. <<Blank, Blank>> \in Seq(Char) /\ Len(<<Blank, Blank>>) = 2
    BY DEF Char
  <2>2. \A k \in 1..2 : (k = 1 \/ k = 2) /\ i + 1 - 1 = i /\ i + 2 - 1 = i + 1
    BY <1>i
  <2>3. \A k \in 1..2 : source[i + k - 1] # Newline
    BY <1>c, <2>2
  <2> QED BY <1>1, <1>3, <1>c, <2>1, <2>3, EmitLines
<1>d. ASSUME NEW c \in Char, Emit(<<c>>), source[i] = Newline => c = Newline PROVE SInv'
  <2>1. <<c>> \in Seq(Char) /\ Len(<<c>>) = 1
    OBVIOUS
  <2>2. \A k \in 1..1 : source[i + k - 1] = Newline => <<c>>[k] = Newline
    BY <1>d, <1>i
  <2> QED BY <1>1, <1>3, <1>d, <2>1, <2>2, EmitLines
<1>f. ASSUME i <= Len(source)
      PROVE  Shadow(source[i]) \in Char /\ (source[i] = Newline => Shadow(source[i]) = Newline)
  BY <1>f DEF Char, Shadow
<1>g. Blank \in Char
  BY DEF Char
<1>5. CASE StyleOpen \/ StyleClose \/ StyleKeep \/ StyleNextLine
  <2>1. gate = "style" /\ result' = result
    BY <1>5 DEF StyleOpen, StyleClose, StyleKeep, StyleNextLine, data
  <2>2. Following' /\ Followed'
    BY <1>3, <1>4, <1>5, <1>i, <2>1, StyleFollows
  <2>3. LinesThere'
    BY <1>2, <1>4, <2>1 DEF LinesThere
  <2> QED BY <1>1, <2>2, <2>3 DEF SInv
<1>6. CASE OpenBlock
  <2>1. Starts(source, i, Slash, Dash) /\ Emit(<<Blank, Blank>>)
    BY <1>6 DEF OpenBlock
  <2>2. source[i] # Newline /\ source[i + 1] # Newline
    BY <2>1 DEF Starts, Slash, Dash, Newline
  <2> QED BY <1>c, <2>1, <2>2
<1>7. CASE CloseBlock
  <2>1. Starts(source, i, Dash, Slash) /\ Emit(<<Blank, Blank>>)
    BY <1>7 DEF CloseBlock
  <2>2. source[i] # Newline /\ source[i + 1] # Newline
    BY <2>1 DEF Starts, Slash, Dash, Newline
  <2> QED BY <1>c, <2>1, <2>2
<1>8. CASE InBlock
  BY <1>8, <1>d, <1>f DEF InBlock
<1>9. CASE Escape
  <2>1. in_string /\ i < Len(source) /\ source[i] = Backslash /\ Emit(<<Blank, Blank>>)
    BY <1>9 DEF Escape
  <2>2. source[i + 1] # Newline
    <3>1. i \in 1..Len(source)
      BY <1>i, <2>1
    <3> QED BY <1>3, <1>i, <2>1, <3>1, EscapePlain
  <2> QED BY <1>c, <2>1, <2>2 DEF Backslash, Newline
<1>10. CASE EndString
  <2>1. source[i] = Quote /\ Emit(<<Blank>>)
    BY <1>10 DEF EndString
  <2> QED BY <1>d, <1>g, <2>1 DEF Quote, Newline
<1>11. CASE InString
  BY <1>11, <1>d, <1>f DEF InString
<1>12. CASE LineComment
  <2>1. PICK e \in i + 1..Len(source) + 1 :
          EndsLine(source, i, e) /\ Emit([k \in 1..e - i |-> Blank])
    BY <1>12 DEF LineComment
  <2> DEFINE w == [k \in 1..e - i |-> Blank]
  <2>2. w \in Seq(Char) /\ Len(w) = e - i
    BY <1>i, <1>g
  <2>3. \A k \in 1..Len(w) : source[i + k - 1] # Newline
    <3>1. SUFFICES ASSUME NEW k \in 1..e - i PROVE source[i + k - 1] # Newline
      BY <2>2
    <3>2. i + k - 1 \in i..e - 1
      BY <1>i
    <3> QED BY <2>1, <3>2 DEF EndsLine
  <2>4. Emit(w)
    BY <2>1
  <2> HIDE DEF w
  <2> QED BY <1>1, <1>3, <2>2, <2>3, <2>4, EmitLines
<1>13. CASE OpenString
  <2>1. source[i] = Quote /\ Emit(<<Blank>>)
    BY <1>13 DEF OpenString
  <2> QED BY <1>d, <1>g, <2>1 DEF Quote, Newline
<1>14. CASE Keep
  <2>1. i \in 1..Len(source) /\ Emit(<<source[i]>>)
    BY <1>14, <1>i DEF Keep, InCode
  <2>2. source[i] \in Char
    BY <1>i, <2>1
  <2> QED BY <1>d, <2>1, <2>2
<1>15. CASE Finish
  <2>1. gate = "data" /\ gate' = "done" /\ UNCHANGED <<out, result>>
    BY <1>15 DEF Finish, style, data
  <2>2. Following' /\ Followed' /\ LinesThere'
    BY <1>2, <1>4, <2>1 DEF Following, Followed, LinesThere
  <2> QED BY <1>1, <2>2 DEF SInv
<1>16. CASE UNCHANGED vars
  <2>1. UNCHANGED <<source, gate, from, s, col, depth, buf, out, result>>
    BY <1>16 DEF vars, style, data
  <2>2. Following' /\ Followed' /\ LinesThere'
    BY <1>4, <2>1 DEF Following, Followed, LinesThere
  <2> QED BY <1>1, <2>2 DEF SInv
<1> QED
  BY <1>5, <1>6, <1>7, <1>8, <1>9, <1>10, <1>11, <1>12, <1>13, <1>14, <1>15, <1>16 DEF Next

\* Of any such file whose strings close on their lines and whose block comments quote nothing, the
\* two gates judge the same words, however deep the comments nest.
THEOREM SameWords == Spec => []GatesAgree
<1>1. ASSUME SInv PROVE GatesAgree
  <2>0. source \in Seq(Char)
    BY <1>1 DEF SInv, GInv, IInv, TypeOK
  <2>1. SUFFICES ASSUME gate = "done", BareTame(source) PROVE Words(Joined(out)) = Words(result)
    BY <2>0, OrdinaryIsBare DEF GatesAgree, Tame
  <2>2. Words(Joined(out)) = Kept(source, Len(source))
    BY <1>1, <2>1 DEF SInv, Followed
  <2>3. /\ source \in Seq(Char) /\ result \in Seq(Char) /\ Len(result) = Len(source)
        /\ \A k \in 1..Len(source) : /\ Fits(source, k, result[k])
                                     /\ result[k] \in {source[k], Blank}
                                     /\ source[k] = Newline => result[k] = Newline
    <3>1. /\ source \in Seq(Char) /\ result \in Seq(Char) /\ i \in 1..Len(source) + 1
          /\ Len(result) = i - 1 /\ i > Len(source)
      BY <1>1, <2>1 DEF SInv, GInv, IInv, TypeOK, AllGood, AtEnd
    <3>2. Len(result) = Len(source)
      BY <3>1
    <3>3. DOMAIN result = 1..Len(source)
      BY <3>1, <3>2
    <3>4. \A k \in DOMAIN result : /\ Fits(source, k, result[k])
                                   /\ result[k] \in {source[k], Blank}
                                   /\ source[k] = Newline => result[k] = Newline
      BY <1>1, <2>1 DEF SInv, GInv, IInv, AllGood, Good, Told, LinesThere
    <3> QED BY <3>1, <3>2, <3>3, <3>4
  <2>4. ASSUME NEW k \in 1..Len(source)
        PROVE  WordOf(result[k]) = KeptPart(source, k)
    BY <2>3, <2>4 DEF WordOf, KeptPart, Drops, Fits, Blank, Newline, Quote
  <2>5. Words(result) = Flat([k \in 1..Len(source) |-> WordOf(result[k])])
    BY <2>3 DEF Words, WordOf
  <2>6. [k \in 1..Len(source) |-> WordOf(result[k])] =
        [k \in 1..Len(source) |-> KeptPart(source, k)]
    BY <2>4
  <2> QED BY <2>2, <2>5, <2>6 DEF Kept
<1> QED
  BY <1>1, SInit, SStep, PTL DEF Spec

(***************************************************************************)
(* Why both loops end: they can always go on, and only finitely often.     *)
(***************************************************************************)
\* The guard of some branch holds, with the end of line that the branch looks for, and
\* with the next line where there is one.
StyleGoesOn ==
  \/ Starts(s, col, Slash, Dash)
  \/ Starts(s, col, Dash, Slash) /\ depth > 0
  \/ /\ col <= Len(s) /\ ~Starts(s, col, Slash, Dash)
     /\ ~(depth > 0 /\ Starts(s, col, Dash, Slash)) /\ ~Comment
  \/ /\ col > Len(s) \/ Comment
     /\ \E e \in from..Len(source) + 1 :
          /\ EndsLine(source, from, e)
          /\ e <= Len(source) => LineFrom(source, e + 1) # {}

DataGoesOn ==
  \/ ~in_string /\ Starts(source, i, Slash, Dash)
  \/ block_depth > 0 /\ Starts(source, i, Dash, Slash)
  \/ /\ block_depth > 0 /\ i <= Len(source)
     /\ ~Starts(source, i, Slash, Dash) /\ ~Starts(source, i, Dash, Slash)
  \/ in_string /\ i < Len(source) /\ source[i] = Backslash
  \/ in_string /\ i <= Len(source) /\ source[i] = Quote
  \/ /\ in_string /\ i <= Len(source) /\ source[i] # Quote
     /\ ~(source[i] = Backslash /\ i < Len(source))
  \/ /\ InCode /\ Starts(source, i, Dash, Dash)
     /\ \E e \in i + 1..Len(source) + 1 : EndsLine(source, i, e)
  \/ InCode /\ source[i] = Quote
  \/ /\ InCode /\ source[i] # Quote
     /\ ~Starts(source, i, Dash, Dash) /\ ~Starts(source, i, Slash, Dash)
  \/ i > Len(source)

GoesOn == (gate = "style" => StyleGoesOn) /\ (gate = "data" => DataGoesOn)

\* A turn of a loop ends the gate, or begins the next line, or reads on.
Ahead ==
  \/ <<gate, gate'>> \in {<<"style", "data">>, <<"data", "done">>}
  \/ /\ gate = "style" /\ gate' = "style"
     /\ from' > from \/ (from' = from /\ s' = s /\ col' > col)
  \/ gate = "data" /\ gate' = "data" /\ i' > i

\* Wherever a file breaks off, in a comment, in a string or behind a backslash, neither
\* loop is without a branch to take.
THEOREM NeverStuck == Spec => []GoesOn
<1>1. ASSUME IInv PROVE GoesOn
  <2>1. /\ source \in Seq(Char) /\ Len(source) \in Nat /\ i \in 1..Len(source) + 1
        /\ from \in 1..Len(source) + 1 /\ s \in Seq(Char) /\ col \in 1..Len(s) + 1
        /\ block_depth \in Nat /\ depth \in Nat
    BY <1>1 DEF IInv, TypeOK
  <2>2. StyleGoesOn
    <3>1. PICK e \in from..Len(source) + 1 : EndsLine(source, from, e)
      BY <2>1, LineEnds
    <3>2. ASSUME e <= Len(source) PROVE LineFrom(source, e + 1) # {}
      <4>1. e + 1 \in 1..Len(source) + 1
        BY <2>1, <3>1, <3>2
      <4>2. PICK f \in e + 1..Len(source) + 1 : EndsLine(source, e + 1, f)
        BY <2>1, <4>1, LineEnds
      <4> QED
        BY <4>2 DEF LineFrom
    <3>3. col <= Len(s) \/ col > Len(s)
      BY <2>1
    <3> QED
      BY <2>1, <3>1, <3>2, <3>3 DEF StyleGoesOn
  <2>3. DataGoesOn
    <3>1. CASE i > Len(source)
      BY <3>1 DEF DataGoesOn
    <3>2. CASE i <= Len(source) /\ in_string
      BY <3>2 DEF DataGoesOn
    <3>3. CASE i <= Len(source) /\ ~in_string /\ block_depth > 0
      BY <3>3 DEF DataGoesOn
    <3>4. CASE InCode
      <4>1. ASSUME Starts(source, i, Dash, Dash)
            PROVE  \E e \in i + 1..Len(source) + 1 : EndsLine(source, i, e)
        <5>1. PICK e \in i..Len(source) + 1 : EndsLine(source, i, e)
          BY <2>1, LineEnds
        <5>2. e # i
          BY <4>1, <5>1 DEF EndsLine, Starts, Dash, Newline
        <5>3. e \in i + 1..Len(source) + 1
          BY <2>1, <5>1, <5>2
        <5> QED
          BY <5>1, <5>3
      <4> QED
        BY <3>4, <4>1 DEF DataGoesOn, InCode
    <3> QED
      BY <2>1, <3>1, <3>2, <3>3, <3>4 DEF InCode
  <2> QED
    BY <2>2, <2>3 DEF GoesOn
<1> QED
  BY <1>1, Invariance, PTL

\* No turn goes back or stands still, so that, with places in the file and on the line
\* bounded by TypeOK, neither loop goes on for ever, whatever the file.
THEOREM GetsAhead == Spec => [][Ahead]_vars
<1>1. ASSUME IInv, [Next]_vars PROVE [Ahead]_vars
  <2> SUFFICES ASSUME Next PROVE Ahead
    BY <1>1 DEF vars
  <2>1. /\ i \in Nat /\ Len(source) \in Nat /\ from \in Nat /\ col \in Nat
    BY <1>1 DEF IInv, TypeOK
  <2>2. CASE StyleOpen \/ StyleClose \/ StyleKeep
    BY <2>1, <2>2 DEF StyleOpen, StyleClose, StyleKeep, Ahead
  <2>3. CASE StyleNextLine
    <3>1. PICK e \in from..Len(source) + 1 :
            \/ gate' = "data"
            \/ from' = e + 1 /\ gate' = gate
      BY <2>3 DEF StyleNextLine
    <3>2. from' = e + 1 => from' > from
      BY <2>1
    <3> QED
      BY <2>3, <3>1, <3>2 DEF StyleNextLine, Ahead
  <2>4. ASSUME NEW t, Emit(t), Len(t) \in Nat \ {0} PROVE Ahead
    BY <2>1, <2>4 DEF Emit, style, Ahead
  <2>5. CASE OpenBlock \/ CloseBlock \/ Escape
    <3>1. Emit(<<Blank, Blank>>)
      BY <2>5 DEF OpenBlock, CloseBlock, Escape
    <3> QED
      BY <2>4, <3>1
  <2>6. CASE InBlock \/ EndString \/ InString \/ OpenString \/ Keep
    <3>1. PICK c : Emit(<<c>>)
      BY <2>6 DEF InBlock, EndString, InString, OpenString, Keep
    <3> QED
      BY <2>4, <3>1
  <2>7. CASE LineComment
    <3>1. PICK e \in i + 1..Len(source) + 1 : Emit([k \in 1..e - i |-> Blank])
      BY <2>7 DEF LineComment
    <3>2. e - i \in Nat \ {0} /\ Len([k \in 1..e - i |-> Blank]) = e - i
      BY <2>1
    <3> QED
      BY <2>4, <3>1, <3>2
  <2>8. CASE Finish
    BY <2>8 DEF Finish, Ahead
  <2> QED
    BY <2>2, <2>3, <2>5, <2>6, <2>7, <2>8 DEF Next
<1> QED
  BY <1>1, Invariance, PTL DEF Spec
=============================================================================
