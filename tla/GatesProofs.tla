------------------------------ MODULE GatesProofs ---------------------------
(***************************************************************************)
(* That exit 0 of gates.sh is deserved, and exit 1 too. A gate says one    *)
(* thing of a tree, whatever the scratch directory, as long as what the    *)
(* directory has of the tree is the tree's own (Says, Artifact). Hence the *)
(* invariant, of every run that nobody disturbed (Sound): a failure it     *)
(* noted has its reason in the tree, if git and the host did what they     *)
(* were asked; or every gate behind it said yes, that of style if git did. *)
(***************************************************************************)
EXTENDS Gates, TLAPS

-----------------------------------------------------------------------------
(* The lists of gates.                                                     *)

\* The gates of the two modes: how many there are, and where those stand that matter below.
LEMMA GateOrder ==
  /\ Len(Gates("fast")) = 8 /\ Len(Gates("full")) = 21
  /\ Gates("fast")[2] = "mathlib-style" /\ Gates("full")[2] = "mathlib-style"
  /\ Gates("full")[12] = "pin" /\ Gates("full")[13] = "source-independence"
  /\ Gates("full")[16] = "coverage-map" /\ Gates("full")[19] = "emit"
  /\ Gates("full")[20] = "emission-coverage" /\ Gates("full")[21] = "exe-sorry"
<1>1. /\ Len(Fast) = 8 /\ Len(More) = 13 /\ Fast[2] = "mathlib-style"
      /\ More[4] = "pin" /\ More[5] = "source-independence" /\ More[8] = "coverage-map"
      /\ More[11] = "emit" /\ More[12] = "emission-coverage" /\ More[13] = "exe-sorry"
  BY DEF Fast, More
<1> QED BY <1>1 DEF Gates, Full, Fast, More

\* The artifact is judged by one gate, after the emitter.
LEMMA CoverageLast ==
  ASSUME NEW mode \in {"fast", "full"}, NEW i \in 1..Len(Gates(mode)),
         Gates(mode)[i] = "emission-coverage"
  PROVE  mode = "full" /\ i = 20
BY GateOrder DEF Gates, Full, Fast, More

\* Each has its paths and its lines.
LEMMA GatesListed ==
  ASSUME NEW mode \in {"fast", "full"}, NEW i \in 1..Len(Gates(mode))
  PROVE  Gates(mode)[i] \in DOMAIN Caught
<1>1. Gates("full")[i] \in DOMAIN Caught
  <2>1. i \in 1..21
    <3>1. CASE mode = "fast"
      <4>1. i \in 1..Len(Gates("fast"))
        BY <3>1
      <4>2. i \in 1..8
        BY <4>1, GateOrder, Zenon
      <4> QED BY <4>2
    <3>2. CASE mode = "full"
      <4>1. i \in 1..Len(Gates("full"))
        BY <3>2
      <4> QED BY <4>1, GateOrder
    <3> QED BY <3>1, <3>2
  <2> QED BY <2>1, GateOrder, GatesAssumption
<1>2. CASE mode = "fast"
  <2>1. Fast[i] = (Fast \o More)[i]
    BY <1>2, GateOrder DEF Gates, Full, Fast, More
  <2> QED BY <1>1, <1>2, <2>1 DEF Gates, Full
<1> QED BY <1>1, <1>2

-----------------------------------------------------------------------------
(* A run, as a record.                                                     *)

\* A run begins, writes its transcript, ends, or is disturbed.
LEMMA RunMoves ==
  ASSUME NEW x \in Progress
  PROVE  /\ \A mode \in {"fast", "full"} :
              /\ Begun(x, mode) \in Progress /\ Begun(x, mode).state = "running"
              /\ Begun(x, mode).mode = mode
              /\ Begun(x, mode).at = x.at /\ Begun(x, mode).wrote = x.wrote
              /\ Begun(x, mode).failed = x.failed /\ Begun(x, mode).steady = x.steady
         /\ Written(x) \in Progress /\ Written(x).wrote
         /\ Written(x).state = x.state /\ Written(x).mode = x.mode /\ Written(x).at = x.at
         /\ Written(x).failed = x.failed /\ Written(x).steady = x.steady
         /\ Written(x).served = x.served
         /\ \A how \in {"passed", "failed", "interrupted", "refused"} :
              Ended(how) \in Progress /\ Ended(how).state = how
         /\ Disturbed(x) \in Progress /\ ~Disturbed(x).steady
         /\ Disturbed(x).state = x.state /\ Disturbed(x).at = x.at /\ Disturbed(x).mode = x.mode
<1>1. ASSUME NEW mode \in {"fast", "full"}
      PROVE  /\ Begun(x, mode) \in Progress /\ Begun(x, mode).state = "running"
             /\ Begun(x, mode).mode = mode
             /\ Begun(x, mode).at = x.at /\ Begun(x, mode).wrote = x.wrote
             /\ Begun(x, mode).failed = x.failed /\ Begun(x, mode).steady = x.steady
  BY DEF Progress, Begun
<1>2. /\ Written(x) \in Progress /\ Written(x).wrote = TRUE
      /\ Written(x).state = x.state /\ Written(x).mode = x.mode /\ Written(x).at = x.at
      /\ Written(x).failed = x.failed /\ Written(x).steady = x.steady
      /\ Written(x).served = x.served
  BY DEF Progress, Written
<1>3. ASSUME NEW how \in {"passed", "failed", "interrupted", "refused"}
      PROVE  Ended(how) \in Progress /\ Ended(how).state = how
  <2>1. 1 \in 1..Len(Gates("full")) + 1
    BY GateOrder
  <2> QED BY <2>1 DEF Progress, Ended, Idle
<1>4. /\ Disturbed(x) \in Progress /\ Disturbed(x).steady = FALSE
      /\ Disturbed(x).state = x.state /\ Disturbed(x).at = x.at /\ Disturbed(x).mode = x.mode
  BY DEF Progress, Disturbed
<1> QED BY <1>1, <1>2, <1>3, <1>4, Zenon

\* A run past a gate, with the failure noted if there was one.
LEMMA GateJudged ==
  ASSUME NEW x \in Progress, x.at <= Len(Gates("full")), NEW ok \in BOOLEAN,
         NEW served \in BOOLEAN
  PROVE  LET y == After(x, ok, served) IN
         /\ y \in Progress /\ y.state = x.state /\ y.mode = x.mode /\ y.at = x.at + 1
         /\ ~y.wrote /\ y.steady = x.steady
         /\ y.failed <=> x.failed \/ ~ok
         /\ y.served <=> x.served /\ served
<1> DEFINE past == Past(x, served)
<1>1. x.at + 1 \in 1..Len(Gates("full")) + 1
  BY GateOrder DEF Progress
<1>2. /\ past.state = x.state /\ past.mode = x.mode
      /\ past.at = x.at + 1 /\ past.wrote = FALSE /\ past.failed = x.failed
      /\ past.steady = x.steady /\ past.served = (x.served /\ served)
  BY DEF Progress, Past
<1>3. past \in Progress
  BY <1>1 DEF Progress, Past
<1>4. ASSUME NEW z \in Progress
      PROVE  /\ Fails(z) \in Progress /\ Fails(z).state = z.state /\ Fails(z).mode = z.mode
             /\ Fails(z).at = z.at /\ Fails(z).wrote = z.wrote /\ Fails(z).failed = TRUE
             /\ Fails(z).steady = z.steady /\ Fails(z).served = z.served
  BY DEF Progress, Fails
<1>5. CASE ok
  <2>1. After(x, ok, served) = past
    BY <1>5 DEF After
  <2> HIDE DEF past
  <2> QED BY <1>2, <1>3, <1>5, <2>1
<1>6. CASE ~ok
  <2>1. After(x, ok, served) = Fails(past)
    BY <1>6 DEF After
  <2> HIDE DEF past
  <2>2. /\ Fails(past) \in Progress /\ Fails(past).state = past.state
        /\ Fails(past).mode = past.mode /\ Fails(past).at = past.at
        /\ Fails(past).wrote = past.wrote /\ Fails(past).failed = TRUE
        /\ Fails(past).steady = past.steady /\ Fails(past).served = past.served
    BY <1>3, <1>4, Zenon
  <2> QED BY <1>2, <1>6, <2>1, <2>2
<1> QED BY <1>5, <1>6

-----------------------------------------------------------------------------
(* What the branch wrote, and what a pass leaves.                          *)

\* A line of a file is among the lines of the file.
LEMMA LineThere ==
  ASSUME NEW t \in Snapshot, NEW p \in Paths, t[p] # Absent
  PROVE  /\ t[p] \in Seq(Lines)
         /\ \A i \in 1..Len(t[p]) : t[p][i] \in LinesOf(t, p)
<1>1. t[p] \in Seq(Lines)
  BY DEF Snapshot
<1>2. \A i \in 1..Len(t[p]) : i \in DOMAIN t[p]
  BY <1>1
<1> QED BY <1>1, <1>2 DEF LinesOf, Range

\* A text of base is a sequence of lines, and its lines are those of its file.
LEMMA OldText ==
  ASSUME NEW head \in Snapshot, NEW p \in Paths, head[p] # Absent,
         NEW old \in OldTexts(head, p)
  PROVE  /\ old \in Seq(Lines)
         /\ \E q \in Paths : /\ \A j \in 1..Len(old) : old[j] \in LinesOf(base, q)
                             /\ q = p \/ (base[p] = Absent /\ head[q] = Absent)
<1>1. base \in Snapshot
  BY SourcesAssumption
<1>2. ASSUME NEW q \in Paths, base[q] = old, base[q] # Absent,
             q = p \/ (base[p] = Absent /\ head[q] = Absent)
      PROVE  /\ old \in Seq(Lines)
             /\ \E x \in Paths : /\ \A j \in 1..Len(old) : old[j] \in LinesOf(base, x)
                                 /\ x = p \/ (base[p] = Absent /\ head[x] = Absent)
  BY <1>1, <1>2, LineThere
<1>3. CASE base[p] # Absent
  <2>1. old = base[p]
    BY <1>3 DEF OldTexts
  <2> QED BY <1>2, <1>3, <2>1
<1>4. CASE base[p] = Absent /\ Moved(head, p)
  <2>1. PICK q \in Paths : base[q] = head[p] /\ head[q] = Absent
    BY <1>4 DEF Moved
  <2>2. old = head[p]
    BY <1>4 DEF OldTexts
  <2> QED BY <1>2, <1>4, <2>1, <2>2
<1>5. CASE base[p] = Absent /\ ~Moved(head, p)
  <2>1. PICK q \in Paths : old = base[q] /\ base[q] # Absent /\ head[q] = Absent
    BY <1>5 DEF OldTexts
  <2> QED BY <1>2, <1>5, <2>1
<1> QED BY <1>3, <1>4, <1>5

\* A line that the branch wrote is kept by no diff.
LEMMA OwnLine ==
  ASSUME NEW head \in Snapshot, NEW p \in Paths, head[p] # Absent,
         NEW i \in 1..Len(head[p]), Wrote(head, p, head[p][i]),
         NEW old \in OldTexts(head, p), NEW K \in Diffs(old, head[p])
  PROVE  i \notin K
<1> SUFFICES ASSUME i \in K PROVE FALSE
  OBVIOUS
<1>1. PICK at \in [K -> 1..Len(old)] : \A k \in K : old[at[k]] = head[p][k]
  BY DEF Diffs, Kept
<1>2. at[i] \in 1..Len(old) /\ old[at[i]] = head[p][i]
  BY <1>1
<1>3. PICK q \in Paths : /\ \A j \in 1..Len(old) : old[j] \in LinesOf(base, q)
                         /\ q = p \/ (base[p] = Absent /\ head[q] = Absent)
  BY OldText
<1>4. head[p][i] \in LinesOf(base, q)
  BY <1>2, <1>3
<1> QED BY <1>3, <1>4 DEF Wrote

\* A diff of a text with itself keeps it all.
LEMMA SameText ==
  ASSUME NEW text \in Seq(Lines), NEW K \in Diffs(text, text), NEW i \in 1..Len(text)
  PROVE  i \in K
<1> SUFFICES ASSUME i \notin K PROVE FALSE
  OBVIOUS
<1>1. K \subseteq 1..Len(text) /\ ~Kept(text, text, K \cup {i})
  BY DEF Diffs
<1> DEFINE at == [k \in K \cup {i} |-> k]
<1>2. at \in [K \cup {i} -> 1..Len(text)]
  BY <1>1
<1>3. \A k \in K \cup {i} : at[k] = k
  OBVIOUS
<1> HIDE DEF at
<1> QED BY <1>1, <1>2, <1>3 DEF Kept

\* A line that a diff could have kept, and did not, is displaced.
LEMMA NotKept ==
  ASSUME NEW old \in Seq(Lines), NEW new \in Seq(Lines), NEW K \in Diffs(old, new),
         NEW i \in 1..Len(new), i \notin K
  PROVE  Displaced(old, new, i)
<1> SUFFICES ASSUME NEW j \in 1..Len(old), old[j] = new[i],
                    \A k \in 1..Len(new), m \in 1..Len(old) :
                      old[m] = new[k] => ~(k < i /\ m >= j) /\ ~(k > i /\ m <= j)
             PROVE  FALSE
  BY DEF Displaced
<1>1. K \subseteq 1..Len(new) /\ Kept(old, new, K) /\ ~Kept(old, new, K \cup {i})
  BY DEF Diffs
<1>2. PICK at \in [K -> 1..Len(old)] : /\ \A k \in K : old[at[k]] = new[k]
                                       /\ \A k, l \in K : k < l => at[k] < at[l]
  BY <1>1 DEF Kept
<1>3. Len(old) \in Nat /\ Len(new) \in Nat
  OBVIOUS
<1>4. \A k \in K : /\ k \in Nat /\ k # i /\ at[k] \in 1..Len(old)
                   /\ k < i => at[k] < j
                   /\ i < k => j < at[k]
  BY <1>1, <1>2, <1>3
<1> DEFINE more == [k \in K \cup {i} |-> IF k = i THEN j ELSE at[k]]
<1>5. more \in [K \cup {i} -> 1..Len(old)] /\ more[i] = j /\ \A k \in K : more[k] = at[k]
  BY <1>4
<1> HIDE DEF more
<1>6. \A k \in K \cup {i} : old[more[k]] = new[k]
  BY <1>2, <1>5
<1>7. \A k, l \in K \cup {i} : k < l => more[k] < more[l]
  <2> SUFFICES ASSUME NEW k \in K \cup {i}, NEW l \in K \cup {i}, k < l
               PROVE  more[k] < more[l]
    OBVIOUS
  <2>1. CASE k \in K /\ l \in K
    BY <1>2, <1>5, <2>1
  <2>2. CASE k = i /\ l \in K
    BY <1>4, <1>5, <2>2
  <2>3. CASE k \in K /\ l = i
    BY <1>4, <1>5, <2>3
  <2>4. CASE k = i /\ l = i
    BY <1>3, <2>4
  <2> QED BY <2>1, <2>2, <2>3, <2>4
<1> QED BY <1>1, <1>5, <1>6, <1>7 DEF Kept

\* What may count as touched, where git answered.
LEMMA TouchedLines ==
  ASSUME NEW g \in Checkout, NEW p \in Paths, g.head[p] # Absent,
         NEW lines \in Touched(g, p, Questions)
  PROVE  \/ IsNew(g.head, p) /\ lines = 1..Len(g.work[p])
         \/ \E old \in OldTexts(g.head, p) : \E K \in Diffs(old, g.head[p]) :
              lines = 1..Len(g.head[p]) \ K
<1>1. "lines" \in Questions
  BY DEF Questions
<1> QED BY <1>1 DEF Touched

\* Over a clean tree, a pass of the style gate is a branch without a bad line of its own.
LEMMA StylePass ==
  ASSUME NEW g \in Checkout, TRUE \in StyleVerdicts(g, Questions),
         \A p \in Hidden : g.head[p] = Absent,
         \A p \in Paths \ Hidden : g.head[p] = g.work[p]
  PROVE  ~BadLine(g.head)
<1> SUFFICES ASSUME NEW p \in Present(g.head), InScope(p), NEW i \in Findings(g.head[p]),
                    Wrote(g.head, p, g.head[p][i])
             PROVE  FALSE
  BY DEF BadLine
<1>1. g.head \in Snapshot /\ g.work \in Snapshot
  BY DEF Checkout
<1>2. p \in Paths /\ g.head[p] # Absent /\ g.head[p] = g.work[p]
  BY DEF Present
<1>3. i \in 1..Len(g.head[p])
  BY DEF Findings
<1>4. g.head[p][i] \in LinesOf(g.head, p)
  BY <1>1, <1>2, <1>3, LineThere
<1>5. g.head[p] # base[p]
  BY <1>4 DEF Wrote, LinesOf
<1>6. p \in Judgeable(g, Questions)
  BY <1>2, <1>5 DEF Judgeable, ChangedFiles, Present, Questions
<1>7. PICK lines \in Touched(g, p, Questions) : Findings(g.work[p]) \cap lines = {}
  BY <1>6 DEF StyleVerdicts
<1>8. i \in lines
  <2>1. CASE lines = 1..Len(g.work[p])
    BY <1>2, <1>3, <2>1
  <2>2. CASE \E old \in OldTexts(g.head, p) : \E K \in Diffs(old, g.head[p]) :
               lines = 1..Len(g.head[p]) \ K
    <3>1. PICK old \in OldTexts(g.head, p) : \E K \in Diffs(old, g.head[p]) :
                 lines = 1..Len(g.head[p]) \ K
      BY <2>2
    <3>2. PICK K \in Diffs(old, g.head[p]) : lines = 1..Len(g.head[p]) \ K
      BY <3>1
    <3>3. i \notin K
      BY <1>1, <1>2, <1>3, OwnLine
    <3> QED BY <1>3, <3>2, <3>3
  <2> QED BY <1>2, <2>1, <2>2, TouchedLines
<1> QED BY <1>2, <1>7, <1>8

\* And a failure has a finding, in a line of the branch if the file is as committed.
LEMMA StyleFails ==
  ASSUME NEW g \in Checkout, FALSE \in StyleVerdicts(g, Questions)
  PROVE  Faulty(g)
<1>1. PICK p \in Judgeable(g, Questions) :
        \E lines \in Touched(g, p, Questions) : ~(Findings(g.work[p]) \cap lines = {})
  BY DEF StyleVerdicts
<1>2. PICK lines \in Touched(g, p, Questions) : ~(Findings(g.work[p]) \cap lines = {})
  BY <1>1
<1>3. PICK i \in Findings(g.work[p]) : i \in lines
  BY <1>2
<1>4. p \in Present(g.work) /\ p \in Paths /\ InScope(p) /\ g.work[p] # Absent
  BY <1>1 DEF Judgeable, Present
<1>5. ASSUME g.head[p] = g.work[p] PROVE Reworked(g.head, p, i)
  <2>1. g.head \in Snapshot /\ g.head[p] # Absent /\ base \in Snapshot
    BY <1>4, <1>5, SourcesAssumption DEF Checkout
  <2>2. i \in 1..Len(g.head[p])
    BY <1>5 DEF Findings
  <2>3. g.head[p] \in Seq(Lines)
    BY <1>4, <2>1, LineThere
  <2>4. CASE IsNew(g.head, p)
    BY <2>4 DEF Reworked
  <2>5. CASE ~IsNew(g.head, p)
    <3>1. PICK old \in OldTexts(g.head, p) : \E K \in Diffs(old, g.head[p]) :
                 lines = 1..Len(g.head[p]) \ K
      BY <1>4, <2>1, <2>5, TouchedLines
    <3>2. PICK K \in Diffs(old, g.head[p]) : lines = 1..Len(g.head[p]) \ K
      BY <3>1
    <3>3. i \notin K
      BY <1>3, <3>2
    <3>4. CASE base[p] # Absent
      <4>1. old = base[p]
        BY <3>4 DEF OldTexts
      <4>2. old \in Seq(Lines)
        BY <1>4, <2>1, OldText
      <4>3. Displaced(old, g.head[p], i)
        BY <2>2, <2>3, <3>3, <4>2, NotKept
      <4> QED BY <3>4, <4>1, <4>3 DEF Reworked
    <3>5. CASE base[p] = Absent
      <4>1. Moved(g.head, p)
        BY <2>5, <3>5 DEF IsNew
      <4>2. old = g.head[p]
        BY <3>5, <4>1 DEF OldTexts
      <4>3. K \in Diffs(g.head[p], g.head[p])
        BY <4>2
      <4>4. i \in K
        BY <2>2, <2>3, <4>3, SameText
      <4> QED BY <3>3, <4>4
    <3> QED BY <3>4, <3>5
  <2> QED BY <2>4, <2>5
<1> QED BY <1>3, <1>4, <1>5 DEF Faulty

\* What the gates of the registry leave for exit 0 to say.
LEMMA PinPass ==
  ASSUME NEW g \in Checkout, PinHolds(g.work), \A p \in Paths \ Hidden : g.head[p] = g.work[p]
  PROVE  Rev(g.head, Manifest, "mfc") = Rev(g.head, CI, "mfc_cli")
<1>1. Rev(g.work, Manifest, "mfc") = Rev(g.work, CI, "mfc_cli")
  BY DEF PinHolds
<1>2. /\ LinesOf(g.head, Manifest) = LinesOf(g.work, Manifest)
      /\ LinesOf(g.head, CI) = LinesOf(g.work, CI)
  BY RegistryAssumption DEF LinesOf
<1>3. Pinned(g.head, Manifest) = Pinned(g.work, Manifest) /\ Pinned(g.head, CI) = Pinned(g.work, CI)
  BY <1>2 DEF Pinned
<1> QED BY <1>1, <1>3 DEF Rev

\* No claim formalized without its owner, and none against another version of the paper.
LEMMA MapPass ==
  ASSUME NEW g \in Checkout, MapHolds(g.work), \A p \in Paths \ Hidden : g.head[p] = g.work[p],
         NEW entry \in Entries(g.head), entry.status = "formalized"
  PROVE  "owner_accepted" \in entry.fields /\ Versions(g.head) \subseteq entry.checked
<1>1. LinesOf(g.head, Map) = LinesOf(g.work, Map)
  BY RegistryAssumption DEF LinesOf
<1>2. Entries(g.head) = Entries(g.work) /\ Versions(g.head) = Versions(g.work)
  BY <1>1 DEF Entries, Versions
<1>3. EntryHolds(entry, Vocabulary(g.work), Versions(g.head))
  BY <1>2 DEF MapHolds
<1> QED BY <1>3 DEF EntryHolds

\* No import of a retired module where the walk goes; it stops at .claude alone, for a
\* nested checkout is itself an error.
LEMMA SourcesPass ==
  ASSUME NEW t, SourceIndependent(t), NEW p \in Present(t), Dir[p] \notin {".claude", "data"}
  PROVE  ImportsOf(t, p) \cap Retired = {}
<1>1. p \in Paths /\ p \notin Hidden
  BY DEF SourceIndependent, Present
<1>2. CASE Dir[p] = "lake"
  <2>1. p = Lakefile
    BY <1>1, <1>2, SourcesAssumption DEF SourceIndependent, LakeIndependent, Present
  <2> QED BY <2>1 DEF SourceIndependent, LakeIndependent
<1>3. CASE Dir[p] # "lake"
  <2>1. p \in Walked(t)
    BY <1>1, <1>3, SourcesAssumption DEF Walked
  <2> QED BY <2>1 DEF SourceIndependent
<1> QED BY <1>2, <1>3

\* The sweep, the coverage check and the loop over exe/ leave no file of git with a sorry.
LEMMA SorryPass ==
  ASSUME NEW g \in Checkout, g.head = g.index,
         \A p \in Hidden : g.head[p] = Absent,
         \A p \in Paths \ Hidden : g.head[p] = g.work[p],
         CoverageHolds(Emission(g.work), Tracked(g)), Hits("exe-sorry", g.work) = {}
  PROVE  ~SorryIn(g.head, {"DerivedAlgGeo", "root", "exe"})
<1> SUFFICES ASSUME NEW p \in Present(g.head), Dir[p] \in {"DerivedAlgGeo", "root", "exe"},
                    LinesOf(g.head, p) \cap Sorry # {}
             PROVE  FALSE
  BY DEF SorryIn
<1>1. p \in Paths /\ p \in Present(g.index) \cap Present(g.work)
      /\ LinesOf(g.work, p) \cap Sorry # {}
  BY DEF Present, LinesOf
<1>2. CASE Dir[p] = "exe"
  BY <1>1, <1>2 DEF Hits, Executables
<1>3. CASE Dir[p] \in {"DerivedAlgGeo", "root"}
  <2>1. p \in Tracked(g)
    BY <1>1, <1>3 DEF Tracked
  <2>2. p \in Emission(g.work).modules
    BY <2>1 DEF CoverageHolds
  <2>3. p \in Emission(g.work).sorried
    BY <1>1, <2>2 DEF Emission
  <2> QED BY <2>3 DEF CoverageHolds
<1> QED BY <1>2, <1>3

-----------------------------------------------------------------------------
(* Verdicts.                                                               *)

\* What a gate says of a tree when it passes, whatever is in the scratch directory.
Says(gate, g) ==
  IF gate = "mathlib-style" THEN TRUE \in StyleVerdicts(g, Questions)
  ELSE IF gate \in Transcribed THEN Hits(gate, g.work) = {}
  ELSE IF gate = "emission-coverage" THEN CoverageHolds(Emission(g.work), Tracked(g))
  ELSE Holds(gate, g, <<>>)

\* A scratch directory has no artifact but the tree's own, and has it after the emitter.
Artifact(files, g) == "emission" \in DOMAIN files => files["emission"] = Emission(g.work)

\* A gate that passes said what it says of the tree.
LEMMA Passing ==
  ASSUME NEW gate, gate \notin Transcribed \cup {"mathlib-style"}, NEW g, NEW files,
         Artifact(files, g),
         Holds(gate, g, files)
  PROVE  Says(gate, g)
<1>1. CASE gate = "emission-coverage"
  <2>1. "emission" \in DOMAIN files /\ CoverageHolds(files["emission"], Tracked(g))
    BY <1>1 DEF Holds
  <2>2. files["emission"] = Emission(g.work)
    BY <2>1 DEF Artifact
  <2>3. CoverageHolds(Emission(g.work), Tracked(g))
    BY <2>1, <2>2, Zenon
  <2> QED BY <1>1, <2>3 DEF Says
<1>2. CASE gate # "emission-coverage"
  <2>1. Holds(gate, g, <<>>)
    BY <1>2 DEF Holds
  <2> QED BY <1>2, <2>1 DEF Says
<1> QED BY <1>1, <1>2

\* The artifact of the tree fails the coverage check for a reason in the tree.
LEMMA CoverageFails ==
  ASSUME NEW g, ~CoverageHolds(Emission(g.work), Tracked(g))
  PROVE  Faulty(g)
<1>1. Emission(g.work).modules = Reach(g.work, Sweep)
  BY DEF Emission
<1>2. Emission(g.work).modules = {} => Emission(g.work).constants = {}
  BY DEF Emission
<1>3. CASE Emission(g.work).constants = {} \/ Emission(g.work).sorried # {}
  BY <1>3 DEF Faulty
<1>4. CASE ~(Tracked(g) \subseteq Emission(g.work).modules)
  BY <1>1, <1>4 DEF Faulty
<1> QED BY <1>2, <1>3, <1>4 DEF CoverageHolds

\* A gate that fails, of those that Check runs, has its reason in the tree: no artifact
\* is a reason where the library builds.
LEMMA Failing ==
  ASSUME NEW gate \in DOMAIN Caught, NEW g \in Checkout,
         NEW files, Artifact(files, g), ~Holds(gate, g, files),
         gate = "emission-coverage" /\ Builds(g.work, Sweep) => "emission" \in DOMAIN files
  PROVE  Faulty(g)
<1>2. CASE gate \in {"build", "emit-build"}
  <2>1. ~Builds(g.work, Sweep)
    BY <1>2 DEF Holds
  <2> QED BY <2>1 DEF Faulty
<1>3. CASE gate = "pin"
  <2>1. ~PinHolds(g.work)
    BY <1>3 DEF Holds
  <2> QED BY <2>1 DEF Faulty
<1>4. CASE gate = "source-independence"
  <2>1. ~SourceIndependent(g.work)
    BY <1>4 DEF Holds
  <2> QED BY <2>1 DEF Faulty
<1>5. CASE gate = "coherent-families"
  <2>1. ~FamiliesHold(g.work)
    BY <1>5 DEF Holds
  <2> QED BY <2>1 DEF Faulty
<1>6. CASE gate = "coverage-map"
  <2>1. ~MapHolds(g.work)
    BY <1>6 DEF Holds
  <2> QED BY <2>1 DEF Faulty
<1>7. CASE gate = "emit"
  <2>1. ~Builds(g.work, Sweep) \/ Emission(g.work).sorried # {}
    BY <1>7 DEF Holds
  <2> QED BY <2>1 DEF Faulty
<1>8. CASE gate = "emission-coverage"
  <2>1. CASE ~Builds(g.work, Sweep)
    BY <2>1 DEF Faulty
  <2>2. CASE Builds(g.work, Sweep)
    <3>1. "emission" \in DOMAIN files
      BY <1>8, <2>2
    <3>2. ~CoverageHolds(files["emission"], Tracked(g))
      BY <1>8, <3>1 DEF Holds
    <3>3. files["emission"] = Emission(g.work)
      BY <3>1 DEF Artifact
    <3>4. ~CoverageHolds(Emission(g.work), Tracked(g))
      BY <3>2, <3>3, Zenon
    <3> QED BY <3>4, CoverageFails
  <2> QED BY <2>1, <2>2
<1>9. CASE gate \notin {"build", "emit-build", "pin", "source-independence",
                        "coherent-families", "coverage-map", "emit", "emission-coverage"}
  <2>1. Hits(gate, g.work) # {}
    BY <1>9 DEF Holds
  <2> QED BY <2>1 DEF Faulty
<1> QED BY <1>2, <1>3, <1>4, <1>5, <1>6, <1>7, <1>8, <1>9

\* Where Lean cannot elaborate what a gate runs on.
LEMMA Broken ==
  ASSUME NEW gate, NEW g, ~Elaborates(gate, g.work)
  PROVE  Faulty(g)
BY DEF Elaborates, Faulty

-----------------------------------------------------------------------------
(* An undisturbed run.                                                     *)

\* A run that nobody disturbed: x is its state, g its tree, files its scratch directory.
Doing(x)  == Gates(x.mode)[x.at]
Before(x) == {Gates(x.mode)[i] : i \in 1..x.at - 1}
Sound(x, g, files) ==
  x.state = "running" /\ x.steady =>
    /\ x.failed /\ x.served => Faulty(g)
    /\ ~x.failed => \A gate \in Before(x) : gate = "mathlib-style" /\ x.served => Says(gate, g)
    /\ ~x.failed => \A gate \in Before(x) : gate # "mathlib-style" => Says(gate, g)
    /\ x.wrote => Doing(x) \in DOMAIN files /\ files[Doing(x)] = Hits(Doing(x), g.work)
    /\ Artifact(files, g)
    /\ x.served /\ "emit" \in Before(x) /\ Builds(g.work, Sweep) => "emission" \in DOMAIN files

\* The gates behind a run when it is past one more.
LEMMA OneMore ==
  ASSUME NEW x \in Progress, NEW y \in Progress, y.mode = x.mode, y.at = x.at + 1
  PROVE  Before(y) = Before(x) \cup {Doing(x)}
<1>1. x.at \in Nat \ {0}
  BY GateOrder DEF Progress
<1>2. 1..y.at - 1 = (1..x.at - 1) \cup {x.at}
  BY <1>1
<1> QED BY <1>2 DEF Before, Doing

\* A gate is behind the run, passed (ok) or not, and new is the scratch directory.
LEMMA Judged ==
  ASSUME NEW x \in Progress, x.state = "running", x.at <= Len(Gates("full")),
         NEW g, NEW files, NEW new, Sound(x, g, files),
         NEW ok \in BOOLEAN, NEW served \in BOOLEAN,
         x.steady /\ ok /\ (Doing(x) = "mathlib-style" => served) => Says(Doing(x), g),
         x.steady /\ x.served /\ ~ok /\ served => Faulty(g),
         x.steady => Artifact(new, g),
         x.steady /\ x.served /\ served /\ "emit" \in Before(x) \cup {Doing(x)}
           /\ Builds(g.work, Sweep) => "emission" \in DOMAIN new
  PROVE  Sound(After(x, ok, served), g, new)
<1> DEFINE y == After(x, ok, served)
<1>1. y \in Progress /\ y.state = x.state /\ y.mode = x.mode /\ y.at = x.at + 1 /\ ~y.wrote
      /\ y.steady = x.steady
  BY GateJudged
<1>2. (y.failed <=> x.failed \/ ~ok) /\ (y.served <=> x.served /\ served)
  BY GateJudged
<1> HIDE DEF y
<1>3. Before(y) = Before(x) \cup {Doing(x)}
  BY <1>1, OneMore
<1> SUFFICES ASSUME x.steady PROVE Sound(y, g, new)
  BY <1>1 DEF Sound, y
<1>4. y.failed /\ y.served => Faulty(g)
  BY <1>2 DEF Sound
<1>5. ~y.failed => \A gate \in Before(y) : gate = "mathlib-style" /\ y.served => Says(gate, g)
  BY <1>2, <1>3 DEF Sound
<1>6. ~y.failed => \A gate \in Before(y) : gate # "mathlib-style" => Says(gate, g)
  BY <1>2, <1>3 DEF Sound
<1>7. y.served /\ "emit" \in Before(y) /\ Builds(g.work, Sweep) => "emission" \in DOMAIN new
  BY <1>2, <1>3
<1> QED BY <1>1, <1>4, <1>5, <1>6, <1>7 DEF Sound

\* A run that is past its last gate has heard every gate.
LEMMA AllSaid ==
  ASSUME NEW x \in Progress, x.state = "running", x.steady, ~x.failed,
         ~(x.at <= Len(Gates(x.mode))), NEW g, NEW files, Sound(x, g, files),
         NEW i \in 1..Len(Gates(x.mode)), Gates(x.mode)[i] = "mathlib-style" => x.served
  PROVE  Says(Gates(x.mode)[i], g)
<1>1. x.mode \in {"fast", "full"} /\ x.at \in Nat
  BY GateOrder DEF Progress
<1>2. Len(Gates(x.mode)) \in Nat
  BY <1>1, GateOrder
<1>3. i \in 1..x.at - 1
  BY <1>1, <1>2
<1> QED BY <1>3 DEF Sound, Before

-----------------------------------------------------------------------------
(* The invariant, kept by every action.                                    *)

\* git has nothing of a nested checkout, a run that has not begun is at the first gate,
\* and every run is sound over its own tree and its own directory.
Unseen == \A w \in Trees, p \in Hidden : git[w].head[p] = Absent /\ git[w].index[p] = Absent
Fresh  == \A r \in Runs : run[r].state = "idle" =>
            run[r].at = 1 /\ ~run[r].wrote /\ ~run[r].failed
Heard  == \A r \in Runs : Sound(run[r], Tree(r), Files(r))
GatesIInv == TypeOK /\ Unseen /\ Fresh /\ Heard

\* What other runs do leaves a run as it is.
LEMMA Elsewhere ==
  ASSUME GatesIInv, NEW r \in Runs, run'[r] = run[r], git'[In[r]] = git[In[r]],
         Running(r) => Files(r)' = Files(r)
  PROVE  Sound(run[r], Tree(r), Files(r))'
<1>1. Sound(run[r], Tree(r), Files(r))
  BY DEF GatesIInv, Heard
<1>2. Tree(r)' = Tree(r)
  BY DEF Tree
<1>3. CASE Running(r)
  <2>1. Files(r)' = Files(r)
    BY <1>3
  <2> QED BY <1>1, <1>2, <2>1, Zenon DEF Sound, Artifact, Doing, Before
<1>4. CASE ~Running(r)
  BY <1>4 DEF Sound, Running
<1> QED BY <1>3, <1>4

\* A run writes in its own scratch directory...
LEMMA Writing ==
  ASSUME NEW r, NEW files, scratch' = Put(scratch, Scratch(r), files)
  PROVE  /\ DOMAIN scratch' = DOMAIN scratch \cup {r} /\ Files(r)' = files
         /\ \A q \in Runs \ {r} : Files(q)' = Files(q)
<1>1. /\ DOMAIN scratch' = DOMAIN scratch \cup {r} /\ scratch'[r] = files
      /\ \A z \in DOMAIN scratch : z # r => scratch'[z] = scratch[z]
  BY DEF Put, Scratch
<1> QED BY <1>1, Zenon DEF Files, Scratch

\* ...and removes no other.
LEMMA Removing ==
  ASSUME NEW r, scratch' = Without(r)
  PROVE  /\ DOMAIN scratch' = DOMAIN scratch \ {r}
         /\ \A q \in Runs \ {r} : Files(q)' = Files(q)
<1>1. /\ DOMAIN scratch' = DOMAIN scratch \ {r}
      /\ \A z \in DOMAIN scratch \ {r} : scratch'[z] = scratch[z]
  BY DEF Without, Scratch
<1> QED BY <1>1, Zenon DEF Files, Scratch

\* A step of the run r keeps the invariant if the run it leaves, y, is sound over the
\* directory it leaves.
LEMMA OneRun ==
  ASSUME GatesIInv, NEW r \in Runs, NEW y \in Progress, y.state # "idle",
         run' = [run EXCEPT ![r] = y], git' = git, edits' = edits,
         \A q \in Runs \ {r} : Files(q)' = Files(q),
         r \in DOMAIN scratch' <=> y.state \in {"running", "failed"},
         DOMAIN scratch' \ {r} = DOMAIN scratch \ {r},
         Sound(y, Tree(r), Files(r)')
  PROVE  GatesIInv'
<1>1. run \in [Runs -> Progress]
  BY DEF GatesIInv, TypeOK
<1>2. run' \in [Runs -> Progress] /\ run'[r] = y /\ \A q \in Runs \ {r} : run'[q] = run[q]
  BY <1>1
<1>3. DOMAIN scratch' = {q \in Runs : run'[q].state \in {"running", "failed"}}
  <2>1. DOMAIN scratch = {q \in Runs : run[q].state \in {"running", "failed"}}
    BY DEF GatesIInv, TypeOK
  <2> QED BY <1>2, <2>1
<1>4. TypeOK'
  BY <1>2, <1>3 DEF GatesIInv, TypeOK
<1>5. Unseen'
  BY DEF GatesIInv, Unseen
<1>6. Fresh'
  BY <1>2 DEF GatesIInv, Fresh
<1>7. Heard'
  <2> SUFFICES ASSUME NEW q \in Runs PROVE Sound(run[q], Tree(q), Files(q))'
    BY DEF Heard
  <2>1. CASE q = r
    <3>1. run'[q] = y /\ Tree(q)' = Tree(r) /\ Files(q)' = Files(r)'
      BY <1>2, <2>1 DEF Tree
    <3>2. Sound(run[q], Tree(q), Files(q))' <=> Sound(run'[q], Tree(q)', Files(q)')
      BY DEF Sound, Artifact, Doing, Before
    <3> QED BY <3>1, <3>2, Zenon
  <2>2. CASE q # r
    <3>1. run'[q] = run[q] /\ git'[In[q]] = git[In[q]] /\ Files(q)' = Files(q)
      BY <1>2, <2>2
    <3> QED BY <3>1, Elsewhere
  <2> QED BY <2>1, <2>2
<1> QED BY <1>4, <1>5, <1>6, <1>7 DEF GatesIInv

\* How far a run is.
LEMMA AtBounds ==
  ASSUME NEW x \in Progress
  PROVE  /\ x.mode \in {"fast", "full"} /\ x.at \in 1..22
         /\ x.at <= Len(Gates(x.mode)) =>
              x.at <= Len(Gates("full")) /\ x.at \in 1..Len(Gates(x.mode))
<1>1. x.mode \in {"fast", "full"} /\ x.at \in 1..Len(Gates("full")) + 1
  BY DEF Progress
<1>2. Len(Gates("full")) = 21
  BY GateOrder
<1> DEFINE a == x.at
           m == Len(Gates(x.mode))
           n == Len(Gates("full"))
<1>3. a \in 1..22
  <2>1. a \in 1..n + 1 /\ n = 21
    BY <1>1, <1>2
  <2> HIDE DEF a, n
  <2> QED BY <2>1
<1>4. Len(Gates(x.mode)) = 8 \/ Len(Gates(x.mode)) = 21
  BY <1>1, GateOrder, Zenon
<1>5. a <= m => a <= 21 /\ a \in 1..m
  <2>1. m = 8 \/ m = 21
    BY <1>4
  <2> HIDE DEF a, m
  <2> QED BY <1>3, <2>1
<1> QED BY <1>1, <1>2, <1>3, <1>5, Zenon

\* What is known where a run is at a gate.
LEMMA AtSomeGate ==
  ASSUME GatesIInv, NEW r \in Runs, AtGate(r)
  PROVE  /\ run[r] \in Progress /\ run[r].state = "running" /\ r \in DOMAIN scratch
         /\ run[r].at <= Len(Gates("full")) /\ run[r].at \in 1..Len(Gates(run[r].mode))
         /\ Gate(r) \in DOMAIN Caught /\ Gate(r) = Doing(run[r])
         /\ Files(r) = scratch[r] /\ Tree(r) \in Checkout
         /\ Sound(run[r], Tree(r), Files(r))
<1>1. run[r] \in Progress /\ run[r].state = "running" /\ r \in DOMAIN scratch
  BY DEF GatesIInv, TypeOK, AtGate, Running
<1>2. run[r].mode \in {"fast", "full"}
  BY <1>1, AtBounds
<1>5. run[r].at <= Len(Gates("full")) /\ run[r].at \in 1..Len(Gates(run[r].mode))
  BY <1>1, AtBounds DEF AtGate
<1>6. Gate(r) \in DOMAIN Caught /\ Gate(r) = Doing(run[r])
  BY <1>2, <1>5, GatesListed DEF Gate, Doing
<1>7. Files(r) = scratch[r]
  BY <1>1 DEF Files, Scratch
<1>8. Tree(r) \in Checkout
  BY GatesAssumption DEF GatesIInv, TypeOK, Tree
<1>9. Sound(run[r], Tree(r), Files(r))
  BY DEF GatesIInv, Heard
<1> QED BY <1>1, <1>5, <1>6, <1>7, <1>8, <1>9

\* A run begins with an empty directory, with no gate behind it.
LEMMA BeginKeeps ==
  ASSUME GatesIInv, NEW r \in Runs, NEW mode \in Modes[r], Begin(r, mode)
  PROVE  GatesIInv'
<1>1. run[r] \in Progress /\ mode \in {"fast", "full"} /\ run[r].state = "idle"
      /\ git' = git /\ edits' = edits
  BY GatesAssumption DEF GatesIInv, TypeOK, Begin
<1>2. run[r].at = 1 /\ ~run[r].wrote /\ ~run[r].failed /\ r \notin DOMAIN scratch
  BY <1>1 DEF GatesIInv, Fresh, TypeOK
<1>3. CASE /\ run' = [run EXCEPT ![r] = Begun(run[r], mode)]
           /\ scratch' = Put(scratch, Scratch(r), <<>>)
  <2> DEFINE y == Begun(run[r], mode)
  <2>1. y \in Progress /\ y.state = "running" /\ y.at = 1 /\ ~y.wrote /\ ~y.failed
    BY <1>1, <1>2, RunMoves
  <2>2. run' = [run EXCEPT ![r] = y]
    BY <1>3
  <2>3. /\ DOMAIN scratch' = DOMAIN scratch \cup {r} /\ Files(r)' = <<>>
        /\ \A q \in Runs \ {r} : Files(q)' = Files(q)
    BY <1>3, Writing
  <2> HIDE DEF y
  <2>4. Before(y) = {}
    BY <2>1 DEF Before
  <2>5. "emission" \notin DOMAIN <<>>
    OBVIOUS
  <2>6. Sound(y, Tree(r), <<>>)
    BY <2>1, <2>4, <2>5 DEF Sound, Artifact
  <2>7. Sound(y, Tree(r), Files(r)')
    BY <2>3, <2>6, Zenon
  <2> QED BY <1>1, <2>1, <2>2, <2>3, <2>7, OneRun
<1>4. CASE run' = [run EXCEPT ![r] = Ended("refused")] /\ scratch' = scratch
  <2> DEFINE y == Ended("refused")
  <2>1. y \in Progress /\ y.state = "refused"
    BY <1>1, RunMoves
  <2> HIDE DEF y
  <2>2. Sound(y, Tree(r), Files(r)')
    BY <2>1 DEF Sound
  <2>3. \A q \in Runs : Files(q)' = Files(q)
    BY <1>4 DEF Files
  <2> QED BY <1>1, <1>2, <1>4, <2>1, <2>2, <2>3, OneRun DEF y
<1> QED BY <1>3, <1>4 DEF Begin

\* A transcript has the hits of the tree; and it is not the artifact.
LEMMA WriteKeeps ==
  ASSUME GatesIInv, NEW r \in Runs, Write(r)
  PROVE  GatesIInv'
<1> DEFINE x == run[r]
<1>1. /\ AtGate(r) /\ Gate(r) \in Transcribed /\ git' = git /\ edits' = edits
  BY DEF Write
<1>2. /\ x \in Progress /\ x.state = "running" /\ r \in DOMAIN scratch
      /\ x.at <= Len(Gates("full")) /\ Gate(r) = Doing(x)
      /\ Sound(x, Tree(r), Files(r))
  BY <1>1, AtSomeGate
<1>3. Doing(x) \notin {"emit", "emission"}
  BY <1>1, <1>2 DEF Transcribed
<1>4. CASE Elaborates(Gate(r), Tree(r).work)
  <2> DEFINE y == Written(x)
             files == Put(Files(r), Gate(r), Hits(Gate(r), Tree(r).work))
  <2>1. run' = [run EXCEPT ![r] = y] /\ scratch' = Put(scratch, Scratch(r), files)
    BY <1>4 DEF Write, With
  <2>2. y \in Progress /\ y.state = "running" /\ y.mode = x.mode /\ y.at = x.at
        /\ y.failed = x.failed /\ y.steady = x.steady /\ y.served = x.served
    BY <1>2, RunMoves
  <2>3. /\ DOMAIN files = DOMAIN Files(r) \cup {Doing(x)}
        /\ files[Doing(x)] = Hits(Doing(x), Tree(r).work)
        /\ "emission" \in DOMAIN Files(r) => files["emission"] = Files(r)["emission"]
    BY <1>2, <1>3 DEF Put
  <2> HIDE DEF files, y
  <2>4. DOMAIN scratch' = DOMAIN scratch \cup {r} /\ Files(r)' = files
        /\ \A q \in Runs \ {r} : Files(q)' = Files(q)
    BY <2>1, Writing
  <2>5. Sound(y, Tree(r), files)
    <3>1. Before(y) = Before(x) /\ Doing(y) = Doing(x)
      BY <2>2 DEF Before, Doing
    <3>2. "emission" \in DOMAIN files <=> "emission" \in DOMAIN Files(r)
      BY <1>3, <2>3
    <3> QED BY <1>2, <2>2, <2>3, <3>1, <3>2 DEF Sound, Artifact
  <2>6. Sound(y, Tree(r), Files(r)')
    BY <2>4, <2>5, Zenon
  <2> QED BY <1>1, <1>2, <2>1, <2>2, <2>4, <2>6, OneRun
<1>5. CASE ~Elaborates(Gate(r), Tree(r).work)
  <2> DEFINE y == After(x, FALSE, TRUE)
  <2>1. run' = [run EXCEPT ![r] = y] /\ scratch' = scratch
    BY <1>5 DEF Write, Noted
  <2>2. y \in Progress /\ y.state = "running"
    BY <1>2, GateJudged
  <2>3. Faulty(Tree(r))
    BY <1>5, Broken
  <2>4. /\ x.steady => Artifact(Files(r), Tree(r))
        /\ x.steady /\ x.served /\ "emit" \in Before(x) \cup {Doing(x)}
             /\ Builds(Tree(r).work, Sweep) => "emission" \in DOMAIN Files(r)
    BY <1>2, <1>3 DEF Sound
  <2>5. Sound(y, Tree(r), Files(r))
    BY <1>2, <2>3, <2>4, Judged
  <2> HIDE DEF y
  <2>6. \A q \in Runs : Files(q)' = Files(q)
    BY <2>1 DEF Files
  <2>7. Sound(y, Tree(r), Files(r)')
    BY <2>5, <2>6, Zenon
  <2> QED BY <1>1, <1>2, <2>1, <2>2, <2>6, <2>7, OneRun
<1> QED BY <1>4, <1>5

\* The judged file is what the gate wrote, of this tree.
LEMMA JudgeKeeps ==
  ASSUME GatesIInv, NEW r \in Runs, Judge(r)
  PROVE  GatesIInv'
<1> DEFINE x  == run[r]
           ok == Gate(r) \in DOMAIN Files(r) /\ Files(r)[Gate(r)] = {}
           y  == After(x, ok, TRUE)
<1>1. /\ AtGate(r) /\ Gate(r) \in Transcribed /\ x.wrote /\ git' = git /\ edits' = edits
      /\ scratch' = scratch /\ run' = [run EXCEPT ![r] = y]
  BY DEF Judge, Noted
<1>2. /\ x \in Progress /\ x.state = "running" /\ r \in DOMAIN scratch
      /\ x.at <= Len(Gates("full")) /\ Gate(r) = Doing(x) /\ Gate(r) \in DOMAIN Caught
      /\ Sound(x, Tree(r), Files(r))
  BY <1>1, AtSomeGate
<1>3. y \in Progress /\ y.state = "running"
  BY <1>2, GateJudged
<1>4. x.steady => Gate(r) \in DOMAIN Files(r) /\ Files(r)[Gate(r)] = Hits(Gate(r), Tree(r).work)
  BY <1>1, <1>2 DEF Sound
<1>5. x.steady /\ ok => Says(Doing(x), Tree(r))
  <2> SUFFICES ASSUME x.steady, ok PROVE Says(Doing(x), Tree(r))
    OBVIOUS
  <2>1. Hits(Gate(r), Tree(r).work) = {}
    BY <1>4
  <2> QED BY <1>1, <1>2, <2>1 DEF Says, Transcribed
<1>6. x.steady /\ ~ok => Faulty(Tree(r))
  <2> SUFFICES ASSUME x.steady, ~ok PROVE Faulty(Tree(r))
    OBVIOUS
  <2>1. Hits(Gate(r), Tree(r).work) # {}
    BY <1>4
  <2> QED BY <1>2, <2>1 DEF Faulty
<1>7. /\ x.steady => Artifact(Files(r), Tree(r))
      /\ x.steady /\ x.served /\ "emit" \in Before(x) \cup {Doing(x)}
           /\ Builds(Tree(r).work, Sweep) => "emission" \in DOMAIN Files(r)
  <2>1. Doing(x) # "emit"
    BY <1>1, <1>2 DEF Transcribed
  <2> QED BY <1>2, <2>1 DEF Sound
<1>8. ok \in BOOLEAN
  OBVIOUS
<1> HIDE DEF ok
<1>9. Sound(y, Tree(r), Files(r))
  BY <1>2, <1>5, <1>6, <1>7, <1>8, Judged
<1> HIDE DEF y
<1>10. \A q \in Runs : Files(q)' = Files(q)
  BY <1>1 DEF Files
<1>11. Sound(y, Tree(r), Files(r)')
  BY <1>9, <1>10, Zenon
<1> QED BY <1>1, <1>2, <1>3, <1>10, <1>11, OneRun

\* What the gates that write no transcript leave in the scratch directory.
LEMMA Emitted ==
  ASSUME GatesIInv, NEW r \in Runs, Check(r)
  PROVE  /\ DOMAIN scratch' = DOMAIN scratch \cup {r}
         /\ \A q \in Runs \ {r} : Files(q)' = Files(q)
         /\ Gate(r) = "emit" /\ Builds(Tree(r).work, Sweep) =>
              /\ "emission" \in DOMAIN (Files(r)')
              /\ Files(r)'["emission"] = Emission(Tree(r).work)
         /\ ~(Gate(r) = "emit" /\ Builds(Tree(r).work, Sweep)) => Files(r)' = Files(r)
<1>1. r \in DOMAIN scratch
  BY AtSomeGate DEF Check
<1>2. CASE Gate(r) = "emit" /\ Builds(Tree(r).work, Sweep)
  <2> DEFINE files == Put(Files(r), "emission", Emission(Tree(r).work))
  <2>1. scratch' = Put(scratch, Scratch(r), files)
    BY <1>2 DEF Check, With
  <2>2. "emission" \in DOMAIN files /\ files["emission"] = Emission(Tree(r).work)
    BY DEF Put
  <2> HIDE DEF files
  <2>3. DOMAIN scratch' = DOMAIN scratch \cup {r} /\ Files(r)' = files
        /\ \A q \in Runs \ {r} : Files(q)' = Files(q)
    BY <2>1, Writing
  <2> QED BY <1>2, <2>2, <2>3, Zenon
<1>3. CASE ~(Gate(r) = "emit" /\ Builds(Tree(r).work, Sweep))
  <2>1. scratch' = scratch
    BY <1>3 DEF Check
  <2>2. \A q \in Runs : Files(q)' = Files(q)
    BY <2>1 DEF Files
  <2> QED BY <1>1, <1>3, <2>1, <2>2
<1> QED BY <1>2, <1>3

\* A verdict is one or the other.
LEMMA HoldsOrNot ==
  ASSUME NEW gate, NEW g, NEW files
  PROVE  Holds(gate, g, files) \in BOOLEAN
BY DEF Holds, Builds, PinHolds, SourceIndependent, FamiliesHold, MapHolds, CoverageHolds

\* A gate that leaves the scratch directory as it is: style, and any that is not run.
LEMMA NothingWritten ==
  ASSUME GatesIInv, NEW r \in Runs, AtGate(r), NEW ok \in BOOLEAN,
         NEW served \in BOOLEAN, Gate(r) # "emit" \/ ~served, run' = Noted(r, ok, served),
         git' = git, edits' = edits, scratch' = scratch,
         run[r].steady /\ ok /\ (Gate(r) = "mathlib-style" => served) => Says(Gate(r), Tree(r)),
         run[r].steady /\ ~ok /\ served => Faulty(Tree(r))
  PROVE  GatesIInv'
<1> DEFINE x == run[r]
           y == After(x, ok, served)
<1>1. /\ x \in Progress /\ x.state = "running" /\ r \in DOMAIN scratch
      /\ x.at <= Len(Gates("full")) /\ Gate(r) = Doing(x) /\ Sound(x, Tree(r), Files(r))
  BY AtSomeGate
<1>2. run' = [run EXCEPT ![r] = y]
  BY DEF Noted
<1>3. y \in Progress /\ y.state = "running"
  BY <1>1, GateJudged
<1>4. /\ x.steady => Artifact(Files(r), Tree(r))
      /\ x.steady /\ x.served /\ served /\ "emit" \in Before(x) \cup {Doing(x)}
           /\ Builds(Tree(r).work, Sweep) => "emission" \in DOMAIN Files(r)
  BY <1>1 DEF Sound
<1>5. Sound(y, Tree(r), Files(r))
  BY <1>1, <1>4, Judged
<1> HIDE DEF y
<1>6. \A q \in Runs : Files(q)' = Files(q)
  BY DEF Files
<1>7. Sound(y, Tree(r), Files(r)')
  BY <1>5, <1>6, Zenon
<1> QED BY <1>1, <1>2, <1>3, <1>6, <1>7, OneRun

\* The gate of style says what it says if git answered, and fails for a reason.
LEMMA StyleKeeps ==
  ASSUME GatesIInv, NEW r \in Runs, Style(r)
  PROVE  GatesIInv'
<1>1. /\ AtGate(r) /\ Gate(r) = "mathlib-style" /\ git' = git /\ edits' = edits
      /\ scratch' = scratch
  BY DEF Style
<1>2. PICK answered \in SUBSET Questions : \E ok \in StyleVerdicts(Tree(r), answered) :
        run' = Noted(r, ok, answered = Questions)
  BY DEF Style
<1>3. PICK ok \in StyleVerdicts(Tree(r), answered) : run' = Noted(r, ok, answered = Questions)
  BY <1>2
<1> DEFINE served == answered = Questions
<1>4. ok \in BOOLEAN
  BY <1>3 DEF StyleVerdicts
<1>5. Tree(r) \in Checkout /\ run[r] \in Progress /\ Gate(r) = Doing(run[r])
      /\ Sound(run[r], Tree(r), Files(r))
  BY <1>1, AtSomeGate
<1>6. ok /\ served => Says(Gate(r), Tree(r))
  <2> SUFFICES ASSUME ok, served PROVE Says(Gate(r), Tree(r))
    OBVIOUS
  <2>1. ok = TRUE
    BY <1>4
  <2>2. TRUE \in StyleVerdicts(Tree(r), Questions)
    BY <1>3, <2>1
  <2> QED BY <1>1, <2>2 DEF Says
<1>7. ~ok /\ served => Faulty(Tree(r))
  <2> SUFFICES ASSUME ~ok, served PROVE Faulty(Tree(r))
    OBVIOUS
  <2>1. ok = FALSE
    BY <1>4
  <2>2. FALSE \in StyleVerdicts(Tree(r), Questions)
    BY <1>3, <2>1
  <2> QED BY <1>5, <2>2, StyleFails
<1>8. served \in BOOLEAN /\ run' = Noted(r, ok, served)
  BY <1>3
<1> HIDE DEF served
<1> QED BY <1>1, <1>4, <1>6, <1>7, <1>8, NothingWritten

\* A gate that the host did not run says nothing of the tree.
LEMMA StarveKeeps ==
  ASSUME GatesIInv, NEW r \in Runs, Starve(r)
  PROVE  GatesIInv'
BY NothingWritten DEF Starve

\* The coverage check finds the artifact that emit, which is behind it, has left.
LEMMA CheckKeeps ==
  ASSUME GatesIInv, NEW r \in Runs, Check(r)
  PROVE  GatesIInv'
<1> DEFINE x  == run[r]
           ok == Holds(Gate(r), Tree(r), Files(r))
           y  == After(x, ok, TRUE)
<1>1. /\ AtGate(r) /\ Gate(r) \notin Transcribed \cup {"mathlib-style"} /\ git' = git /\ edits' = edits
      /\ run' = [run EXCEPT ![r] = y]
  BY DEF Check, Noted
<1>2. /\ x \in Progress /\ x.state = "running" /\ r \in DOMAIN scratch
      /\ x.at <= Len(Gates("full")) /\ x.at \in 1..Len(Gates(x.mode))
      /\ Gate(r) \in DOMAIN Caught /\ Gate(r) = Doing(x) /\ Tree(r) \in Checkout
      /\ Sound(x, Tree(r), Files(r))
  BY <1>1, AtSomeGate
<1>3. y \in Progress /\ y.state = "running"
  <2>1. ok \in BOOLEAN
    BY HoldsOrNot
  <2>2. \A o, s \in BOOLEAN : After(x, o, s) \in Progress /\ After(x, o, s).state = "running"
    <3> SUFFICES ASSUME NEW o \in BOOLEAN, NEW s \in BOOLEAN
                 PROVE  After(x, o, s) \in Progress /\ After(x, o, s).state = "running"
      OBVIOUS
    <3> QED BY <1>2, GateJudged
  <2>3. TRUE \in BOOLEAN
    OBVIOUS
  <2> HIDE DEF ok
  <2> QED BY <2>1, <2>2, <2>3, Zenon
<1>4. x.steady => Artifact(Files(r), Tree(r))
  BY <1>2 DEF Sound
<1>5. x.steady /\ ok => Says(Doing(x), Tree(r))
  <2> SUFFICES ASSUME x.steady, ok PROVE Says(Gate(r), Tree(r))
    BY <1>2
  <2> QED BY <1>1, <1>4, Passing
<1>6. x.steady /\ x.served /\ ~ok => Faulty(Tree(r))
  <2> SUFFICES ASSUME x.steady, x.served, ~ok PROVE Faulty(Tree(r))
    OBVIOUS
  <2>1. Gate(r) = "emission-coverage" /\ Builds(Tree(r).work, Sweep)
          => "emission" \in DOMAIN Files(r)
    <3> SUFFICES ASSUME Gate(r) = "emission-coverage", Builds(Tree(r).work, Sweep)
                 PROVE  "emission" \in DOMAIN Files(r)
      OBVIOUS
    <3>1. x.mode = "full" /\ x.at = 20
      <4>1. x.mode \in {"fast", "full"} /\ Gates(x.mode)[x.at] = "emission-coverage"
        BY <1>2, AtBounds DEF Doing
      <4> QED BY <1>2, <4>1, CoverageLast
    <3>2. "emit" \in Before(x)
      <4>1. Gates(x.mode)[19] = "emit" /\ 19 \in 1..x.at - 1
        BY <3>1, GateOrder
      <4> QED BY <4>1 DEF Before
    <3> QED BY <1>2, <3>2 DEF Sound
  <2> QED BY <1>1, <1>2, <1>4, <2>1, Failing
<1> HIDE DEF ok, y
<1>7. /\ DOMAIN scratch' = DOMAIN scratch \cup {r}
      /\ \A q \in Runs \ {r} : Files(q)' = Files(q)
      /\ Gate(r) = "emit" /\ Builds(Tree(r).work, Sweep) =>
           /\ "emission" \in DOMAIN (Files(r)')
           /\ Files(r)'["emission"] = Emission(Tree(r).work)
      /\ ~(Gate(r) = "emit" /\ Builds(Tree(r).work, Sweep)) => Files(r)' = Files(r)
  BY Emitted
<1> DEFINE new == Files(r)'
<1>8. x.steady => Artifact(new, Tree(r))
  BY <1>4, <1>7 DEF Artifact
<1>9. x.steady /\ x.served /\ "emit" \in Before(x) \cup {Doing(x)}
        /\ Builds(Tree(r).work, Sweep) => "emission" \in DOMAIN new
  BY <1>2, <1>7 DEF Sound
<1> HIDE DEF new
<1>10. ok \in BOOLEAN
  BY HoldsOrNot DEF ok
<1>11. Sound(y, Tree(r), new)
  BY <1>2, <1>5, <1>6, <1>8, <1>9, <1>10, Judged DEF y
<1> QED BY <1>1, <1>2, <1>3, <1>7, <1>11, OneRun DEF new

\* A run that has ended has nothing to keep but its directory.
LEMMA EndKeeps ==
  ASSUME GatesIInv, NEW r \in Runs, Running(r), NEW how \in {"passed", "failed", "interrupted"},
         run' = [run EXCEPT ![r] = Ended(how)], git' = git, edits' = edits,
         how = "failed" => scratch' = scratch,
         how # "failed" => scratch' = Without(r)
  PROVE  GatesIInv'
<1> DEFINE y == Ended(how)
<1>1. run[r] \in Progress /\ r \in DOMAIN scratch
  BY DEF GatesIInv, TypeOK, Running
<1>2. y \in Progress /\ y.state = how
  BY <1>1, RunMoves
<1> HIDE DEF y
<1>3. Sound(y, Tree(r), Files(r)')
  BY <1>2 DEF Sound
<1>4. CASE how = "failed"
  <2>1. scratch' = scratch
    BY <1>4
  <2>2. \A q \in Runs : Files(q)' = Files(q)
    BY <2>1 DEF Files
  <2> QED BY <1>1, <1>2, <1>3, <1>4, <2>1, <2>2, OneRun DEF y
<1>5. CASE how # "failed"
  <2>1. DOMAIN scratch' = DOMAIN scratch \ {r} /\ \A q \in Runs \ {r} : Files(q)' = Files(q)
    BY <1>5, Removing
  <2> QED BY <1>1, <1>2, <1>3, <1>5, <2>1, OneRun DEF y
<1> QED BY <1>4, <1>5

\* With its failures noted, or without.
LEMMA FinishKeeps ==
  ASSUME GatesIInv, NEW r \in Runs, Finish(r)
  PROVE  GatesIInv'
<1> DEFINE how == IF run[r].failed THEN "failed" ELSE "passed"
<1>1. /\ Running(r) /\ run' = [run EXCEPT ![r] = Ended(how)]
      /\ git' = git /\ edits' = edits
  BY DEF Finish
<1>2. how \in {"passed", "failed", "interrupted"}
  OBVIOUS
<1>3. /\ how = "failed" => scratch' = scratch
      /\ how # "failed" => scratch' = Without(r)
  BY DEF Finish
<1> HIDE DEF how
<1> QED BY <1>1, <1>2, <1>3, EndKeeps

\* Or stopped.
LEMMA InterruptKeeps ==
  ASSUME GatesIInv, NEW r \in Runs, Interrupt(r)
  PROVE  GatesIInv'
<1>1. /\ Running(r) /\ run' = [run EXCEPT ![r] = Ended("interrupted")]
      /\ scratch' = Without(r) /\ git' = git /\ edits' = edits
  BY DEF Interrupt
<1> QED BY <1>1, EndKeeps

\* A change of a tree disturbs its runs.
LEMMA ChangeKeeps ==
  ASSUME GatesIInv, NEW w \in Trees, NEW g \in Checkout, Change(w, g),
         \A p \in Hidden : g.head[p] = Absent /\ g.index[p] = Absent,
         edits' \in 0..MaxEdits
  PROVE  GatesIInv'
<1>1. /\ git \in [Trees -> Checkout] /\ run \in [Runs -> Progress]
      /\ DOMAIN scratch = {r \in Runs : run[r].state \in {"running", "failed"}}
  BY DEF GatesIInv, TypeOK
<1>2. /\ git' = [git EXCEPT ![w] = g] /\ scratch' = scratch
      /\ run' = [r \in Runs |-> IF In[r] = w /\ Running(r) THEN Disturbed(run[r]) ELSE run[r]]
  BY DEF Change
<1>3. ASSUME NEW r \in Runs
      PROVE  /\ run'[r] \in Progress /\ run'[r].state = run[r].state /\ run'[r].at = run[r].at
             /\ In[r] = w /\ Running(r) => ~run'[r].steady
             /\ ~(In[r] = w /\ Running(r)) => run'[r] = run[r]
  <2>1. run[r] \in Progress
    BY <1>1
  <2>2. CASE In[r] = w /\ Running(r)
    <3>1. run'[r] = Disturbed(run[r])
      BY <1>2, <2>2
    <3> QED BY <2>1, <2>2, <3>1, RunMoves
  <2>3. CASE ~(In[r] = w /\ Running(r))
    BY <1>2, <2>1, <2>3
  <2> QED BY <2>2, <2>3
<1>4. TypeOK'
  <2>1. git' \in [Trees -> Checkout]
    BY <1>1, <1>2
  <2>2. run' \in [Runs -> Progress]
    BY <1>2, <1>3
  <2>3. DOMAIN scratch' = {r \in Runs : run'[r].state \in {"running", "failed"}}
    BY <1>1, <1>2, <1>3
  <2> QED BY <2>1, <2>2, <2>3 DEF TypeOK
<1>5. Unseen'
  <2> SUFFICES ASSUME NEW v \in Trees, NEW p \in Hidden
               PROVE  git'[v].head[p] = Absent /\ git'[v].index[p] = Absent
    BY DEF Unseen
  <2>1. git'[v] = IF v = w THEN g ELSE git[v]
    BY <1>1, <1>2
  <2>2. git[v].head[p] = Absent /\ git[v].index[p] = Absent
    BY DEF GatesIInv, Unseen
  <2> QED BY <2>1, <2>2
<1>6. Fresh'
  BY <1>3 DEF GatesIInv, Fresh, Running
<1>7. Heard'
  <2> SUFFICES ASSUME NEW r \in Runs PROVE Sound(run[r], Tree(r), Files(r))'
    BY DEF Heard
  <2>1. CASE In[r] = w /\ Running(r)
    <3>1. ~run'[r].steady
      BY <1>3, <2>1
    <3> QED BY <3>1 DEF Sound
  <2>2. CASE ~(In[r] = w) /\ Running(r)
    <3>1. run'[r] = run[r] /\ git'[In[r]] = git[In[r]] /\ Files(r)' = Files(r)
      BY <1>1, <1>2, <1>3, <2>2, GatesAssumption DEF Files
    <3> QED BY <3>1, Elsewhere
  <2>3. CASE ~Running(r)
    <3>1. run'[r].state # "running"
      BY <1>3, <2>3 DEF Running
    <3> QED BY <3>1 DEF Sound
  <2> QED BY <2>1, <2>2, <2>3
<1> QED BY <1>4, <1>5, <1>6, <1>7 DEF GatesIInv

\* A checkout with another head, index or work is a checkout.
LEMMA Rewritten ==
  ASSUME NEW g \in Checkout, NEW t \in Snapshot
  PROVE  LET h == [g EXCEPT !.head = t]  i == [g EXCEPT !.index = t]  k == [g EXCEPT !.work = t]
         IN  /\ h \in Checkout /\ h.head = t /\ h.index = g.index
             /\ i \in Checkout /\ i.head = g.head /\ i.index = t
             /\ k \in Checkout /\ k.head = g.head /\ k.index = g.index
BY DEF Checkout

\* What git has not in the index it gets not in the head.
LEMMA CommitKeeps ==
  ASSUME GatesIInv, NEW w \in Trees, Commit(w)
  PROVE  GatesIInv'
<1> DEFINE g == [git[w] EXCEPT !.head = git[w].index]
<1>1. git[w] \in Checkout /\ git[w].index \in Snapshot
  BY DEF GatesIInv, TypeOK, Checkout
<1>2. g \in Checkout /\ g.head = git[w].index /\ g.index = git[w].index
  BY <1>1, Rewritten
<1>3. Change(w, g) /\ edits' \in 0..MaxEdits
  BY DEF Commit, GatesIInv, TypeOK
<1>4. \A p \in Hidden : git[w].index[p] = Absent
  BY DEF GatesIInv, Unseen
<1> HIDE DEF g
<1> QED BY <1>2, <1>3, <1>4, ChangeKeeps

\* And git takes nothing of a nested checkout into the index.
LEMMA AddKeeps ==
  ASSUME GatesIInv, NEW w \in Trees, Add(w)
  PROVE  GatesIInv'
<1> DEFINE t == [p \in Paths |-> IF p \in Hidden THEN git[w].index[p] ELSE git[w].work[p]]
           g == [git[w] EXCEPT !.index = t]
<1>1. git[w] \in Checkout /\ git[w].index \in Snapshot /\ git[w].work \in Snapshot
  BY DEF GatesIInv, TypeOK, Checkout
<1>2. t \in Snapshot
  BY <1>1 DEF Snapshot
<1>3. \A p \in Hidden : t[p] = git[w].index[p]
  BY SourcesAssumption
<1>4. Change(w, g) /\ edits' \in 0..MaxEdits
  BY DEF Add, GatesIInv, TypeOK
<1> HIDE DEF t
<1>5. g \in Checkout /\ g.head = git[w].head /\ g.index = t
  BY <1>1, <1>2, Rewritten
<1>6. \A p \in Hidden : git[w].head[p] = Absent /\ git[w].index[p] = Absent
  BY DEF GatesIInv, Unseen
<1> HIDE DEF g
<1> QED BY <1>3, <1>4, <1>5, <1>6, ChangeKeeps

\* A draft is of the work, and no more.
LEMMA EditKeeps ==
  ASSUME GatesIInv, NEW w \in Trees, NEW draft \in Drafts, Edit(w, draft)
  PROVE  GatesIInv'
<1> DEFINE t == [p \in Paths |-> IF p \in DOMAIN draft THEN draft[p] ELSE git[w].work[p]]
           g == [git[w] EXCEPT !.work = t]
<1>1. git[w] \in Checkout /\ git[w].work \in Snapshot
  BY DEF GatesIInv, TypeOK, Checkout
<1>2. t \in Snapshot
  BY <1>1, GatesAssumption DEF Snapshot
<1>3. edits' \in 0..MaxEdits
  BY GatesAssumption DEF Edit, GatesIInv, TypeOK
<1>4. Change(w, g)
  BY DEF Edit
<1> HIDE DEF t
<1>5. g \in Checkout /\ g.head = git[w].head /\ g.index = git[w].index
  BY <1>1, <1>2, Rewritten
<1>6. \A p \in Hidden : git[w].head[p] = Absent /\ git[w].index[p] = Absent
  BY DEF GatesIInv, Unseen
<1> HIDE DEF g
<1> QED BY <1>3, <1>4, <1>5, <1>6, ChangeKeeps

\* No run has begun.
LEMMA GatesStart == Init => GatesIInv
<1> SUFFICES ASSUME Init PROVE GatesIInv
  OBVIOUS
<1>1. Idle \in Progress /\ Idle.state = "idle" /\ Idle.at = 1 /\ ~Idle.wrote /\ ~Idle.failed
  <2>1. 1 \in 1..Len(Gates("full")) + 1
    BY GateOrder
  <2> QED BY <2>1 DEF Idle, Progress
<1>2. git = Start0 /\ (\A r \in Runs : run[r] = Idle) /\ run \in [Runs -> Progress]
      /\ scratch = <<>> /\ edits = 0
  BY <1>1 DEF Init
<1> HIDE DEF Idle
<1>3. TypeOK
  <2>1. DOMAIN scratch = {r \in Runs : run[r].state \in {"running", "failed"}}
    BY <1>1, <1>2
  <2> QED BY <1>2, <2>1, GatesAssumption DEF TypeOK
<1>4. Unseen
  BY <1>2, GatesAssumption DEF Unseen
<1>5. Fresh
  BY <1>1, <1>2 DEF Fresh
<1>6. Heard
  BY <1>1, <1>2 DEF Heard, Sound
<1> QED BY <1>3, <1>4, <1>5, <1>6 DEF GatesIInv

\* One case per action.
LEMMA GatesStep == GatesIInv /\ [Next]_vars => GatesIInv'
<1> SUFFICES ASSUME GatesIInv, [Next]_vars PROVE GatesIInv'
  OBVIOUS
<1>1. CASE UNCHANGED vars
  <2>1. git' = git /\ run' = run /\ scratch' = scratch /\ edits' = edits
    BY <1>1 DEF vars
  <2>2. TypeOK' /\ Unseen' /\ Fresh'
    BY <2>1 DEF GatesIInv, TypeOK, Unseen, Fresh
  <2>3. Heard'
    <3> SUFFICES ASSUME NEW r \in Runs PROVE Sound(run[r], Tree(r), Files(r))'
      BY DEF Heard
    <3>1. run'[r] = run[r] /\ git'[In[r]] = git[In[r]] /\ Files(r)' = Files(r)
      BY <2>1 DEF Files
    <3> QED BY <3>1, Elsewhere
  <2> QED BY <2>2, <2>3 DEF GatesIInv
<1>2. ASSUME NEW r \in Runs, NEW mode \in Modes[r], Begin(r, mode) PROVE GatesIInv'
  BY <1>2, BeginKeeps
<1>3. ASSUME NEW r \in Runs, Write(r) PROVE GatesIInv'
  BY <1>3, WriteKeeps
<1>4. ASSUME NEW r \in Runs, Judge(r) PROVE GatesIInv'
  BY <1>4, JudgeKeeps
<1>5. ASSUME NEW r \in Runs, Style(r) \/ Check(r) \/ Starve(r) PROVE GatesIInv'
  BY <1>5, StyleKeeps, CheckKeeps, StarveKeeps
<1>6. ASSUME NEW r \in Runs, Finish(r) PROVE GatesIInv'
  BY <1>6, FinishKeeps
<1>7. ASSUME NEW r \in Runs, Interrupt(r) PROVE GatesIInv'
  BY <1>7, InterruptKeeps
<1>8. ASSUME NEW w \in Trees, Add(w) PROVE GatesIInv'
  BY <1>8, AddKeeps
<1>9. ASSUME NEW w \in Trees, Commit(w) PROVE GatesIInv'
  BY <1>9, CommitKeeps
<1>10. ASSUME NEW w \in Trees, NEW draft \in Drafts, Edit(w, draft) PROVE GatesIInv'
  BY <1>10, EditKeeps
<1> QED BY <1>1, <1>2, <1>3, <1>4, <1>5, <1>6, <1>7, <1>8, <1>9, <1>10 DEF Next

\* The runs that nobody disturbed have noted what their trees deserve.
THEOREM GatesInvariant == Spec => []GatesIInv
BY GatesStart, GatesStep, PTL DEF Spec

\* The variables have their types; and a scratch directory is there from the start of its
\* run to the end, and after a failure (gates.sh, the EXIT trap).
THEOREM GatesTypeCorrect == Spec => []TypeOK
<1>1. GatesIInv => TypeOK
  BY DEF GatesIInv
<1> QED BY GatesInvariant, <1>1, PTL

-----------------------------------------------------------------------------
(* Exit 1, and exit 0.                                                     *)

\* A run ends, by itself, when it is past its last gate, and as what it noted says.
LEMMA Ending ==
  ASSUME GatesIInv, Next, NEW r \in Runs, NEW how \in {"passed", "failed"}, Ends(r, how)
  PROVE  ~AtGate(r) /\ (how = "failed" <=> run[r].failed)
<1> DEFINE Still == run'[r].state \in {"running", "interrupted", "refused"}
<1>1. run[r].state = "running" /\ run'[r].state = how /\ run[r] \in Progress
      /\ run \in [Runs -> Progress]
  BY DEF Ends, GatesIInv, TypeOK
<1>2. ~Still
  BY <1>1
<1> HIDE DEF Still
<1>3. ASSUME NEW q \in Runs, NEW y, run' = [run EXCEPT ![q] = y], q # r PROVE Still
  BY <1>1, <1>3 DEF Still
<1>4. ASSUME NEW q \in Runs, NEW mode \in Modes[q], Begin(q, mode) PROVE Still
  <2>1. q # r
    BY <1>1, <1>4 DEF Begin
  <2>2. \/ run' = [run EXCEPT ![q] = Begun(run[q], mode)]
        \/ run' = [run EXCEPT ![q] = Ended("refused")]
    BY <1>4 DEF Begin
  <2> QED BY <1>3, <2>1, <2>2
<1>5. ASSUME NEW q \in Runs, AtGate(q), NEW ok \in BOOLEAN, NEW served \in BOOLEAN,
             run' = Noted(q, ok, served)
      PROVE  Still
  <2> DEFINE y == After(run[q], ok, served)
  <2>1. run' = [run EXCEPT ![q] = y]
    BY <1>5 DEF Noted
  <2>2. CASE q = r
    <3>1. y.state = "running"
      BY <1>1, <1>5, <2>2, AtSomeGate, GateJudged
    <3> HIDE DEF y
    <3> QED BY <1>1, <2>1, <2>2, <3>1 DEF Still
  <2> HIDE DEF y
  <2> QED BY <1>3, <2>1, <2>2
<1>6. ASSUME NEW q \in Runs, Write(q) PROVE Still
  <2>1. CASE Elaborates(Gate(q), Tree(q).work)
    <3>1. run' = [run EXCEPT ![q] = Written(run[q])]
      BY <1>6, <2>1 DEF Write
    <3>2. Written(run[r]).state = "running"
      BY <1>1, RunMoves
    <3> QED BY <1>1, <1>3, <3>1, <3>2 DEF Still
  <2>2. CASE ~Elaborates(Gate(q), Tree(q).work)
    BY <1>5, <1>6, <2>2 DEF Write
  <2> QED BY <2>1, <2>2
<1>7. ASSUME NEW q \in Runs, Judge(q) PROVE Still
  BY <1>5, <1>7 DEF Judge
<1>8. ASSUME NEW q \in Runs, Check(q) \/ Style(q) \/ Starve(q) PROVE Still
  <2>1. CASE Check(q)
    BY <1>5, <2>1, HoldsOrNot DEF Check
  <2>2. CASE Style(q)
    <3>1. PICK answered \in SUBSET Questions : \E ok \in StyleVerdicts(Tree(q), answered) :
            run' = Noted(q, ok, answered = Questions)
      BY <2>2 DEF Style
    <3>2. PICK ok \in StyleVerdicts(Tree(q), answered) :
            run' = Noted(q, ok, answered = Questions)
      BY <3>1
    <3>3. ok \in BOOLEAN /\ (answered = Questions) \in BOOLEAN
      BY DEF StyleVerdicts
    <3> QED BY <1>5, <2>2, <3>2, <3>3 DEF Style
  <2>3. CASE Starve(q)
    BY <1>5, <2>3 DEF Starve
  <2> QED BY <1>8, <2>1, <2>2, <2>3
<1>9. ASSUME NEW q \in Runs, Interrupt(q) PROVE Still
  <2>1. run' = [run EXCEPT ![q] = Ended("interrupted")]
    BY <1>9 DEF Interrupt
  <2>2. Ended("interrupted").state = "interrupted"
    BY <1>1, RunMoves
  <2> QED BY <1>1, <1>3, <2>1, <2>2 DEF Still
<1>10. ASSUME NEW w \in Trees, NEW g, Change(w, g) PROVE Still
  <2>1. run'[r] = run[r] \/ run'[r] = Disturbed(run[r])
    BY <1>10 DEF Change
  <2>2. Disturbed(run[r]).state = "running"
    BY <1>1, RunMoves
  <2> QED BY <1>1, <2>1, <2>2 DEF Still
<1>11. PICK q \in Runs : Finish(q)
  BY <1>2, <1>4, <1>6, <1>7, <1>8, <1>9, <1>10 DEF Next, Add, Commit, Edit
<1> DEFINE end == IF run[q].failed THEN "failed" ELSE "passed"
<1>12. run' = [run EXCEPT ![q] = Ended(end)] /\ ~AtGate(q)
  BY <1>11 DEF Finish
<1>13. q = r
  BY <1>2, <1>3, <1>12
<1>14. Ended(end).state = end
  BY <1>1, <1>13, RunMoves
<1>15. run'[r].state = end
  BY <1>1, <1>12, <1>13, <1>14
<1> QED BY <1>1, <1>12, <1>13, <1>15

\* Exit 1 of gates.sh has its reason in the tree of the run, where git and the host did what
\* they were asked, though runs of other trees write their transcripts on the same host.
THEOREM FailuresDeserved == Spec => FailIsDeserved
<1>1. ASSUME GatesIInv, [Next]_vars
      PROVE  [\A r \in Runs : Ends(r, "failed") /\ run[r].served => Faulty(Tree(r))]_vars
  <2> SUFFICES ASSUME Next, NEW r \in Runs, Ends(r, "failed"), run[r].served
               PROVE  Faulty(Tree(r))
    BY <1>1
  <2>1. run[r].failed /\ run[r].state = "running" /\ run[r].steady
    BY <1>1, Ending DEF Ends
  <2>2. Sound(run[r], Tree(r), Files(r))
    BY <1>1 DEF GatesIInv, Heard
  <2> QED BY <2>1, <2>2 DEF Sound
<1> QED BY <1>1, GatesInvariant, PTL DEF Spec, FailIsDeserved

\* What every gate of a run has said of its tree when the run passes.
LEMMA Passed ==
  ASSUME GatesIInv, Next, NEW r \in Runs, Ends(r, "passed")
  PROVE  /\ run[r].mode \in {"fast", "full"} /\ Tree(r) \in Checkout
         /\ run[r].served => TRUE \in StyleVerdicts(Tree(r), Questions)
         /\ run[r].mode = "full" =>
              /\ PinHolds(Tree(r).work) /\ SourceIndependent(Tree(r).work)
              /\ MapHolds(Tree(r).work) /\ CoverageHolds(Emission(Tree(r).work), Tracked(Tree(r)))
              /\ Hits("exe-sorry", Tree(r).work) = {}
<1> DEFINE x == run[r]
           g == Tree(r)
<1>1. x \in Progress /\ x.state = "running" /\ x.steady
  BY DEF Ends, GatesIInv, TypeOK
<1>2. ~AtGate(r) /\ ~x.failed
  BY Ending
<1>3. ~(x.at <= Len(Gates(x.mode)))
  BY <1>1, <1>2 DEF AtGate, Running
<1>4. Sound(x, g, Files(r))
  BY DEF GatesIInv, Heard
<1>5. x.mode \in {"fast", "full"}
  BY <1>1, AtBounds
<1>6. g \in Checkout
  BY GatesAssumption DEF GatesIInv, TypeOK, Tree
<1>7. \A i \in 1..Len(Gates(x.mode)) :
        (Gates(x.mode)[i] = "mathlib-style" => x.served) => Says(Gates(x.mode)[i], g)
  BY <1>1, <1>2, <1>3, <1>4, AllSaid
<1> HIDE DEF x, g
<1>8. x.served => TRUE \in StyleVerdicts(g, Questions)
  <2> SUFFICES ASSUME x.served PROVE TRUE \in StyleVerdicts(g, Questions)
    OBVIOUS
  <2>1. Gates(x.mode)[2] = "mathlib-style" /\ 2 \in 1..Len(Gates(x.mode))
    BY <1>5, GateOrder
  <2>2. Says("mathlib-style", g)
    BY <1>7, <2>1
  <2> QED BY <2>2 DEF Says
<1>9. ASSUME x.mode = "full"
      PROVE  /\ PinHolds(g.work) /\ SourceIndependent(g.work) /\ MapHolds(g.work)
             /\ CoverageHolds(Emission(g.work), Tracked(g)) /\ Hits("exe-sorry", g.work) = {}
  <2>1. \A i \in {12, 13, 16, 20, 21} : Says(Gates("full")[i], g)
    BY <1>7, <1>9, GateOrder
  <2>2. /\ Says("pin", g) /\ Says("source-independence", g) /\ Says("coverage-map", g)
        /\ Says("emission-coverage", g) /\ Says("exe-sorry", g)
    BY <2>1, GateOrder
  <2>3. PinHolds(g.work)
    BY <2>2 DEF Says, Transcribed, Holds
  <2>4. SourceIndependent(g.work)
    BY <2>2 DEF Says, Transcribed, Holds
  <2>5. MapHolds(g.work)
    BY <2>2 DEF Says, Transcribed, Holds
  <2>6. CoverageHolds(Emission(g.work), Tracked(g))
    BY <2>2 DEF Says, Transcribed
  <2>7. Hits("exe-sorry", g.work) = {}
    BY <2>2 DEF Says, Transcribed
  <2> QED BY <2>3, <2>4, <2>5, <2>6, <2>7
<1> QED BY <1>5, <1>6, <1>8, <1>9 DEF x, g

\* Exit 0 of gates.sh over a clean tree that nobody touched: no line of the branch breaks
\* the style, if git answered; and of all gates, nothing that git has of the library or in
\* exe/ itself has a sorry, nothing on disk imports what is retired, the two pins of the
\* contract agree, and every claim is the owner's, of this version of the paper.
THEOREM PassesDeserved == Spec => PassIsDeserved
<1> DEFINE Clean(g) == g.head = g.index /\ \A p \in Paths \ Hidden : g.head[p] = g.work[p]
           Whole(g) ==
             /\ ~SorryIn(g.head, {"DerivedAlgGeo", "root", "exe"})
             /\ \A p \in Present(g.work) :
                  Dir[p] \notin {".claude", "data"} => ImportsOf(g.work, p) \cap Retired = {}
             /\ Rev(g.head, Manifest, "mfc") = Rev(g.head, CI, "mfc_cli")
             /\ \A entry \in Entries(g.head) : entry.status = "formalized" =>
                  "owner_accepted" \in entry.fields /\ Versions(g.head) \subseteq entry.checked
           Deserved(r) == Ends(r, "passed") /\ Clean(Tree(r)) =>
                            /\ run[r].served => ~BadLine(Tree(r).head)
                            /\ run[r].mode = "full" => Whole(Tree(r))
<1>1. ASSUME GatesIInv, Next, NEW r \in Runs, Ends(r, "passed"), Clean(Tree(r))
      PROVE  /\ run[r].served => ~BadLine(Tree(r).head)
             /\ run[r].mode = "full" => Whole(Tree(r))
  <2> DEFINE g == Tree(r)
  <2>1. g \in Checkout /\ (run[r].served => TRUE \in StyleVerdicts(g, Questions))
    BY <1>1, Passed
  <2>2. \A p \in Hidden : g.head[p] = Absent
    BY <1>1, GatesAssumption DEF GatesIInv, Unseen, Tree
  <2>3. g.head = g.index /\ \A p \in Paths \ Hidden : g.head[p] = g.work[p]
    BY <1>1
  <2>4. ASSUME run[r].mode = "full" PROVE Whole(g)
    <3>1. /\ PinHolds(g.work) /\ SourceIndependent(g.work) /\ MapHolds(g.work)
          /\ CoverageHolds(Emission(g.work), Tracked(g)) /\ Hits("exe-sorry", g.work) = {}
      BY <1>1, <2>4, Passed
    <3> HIDE DEF g
    <3>2. ~SorryIn(g.head, {"DerivedAlgGeo", "root", "exe"})
      BY <2>1, <2>2, <2>3, <3>1, SorryPass
    <3>3. \A p \in Present(g.work) :
            Dir[p] \notin {".claude", "data"} => ImportsOf(g.work, p) \cap Retired = {}
      BY <3>1, SourcesPass
    <3>4. Rev(g.head, Manifest, "mfc") = Rev(g.head, CI, "mfc_cli")
      BY <2>1, <2>3, <3>1, PinPass
    <3>5. \A entry \in Entries(g.head) : entry.status = "formalized" =>
            "owner_accepted" \in entry.fields /\ Versions(g.head) \subseteq entry.checked
      BY <2>1, <2>3, <3>1, MapPass
    <3> QED BY <3>2, <3>3, <3>4, <3>5
  <2>5. run[r].served => ~BadLine(g.head)
    <3> HIDE DEF g
    <3> QED BY <2>1, <2>2, <2>3, StylePass
  <2> QED BY <2>4, <2>5
<1>2. GatesIInv /\ [Next]_vars => [\A r \in Runs : Deserved(r)]_vars
  <2> HIDE DEF Clean, Whole
  <2> QED BY <1>1
<1>3. [\A r \in Runs : Deserved(r)]_vars =>
        [\A r \in Runs :
           Ends(r, "passed") /\ Tree(r).head = Tree(r).index
             /\ (\A p \in Paths \ Hidden : Tree(r).head[p] = Tree(r).work[p]) =>
           /\ run[r].served => ~BadLine(Tree(r).head)
           /\ run[r].mode = "full" =>
                /\ ~SorryIn(Tree(r).head, {"DerivedAlgGeo", "root", "exe"})
                /\ \A p \in Present(Tree(r).work) :
                     Dir[p] \notin {".claude", "data"} =>
                       ImportsOf(Tree(r).work, p) \cap Retired = {}
                /\ Rev(Tree(r).head, Manifest, "mfc") = Rev(Tree(r).head, CI, "mfc_cli")
                /\ \A entry \in Entries(Tree(r).head) : entry.status = "formalized" =>
                     "owner_accepted" \in entry.fields
                       /\ Versions(Tree(r).head) \subseteq entry.checked]_vars
  BY Zenon
<1> HIDE DEF Deserved
<1> QED BY <1>2, <1>3, GatesInvariant, PTL DEF Spec, PassIsDeserved
=============================================================================
