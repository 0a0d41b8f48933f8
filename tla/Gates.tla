-------------------------------- MODULE Gates --------------------------------
(***************************************************************************)
(* scripts/gates.sh: a run in each of several working trees of one host,   *)
(* gate after gate, with transcripts in a scratch directory, while people  *)
(* and agents edit, add and commit in the trees. The gates that read       *)
(* sources and records are those of Sources and Registry; of the others,   *)
(* which have modules of their own or are Lean's, it matters only which    *)
(* lines they catch where. Build output is taken as up to date with the    *)
(* tree, and lake's default target as the sweep's root.                    *)
(***************************************************************************)
EXTENDS Registry

CONSTANTS
  Trees,       \* the working trees
  Runs, In,    \* In[r]: the tree that the run r is of
  Modes,       \* Modes[r]: how it may be called
  Start0,      \* Start0[w]: what the tree w is at first, in head, index and work
  Drafts,      \* what an edit may put in some paths
  Editable,    \* the trees that are worked in
  MaxEdits,
  Listed, Caught   \* the paths and the lines that any other gate looks at and for

VARIABLES
  git,      \* git[w]: head, index and work
  run,      \* run[r]
  scratch,  \* the scratch directories there are: each maps a file to its contents
  edits     \* how many drafts were written

vars == <<git, run, scratch, edits>>

Fast == <<"workflows", "mathlib-style", "explicit-numerical-data",
          "foundation-import-boundary", "build", "algebraic-geometry-audit",
          "stability-condition-audit", "dg-audit">>
More == <<"runLinter", "nolints-ratchet", "lint-style", "pin", "source-independence",
          "subject-layering", "coherent-families", "coverage-map", "audit-complete",
          "emit-build", "emit", "emission-coverage", "exe-sorry">>
Full == Fast \o More
Gates(mode) == IF mode = "fast" THEN Fast ELSE Full

\* git has nothing of a nested checkout.
ASSUME GatesAssumption ==
  /\ \A r \in Runs : In[r] \in Trees /\ Modes[r] \subseteq {"fast", "full"}
  /\ Start0 \in [Trees -> Checkout]
  /\ \A w \in Trees, p \in Hidden : Start0[w].head[p] = Absent /\ Start0[w].index[p] = Absent
  /\ \A draft \in Drafts : /\ DOMAIN draft \subseteq Paths
                           /\ \A p \in DOMAIN draft : draft[p] \in {Absent} \cup Seq(Lines)
  /\ DOMAIN Listed = DOMAIN Caught
  /\ \A i \in 1..Len(Gates("full")) : Gates("full")[i] \in DOMAIN Listed
  /\ MaxEdits \in Nat

\* The gates that write a transcript and then judge the file.
Transcribed == {"algebraic-geometry-audit", "stability-condition-audit", "dg-audit",
                "audit-complete", "exe-sorry"}

\* A run; steady: nobody has changed its tree since it began; served: git and the host
\* have done since then what it asked of them.
Idle == [state |-> "idle", mode |-> "full", at |-> 1, wrote |-> FALSE, failed |-> FALSE,
         steady |-> TRUE, served |-> TRUE]
Progress == [state : {"idle", "running", "passed", "failed", "interrupted", "refused"},
             mode : {"fast", "full"}, at : 1..Len(Gates("full")) + 1,
             wrote : BOOLEAN, failed : BOOLEAN, steady : BOOLEAN, served : BOOLEAN]

\* A scratch directory is there from the start of its run to the end, and after a failure.
TypeOK ==
  /\ git \in [Trees -> Checkout]
  /\ run \in [Runs -> Progress]
  /\ DOMAIN scratch = {r \in Runs : run[r].state \in {"running", "failed"}}
  /\ edits \in 0..MaxEdits

Gate(r) == Gates(run[r].mode)[run[r].at]
Tree(r) == git[In[r]]
Running(r) == run[r].state = "running"
AtGate(r)  == Running(r) /\ run[r].at <= Len(Gates(run[r].mode))

\* mktemp -d: a directory of its own.
MutScratch(r) == "/tmp"
Scratch(r)    == r
Files(r) == IF Scratch(r) \in DOMAIN scratch THEN scratch[Scratch(r)] ELSE <<>>

-----------------------------------------------------------------------------
(* Verdicts.                                                               *)

\* The loop over exe/*.lean: what is below a directory of exe/ is not in it.
Executables(t) == {p \in Present(t) : Dir[p] = "exe"}

Hits(gate, t) ==
  IF gate = "exe-sorry" THEN {p \in Executables(t) : LinesOf(t, p) \cap Sorry # {}}
  ELSE {p \in Listed[gate] : LinesOf(t, p) \cap Caught[gate] # {}}

\* Lean can elaborate what the gate runs on; a pattern that nothing matches is no file.
Elaborates(gate, t) ==
  IF gate = "exe-sorry"
  THEN /\ Executables(t) # {}
       /\ \A p \in Executables(t) : \A q \in ImportsOf(t, p) : Builds(t, q)
  ELSE Builds(t, Sweep)

\* What any other gate but that of style says of a tree; files is its scratch directory.
Holds(gate, g, files) ==
  CASE gate \in {"build", "emit-build"} -> Builds(g.work, Sweep)
    [] gate = "pin"                 -> PinHolds(g.work)
    [] gate = "source-independence" -> SourceIndependent(g.work)
    [] gate = "coherent-families"   -> FamiliesHold(g.work)
    [] gate = "coverage-map"        -> MapHolds(g.work)
    [] gate = "emit"                -> Builds(g.work, Sweep) /\ Emission(g.work).sorried = {}
    [] gate = "emission-coverage"   -> /\ "emission" \in DOMAIN files
                                       /\ CoverageHolds(files["emission"], Tracked(g))
    [] OTHER                        -> Hits(gate, g.work) = {}

-----------------------------------------------------------------------------
(* A run.                                                                  *)

Put(f, x, y) == [z \in DOMAIN f \cup {x} |-> IF z = x THEN y ELSE f[z]]
With(r, file, contents) == Put(scratch, Scratch(r), Put(Files(r), file, contents))
Without(r) == [dir \in DOMAIN scratch \ {Scratch(r)} |-> scratch[dir]]

Begun(x, mode) == [x EXCEPT !.state = "running", !.mode = mode]

\* A run that has ended is nowhere.
Ended(how) == [Idle EXCEPT !.state = how]

\* Without a scratch directory there is no run: exit 1, and no gate was asked.
Begin(r, mode) ==
  /\ run[r].state = "idle" /\ mode \in Modes[r]
  /\ \/ /\ run' = [run EXCEPT ![r] = Begun(@, mode)]
        /\ scratch' = Put(scratch, Scratch(r), <<>>)
     \/ run' = [run EXCEPT ![r] = Ended("refused")] /\ UNCHANGED scratch
  /\ UNCHANGED <<git, edits>>

\* gate(): a failure is noted, and the next gate runs all the same.
Past(x, served)      == [x EXCEPT !.at = @ + 1, !.wrote = FALSE, !.served = @ /\ served]
Fails(x)             == [x EXCEPT !.failed = TRUE]
After(x, ok, served) == IF ok THEN Past(x, served) ELSE Fails(Past(x, served))
Noted(r, ok, served) == [run EXCEPT ![r] = After(@, ok, served)]

Written(x) == [x EXCEPT !.wrote = TRUE]

\* A transcript is written; where Lean cannot elaborate, the gate fails at once.
Write(r) ==
  /\ AtGate(r) /\ Gate(r) \in Transcribed /\ ~run[r].wrote
  /\ IF Elaborates(Gate(r), Tree(r).work)
     THEN /\ scratch' = With(r, Gate(r), Hits(Gate(r), Tree(r).work))
          /\ run' = [run EXCEPT ![r] = Written(@)]
     ELSE run' = Noted(r, FALSE, TRUE) /\ UNCHANGED scratch
  /\ UNCHANGED <<git, edits>>

\* ...and judged, from the file.
Judge(r) ==
  /\ AtGate(r) /\ Gate(r) \in Transcribed /\ run[r].wrote
  /\ run' = Noted(r, Gate(r) \in DOMAIN Files(r) /\ Files(r)[Gate(r)] = {}, TRUE)
  /\ UNCHANGED <<git, scratch, edits>>

\* The gate of style hears what git answers, and takes no answer for an answer.
Style(r) ==
  /\ AtGate(r) /\ Gate(r) = "mathlib-style"
  /\ \E answered \in SUBSET Questions : \E ok \in StyleVerdicts(Tree(r), answered) :
       run' = Noted(r, ok, answered = Questions)
  /\ UNCHANGED <<git, scratch, edits>>

\* A gate fails unrun: its log cannot be made; or git ls-files fails the coverage check.
Starve(r) ==
  /\ AtGate(r) /\ ~run[r].wrote
  /\ run' = Noted(r, FALSE, FALSE)
  /\ UNCHANGED <<git, scratch, edits>>

\* Any other gate. The emitter writes its artifact whether it passes or not.
Check(r) ==
  /\ AtGate(r) /\ Gate(r) \notin Transcribed \cup {"mathlib-style"}
  /\ run' = Noted(r, Holds(Gate(r), Tree(r), Files(r)), TRUE)
  /\ scratch' = IF Gate(r) = "emit" /\ Builds(Tree(r).work, Sweep)
                THEN With(r, "emission", Emission(Tree(r).work)) ELSE scratch
  /\ UNCHANGED <<git, edits>>

\* Exit 0 and nothing is left, or exit 1 and the artifacts are kept.
Finish(r) ==
  /\ Running(r) /\ ~AtGate(r)
  /\ run' = [run EXCEPT ![r] = Ended(IF @.failed THEN "failed" ELSE "passed")]
  /\ scratch' = IF run[r].failed THEN scratch ELSE Without(r)
  /\ UNCHANGED <<git, edits>>

Interrupt(r) ==
  /\ Running(r)
  /\ run' = [run EXCEPT ![r] = Ended("interrupted")]
  /\ scratch' = Without(r)
  /\ UNCHANGED <<git, edits>>

-----------------------------------------------------------------------------
(* Work in a tree.                                                         *)

Disturbed(x) == [x EXCEPT !.steady = FALSE]

Change(w, g) ==
  /\ w \in Editable /\ git[w] # g /\ git' = [git EXCEPT ![w] = g]
  /\ run' = [r \in Runs |-> IF In[r] = w /\ Running(r) THEN Disturbed(run[r]) ELSE run[r]]
  /\ UNCHANGED scratch

Edit(w, draft) ==
  /\ edits < MaxEdits /\ edits' = edits + 1
  /\ Change(w, [git[w] EXCEPT !.work = [p \in Paths |-> IF p \in DOMAIN draft THEN draft[p]
                                                      ELSE git[w].work[p]]])

\* git add -A, which takes nothing from a nested checkout; git commit.
Add(w) ==
  /\ Change(w, [git[w] EXCEPT !.index = [p \in Paths |-> IF p \in Hidden THEN @[p]
                                                       ELSE git[w].work[p]]])
  /\ UNCHANGED edits
Commit(w) == Change(w, [git[w] EXCEPT !.head = git[w].index]) /\ UNCHANGED edits

Init ==
  /\ git = Start0 /\ run = [r \in Runs |-> Idle]
  /\ scratch = <<>> /\ edits = 0

Next ==
  \/ \E r \in Runs : \/ \E mode \in Modes[r] : Begin(r, mode)
                     \/ Write(r) \/ Judge(r) \/ Style(r) \/ Check(r) \/ Starve(r)
                     \/ Finish(r) \/ Interrupt(r)
  \/ \E w \in Trees : Add(w) \/ Commit(w) \/ \E draft \in Drafts : Edit(w, draft)

Spec == Init /\ [][Next]_vars

-----------------------------------------------------------------------------
(* Properties.                                                             *)

Ends(r, how) == run[r].state = "running" /\ run'[r].state = how /\ run[r].steady

\* The branch wrote the line: its file had none such, and was not elsewhere before.
Wrote(t, p, line) ==
  /\ line \notin LinesOf(base, p)
  /\ base[p] # Absent \/ \A q \in Paths : line \in LinesOf(base, q) => t[q] # Absent
BadLine(t) == \E p \in Present(t) : InScope(p) /\ \E i \in Findings(t[p]) : Wrote(t, p, t[p][i])
SorryIn(t, dirs) == \E p \in Present(t) : Dir[p] \in dirs /\ LinesOf(t, p) \cap Sorry # {}

\* Exit 0 of all gates, over a clean tree that nobody touched, is a branch that may be
\* pushed: no sorry in any file that git has of the library or in exe/ itself, whether or
\* not anything imports it; nothing on disk from which a retired module can come; one
\* revision of the contract for the emitter and for the command that reads it; no claim
\* that the owner has not accepted against this version of the paper; and, if git answered
\* what it was asked (gates.sh takes a list that git failed to make for an empty one), no
\* line of its own that breaks the style.
PassIsDeserved ==
  [][\A r \in Runs :
       Ends(r, "passed") /\ Tree(r).head = Tree(r).index
         /\ (\A p \in Paths \ Hidden : Tree(r).head[p] = Tree(r).work[p]) =>
       /\ run[r].served => ~BadLine(Tree(r).head)
       /\ run[r].mode = "full" =>
            /\ ~SorryIn(Tree(r).head, {"DerivedAlgGeo", "root", "exe"})
            /\ \A p \in Present(Tree(r).work) :
                 Dir[p] \notin {".claude", "data"} => ImportsOf(Tree(r).work, p) \cap Retired = {}
            /\ Rev(Tree(r).head, Manifest, "mfc") = Rev(Tree(r).head, CI, "mfc_cli")
            /\ \A entry \in Entries(Tree(r).head) : entry.status = "formalized" =>
                 "owner_accepted" \in entry.fields /\ Versions(Tree(r).head) \subseteq entry.checked
       ]_vars

\* The line i of a committed file is not where it was: the text it is compared with has no
\* such line, or has each one on the other side of some line that both have, or as one that
\* head has elsewhere too. In a file that is new to git, every line is new.
Displaced(old, new, i) ==
  \A j \in 1..Len(old) : old[j] = new[i] =>
    \E k \in 1..Len(new), m \in 1..Len(old) :
      old[m] = new[k] /\ ((k < i /\ m >= j) \/ (k > i /\ m <= j))
Reworked(head, p, i) ==
  \/ IsNew(head, p)
  \/ base[p] # Absent /\ Displaced(base[p], head[p], i)

\* A reason for a gate to fail in a tree. Where a file is as it was committed, a finding of
\* style is of a line that the branch wrote, repeated or moved; where it is not, of any.
Faulty(g) ==
  \/ \E p \in Present(g.work) : InScope(p) /\ \E i \in Findings(g.work[p]) :
       g.head[p] = g.work[p] => Reworked(g.head, p, i)
  \/ ~Builds(g.work, Sweep) \/ Emission(g.work).sorried # {} \/ Emission(g.work).constants = {}
  \/ \E p \in Tracked(g) : p \notin Reach(g.work, Sweep)
  \/ Executables(g.work) = {}
  \/ \E p \in Executables(g.work) : \E q \in ImportsOf(g.work, p) : ~Builds(g.work, q)
  \/ ~SourceIndependent(g.work) \/ ~PinHolds(g.work)
  \/ ~FamiliesHold(g.work) \/ ~MapHolds(g.work)
  \/ \E gate \in DOMAIN Caught : Hits(gate, g.work) # {}

\* Exit 1 has its reason in the tree of the run, not in another's, where git and the host
\* did what they were asked.
FailIsDeserved ==
  [][\A r \in Runs : Ends(r, "failed") /\ run[r].served => Faulty(Tree(r))]_vars

\* gates.sh, "The pre-push gate list": what exit 0 lets through is what a push sends.
PassIsPushable ==
  [][\A r \in Runs : Ends(r, "passed") /\ run[r].served => ~BadLine(Tree(r).head)]_vars

\* Three that no run checks, being false of the code: exit 0 means that the branch was looked
\* at, whether git answered or not (gates.sh, "exits 1 if any gate failed"); it leaves no
\* sorry anywhere in exe/; and exit 1 is for a line that the branch wrote, not for one it
\* moved or repeated (gates.sh, "judge the lines this branch wrote").
PassIsJudged ==
  [][\A r \in Runs : Ends(r, "passed") /\ Tree(r).head = Tree(r).work => ~BadLine(Tree(r).head)]_vars
NoSorryBelowExe ==
  [][\A r \in Runs : Ends(r, "passed") /\ run[r].mode = "full" /\ Tree(r).head = Tree(r).work =>
       ~SorryIn(Tree(r).head, {"exe/below"})]_vars
FailIsWritten ==
  [][\A r \in Runs : Ends(r, "failed") /\ run[r].served /\ Tree(r).head = Tree(r).work
       /\ StyleVerdicts(Tree(r), Questions) = {FALSE} => BadLine(Tree(r).head)]_vars
=============================================================================
