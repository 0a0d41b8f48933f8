------------------------------- MODULE Sources -------------------------------
(***************************************************************************)
(* What the gates that read source files say of a working tree:            *)
(* scripts/check_mathlib_style.py --diff-only on the files gates.sh hands  *)
(* it, the emitter's sweep and scripts/check_emission_coverage.py, and     *)
(* scripts/check_source_independence.py.                                   *)
(*                                                                         *)
(* A tree maps a path to its lines, or to Absent. A checkout has three:    *)
(* head (committed), index (added) and work (on disk).                     *)
(***************************************************************************)
EXTENDS Integers, Sequences, FiniteSets, Functions

CONSTANTS
  Paths, Absent,
  Dir,          \* Dir[p]: the directory; "data" is not Lean, and "lake" configures lake
  Hidden,       \* the paths below a directory, not .claude, that has a .git of its own
  Retired,      \* the modules below a retired root; a module is the path that declares it
  Gone,         \* the paths that may not come back
  Lakefile, LakefileLean,   \* lakefile.toml and lakefile.lean
  RetiredLib, Upstream,     \* the lines that declare the retired library, or name its source
  Sweep,        \* DerivedAlgGeoSweep.lean
  Imports,      \* Imports[l]: the modules that the line l imports, or requires
  Decls, Sorry, \* the lines that declare something; those whose proof is not one
  Included, Excluded,   \* the paths below DerivedAlgGeo/ and its root; below a part left out
  StyleErrors,  \* the lines that break a rule by themselves
  Docs,         \* the docstrings
  NeedsDoc,     \* the declarations that must follow one
  base          \* where the branch left origin/main

Lines    == DOMAIN Imports
Snapshot == [Paths -> {Absent} \cup Seq(Lines)]     \* a tree
Checkout == [head : Snapshot, index : Snapshot, work : Snapshot]

ASSUME SourcesAssumption ==
  /\ Hidden \cup Retired \cup Gone \cup {Sweep, Lakefile, LakefileLean} \subseteq Paths
  /\ Dir \in [Paths -> {"DerivedAlgGeo", "root", "exe", "exe/below", "scripts", ".claude",
                       "lake", "data"}]
  /\ {p \in Paths : Dir[p] = "lake"} = {Lakefile, LakefileLean}
  /\ \A l \in Lines : Imports[l] \subseteq Paths
  /\ Sorry \subseteq Decls /\ NeedsDoc \subseteq Decls
  /\ base \in Snapshot

Present(t)  == {p \in Paths : t[p] # Absent}
LinesOf(t, p) == IF t[p] = Absent THEN {} ELSE Range(t[p])
ImportsOf(t, p) == UNION {Imports[l] : l \in LinesOf(t, p)}

-----------------------------------------------------------------------------
(* The sweep.                                                              *)

\* What lake builds, and importModules loads, for a root.
Reach(t, root) ==
  LET reach[near \in SUBSET Paths] ==
        LET nearer == near \cup UNION {ImportsOf(t, p) : p \in near}
        IN  IF nearer = near THEN near ELSE reach[nearer]
  IN  reach[{root}]
Builds(t, root) == Reach(t, root) \subseteq Present(t)

\* What the emitter writes: it sees what its root imports, and nothing else.
Emission(t) ==
  LET modules == Reach(t, Sweep)
  IN  [modules   |-> modules,
       constants |-> {p \in modules : LinesOf(t, p) \cap Decls # {}},
       sorried   |-> {p \in modules : LinesOf(t, p) \cap Sorry # {}}]

\* git ls-files without scripts/, exe/ and .claude/, still on disk.
Tracked(g) == {p \in Present(g.index) \cap Present(g.work) : Dir[p] \in {"DerivedAlgGeo", "root"}}

MutCoverageHolds(emission, tracked) ==
  emission.modules # {} /\ emission.constants # {} /\ emission.sorried = {}
CoverageHolds(emission, tracked) ==
  /\ emission.modules # {} /\ emission.constants # {}   \* an empty sweep is not a pass
  /\ tracked \subseteq emission.modules
  /\ emission.sorried = {}

-----------------------------------------------------------------------------
(* Source independence: of what is on disk, tracked or not.                *)

\* The walk stops at build output, .claude and nested checkouts.
Walked(t) ==
  {p \in Present(t) : Dir[p] \in {"DerivedAlgGeo", "root", "exe", "exe/below", "scripts"}} \ Hidden

\* A lakefile.toml that can be read, and neither has nor fetches the retired library.
LakeIndependent(t) ==
  /\ t[Lakefile] # Absent /\ t[LakefileLean] = Absent
  /\ LinesOf(t, Lakefile) \cap (RetiredLib \cup Upstream) = {}
  /\ ImportsOf(t, Lakefile) \cap Retired = {}

SourceIndependent(t) ==
  /\ Present(t) \cap Gone = {}
  /\ Present(t) \cap Hidden = {}
  /\ Walked(t) # {}
  /\ \A p \in Walked(t) : ImportsOf(t, p) \cap Retired = {}
  /\ LakeIndependent(t)

-----------------------------------------------------------------------------
(* Style, of the lines a branch wrote.                                     *)

\* check_text: the positions with an ERROR. One of the file as a whole (its header, its
\* module docstring) is reported at a line, and is that line's.
Findings(lines) ==
  {i \in 1..Len(lines) :
     \/ lines[i] \in StyleErrors
     \/ lines[i] \in NeedsDoc /\ (i = 1 \/ lines[i - 1] \notin Docs)}

\* What gates.sh and the script ask git: for the files the branch changed, for those that
\* are changed on disk, and for the lines. A question that git fails is no error: it lists
\* no file, or has every line judged.
Questions == {"branch", "disk", "lines"}

ChangedFiles(g, answered) ==
  {p \in Paths : \/ "branch" \in answered /\ g.head[p] # base[p]
                 \/ "disk" \in answered /\ g.index[p] # Absent /\ g.work[p] # g.index[p]}

\* The lines K of new stand in old, in their order.
Kept(old, new, K) ==
  \E at \in [K -> 1..Len(old)] : /\ \A i \in K : old[at[i]] = new[i]
                                 /\ \A i, k \in K : i < k => at[i] < at[k]

\* What a diff of two texts may keep of the new one: as much as can be, one way or another.
Diffs(old, new) ==
  {K \in SUBSET (1..Len(new)) :
     /\ Kept(old, new, K)
     /\ \A i \in 1..Len(new) \ K : ~Kept(old, new, K \cup {i})}

\* The one file of head with a text that base had in a file which is no more: to git, that
\* file under another name.
Moved(head, p) ==
  /\ \E q \in Paths : base[q] = head[p] /\ head[q] = Absent
  /\ \A q \in Paths : base[q] = Absent /\ head[q] = head[p] => q = p

\* What a file of head is compared with: what it was; or, where base has no such file, one
\* that it is renamed from. A renamed file may be too unlike its source, and is then new.
OldTexts(head, p) ==
  IF base[p] # Absent THEN {base[p]}
  ELSE IF Moved(head, p) THEN {head[p]}
  ELSE {base[q] : q \in {x \in Paths : base[x] # Absent /\ head[x] = Absent}}
IsNew(head, p) == base[p] = Absent /\ ~Moved(head, p)

\* changed_lines: the lines of head that the diff does not keep, every line of a new file,
\* none of a file that head has not.
Touched(g, p, answered) ==
  LET all  == {1..Len(g.work[p])}
      diff == {1..Len(g.head[p]) \ K : K \in UNION {Diffs(old, g.head[p]) : old \in OldTexts(g.head, p)}}
  IN  (IF "lines" \in answered THEN {} ELSE all)
        \cup (IF g.head[p] = Absent THEN {{}}
              ELSE IF IsNew(g.head, p) THEN all \cup diff ELSE diff)

\* in_scope: the library.
InScope(p) == p \in Included \ Excluded

\* What the gate may say: it judges of each file what a diff of it touches.
Judgeable(g, answered) == {p \in ChangedFiles(g, answered) \cap Present(g.work) : InScope(p)}
StyleVerdicts(g, answered) ==
  LET clean(p, lines) == Findings(g.work[p]) \cap lines = {}
  IN  {ok \in BOOLEAN :
         IF ok THEN \A p \in Judgeable(g, answered) :
                      \E lines \in Touched(g, p, answered) : clean(p, lines)
               ELSE \E p \in Judgeable(g, answered) :
                      \E lines \in Touched(g, p, answered) : ~clean(p, lines)}
=============================================================================
