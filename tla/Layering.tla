------------------------------- MODULE Layering -------------------------------
(***************************************************************************)
(* scripts/check_layering.py: the imports of the library, collapsed to the *)
(* top-level subject each file belongs to, must not climb from a lower     *)
(* layer to a higher one and must not go round in a circle.                *)
(*                                                                         *)
(* The scan of the files is one step; find_cycle, a depth-first search     *)
(* with two early returns, is modelled call by call, its recursion as a    *)
(* stack of the nodes being visited and what each has left to look at.     *)
(* `sorted` only makes the report reproducible: any order is allowed here. *)
(***************************************************************************)
EXTENDS Integers, Sequences

CONSTANTS
  Owners,    \* what owner() answers: a subject directory or the stem of a root file
  LAYER,     \* LAYER[o]: the rank of a declared subject
  Families,  \* GEOMETRY_FAMILY_MODULES and the Dqc subtree
  Trees      \* the trees to be judged

GENERIC_OWNER  == "CategoryTheory"

\* plain[o] and prefixed[o]: the owners that o's files import, by `import` and by
\* `public import`, `private import`, `meta import` or `import all`; geo: the owners
\* with a file that imports Mathlib.AlgebraicGeometry; dirs: the subject directories;
\* legacy and relocated: the family modules below the old and the new root.
Tree == [plain : [Owners -> SUBSET Owners], prefixed : [Owners -> SUBSET Owners],
         geo : SUBSET Owners, dirs : SUBSET Owners,
         legacy : SUBSET Families, relocated : SUBSET Families]

ASSUME TreesAssumption ==
  /\ LAYER \in [DOMAIN LAYER -> Nat] /\ DOMAIN LAYER \subseteq Owners
  /\ Trees \subseteq Tree

VARIABLES
  tree,      \* the tree
  phase,     \* scan, search, judge, done
  graph,     \* graph[o]: the subjects o depends on
  failures,  \* the rules found broken
  visited, active, stack,    \* of find_cycle
  left,      \* left[o]: what the loop in visit(o) has not looked at
  cycle      \* what find_cycle returns; empty for None

search == <<visited, active, stack, left>>
vars   == <<tree, phase, graph, failures, search, cycle>>

Rules == {"undeclared", "geometry", "reverse", "cycle", "families"}

TypeOK ==
  /\ tree \in Tree
  /\ phase \in {"scan", "search", "judge", "done"}
  /\ graph \in [Owners -> SUBSET Owners]
  /\ failures \subseteq Rules
  /\ visited \subseteq Owners /\ active \subseteq visited
  /\ stack \in Seq(Owners)
  /\ left \in [Owners -> SUBSET Owners]
  /\ cycle \in Seq(Owners)

-----------------------------------------------------------------------------
(* The scan.                                                               *)

\* LAYER.get(o, -1)
Rank(o) == IF o \in DOMAIN LAYER THEN LAYER[o] ELSE -1

\* IMPORT matches `import` at the start of a line and nothing before it; an import
\* within one owner, or of something that is no subject directory, is no edge.
MutDirsOfSource(t, o) == IF o \in t.dirs THEN t.plain[o] \ {o} ELSE {}
Edges(t, o) == (t.plain[o] \cap t.dirs) \ {o}

Reverse(t) == \E o \in Owners : \E d \in Edges(t, o) : Rank(o) < Rank(d)

Scan ==
  /\ phase = "scan" /\ phase' = "search"
  /\ graph' = [o \in Owners |-> Edges(tree, o)]
  /\ failures' =
       (IF tree.dirs \subseteq DOMAIN LAYER THEN {} ELSE {"undeclared"})
       \cup (IF GENERIC_OWNER \in tree.geo THEN {"geometry"} ELSE {})
       \cup (IF Reverse(tree) THEN {"reverse"} ELSE {})
  /\ UNCHANGED <<tree, search, cycle>>

-----------------------------------------------------------------------------
(* find_cycle.                                                             *)

Keys == {o \in Owners : graph[o] # {}}
Top  == stack[Len(stack)]

\* The call visit(node).
Visit(node, remaining) ==
  /\ visited' = visited \cup {node} /\ active' = active \cup {node}
  /\ stack' = Append(stack, node)
  /\ left' = [remaining EXCEPT ![node] = graph[node]]

\* The outer loop takes a node that no earlier call has visited.
Root(node) ==
  /\ phase = "search" /\ stack = <<>>
  /\ node \in Keys \ visited
  /\ Visit(node, left)
  /\ UNCHANGED <<tree, phase, graph, failures, cycle>>

\* The loop of the innermost call looks at one more dependency.
Looked(dependency) == [left EXCEPT ![Top] = @ \ {dependency}]

Descend(dependency) ==
  /\ phase = "search" /\ stack # <<>>
  /\ dependency \in left[Top] \ visited
  /\ Visit(dependency, Looked(dependency))
  /\ UNCHANGED <<tree, phase, graph, failures, cycle>>

\* It closes a cycle: every call returns it.
MutFromRoot(dependency) ==
  /\ phase = "search" /\ stack # <<>>
  /\ dependency \in left[Top] \cap active
  /\ cycle' = Append(stack, dependency)
  /\ phase' = "judge"
  /\ UNCHANGED <<tree, graph, failures, search>>
Close(dependency) ==
  /\ phase = "search" /\ stack # <<>>
  /\ dependency \in left[Top] \cap active
  /\ \E start \in 1..Len(stack) :
       /\ stack[start] = dependency
       /\ cycle' = Append(SubSeq(stack, start, Len(stack)), dependency)
  /\ phase' = "judge"
  /\ UNCHANGED <<tree, graph, failures, search>>

Pass(dependency) ==
  /\ phase = "search" /\ stack # <<>>
  /\ dependency \in (left[Top] \cap visited) \ active
  /\ left' = Looked(dependency)
  /\ UNCHANGED <<tree, phase, graph, failures, visited, active, stack, cycle>>

\* The innermost call returns None.
MutStaysActive ==
  /\ phase = "search" /\ stack # <<>> /\ left[Top] = {}
  /\ stack' = SubSeq(stack, 1, Len(stack) - 1)
  /\ UNCHANGED <<tree, phase, graph, failures, visited, active, left, cycle>>
Return ==
  /\ phase = "search" /\ stack # <<>> /\ left[Top] = {}
  /\ stack' = SubSeq(stack, 1, Len(stack) - 1)
  /\ active' = active \ {Top}
  /\ UNCHANGED <<tree, phase, graph, failures, visited, left, cycle>>

MutFirstOnly ==
  /\ phase = "search" /\ stack = <<>> /\ (visited # {} \/ Keys = {})
  /\ phase' = "judge"
  /\ UNCHANGED <<tree, graph, failures, search, cycle>>
Exhausted ==
  /\ phase = "search" /\ stack = <<>> /\ Keys \subseteq visited
  /\ phase' = "judge"
  /\ UNCHANGED <<tree, graph, failures, search, cycle>>

-----------------------------------------------------------------------------
(* The verdict.                                                            *)

Judge ==
  /\ phase = "judge" /\ phase' = "done"
  /\ failures' = failures
       \cup (IF cycle # <<>> THEN {"cycle"} ELSE {})
       \cup (IF tree.legacy = {} /\ tree.relocated = Families THEN {} ELSE {"families"})
  /\ UNCHANGED <<tree, graph, search, cycle>>

Init ==
  /\ tree \in Trees /\ phase = "scan"
  /\ graph = [o \in Owners |-> {}] /\ failures = {}
  /\ visited = {} /\ active = {} /\ stack = <<>>
  /\ left = [o \in Owners |-> {}] /\ cycle = <<>>

Next ==
  \/ Scan \/ Return \/ Exhausted \/ Judge
  \/ \E o \in Owners : Root(o) \/ Descend(o) \/ Close(o) \/ Pass(o)

Spec == Init /\ [][Next]_vars /\ WF_vars(Next)

-----------------------------------------------------------------------------
(* Properties.                                                             *)

\* No set of owners where each has an edge to another of the set.
Acyclic(g) == \A S \in SUBSET Owners : S # {} => \E o \in S : g[o] \cap S = {}

Passed == phase = "done" /\ failures = {}

\* find_cycle is exact: it answers None of the graphs without a cycle and of no
\* other, whatever the order it looks at nodes and dependencies.
SearchIsExact ==
  phase \in {"judge", "done"} => (cycle = <<>> <=> Acyclic(graph))

\* What it reports can be followed import by import: each owner depends on the next,
\* the last is the first, and none comes twice in between.
CycleIsReal ==
  cycle # <<>> =>
    /\ Len(cycle) > 1 /\ cycle[Len(cycle)] = cycle[1]
    /\ \A i \in 1..(Len(cycle) - 1) : cycle[i + 1] \in graph[cycle[i]]
    /\ \A i, j \in 1..(Len(cycle) - 1) : cycle[i] = cycle[j] => i = j

\* A chain of imports leads from o to p.
Reaches(imports, o, p) ==
  \A S \in SUBSET Owners :
    o \in S /\ (\A q \in S : imports[q] \subseteq S) => p \in S

\* A pass means that no chain of imports climbs, not even one through root files that
\* are no subjects and that the graph leaves out: CategoryTheory never comes to depend
\* on AlgebraicGeometry, nor a stable subject on Compatibility or Development.
NothingClimbs ==
  Passed /\ DOMAIN LAYER \subseteq tree.dirs =>
    \A o, p \in DOMAIN LAYER : LAYER[o] < LAYER[p] => ~Reaches(tree.plain, o, p)

\* Whatever the graph, the search reaches a verdict: every call returns, and no
\* active dependency is missing from the stack.
Terminates == <>(phase = "done")

\* docs/architecture/layers.md: the gate "reconstructs the collapsed graph from every
\* tracked library import": a pass is about the prefixed imports too.
\* False, and in no run: README, section 4.
EveryImportJudged ==
  Passed /\ DOMAIN LAYER \subseteq tree.dirs =>
    \A o, p \in DOMAIN LAYER : LAYER[o] < LAYER[p] =>
      p \notin tree.plain[o] \cup tree.prefixed[o]
=============================================================================
