----------------------------- MODULE MCLayering -----------------------------
(* Every graph on four subjects, two of them of equal rank; and every graph on *)
(* two subjects and a root file, which may have a directory no layer is        *)
(* declared for, with the other things a tree can get wrong.                   *)
EXTENDS Layering

Subjects == {"Algebra", "Topology", "CategoryTheory", "AlgebraicGeometry"}
MCOwners == Subjects \cup {"Notes"}
MCLAYER  == [Algebra |-> 0, Topology |-> 0, CategoryTheory |-> 1, AlgebraicGeometry |-> 2]

None   == [o \in MCOwners |-> {}]
Graph(E)  == [o \in MCOwners |-> {p \in MCOwners : <<o, p>> \in E}]
On(S)     == {Graph(E) : E \in SUBSET (S \X S)}
Simple(S) == {Graph(E) : E \in SUBSET {e \in S \X S : e[1] # e[2]}}

MCTrees ==
  [plain : Simple(Subjects), prefixed : {None}, geo : {{}}, dirs : {Subjects},
   legacy : {{}}, relocated : {{"Dqc"}}]
  \cup
  [plain : Simple({"CategoryTheory", "AlgebraicGeometry", "Notes"})
             \cup On({"CategoryTheory", "Notes"}),    \* with imports of their own
   prefixed : {None, [None EXCEPT !["CategoryTheory"] = {"AlgebraicGeometry"}]},
   geo : {{}, {"CategoryTheory"}, {"AlgebraicGeometry"}},
   dirs : {Subjects, MCOwners, Subjects \ {"AlgebraicGeometry"}},
   legacy : {{}, {"Dqc"}}, relocated : {{}, {"Dqc"}}]
=============================================================================
