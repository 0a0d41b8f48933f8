------------------------------ MODULE MCGates ------------------------------
(* A branch in the tree "mine"; another run of the host is in "theirs", whose A has a *)
(* sorry. A is the library, which may move to B; C a module that nothing may import; K *)
(* the one that may still bind the unit; E an executable, X below a directory of exe/; *)
(* N in a checkout left in the tree; R is retired.                                      *)
EXTENDS Gates, TLC

MCPaths == {"Sweep", "A", "B", "C", "K", "E", "X", "N", "R", "toml",
            "lean", "pins", "manifest", "tool", "ci", "map"}
MCDir == [p \in MCPaths |->
  CASE p = "Sweep" -> "root" [] p = "E" -> "exe" [] p = "X" -> "exe/below"
    [] p \in {"N", "R"} -> "scripts" [] p \in {"toml", "lean"} -> "lake"
    [] p \in {"A", "B", "C", "K"} -> "DerivedAlgGeo"
    [] OTHER -> "data"]
MCImport == "import A" :> "A" @@ "import B" :> "B" @@ "import K" :> "K" @@ "import R" :> "R"
              @@ "import Sweep" :> "Sweep"
MCPin == "toolchain" :> [key |-> "toolchain", rev |-> 1] @@ "mathlib" :> [key |-> "mathlib", rev |-> 1]
           @@ "input" :> [key |-> "mathlib_input", rev |-> 1]
           @@ "mfc 1" :> [key |-> "mfc", rev |-> 1] @@ "mfc 2" :> [key |-> "mfc", rev |-> 2]
           @@ "cli 1" :> [key |-> "mfc_cli", rev |-> 1] @@ "cli 2" :> [key |-> "mfc_cli", rev |-> 2]
Reviewed == {"review_doc", "reviewer", "reviewed_at"}
MCClaim == "reviewed" :> [status |-> "reviewed", fields |-> Reviewed, checked |-> {"v4"}]
             @@ "formalized" :> [status |-> "formalized", checked |-> {"v4"},
                                 fields |-> Reviewed \cup {"owner_accepted"}]
             @@ "promoted" :> [status |-> "formalized", fields |-> Reviewed, checked |-> {"v4"}]
MCVersion == "v4" :> "v4" @@ "v5" :> "v5"
MCWords == "statuses" :> {"target", "mapped", "reviewed", "formalized"}
MCLines == DOMAIN MCImport \cup DOMAIN MCPin \cup DOMAIN MCClaim \cup DOMAIN MCVersion
             \cup {"doc", "def", "old", "bad", "sorry", "unit", "statuses", "mattrobball"}
MCImports == [l \in MCLines |-> IF l \in DOMAIN MCImport THEN {MCImport[l]} ELSE {}]

TreeOf(a) == [p \in MCPaths |->
  CASE p = "Sweep" -> <<"import A", "import K">> [] p = "A" -> a
    [] p = "K" -> <<"unit", "unit">>
    [] p = "E" -> <<"import Sweep">> [] p = "toml" -> <<>>
    [] p = "pins" -> <<"toolchain", "mathlib", "input", "mfc 1", "cli 1">>
    [] p = "manifest" -> <<"mathlib", "input", "mfc 1">>
    [] p = "tool" -> <<"toolchain">> [] p = "ci" -> <<"cli 1">>
    [] p = "map" -> <<"v4", "statuses", "reviewed">> [] OTHER -> Absent]
\* "old" broke a rule before the branch was made.
MCBase == TreeOf(<<"doc", "def", "old">>)
MCTheirs == TreeOf(<<"doc", "def", "sorry">>)
Clean(t) == [head |-> t, index |-> t, work |-> t]
MCStart0 == [w \in {"mine", "theirs"} |-> Clean(IF w = "mine" THEN MCBase ELSE MCTheirs)]

MCDrafts ==
  {"A" :> <<"doc", "def", "old", "bad">>,        \* a bad line
   "A" :> <<"old", "doc", "def">>,               \* the old line moved
   "A" :> <<"doc", "def", "old", "old">>,        \* and repeated
   "A" :> Absent @@ "B" :> <<"doc", "def", "old">> @@ "Sweep" :> <<"import B", "import K">>,
   "C" :> <<"sorry">>,                           \* nothing imports it
   "E" :> <<"import Sweep", "sorry">>,
   "N" :> <<"import R">>,
   \* the dependency is moved and recorded, ci.yml forgotten
   "manifest" :> <<"mathlib", "input", "mfc 2">>
     @@ "pins" :> <<"toolchain", "mathlib", "input", "mfc 2", "cli 1">>,
   "map" :> <<"v4", "statuses", "promoted">>}    \* a claim, without its owner

\* Where there is one run only: with what mends some of them, and what passes.
MCMoreDrafts == MCDrafts \cup
  {"A" :> <<"doc", "def", "old">>, "A" :> <<"def", "old">>, "X" :> <<"sorry">>,
   "manifest" :> <<"mathlib", "input", "mfc 2">> @@ "ci" :> <<"cli 2">>
     @@ "pins" :> <<"toolchain", "mathlib", "input", "mfc 2", "cli 2">>,
   "map" :> <<"v4", "statuses", "formalized">>,
   "map" :> <<"v5", "statuses", "formalized">>,   \* the paper has a new version
   "toml" :> <<"import R">>}
MCIn == "r1" :> "mine" @@ "r2" :> "theirs"
MCModes == "r1" :> {"fast", "full"} @@ "r2" :> {"fast"}

Audits == {"algebraic-geometry-audit", "stability-condition-audit", "dg-audit"}
Named == {Fast[i] : i \in 1..Len(Fast)} \cup {More[i] : i \in 1..Len(More)}
MCListed == [gate \in Named |-> IF gate = "exe-sorry" THEN {"E"} ELSE {"A", "B"}]
MCCaught == [gate \in Named |-> IF gate \in Audits \cup {"exe-sorry"} THEN {"sorry"} ELSE {}]
=============================================================================
