--------------------------- MODULE MCLandingQueue ---------------------------
(* Two pull requests in a stack: 1 is the tip and carries everything 2 does, *)
(* with the lower number, so number order and size order disagree.  A third  *)
(* changes the file they change and the loop's own machinery.                *)
EXTENDS LandingQueue, FiniteSets

MCPRs    == {1, 2, 3}
MCSlices == {"a", "b", "c", "d"}
MCWork   == [p \in MCPRs |-> CASE p = 1 -> {"a", "b"}
                               [] p = 2 -> {"a"}
                               [] p = 3 -> {"c", "d"}]
MCAdded  == [S \in SUBSET MCSlices |-> Cardinality(S \ {"d"})]   \* d only deletes
MCFile   == [s \in MCSlices |-> IF s = "d" THEN "gates" ELSE "lean"]

\* Commits 0 and 3 share their first seven characters.
MCPrefix(h) == h % 3
=============================================================================
