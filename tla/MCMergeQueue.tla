---------------------------- MODULE MCMergeQueue ----------------------------
(* Two pull requests, one from an agent's branch. The first head of "a" and that of *)
(* "b" are green by themselves and not together. A slice may leave the list alone,  *)
(* retire x, put x back, or swap x for y, which keeps the count.                    *)
EXTENDS MergeQueue

MCGreen == {{}, {<<"a", 1>>}, {<<"b", 1>>}, {<<"a", 2>>}, {<<"a", 2>>, <<"b", 1>>}}
NoDiff  == [adds |-> {}, dels |-> {}]
MCDiffs == {NoDiff, [adds |-> {}, dels |-> {"x"}], [adds |-> {"x"}, dels |-> {}],
            [adds |-> {"y"}, dels |-> {"x"}]}
MCMaxHead == [p \in {"a", "b"} |-> IF p = "a" THEN 2 ELSE 1]
MCLinterOf == [e \in {"x", "y"} |-> "docBlame"]
MCPerLinter == [l \in {"docBlame"} |-> 1]
=============================================================================
