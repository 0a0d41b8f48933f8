---------------------------- MODULE MCBuildCache ----------------------------
(* Two modules and three trees: both modules; one of them gone and the other *)
(* changed; and the other as it was at first, after a toolchain bump.        *)
EXTENDS BuildCache

MCTrees ==
  {[pin |-> "p1", src |-> [a |-> "v1", b |-> "v1"]],
   [pin |-> "p1", src |-> [a |-> "v2", b |-> None]],
   [pin |-> "p2", src |-> [a |-> "v1", b |-> None]]}
=============================================================================
