-------------------------------- MODULE Landing --------------------------------
(***************************************************************************)
(* What the repository promises of main, whatever machinery lands what on  *)
(* it: main only moves to a tree that every gate accepts as a whole        *)
(* (ci.yml: the queue is "the one place where two independently-green      *)
(* branches meet for the first time"), nothing landed is lost, and no      *)
(* linter exception is on its list that was not there at first             *)
(* (check_nolints.py).                                                     *)
(*                                                                         *)
(* A tree is the changes it holds and its nolints list.                    *)
(***************************************************************************)
CONSTANTS
  Green,   \* the sets of changes that build, lint and audit clean together
  First    \* the trees main may start from

VARIABLE main

Land ==
  /\ main'.on \in Green
  /\ main.on \subseteq main'.on
  /\ \E first \in First : main'.list \subseteq first.list

Init == main \in First
Spec == Init /\ [][Land]_main
=============================================================================
