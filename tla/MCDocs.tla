------------------------------- MODULE MCDocs -------------------------------
(* A day of four ticks, a build of at most one, and two commits: one may wait to land *)
(* while a run is on the one before.                                                  *)
EXTENDS Docs
=============================================================================
