---------------------------- MODULE MCTrustGuard ----------------------------
(* A guarded script and an audit record; the record lies under scripts/ too, *)
(* so both lists match it.  A library file would be one neither list matches, *)
(* which a record is to Touched.                                              *)
EXTENDS TrustGuard
=============================================================================
