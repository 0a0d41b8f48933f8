--------------------------- MODULE MCAuditRatchet ---------------------------
(* Two names of a library with record slices, one of a library whose audit is *)
(* one file, one in a directory libraryOf does not know, and one of that last *)
(* library that the sweep passes over.                                        *)
EXTENDS AuditRatchet

MCLib == [a |-> "StabilityCondition", b |-> "StabilityCondition",
          d |-> "DGCategory", u |-> "Unclassified",
          x |-> "DGCategory"]
=============================================================================
