--------------------------- MODULE MCSliceTopics ---------------------------
(* Small instances of SliceTopics for TLC. *)
EXTENDS SliceTopics, TLC

\* Callers and topics are interchangeable.
Symmetry == Permutations(Callers) \cup Permutations(Topics)
=============================================================================
