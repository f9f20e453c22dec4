---------------------------- MODULE MCSliceList -----------------------------
(* Small instances of SliceList for TLC. *)
EXTENDS SliceList

Symmetry == Permutations(Threads)
=============================================================================
