--------------------------- MODULE MCConnManager ----------------------------
(* Small instances of ConnManager for TLC. *)
EXTENDS ConnManager, TLC

Symmetry == Permutations(Threads)

\* The operations of each run: between them, all.
TableOps == {"set", "get", "restore", "peek", "hash", "remove", "down", "check"}
TurnOps == {"peek", "get", "down", "up"}
=============================================================================
