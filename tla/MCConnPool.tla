----------------------------- MODULE MCConnPool -----------------------------
(* Small instances of ConnPool for TLC. *)
EXTENDS ConnPool, TLC

\* Threads are interchangeable, and so are the pool's own connections.
Symmetry == Permutations(Threads) \cup Permutations(Conns \ Foreign)

\* Constants a cfg cannot write.
NeverExpire == -1
=============================================================================
