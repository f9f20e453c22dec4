--------------------------- MODULE MCRedisCluster ---------------------------
(* Small instances of RedisCluster for TLC. *)
EXTENDS RedisCluster, TLC

\* BOUND: after the last event the threads run one at a time.
LastAlone == events = MaxEvents => Cardinality({t \in Threads : pc[t] # "idle"}) <= 1

Symmetry == Permutations(Threads)
=============================================================================
