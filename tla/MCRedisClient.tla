--------------------------- MODULE MCRedisClient ----------------------------
(* Small instances of RedisClient for TLC. *)
EXTENDS RedisClient

CONSTANT MaxDepth    \* BOUND: calls under way, one inside the other

\* The set-up calls nest without end (AuthNotNested): the runs follow them so deep,
\* past the depth at which one of them comes inside another of its kind.
Shallow == Depth <= MaxDepth

\* Every length up to five pieces.
ReplyLengths == 0..25
=============================================================================
