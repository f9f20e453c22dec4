----------------------------- MODULE RedisReply -----------------------------
(***************************************************************************)
(* How redis_client::get_redis_string stores the bytes of a string reply   *)
(* in a redis_result (aclredis/src/redis/redis_client.cpp,                 *)
(* redis_result.cpp): in one piece, or, with set_slice_respond, in pieces  *)
(* of a fixed length for which places are reserved first. Bytes are known  *)
(* by their position, a piece is an interval of positions.                 *)
(***************************************************************************)
EXTENDS Naturals, FiniteSetsExt, SequencesExt

CONSTANT Chunk    \* CHUNK_LENGTH

ASSUME ChunkAssumption == Chunk \in Nat /\ Chunk >= 2

Ceiling(a, b) == (a \div b) + (IF a % b # 0 THEN 1 ELSE 0)

\* set_size: one place, or one for each CHUNK_LENGTH bytes.
Places(len, slice) == IF slice THEN Ceiling(len, Chunk) ELSE 1

\* How much one read asks for: a piece has room for Chunk bytes and a zero.
PieceLenBig(left, slice) ==   \* mutant: the zero has no room
  IF slice /\ left > Chunk + 1 THEN Chunk + 1 ELSE left
PieceLen(left, slice) == IF slice /\ left > Chunk - 1 THEN Chunk - 1 ELSE left

\* put() does not store a piece for which no place was reserved.
Stored(pieces, size, piece) ==
  IF Len(pieces) < size THEN Append(pieces, piece) ELSE pieces

\* Turn i of the loop, in state s: what is still to be read and the pieces so far.
\* An empty value that is sliced has no pieces, one that is not has a piece
\* without bytes.
ReadPiece(s, i, len, slice) ==
  LET n == PieceLen(s.left, slice)
      from == len - s.left
  IN  IF s.left = 0 /\ (slice \/ i > 1) THEN s
      ELSE [left |-> s.left - n,
            pieces |-> Stored(s.pieces, Places(len, slice), [from |-> from, to |-> from + n])]

\* What a reply of len bytes leaves in the result.
Unread(len) == [left |-> len, pieces |-> <<>>]
Pieces(len, slice) ==
  LET read[i \in 0..(len + 1)] ==
        IF i = 0 THEN Unread(len) ELSE ReadPiece(read[i - 1], i, len, slice)
  IN  read[len + 1].pieces

Length(p) == p.to - p.from

\* Where the last piece ends: the number of bytes kept, when the pieces join.
KeptTo(pieces) == IF pieces = <<>> THEN 0 ELSE Last(pieces).to

\* The pieces are the value from its beginning, without gaps and in order, and
\* each fits in its buffer of Chunk bytes with the closing zero.
PiecesJoin(slice, pieces) ==
  \A i \in 1..Len(pieces) :
    /\ pieces[i].from = IF i = 1 THEN 0 ELSE pieces[i - 1].to
    /\ pieces[i].from <= pieces[i].to
    /\ slice => Length(pieces[i]) < Chunk
=============================================================================
