\* Two senders, five messages through chunks of two slots, so that a chunk is
\* left, kept as the spare one and used again; reads with and without a time
\* limit. No symmetry: Delivered is a liveness property.
CONSTANTS
  MaxMsgs = 5
  Senders = {s1, s2}
  NoSender = NoSender
  Chunks = {k1, k2, k3, k4}
  NoChunk = NoChunk
  ChunkSize = 2
SPECIFICATION FairSpec
INVARIANTS ChunksSound WaitSound
PROPERTIES ImplementsChannel Delivered
CHECK_DEADLOCK FALSE
