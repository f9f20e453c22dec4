-------------------------------- MODULE Mbox --------------------------------
(***************************************************************************)
(* acl::mbox: many senders, one reader. acllib/src/stdlib/acl_mbox.c on    *)
(* the lock-free pipe common/acl_ypipe.c on the chunked queue              *)
(* common/acl_yqueue.c (the Linux build, with an eventfd).                 *)
(*                                                                         *)
(* The senders share a mutex; the reader takes none. What the two sides    *)
(* share is the atomic pointer c of the pipe (NULL: the reader sleeps),    *)
(* the spare chunk, the slots of the chunks, and the eventfd, a semaphore  *)
(* since FD_CLOEXEC is the number of EFD_SEMAPHORE. Each access to one of  *)
(* these is a step of its own. A slot is named by its address, a chunk and *)
(* a position in it, so that the addresses of a chunk that is used again   *)
(* come again too.                                                         *)
(***************************************************************************)
EXTENDS Integers, Sequences, FiniteSets

CONSTANTS
  MaxMsgs,    \* BOUND: how many messages are sent
  Senders,    \* the sending threads
  NoSender,
  Chunks,     \* BOUND: the chunks the allocator has
  NoChunk,    \* NULL, for a chunk
  ChunkSize   \* CHUNK_SIZE

ASSUME ChunkAssumption == ChunkSize \in Nat /\ ChunkSize >= 2
ASSUME NamesAssumption ==
  /\ MaxMsgs \in Nat /\ NoSender \notin Senders
  /\ IsFiniteSet(Chunks) /\ Chunks # {} /\ NoChunk \notin Chunks

VARIABLES
  heap,     \* the chunks that are allocated
  value,    \* chunk_t::value
  next,     \* chunk_t::next
  begin,    \* begin_chunk, begin_pos: where the reader is
  back,     \* back_chunk, back_pos: where the next message goes
  end,      \* end_chunk, end_pos: where back goes next
  spare,    \* spare_chunk
  pushs,    \* pushs
  pops,     \* pops
  w, r, f,  \* the pointers of the pipe
  c,        \* its atomic pointer
  lock,     \* the sender that holds the mutex
  spc,      \* where each sender is
  sent,     \* history: how many messages have been stored
  tokens,   \* the counter of the eventfd
  rpc,      \* where the reader is
  forever,  \* the timeout of its call is < 0
  old,      \* the chunk it has left behind
  last,     \* the message its last call returned
  empty,    \* its last call returned NULL with success set
  gaveUp,   \* history: a call has timed out
  freed     \* acl_mbox_free: the messages given to free_fn, in a set of one

queue  == <<heap, value, next, spare, pushs, pops>>
pipe   == <<w, r, f, c>>
sender == <<lock, spc, sent>>
reader == <<rpc, forever, old, last, empty, gaveUp>>
vars   == <<queue, begin, back, end, pipe, sender, tokens, reader, freed>>

\* A message is named by its turn under the mutex.
Msgs == 1..MaxMsgs
NoMsg == 0  \* NULL

Addr(k, p) == [chunk |-> k, pos |-> p]
NullAddr == Addr(NoChunk, 0)
Slot(a) == value[a.chunk][a.pos]
Empty == [p \in 0..(ChunkSize - 1) |-> NoMsg]
Freed == freed # {}

\* The chunk n chunks after k.
After(k, n) ==
  LET step[i \in 0..n] == IF i = 0 THEN k ELSE next[step[i - 1]] IN step[n]

\* The messages that are in the queue, in the order they were pushed.
Contents ==
  [i \in 1..(pushs - 1 - pops) |->
     LET p == begin.pos + i - 1
     IN  value[After(begin.chunk, p \div ChunkSize)][p % ChunkSize]]

Init ==
  LET k == CHOOSE j \in Chunks : TRUE IN
    /\ heap = {k} /\ value = [j \in Chunks |-> Empty]
    /\ next = [j \in Chunks |-> NoChunk] /\ spare = NoChunk
    /\ begin = Addr(k, 0) /\ back = Addr(k, 0) /\ end = Addr(k, 1)
    /\ pushs = 1 /\ pops = 0
    /\ w = Addr(k, 0) /\ r = Addr(k, 0) /\ f = Addr(k, 0) /\ c = Addr(k, 0)
    /\ lock = NoSender /\ spc = [s \in Senders |-> "out"]
    /\ sent = 0
    /\ tokens = 0 /\ rpc = "out" /\ forever = FALSE /\ old = NoChunk
    /\ last = NoMsg /\ empty = FALSE /\ gaveUp = FALSE /\ freed = {}
-----------------------------------------------------------------------------
(* acl_mbox_send *)

\* The lock is taken and the message stored in the back slot.
Store(s) ==
  /\ spc[s] = "out" /\ lock = NoSender /\ ~Freed
  /\ lock' = s
  /\ sent < MaxMsgs /\ sent' = sent + 1
  /\ value' = [value EXCEPT ![back.chunk][back.pos] = sent + 1]
  /\ spc' = [spc EXCEPT ![s] = "push"]
  /\ UNCHANGED <<heap, next, spare, pushs, pops, begin, back, end, pipe, tokens,
                 reader, freed>>

\* acl_yqueue_push: the back moves on; at the end of a chunk the spare one is
\* linked behind it, or a new one. f is the new back.
Push(s) ==
  /\ spc[s] = "push"
  /\ pushs' = pushs + 1
  /\ back' = end /\ f' = end
  /\ \/ /\ end.pos + 1 < ChunkSize
        /\ end' = Addr(end.chunk, end.pos + 1)
        /\ UNCHANGED <<heap, next, spare>>
     \/ /\ end.pos + 1 = ChunkSize
        /\ \E k \in IF spare # NoChunk THEN {spare} ELSE Chunks \ heap :
             /\ heap' = heap \cup {k}
             /\ next' = [next EXCEPT ![end.chunk] = k]
             /\ end' = Addr(k, 0)
        /\ spare' = NoChunk
  /\ spc' = [spc EXCEPT ![s] = "flush"]
  /\ UNCHANGED <<value, pops, begin, w, r, c, lock, sent, tokens, reader, freed>>

\* acl_ypipe_flush: the compare-and-swap. It finds w there, or NULL.
Flush(s) ==
  /\ spc[s] = "flush"
  /\ \/ /\ c = w
        /\ c' = f /\ w' = f
        /\ lock' = NoSender
        /\ spc' = [spc EXCEPT ![s] = "out"]
     \/ /\ c # w
        /\ spc' = [spc EXCEPT ![s] = "set"]
        /\ UNCHANGED <<c, w, lock>>
  /\ UNCHANGED <<queue, begin, back, end, r, f, sent, tokens, reader, freed>>

\* Mutant: acl_ypipe_flush returns 0 on this path too.
SetCQuiet(s) ==
  /\ spc[s] = "set"
  /\ c' = f /\ w' = f
  /\ lock' = NoSender
  /\ spc' = [spc EXCEPT ![s] = "out"]
  /\ UNCHANGED <<queue, begin, back, end, r, f, sent, tokens, reader, freed>>

\* The reader sleeps: c is set without a comparison, and the mutex released
\* before the eventfd is written.
SetC(s) ==
  /\ spc[s] = "set"
  /\ c' = f /\ w' = f
  /\ lock' = NoSender
  /\ spc' = [spc EXCEPT ![s] = "token"]
  /\ UNCHANGED <<queue, begin, back, end, r, f, sent, tokens, reader, freed>>

Post(s) ==
  /\ spc[s] = "token"
  /\ tokens' = tokens + 1
  /\ spc' = [spc EXCEPT ![s] = "out"]
  /\ UNCHANGED <<queue, begin, back, end, pipe, lock, sent, reader, freed>>

-----------------------------------------------------------------------------
(* acl_mbox_read: the pipe is looked at, then the eventfd waited for, then    *)
(* the pipe looked at again                                                   *)

ReadBegin ==
  /\ rpc = "out" /\ ~Freed
  /\ forever' \in BOOLEAN
  /\ rpc' = "look" /\ empty' = FALSE
  /\ UNCHANGED <<queue, begin, back, end, pipe, sender, tokens, old, last, gaveUp, freed>>

\* acl_ypipe_check_read: slots up to r are known to be readable. The test of
\* the slot at r, which a sender may be about to fill, costs at most a CAS.
Look ==
  /\ rpc \in {"look", "lookAgain"}
  /\ rpc' = CASE begin # r /\ r # NullAddr /\ Slot(r) # NoMsg -> "take"
              [] OTHER -> IF rpc = "look" THEN "swap" ELSE "swapAgain"
  /\ UNCHANGED <<queue, begin, back, end, pipe, sender, tokens, forever, old, last,
                 empty, gaveUp, freed>>

\* Mutant: c is read and not set to NULL.
SwapReadOnly ==
  /\ rpc \in {"swap", "swapAgain"}
  /\ r' = c /\ UNCHANGED c
  /\ \/ /\ r' \notin {begin, NullAddr}
        /\ rpc' = "take" /\ UNCHANGED empty
     \/ /\ r' \in {begin, NullAddr}
        /\ rpc' = IF rpc = "swap" THEN "await" ELSE "out"
        /\ empty' = (rpc = "swapAgain")
  /\ UNCHANGED <<queue, begin, back, end, w, f, sender, tokens, forever, old, last,
                 gaveUp, freed>>

\* Its compare-and-swap: c was the reader's own slot, nothing is there, and c
\* is NULL now; or c tells how far the reader may go.
Swap ==
  /\ rpc \in {"swap", "swapAgain"}
  /\ r' = c
  /\ c' = IF c = begin THEN NullAddr ELSE c
  /\ \/ /\ r' \notin {begin, NullAddr}
        /\ rpc' = "take" /\ UNCHANGED empty
     \/ /\ r' \in {begin, NullAddr} /\ rpc = "swap"
        /\ rpc' = "await" /\ UNCHANGED empty
     \/ /\ r' \in {begin, NullAddr} /\ rpc = "swapAgain"
        /\ rpc' = "out" /\ empty' = TRUE
  /\ UNCHANGED <<queue, begin, back, end, w, f, sender, tokens, forever, old, last,
                 gaveUp, freed>>

\* Mutant: the message is read after the position has moved on.
TakeNext ==
  /\ rpc = "take"
  /\ pops' = pops + 1
  /\ \/ /\ begin.pos + 1 < ChunkSize
        /\ begin' = Addr(begin.chunk, begin.pos + 1)
        /\ rpc' = "out" /\ UNCHANGED <<value, next, old>>
     \/ /\ begin.pos + 1 = ChunkSize
        /\ begin' = Addr(next[begin.chunk], 0)
        /\ old' = begin.chunk
        /\ value' = [value EXCEPT ![begin.chunk] = Empty]
        /\ next' = [next EXCEPT ![begin.chunk] = NoChunk]
        /\ rpc' = "recycle"
  /\ last' = Slot(begin')
  /\ UNCHANGED <<heap, spare, pushs, back, end, pipe, sender, tokens, forever, empty,
                 gaveUp, freed>>

\* acl_yqueue_front and acl_yqueue_pop: the last slot of a chunk takes the
\* reader to the next, and the one left is wiped.
Take ==
  /\ rpc = "take"
  /\ last' = Slot(begin)
  /\ pops' = pops + 1
  /\ \/ /\ begin.pos + 1 < ChunkSize
        /\ begin' = Addr(begin.chunk, begin.pos + 1)
        /\ rpc' = "out" /\ UNCHANGED <<value, next, old>>
     \/ /\ begin.pos + 1 = ChunkSize
        /\ begin' = Addr(next[begin.chunk], 0)
        /\ old' = begin.chunk
        /\ value' = [value EXCEPT ![begin.chunk] = Empty]
        /\ next' = [next EXCEPT ![begin.chunk] = NoChunk]
        /\ rpc' = "recycle"
  /\ UNCHANGED <<heap, spare, pushs, back, end, pipe, sender, tokens, forever, empty,
                 gaveUp, freed>>

\* Mutant: the chunk is freed and kept as the spare one.
RecycleFreed ==
  /\ rpc = "recycle"
  /\ spare' = old
  /\ heap' = heap \ {old}
  /\ old' = NoChunk /\ rpc' = "out"
  /\ UNCHANGED <<value, next, pushs, pops, begin, back, end, pipe, sender, tokens,
                 forever, last, empty, gaveUp, freed>>

\* The chunk becomes the spare one; the spare one there was is freed.
Recycle ==
  /\ rpc = "recycle"
  /\ spare' = old
  /\ heap' = heap \ {spare}
  /\ old' = NoChunk /\ rpc' = "out"
  /\ UNCHANGED <<value, next, pushs, pops, begin, back, end, pipe, sender, tokens,
                 forever, last, empty, gaveUp, freed>>

\* The eventfd can be read: one token is taken.
Await ==
  /\ rpc = "await" /\ tokens > 0
  /\ tokens' = tokens - 1
  /\ rpc' = "lookAgain"
  /\ UNCHANGED <<queue, begin, back, end, pipe, sender, forever, old, last, empty,
                 gaveUp, freed>>

\* The time limit of the poll passes: NULL, and success.
TimedOut ==
  /\ rpc = "await" /\ ~forever /\ tokens = 0
  /\ rpc' = "out" /\ gaveUp' = TRUE /\ empty' = TRUE
  /\ UNCHANGED <<queue, begin, back, end, pipe, sender, tokens, forever, old, last, freed>>

-----------------------------------------------------------------------------
\* The chunks from the reader's to the given one, as next links them.
ChainTo(k) ==
  LET n == CHOOSE i \in 0..Cardinality(Chunks) :
             /\ After(begin.chunk, i) = k
             /\ \A j \in 0..(i - 1) : After(begin.chunk, j) # k
  IN  {After(begin.chunk, i) : i \in 0..n}

\* acl_mbox_free, when nobody uses the mailbox any more. free_fn gets what is
\* not NULL in the slots from the front to the back, the back one included;
\* the chunks are freed to the end one, and the spare one.
Free ==
  /\ rpc = "out" /\ ~Freed /\ \A s \in Senders : spc[s] = "out"
  /\ freed' = {{value[a[1]][a[2]] :
                  a \in {b \in ChainTo(back.chunk) \X (0..(ChunkSize - 1)) :
                           /\ b[1] = begin.chunk => b[2] >= begin.pos
                           /\ b[1] = back.chunk => b[2] <= back.pos}} \ {NoMsg}}
  /\ heap' = heap \ (ChainTo(end.chunk) \cup {spare})
  /\ UNCHANGED <<value, next, spare, pushs, pops, begin, back, end, pipe, sender,
                 tokens, reader>>

-----------------------------------------------------------------------------
Next ==
  \/ \E s \in Senders : Store(s) \/ Push(s) \/ Flush(s) \/ SetC(s) \/ Post(s)
  \/ ReadBegin \/ Look \/ Swap \/ Take \/ Recycle \/ Await \/ TimedOut
  \/ Free

Spec == Init /\ [][Next]_vars

\* The senders and the reader are scheduled, and the reader keeps calling
\* read: what is sent to a reader that stops reading stays in the box.
Fairness ==
  /\ \A s \in Senders : WF_vars(Push(s) \/ Flush(s) \/ SetC(s) \/ Post(s))
  /\ WF_vars(ReadBegin) /\ WF_vars(Look \/ Swap \/ Take \/ Recycle \/ Await)

FairSpec == Spec /\ Fairness

-----------------------------------------------------------------------------
(* Properties *)

Addrs == [chunk : Chunks \cup {NoChunk}, pos : 0..(ChunkSize - 1)]

TypeOK ==
  /\ heap \subseteq Chunks /\ next \in [Chunks -> Chunks \cup {NoChunk}]
  /\ value \in [Chunks -> [0..(ChunkSize - 1) -> Msgs \cup {NoMsg}]]
  /\ {begin, back, end, w, r, f, c} \subseteq Addrs
  /\ {spare, old} \subseteq Chunks \cup {NoChunk}
  /\ pushs \in Nat /\ pops \in Nat /\ tokens \in Nat
  /\ lock \in Senders \cup {NoSender}
  /\ spc \in [Senders -> {"out", "push", "flush", "set", "token"}]
  /\ sent \in 0..MaxMsgs
  /\ rpc \in {"out", "look", "swap", "await", "lookAgain", "swapAgain", "take", "recycle"}
  /\ {forever, empty, gaveUp} \subseteq BOOLEAN
  /\ last \in Msgs \cup {NoMsg} /\ freed \subseteq SUBSET Msgs

\* First in, first out, each message once and whole, whatever the senders, the
\* reader and the chunks that are used again do in between: the mailbox is a
\* MailChannel that holds what is pushed and not yet popped.
Channel == INSTANCE MailChannel WITH box <- IF Freed THEN <<>> ELSE Contents
ImplementsChannel == Channel!Spec

\* A reader that waits for the eventfd with a message in the box is about to be
\* woken: there is a token, or a sender on its way to write one. (A sender that
\* has not swapped c yet finds NULL there.)
WakeupOwed ==
  rpc = "await" =>
    \/ c = NullAddr /\ w = begin
    \/ tokens > 0 \/ \E s \in Senders : spc[s] = "token"

\* No pointer the two sides follow leads into a freed chunk: those from the
\* reader's to the end are allocated and linked, and none of them is spare.
PointersLive ==
  ~Freed =>
    /\ {spare, old} \ {NoChunk} \subseteq heap
    /\ begin.chunk \in heap /\ back.chunk \in heap /\ end.chunk \in heap
    /\ \A a \in {w, r, f, c} : a = NullAddr \/ a.chunk \in heap
    /\ ChainTo(end.chunk) \subseteq heap \ {spare, old}
    /\ heap \subseteq ChainTo(end.chunk) \cup {spare, old}

\* A slot that is yet to be filled is NULL, also in a chunk that is used again:
\* the reader's look at the slot behind the flushed ones, and acl_mbox_free,
\* which looks at the back slot, take anything else for a message.
UnusedSlotsNull ==
  ~Freed =>
    /\ \A p \in 0..(ChunkSize - 1) :
         p > back.pos \/ (p = back.pos /\ \A s \in Senders : spc[s] # "push")
           => value[back.chunk][p] = NoMsg
    /\ end.chunk # back.chunk => value[end.chunk] = Empty

\* acl_mbox_free hands over exactly the messages nobody read, and leaves no
\* chunk behind.
FreeComplete ==
  \A F \in freed : /\ heap = {}
                   /\ F = {Contents[i] : i \in DOMAIN Contents}

\* The variables have their types, and the memory the two sides share without
\* a lock is sound.
ChunksSound == TypeOK /\ PointersLive /\ UnusedSlotsNull /\ FreeComplete

\* A read without a time limit returns without a message only after another
\* read has timed out: its token was left behind.
EmptyOnlyAfterTimeOut == empty /\ forever => gaveUp

\* A waiting reader is woken for a message, and only for a message.
WaitSound == WakeupOwed /\ EmptyOnlyAfterTimeOut

\* Every message is read, or freed with the box.
Delivered ==
  \A m \in Msgs :
    (\E i \in DOMAIN Contents : Contents[i] = m) ~> (last = m \/ Freed)

\* What acl_mbox.h says of a timeout < 0: the call waits until there is data.
WaitsForData == ~(empty /\ forever)
=============================================================================
