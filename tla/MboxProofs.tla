------------------------------ MODULE MboxProofs ------------------------------
(***************************************************************************)
(* Theorems about Mbox for any senders, number of messages, chunks and     *)
(* chunk size: no pointer goes to freed memory, no wake-up is lost, and it *)
(* implements MailChannel.                                                 *)
(***************************************************************************)
EXTENDS Mbox, FiniteSetTheorems, WellFoundedInduction, SequenceTheorems, TLAPS

-----------------------------------------------------------------------------
(* Induction, in the form that needs no operator. *)

LEMMA EveryNumber ==
  ASSUME NEW S \in SUBSET Nat, 0 \in S, \A i \in S : i + 1 \in S
  PROVE  S = Nat
<1> DEFINE T == Nat \ S
<1> SUFFICES ASSUME T # {} PROVE FALSE
  OBVIOUS
<1>0. T \subseteq Nat /\ T # {}
  OBVIOUS
<1>1. PICK x \in T : \A y \in T : ~(<<y, x>> \in OpToRel(<, Nat))
  BY <1>0, WFMin, NatLessThanWellFounded
<1>2. \A y \in T : ~(y < x)
  BY <1>1 DEF OpToRel
<1>3. x # 0 /\ x - 1 \in Nat /\ x - 1 < x
  <2>1. x \in Nat /\ x \notin S
    OBVIOUS
  <2>2. x # 0
    BY <2>1
  <2> QED BY <2>1, <2>2
<1>4. x - 1 \in S
  BY <1>2, <1>3
<1>5. (x - 1) + 1 \in S /\ (x - 1) + 1 = x
  BY <1>3, <1>4
<1> QED BY <1>1, <1>5

-----------------------------------------------------------------------------
(* The chunks that next links *)

\* place names the chunks from number lo to number hi, each once and linked.
Linked(place, lo, hi) ==
  /\ lo \in Nat /\ hi \in Nat /\ lo <= hi
  /\ place \in [lo..hi -> Chunks]
  /\ \A i, j \in lo..hi : place[i] = place[j] => i = j
  /\ \A i \in lo..(hi - 1) : next[place[i]] = place[i + 1]

LEMMA AfterLinked ==
  ASSUME NEW place, NEW lo, NEW hi, Linked(place, lo, hi), NEW n \in 0..(hi - lo)
  PROVE  After(place[lo], n) = place[lo + n]
<1> DEFINE walk == [i \in 0..n |-> place[lo + i]]
           step == CHOOSE g : g = [i \in 0..n |-> IF i = 0 THEN place[lo] ELSE next[g[i - 1]]]
<1>0. lo \in Nat /\ hi \in Nat /\ n \in Nat /\ lo + n <= hi
  BY DEF Linked
<1>1. walk = [i \in 0..n |-> IF i = 0 THEN place[lo] ELSE next[walk[i - 1]]]
  <2>1. ASSUME NEW i \in 0..n, i # 0 PROVE walk[i] = next[walk[i - 1]]
    <3>1. i - 1 \in 0..n /\ lo + (i - 1) \in lo..(hi - 1) /\ (lo + (i - 1)) + 1 = lo + i
      BY <1>0, <2>1
    <3>2. next[place[lo + (i - 1)]] = place[lo + i]
      BY <3>1 DEF Linked
    <3> QED BY <2>1, <3>1, <3>2
  <2>2. walk[0] = place[lo]
    BY <1>0
  <2> QED BY <2>1, <2>2
<1>2. step = [i \in 0..n |-> IF i = 0 THEN place[lo] ELSE next[step[i - 1]]]
  <2> HIDE DEF walk
  <2> QED BY <1>1
<1> HIDE DEF step, walk
<1> DEFINE S == {i \in Nat : i <= n => step[i] = place[lo + i]}
<1>3. 0 \in S
  BY <1>0, <1>2
<1>4. ASSUME NEW i \in S PROVE i + 1 \in S
  <2> SUFFICES ASSUME i + 1 <= n PROVE step[i + 1] = place[lo + (i + 1)]
    BY <1>4
  <2>1. i \in Nat /\ i <= n /\ step[i] = place[lo + i]
    BY <1>0, <1>4
  <2>2. i + 1 \in 0..n /\ (i + 1) - 1 = i /\ i + 1 # 0
    BY <2>1
  <2>3. step[i + 1] = next[step[i]]
    BY <1>2, <2>2
  <2>4. lo + i \in lo..(hi - 1) /\ (lo + i) + 1 = lo + (i + 1)
    BY <1>0, <2>1
  <2> QED BY <2>1, <2>3, <2>4 DEF Linked
<1>5. S = Nat
  <2>1. S \in SUBSET Nat
    OBVIOUS
  <2> HIDE DEF S
  <2> QED BY <1>3, <1>4, <2>1, EveryNumber
<1>6. step[n] = place[lo + n]
  BY <1>0, <1>5
<1>7. After(place[lo], n) = step[n]
  BY DEF After, step
<1> QED BY <1>6, <1>7
-----------------------------------------------------------------------------
(* Where the messages are. Slot n is the one of message n + 1: slots are   *)
(* numbered from the first push on, and chunks by the slots they hold.     *)

ChunkNo(n) == n \div ChunkSize
Pos(n) == n % ChunkSize
Where(place, n) == Addr(place[ChunkNo(n)], Pos(n))


LEMMA Product ==
  ASSUME NEW i \in Nat, NEW j \in Nat, NEW k \in Nat, i < j
  PROVE  i * k + k <= j * k
<1> DEFINE d == j - (i + 1)
<1>1. d \in Nat /\ j = i + 1 + d
  OBVIOUS
<1>2. j * k = i * k + k + d * k
  BY <1>1
<1>3. d * k \in Nat
  BY <1>1
<1> HIDE DEF d
<1> QED BY <1>2, <1>3

LEMMA Slots ==
  ASSUME NEW n \in Nat
  PROVE  /\ ChunkNo(n) \in Nat /\ Pos(n) \in 0..(ChunkSize - 1)
         /\ n = ChunkNo(n) * ChunkSize + Pos(n)
BY ChunkAssumption DEF ChunkNo, Pos

\* A slot is in one chunk, at one position.
LEMMA SlotOf ==
  ASSUME NEW i \in Nat, NEW p \in 0..(ChunkSize - 1)
  PROVE  ChunkNo(i * ChunkSize + p) = i /\ Pos(i * ChunkSize + p) = p
<1> DEFINE n == i * ChunkSize + p
           j == ChunkNo(n)
           q == Pos(n)
<1>1. i * ChunkSize \in Nat
  BY ChunkAssumption
<1>2. n \in Nat
  BY <1>1
<1>3. j \in Nat /\ q \in 0..(ChunkSize - 1) /\ n = j * ChunkSize + q
  BY <1>2, Slots
<1>4. i * ChunkSize + p = j * ChunkSize + q /\ j * ChunkSize \in Nat
  BY <1>3, ChunkAssumption
<1> HIDE DEF j, q
<1>5. ~(i < j)
  <2> SUFFICES ASSUME i < j PROVE FALSE
    OBVIOUS
  <2>1. i * ChunkSize + ChunkSize <= j * ChunkSize
    BY <1>3, ChunkAssumption, Product
  <2> QED BY <1>1, <1>3, <1>4, <2>1, ChunkAssumption
<1>6. ~(j < i)
  <2> SUFFICES ASSUME j < i PROVE FALSE
    OBVIOUS
  <2>1. j * ChunkSize + ChunkSize <= i * ChunkSize
    BY <1>3, ChunkAssumption, Product
  <2> QED BY <1>1, <1>3, <1>4, <2>1, ChunkAssumption
<1>7. i = j
  BY <1>3, <1>5, <1>6
<1>8. p = q
  BY <1>1, <1>3, <1>4, <1>7
<1> QED BY <1>7, <1>8 DEF j, q

\* The slot d further on, in the same chunk or in a later one.
LEMMA SlotFurther ==
  ASSUME NEW n \in Nat, NEW i \in Nat, NEW d \in Int,
         Pos(n) + d >= i * ChunkSize, Pos(n) + d < (i + 1) * ChunkSize
  PROVE  /\ n + d \in Nat
         /\ ChunkNo(n + d) = ChunkNo(n) + i
         /\ Pos(n + d) = Pos(n) + d - i * ChunkSize
<1> DEFINE j == ChunkNo(n)
           p == Pos(n)
<1>1. j \in Nat /\ p \in 0..(ChunkSize - 1) /\ n = j * ChunkSize + p
  BY Slots
<1> HIDE DEF j, p
<1>2. /\ j * ChunkSize \in Nat /\ i * ChunkSize \in Nat /\ ChunkSize \in Nat
      /\ (j + i) * ChunkSize = j * ChunkSize + i * ChunkSize
      /\ (i + 1) * ChunkSize = i * ChunkSize + ChunkSize
  BY <1>1, ChunkAssumption
<1> DEFINE q == p + d - i * ChunkSize
<1>3. q \in 0..(ChunkSize - 1)
  BY <1>1, <1>2 DEF p
<1>4. n + d = (j + i) * ChunkSize + q
  BY <1>1, <1>2
<1>5. n + d \in Nat /\ j + i \in Nat
  BY <1>1, <1>2, <1>3, <1>4
<1> HIDE DEF q
<1>6. ChunkNo((j + i) * ChunkSize + q) = j + i /\ Pos((j + i) * ChunkSize + q) = q
  BY <1>3, <1>5, SlotOf
<1> QED BY <1>4, <1>5, <1>6 DEF j, p, q

\* The next slot.
LEMMA SlotNext ==
  ASSUME NEW n \in Nat
  PROVE  \/ /\ Pos(n) + 1 < ChunkSize
            /\ ChunkNo(n + 1) = ChunkNo(n) /\ Pos(n + 1) = Pos(n) + 1
         \/ /\ Pos(n) + 1 = ChunkSize
            /\ ChunkNo(n + 1) = ChunkNo(n) + 1 /\ Pos(n + 1) = 0
<1>1. Pos(n) \in 0..(ChunkSize - 1) /\ ChunkSize \in Nat /\ ChunkNo(n) \in Nat
  BY Slots, ChunkAssumption
<1>2. CASE Pos(n) + 1 < ChunkSize
  <2>1. Pos(n) + 1 >= 0 * ChunkSize /\ Pos(n) + 1 < (0 + 1) * ChunkSize
    BY <1>1, <1>2
  <2>2. ChunkNo(n + 1) = ChunkNo(n) + 0 /\ Pos(n + 1) = Pos(n) + 1 - 0 * ChunkSize
    BY <2>1, SlotFurther
  <2> QED BY <1>1, <1>2, <2>2
<1>3. CASE Pos(n) + 1 = ChunkSize
  <2>1. Pos(n) + 1 >= 1 * ChunkSize /\ Pos(n) + 1 < (1 + 1) * ChunkSize
    BY <1>1, <1>3, ChunkAssumption
  <2>2. ChunkNo(n + 1) = ChunkNo(n) + 1 /\ Pos(n + 1) = Pos(n) + 1 - 1 * ChunkSize
    BY <2>1, SlotFurther
  <2> QED BY <1>1, <1>3, <2>2
<1> QED BY <1>1, <1>2, <1>3

\* A later slot is not in an earlier chunk.
LEMMA SlotOrder ==
  ASSUME NEW m \in Nat, NEW n \in Nat, m <= n
  PROVE  /\ ChunkNo(m) <= ChunkNo(n)
         /\ ChunkNo(m) = ChunkNo(n) => n - m = Pos(n) - Pos(m)
<1>1. /\ ChunkNo(m) \in Nat /\ Pos(m) \in 0..(ChunkSize - 1) /\ ChunkSize \in Nat
      /\ m = ChunkNo(m) * ChunkSize + Pos(m)
      /\ ChunkNo(n) \in Nat /\ Pos(n) \in 0..(ChunkSize - 1)
      /\ n = ChunkNo(n) * ChunkSize + Pos(n)
      /\ ChunkNo(m) * ChunkSize \in Nat /\ ChunkNo(n) * ChunkSize \in Nat
  <2>1. /\ ChunkNo(m) \in Nat /\ Pos(m) \in 0..(ChunkSize - 1)
        /\ m = ChunkNo(m) * ChunkSize + Pos(m)
    BY Slots
  <2>2. /\ ChunkNo(n) \in Nat /\ Pos(n) \in 0..(ChunkSize - 1)
        /\ n = ChunkNo(n) * ChunkSize + Pos(n)
    BY Slots
  <2>3. \A i \in Nat : i * ChunkSize \in Nat
    BY ChunkAssumption
  <2> QED BY <2>1, <2>2, <2>3, ChunkAssumption
<1>2. ~(ChunkNo(n) < ChunkNo(m))
  <2> SUFFICES ASSUME ChunkNo(n) < ChunkNo(m) PROVE FALSE
    OBVIOUS
  <2>1. ChunkNo(n) * ChunkSize + ChunkSize <= ChunkNo(m) * ChunkSize
    BY <1>1, Product
  <2> QED BY <1>1, <2>1
<1> QED BY <1>1, <1>2

-----------------------------------------------------------------------------
(* The inductive invariant *)

\* Where the sender that holds the mutex is.
Phase == IF lock = NoSender THEN "out" ELSE spc[lock]

\* The number of the first slot that is not flushed.
Flushed == IF Phase \in {"flush", "set"} THEN pushs - 2 ELSE pushs - 1

Message(n) == IF n < sent THEN n + 1 ELSE NoMsg

\* What the two sides know of each other, by the numbers alone.
Turns ==
  /\ \A s \in Senders : spc[s] \in {"push", "flush", "set"} <=> lock = s
  /\ pushs > 0 /\ sent = IF Phase = "push" THEN pushs ELSE pushs - 1
  /\ 0 <= pops /\ pops <= Flushed
  /\ c = NullAddr => Flushed = pops
  /\ Phase = "set" => c = NullAddr
  /\ old # NoChunk <=> rpc = "recycle"

\* place names the chunks that are in use; every pointer is the address of its
\* slot, and every slot has its message, or nothing.
Span == ChunkNo(pops)..ChunkNo(pushs)
InUse(place) == {place[i] : i \in Span}

Pointers(place) ==
  /\ begin = Where(place, pops) /\ end = Where(place, pushs)
  /\ back = Where(place, pushs - 1) /\ f = back
  /\ w = Where(place, Flushed) /\ c \in {w, NullAddr}
  /\ r = NullAddr \/ \E n \in pops..Flushed : r = Where(place, n)
  /\ rpc = "take" => \E n \in (pops + 1)..Flushed : r = Where(place, n)

Layout(place) ==
  /\ Linked(place, ChunkNo(pops), ChunkNo(pushs))
  /\ Pointers(place)
  /\ heap = InUse(place) \cup ({spare, old} \ {NoChunk})
  /\ {spare, old} \cap InUse(place) = {} /\ (spare = old => spare = NoChunk)
  /\ \A i \in Span, p \in 0..(ChunkSize - 1) :
       value[place[i]][p] = Message(i * ChunkSize + p)
  /\ \A k \in Chunks \ InUse(place) : value[k] = Empty

Quiet == rpc = "out" /\ lock = NoSender /\ \A s \in Senders : spc[s] = "out"

ChannelInv ==
  /\ TypeOK /\ Turns
  /\ IF Freed THEN Quiet ELSE \E place \in [Span -> Chunks] : Layout(place)

\* What follows at once from the invariant, for a mailbox that is not freed.
LEMMA Numbers ==
  ASSUME TypeOK, Turns
  PROVE  /\ pops \in Nat /\ pushs \in Nat /\ Flushed \in Nat /\ sent \in Nat
         /\ pops <= Flushed /\ Flushed <= pushs - 1 /\ pushs > 0 /\ pushs - 1 \in Nat
         /\ pushs - 1 <= sent /\ sent <= pushs
         /\ Phase \in {"out", "push", "flush", "set"}
         /\ \A s \in Senders : lock = s => Phase = spc[s]
         /\ ChunkNo(pops) \in Nat /\ ChunkNo(pushs) \in Nat
         /\ \A n \in pops..pushs : ChunkNo(n) \in Span
<1>1. Phase \in {"out", "push", "flush", "set"}
  BY DEF TypeOK, Turns, Phase
<1>2. /\ pops \in Nat /\ pushs \in Nat /\ Flushed \in Nat /\ sent \in Nat
      /\ pops <= Flushed /\ Flushed <= pushs - 1 /\ pushs > 0 /\ pushs - 1 \in Nat
      /\ pushs - 1 <= sent /\ sent <= pushs
  BY NamesAssumption DEF TypeOK, Turns, Flushed
<1>3. \A s \in Senders : lock = s => Phase = spc[s]
  BY NamesAssumption DEF Phase
<1>4. ChunkNo(pops) \in Nat /\ ChunkNo(pushs) \in Nat
  BY <1>2, Slots
<1>5. ASSUME NEW n \in pops..pushs PROVE ChunkNo(n) \in Span
  <2>1. n \in Nat /\ pops <= n /\ n <= pushs
    BY <1>2
  <2>2. ChunkNo(n) \in Nat /\ ChunkNo(pops) <= ChunkNo(n) /\ ChunkNo(n) <= ChunkNo(pushs)
    BY <1>2, <2>1, Slots, SlotOrder
  <2> QED BY <1>4, <2>2 DEF Span
<1> QED BY <1>1, <1>2, <1>3, <1>4, <1>5

\* An address is that of one slot only, and is not NULL.
LEMMA WhereOne ==
  ASSUME NEW place, NEW lo, NEW hi, Linked(place, lo, hi),
         NEW m \in Nat, NEW n \in Nat, ChunkNo(m) \in lo..hi, ChunkNo(n) \in lo..hi
  PROVE  /\ Where(place, m) = Where(place, n) => m = n
         /\ Where(place, m) # NullAddr
         /\ Where(place, m).chunk = place[ChunkNo(m)] /\ Where(place, m).pos = Pos(m)
         /\ place[ChunkNo(m)] \in Chunks /\ Pos(m) \in 0..(ChunkSize - 1)
         /\ Where(place, m) \in Addrs
<1>1. place[ChunkNo(m)] \in Chunks
  BY DEF Linked
<1>2. Pos(m) \in 0..(ChunkSize - 1)
  BY Slots
<1>3. Where(place, m).chunk = place[ChunkNo(m)] /\ Where(place, m).pos = Pos(m)
  BY DEF Where, Addr
<1>4. Where(place, m) # NullAddr
  BY <1>1, NamesAssumption DEF Where, Addr, NullAddr
<1>5. ASSUME Where(place, m) = Where(place, n) PROVE m = n
  <2>1. place[ChunkNo(m)] = place[ChunkNo(n)] /\ Pos(m) = Pos(n)
    BY <1>5 DEF Where, Addr
  <2>2. ChunkNo(m) = ChunkNo(n)
    BY <2>1 DEF Linked
  <2>3. m = ChunkNo(m) * ChunkSize + Pos(m) /\ n = ChunkNo(n) * ChunkSize + Pos(n)
    BY Slots
  <2> QED BY <2>1, <2>2, <2>3
<1>6. Where(place, m) \in Addrs
  BY <1>1, <1>2 DEF Where, Addr, Addrs
<1> QED BY <1>1, <1>2, <1>3, <1>4, <1>5, <1>6

LEMMA SlotValue ==
  ASSUME NEW place, Layout(place), NEW n \in Nat, ChunkNo(n) \in Span
  PROVE  value[place[ChunkNo(n)]][Pos(n)] = Message(n)
<1>1. Pos(n) \in 0..(ChunkSize - 1) /\ n = ChunkNo(n) * ChunkSize + Pos(n)
  BY Slots
<1> QED BY <1>1 DEF Layout

\* The queue holds the messages between pops and pushs.
LEMMA ContentsAre ==
  ASSUME TypeOK, Turns, NEW place, Layout(place)
  PROVE  Contents = [i \in 1..(pushs - 1 - pops) |-> pops + i]
<1> DEFINE lo == ChunkNo(pops)
           hi == ChunkNo(pushs)
<1>1. /\ pops \in Nat /\ pushs \in Nat /\ pushs - 1 <= sent /\ sent \in Nat
      /\ \A n \in pops..pushs : ChunkNo(n) \in Span
      /\ lo \in Nat /\ hi \in Nat
  BY Numbers
<1>2. /\ Linked(place, lo, hi) /\ begin.chunk = place[lo] /\ begin.pos = Pos(pops)
      /\ Pos(pops) \in 0..(ChunkSize - 1)
  BY <1>1, Slots DEF Layout, Pointers, Where, Addr
<1>3. ASSUME NEW i \in 1..(pushs - 1 - pops)
      PROVE  LET p == begin.pos + i - 1
             IN  value[After(begin.chunk, p \div ChunkSize)][p % ChunkSize] = pops + i
  <2> DEFINE p == begin.pos + i - 1
             n == pops + (i - 1)
             q == ChunkNo(p)
  <2>1. p \in Nat /\ n \in pops..(pushs - 2) /\ n \in Nat /\ i - 1 \in Nat
    BY <1>1, <1>2
  <2>2. q \in Nat /\ Pos(p) \in 0..(ChunkSize - 1) /\ p = q * ChunkSize + Pos(p)
    BY <2>1, Slots
  <2>3. p = Pos(pops) + (i - 1) /\ (q + 1) * ChunkSize = q * ChunkSize + ChunkSize
        /\ q * ChunkSize \in Nat
    BY <1>1, <1>2, <2>2, ChunkAssumption
  <2> HIDE DEF q, p
  <2>4. Pos(pops) + (i - 1) >= q * ChunkSize /\ Pos(pops) + (i - 1) < (q + 1) * ChunkSize
    BY <2>2, <2>3, ChunkAssumption
  <2>5. ChunkNo(n) = lo + q /\ Pos(n) = Pos(pops) + (i - 1) - q * ChunkSize
    BY <1>1, <2>1, <2>2, <2>4, SlotFurther
  <2>6. Pos(n) = Pos(p)
    <3>1. Pos(pops) \in Int /\ i - 1 \in Int /\ q * ChunkSize \in Int /\ Pos(p) \in Int
      BY <1>2, <2>1, <2>2, <2>3
    <3>2. Pos(pops) + (i - 1) = q * ChunkSize + Pos(p)
      BY <2>2, <2>3
    <3> HIDE DEF n
    <3> QED BY <2>5, <3>1, <3>2
  <2>7. ChunkNo(n) \in Span
    BY <1>1, <2>1
  <2> HIDE DEF n, lo, hi
  <2>8. q \in 0..(hi - lo)
    BY <1>1, <2>2, <2>5, <2>7 DEF Span, lo, hi
  <2>9. After(begin.chunk, q) = place[lo + q]
    BY <1>2, <2>8, AfterLinked
  <2>10. value[place[ChunkNo(n)]][Pos(n)] = Message(n)
    BY <2>1, <2>7, SlotValue
  <2>11. Message(n) = pops + i
    <3>1. n < sent /\ n + 1 = pops + i
      BY <1>1, <2>1 DEF n
    <3> QED BY <3>1 DEF Message
  <2> QED BY <2>5, <2>6, <2>9, <2>10, <2>11 DEF p, q, ChunkNo, Pos
<1> QED BY <1>3 DEF Contents

\* The chunks up to a given one.
LEMMA ChainIs ==
  ASSUME TypeOK, Turns, NEW place, Layout(place), NEW j \in Span
  PROVE  ChainTo(place[j]) = {place[i] : i \in ChunkNo(pops)..j}
<1> DEFINE lo == ChunkNo(pops)
           hi == ChunkNo(pushs)
           C == Cardinality(Chunks)
<1>1. /\ lo \in Nat /\ hi \in Nat /\ j \in lo..hi /\ begin.chunk = place[lo] /\ Linked(place, lo, hi)
  BY Numbers DEF Layout, Pointers, Where, Addr, Span
<1>2. /\ place \in [lo..hi -> Chunks]
      /\ \A i, k \in lo..hi : place[i] = place[k] => i = k
  BY <1>1 DEF Linked
<1> HIDE DEF lo, hi
<1>3. C \in Nat /\ hi - lo \in 0..C
  <2> DEFINE g == [i \in 0..(hi - lo) |-> place[lo + i]]
  <2>1. \A i \in 0..(hi - lo) : lo + i \in lo..hi
    BY <1>1
  <2>2. g \in Injection(0..(hi - lo), Chunks)
    BY <1>1, <1>2, <2>1 DEF Injection, IsInjective
  <2>3. Cardinality(0..(hi - lo)) <= C
    <3> HIDE DEF g
    <3> QED BY <2>2, NamesAssumption, FS_Injection
  <2>4. Cardinality(0..(hi - lo)) = hi - lo + 1
    <3>1. 0 \in Int /\ hi - lo \in Int /\ ~(0 > hi - lo)
      BY <1>1
    <3>2. Cardinality(0..(hi - lo)) = IF 0 > hi - lo THEN 0 ELSE hi - lo - 0 + 1
      BY <3>1, FS_Interval
    <3> QED BY <1>1, <3>1, <3>2
  <2>5. C \in Nat
    BY NamesAssumption, FS_CardinalityType
  <2> QED BY <1>1, <2>3, <2>4, <2>5
<1>4. \A i \in 0..(hi - lo) : After(begin.chunk, i) = place[lo + i] /\ lo + i \in lo..hi
  BY <1>1, AfterLinked
<1> DEFINE First(i) == /\ After(begin.chunk, i) = place[j]
                       /\ \A k \in 0..(i - 1) : After(begin.chunk, k) # place[j]
           n == CHOOSE i \in 0..C : First(i)
<1>5. j - lo \in 0..(hi - lo) /\ j - lo \in 0..C /\ lo + (j - lo) = j
  BY <1>1, <1>3
<1>6. First(j - lo)
  <2>1. \A k \in 0..(j - lo - 1) : k \in 0..(hi - lo) /\ lo + k # j
    BY <1>1
  <2> QED BY <1>1, <1>2, <1>4, <1>5, <2>1
<1>7. ASSUME NEW i \in 0..C, First(i) PROVE i = j - lo
  <2>1. ~(j - lo < i)
    <3> SUFFICES ASSUME j - lo < i PROVE FALSE
      OBVIOUS
    <3>1. j - lo \in 0..(i - 1)
      BY <1>1, <1>3
    <3> QED BY <1>7, <1>4, <1>5, <3>1
  <2>2. ~(i < j - lo)
    <3> SUFFICES ASSUME i < j - lo PROVE FALSE
      OBVIOUS
    <3>1. i \in 0..(j - lo - 1)
      BY <1>1, <1>3
    <3> QED BY <1>6, <1>7, <3>1
  <2> QED BY <1>1, <1>3, <2>1, <2>2
<1>8. n = j - lo
  <2> HIDE DEF First
  <2> QED BY <1>5, <1>6, <1>7
<1>9. ChainTo(place[j]) = {After(begin.chunk, i) : i \in 0..n}
  BY DEF ChainTo
<1>10. {After(begin.chunk, i) : i \in 0..(j - lo)} = {place[i] : i \in lo..j}
  <2>1. \A i \in 0..(j - lo) : i \in 0..(hi - lo) /\ lo + i \in lo..j
    BY <1>1
  <2>2. \A i \in lo..j : i - lo \in 0..(j - lo) /\ lo + (i - lo) = i
    BY <1>1
  <2> QED BY <1>4, <2>1, <2>2
<1> HIDE DEF n
<1> QED BY <1>8, <1>9, <1>10 DEF lo

-----------------------------------------------------------------------------
(* Every step keeps the invariant *)

\* Where the reader and the back of the queue are.
LEMMA Ends ==
  ASSUME TypeOK, Turns, NEW place, Layout(place)
  PROVE  /\ Linked(place, ChunkNo(pops), ChunkNo(pushs))
         /\ begin.chunk = place[ChunkNo(pops)] /\ begin.pos = Pos(pops)
         /\ back.chunk = place[ChunkNo(pushs - 1)] /\ back.pos = Pos(pushs - 1)
         /\ end.chunk = place[ChunkNo(pushs)] /\ end.pos = Pos(pushs)
         /\ {begin.chunk, back.chunk, end.chunk} \subseteq Chunks \cap InUse(place)
         /\ {begin.pos, back.pos, end.pos} \subseteq 0..(ChunkSize - 1)
<1>1. Linked(place, ChunkNo(pops), ChunkNo(pushs))
  BY DEF Layout
<1>2. /\ pops \in Nat /\ pushs \in Nat /\ pushs - 1 \in Nat
      /\ ChunkNo(pops) \in Span /\ ChunkNo(pushs - 1) \in Span /\ ChunkNo(pushs) \in Span
  BY Numbers
<1>3. /\ begin.chunk = place[ChunkNo(pops)] /\ begin.pos = Pos(pops)
      /\ back.chunk = place[ChunkNo(pushs - 1)] /\ back.pos = Pos(pushs - 1)
      /\ end.chunk = place[ChunkNo(pushs)] /\ end.pos = Pos(pushs)
  BY DEF Layout, Pointers, Where, Addr
<1>4. {Pos(pops), Pos(pushs - 1), Pos(pushs)} \subseteq 0..(ChunkSize - 1)
  BY <1>2, Slots
<1>5. \A i \in Span : place[i] \in Chunks \cap InUse(place)
  BY <1>1 DEF Linked, Span, InUse
<1> QED BY <1>1, <1>2, <1>3, <1>4, <1>5

\* A step that leaves the memory alone.
LEMMA LayoutSame ==
  ASSUME NEW place, Layout(place), Pointers(place)',
         UNCHANGED <<heap, value, next, spare, old, sent, pops, pushs>>
  PROVE  Layout(place)'
BY DEF Layout, Linked, InUse, Span, Message

\* A step that leaves the pointers alone, too.
LEMMA PointersSame ==
  ASSUME NEW place, Pointers(place), rpc' = "take" => rpc = "take", Flushed' = Flushed,
         UNCHANGED <<begin, back, end, w, r, f, c, pops, pushs>>
  PROVE  Pointers(place)'
BY DEF Pointers, Where

LEMMA StoreKeeps ==
  ASSUME TypeOK, Turns, NEW place, Layout(place), NEW s \in Senders, Store(s)
  PROVE  Turns' /\ \E q : Layout(q)'
<1>1. /\ lock = NoSender /\ lock' = s /\ s # NoSender /\ sent' = sent + 1
      /\ spc' = [spc EXCEPT ![s] = "push"]
      /\ value' = [value EXCEPT ![back.chunk][back.pos] = sent + 1]
      /\ UNCHANGED <<heap, next, spare, pushs, pops, begin, back, end, w, r, f, c,
                     tokens, rpc, old, freed>>
  BY NamesAssumption DEF Store, pipe, reader
<1>2. Phase = "out" /\ Phase' = "push" /\ Flushed = pushs - 1 /\ Flushed' = pushs - 1
  BY <1>1 DEF Phase, Flushed, TypeOK
<1>3. Turns'
  BY <1>1, <1>2, NamesAssumption DEF Turns, TypeOK
<1>4. Pointers(place)'
  BY <1>1, <1>2, PointersSame DEF Layout
<1>5. sent = pushs - 1 /\ pushs - 1 \in Nat /\ sent \in Nat
  BY <1>2, Numbers DEF Turns
<1>6. ASSUME NEW i \in Span, NEW p \in 0..(ChunkSize - 1)
      PROVE  value'[place[i]][p] = Message(i * ChunkSize + p)'
  <2> DEFINE n == i * ChunkSize + p
  <2>1. i \in Nat /\ n \in Nat /\ value[place[i]][p] = Message(n)
    <3>1. i \in Nat
      BY Numbers DEF Span
    <3>2. n \in Nat
      BY <3>1, ChunkAssumption
    <3> QED BY <3>1, <3>2 DEF Layout
  <2>2. ChunkNo(n) = i /\ Pos(n) = p
    BY <2>1, SlotOf
  <2>3. pushs - 1 = ChunkNo(pushs - 1) * ChunkSize + Pos(pushs - 1)
    BY <1>5, Slots
  <2> HIDE DEF n
  <2>4. ChunkNo(pushs - 1) \in Span /\ place[i] \in Chunks
    BY Numbers, Ends DEF Linked, Span
  <2>5. CASE place[i] = back.chunk /\ p = back.pos
    <3>1. i = ChunkNo(pushs - 1) /\ p = Pos(pushs - 1)
      BY <2>4, <2>5, Ends DEF Linked, Span
    <3>2. n = pushs - 1
      BY <2>3, <3>1 DEF n
    <3>3. value'[place[i]][p] = sent + 1
      BY <1>1, <2>4, <2>5 DEF TypeOK
    <3>4. Message(n)' = n + 1
      BY <1>1, <1>5, <3>2 DEF Message
    <3> QED BY <1>5, <3>2, <3>3, <3>4 DEF n
  <2>6. CASE ~(place[i] = back.chunk /\ p = back.pos)
    <3>1. n # pushs - 1
      BY <2>2, <2>6, Ends
    <3>2. value'[place[i]][p] = value[place[i]][p]
      BY <1>1, <2>4, <2>6 DEF TypeOK
    <3>3. Message(n)' = Message(n)
      BY <1>1, <1>5, <2>1, <3>1 DEF Message
    <3> QED BY <2>1, <3>2, <3>3 DEF n
  <2> QED BY <2>5, <2>6
<1>7. \A k \in Chunks \ InUse(place) : value'[k] = Empty
  BY <1>1, Ends DEF Layout, TypeOK
<1>8. Layout(place)'
  BY <1>1, <1>4, <1>6, <1>7 DEF Layout, Linked, InUse, Span
<1> QED BY <1>3, <1>8

LEMMA FlushKeeps ==
  ASSUME TypeOK, Turns, NEW place, Layout(place), NEW s \in Senders, Flush(s) \/ SetC(s)
  PROVE  Turns' /\ \E q : Layout(q)'
<1>1. UNCHANGED <<heap, value, next, spare, pushs, pops, begin, back, end, r, f, sent,
                  rpc, old, freed>>
  BY DEF Flush, SetC, queue, reader
<1>2. lock = s /\ s # NoSender /\ Phase = spc[s] /\ Flushed = pushs - 2
  <2>1. spc[s] \in {"flush", "set"}
    BY DEF Flush, SetC
  <2> QED BY <2>1, NamesAssumption DEF Turns, Phase, Flushed
<1>3. pops \in Nat /\ pushs \in Nat /\ pops <= pushs - 2
      /\ c \in {w, NullAddr} /\ f = back /\ back = Where(place, pushs - 1)
  BY <1>2, Numbers DEF Layout, Pointers
<1>4. CASE c # w /\ Flush(s)
  <2>1. spc' = [spc EXCEPT ![s] = "set"] /\ UNCHANGED <<c, w, lock>> /\ spc[s] = "flush"
    BY <1>4 DEF Flush
  <2>2. Phase' = "set" /\ Flushed' = Flushed
    BY <1>1, <1>2, <2>1 DEF Phase, Flushed, TypeOK
  <2>3. Turns'
    BY <1>1, <1>2, <1>3, <1>4, <2>1, <2>2 DEF Turns, TypeOK
  <2>4. Layout(place)'
    BY <1>1, <2>1, <2>2, LayoutSame, PointersSame DEF Layout
  <2> QED BY <2>3, <2>4
<1>5. CASE ~(c # w /\ Flush(s))
  <2>1. /\ c' = f /\ w' = f /\ lock' = NoSender /\ spc[s] \in {"flush", "set"}
        /\ spc' = [spc EXCEPT ![s] = spc'[s]] /\ spc'[s] \in {"out", "token"}
    BY <1>5 DEF Flush, SetC, TypeOK
  <2>2. Phase' = "out" /\ Flushed' = pushs - 1
    BY <1>1, <2>1 DEF Phase, Flushed
  <2>3. c' # NullAddr
    BY <1>3, <2>1, Ends, NamesAssumption DEF NullAddr, Addr
  <2>4. Turns'
    <3>1. \A x \in Senders : spc'[x] \in {"push", "flush", "set"} <=> lock' = x
      BY <1>2, <2>1, NamesAssumption DEF Turns, TypeOK
    <3>2. sent' = pushs' - 1 /\ pushs' > 0
      BY <1>1, <1>2, <2>1 DEF Turns
    <3> QED BY <1>1, <1>3, <2>2, <2>3, <3>1, <3>2 DEF Turns
  <2>5. Pointers(place)'
    <3>1. \A n \in pops..Flushed : n \in pops..Flushed'
      BY <1>2, <1>3, <2>2
    <3>2. \A n \in (pops + 1)..Flushed : n \in (pops + 1)..Flushed'
      BY <1>2, <1>3, <2>2
    <3>3. w' = Where(place, Flushed') /\ c' = w'
      BY <1>3, <2>1, <2>2
    <3> QED BY <1>1, <3>1, <3>2, <3>3 DEF Layout, Pointers, Where
  <2>6. Layout(place)'
    BY <1>1, <2>5, LayoutSame
  <2> QED BY <2>4, <2>6
<1> QED BY <1>4, <1>5

LEMMA PushKeeps ==
  ASSUME TypeOK, Turns, NEW place, Layout(place), NEW s \in Senders, Push(s)
  PROVE  Turns' /\ \E q : Layout(q)'
<1>0. PICK lo, hi : lo = ChunkNo(pops) /\ hi = ChunkNo(pushs)
  OBVIOUS
<1>1. /\ pushs' = pushs + 1 /\ back' = end /\ f' = end
      /\ spc' = [spc EXCEPT ![s] = "flush"]
      /\ UNCHANGED <<value, pops, begin, w, r, c, lock, sent, tokens, rpc, old, freed>>
  BY DEF Push, reader
<1>2. /\ lock = s /\ s # NoSender /\ Phase = "push" /\ Phase' = "flush"
      /\ Flushed = pushs - 1 /\ Flushed' = Flushed /\ sent = pushs
  <2>1. lock = s /\ s # NoSender /\ Phase = "push"
    BY NamesAssumption DEF Turns, Phase, Push
  <2>2. Phase' = "flush"
    BY <1>1, <2>1 DEF Phase, TypeOK
  <2>3. pushs \in Nat
    BY DEF TypeOK
  <2> QED BY <1>1, <2>1, <2>2, <2>3 DEF Turns, Flushed
<1>3. /\ pops \in Nat /\ pushs \in Nat /\ pops <= pushs - 1 /\ pushs > 0
      /\ lo \in Nat /\ hi \in Nat /\ Span = lo..hi
      /\ \A n \in pops..pushs : n \in Nat /\ ChunkNo(n) \in lo..hi
  BY <1>0, <1>2, Numbers DEF Span
<1>4. Turns'
  BY <1>1, <1>2, <1>3 DEF Turns, TypeOK
<1>5. /\ Linked(place, lo, hi) /\ lo <= hi
      /\ end.chunk = place[hi] /\ end.pos = Pos(pushs) /\ end = Where(place, pushs)
      /\ Pos(pushs) \in 0..(ChunkSize - 1) /\ ChunkSize \in Nat
  <2>1. Linked(place, lo, hi) /\ end.chunk = place[hi] /\ end.pos = Pos(pushs)
    BY <1>0, Ends
  <2>2. end = Where(place, pushs)
    BY DEF Layout, Pointers
  <2>3. Pos(pushs) \in 0..(ChunkSize - 1) /\ ChunkSize \in Nat
    BY <1>3, Slots, ChunkAssumption
  <2> QED BY <2>1, <2>2, <2>3 DEF Linked
<1>6. CASE end.pos + 1 < ChunkSize
  <2>1. end' = Addr(end.chunk, end.pos + 1) /\ UNCHANGED <<heap, next, spare>>
    BY <1>5, <1>6 DEF Push
  <2>2. ChunkNo(pushs + 1) = hi /\ Pos(pushs + 1) = Pos(pushs) + 1
    BY <1>3, <1>5, <1>6, <1>0, SlotNext
  <2>3. Span' = Span
    BY <1>0, <1>1, <2>2 DEF Span
  <2>4. Pointers(place)'
    <3>1. end' = Where(place, pushs')
      BY <1>1, <1>5, <2>1, <2>2 DEF Where
    <3>2. back' = Where(place, pushs' - 1) /\ f' = back'
      BY <1>1, <1>3, <1>5
    <3> QED BY <1>1, <1>2, <3>1, <3>2 DEF Layout, Pointers
  <2>5. Layout(place)'
    <3>1. Linked(place, ChunkNo(pops), ChunkNo(pushs))'
      BY <1>0, <1>1, <2>1, <2>2 DEF Layout, Linked
    <3>2. InUse(place)' = InUse(place)
      BY <2>3 DEF InUse
    <3> QED BY <1>0, <1>1, <1>3, <2>1, <2>2, <2>3, <2>4, <3>1, <3>2 DEF Layout, Message
  <2> QED BY <1>4, <2>5
<1>7. CASE end.pos + 1 = ChunkSize
  <2>1. PICK k \in IF spare # NoChunk THEN {spare} ELSE Chunks \ heap :
          /\ heap' = heap \cup {k}
          /\ next' = [next EXCEPT ![end.chunk] = k]
          /\ end' = Addr(k, 0) /\ spare' = NoChunk
    BY <1>5, <1>7 DEF Push
  <2>2. /\ k \in Chunks /\ k # NoChunk /\ k # old /\ k \notin InUse(place)
        /\ spare \in {k, NoChunk}
    BY <2>1, NamesAssumption DEF Layout, TypeOK
  <2>3. ChunkNo(pushs + 1) = hi + 1 /\ Pos(pushs + 1) = 0
    BY <1>3, <1>5, <1>7, <1>0, SlotNext
  <2>4. Span' = lo..(hi + 1)
    BY <1>0, <1>1, <2>3 DEF Span
  <2>0. PICK q : q = [i \in lo..(hi + 1) |-> IF i = hi + 1 THEN k ELSE place[i]]
    OBVIOUS
  <2>5. q[hi + 1] = k /\ \A i \in lo..hi : q[i] = place[i] /\ i # hi + 1
    BY <1>3, <1>5, <2>0
  <2>6. /\ q \in [lo..(hi + 1) -> Chunks]
        /\ \A i \in lo..(hi + 1) : i \in lo..hi \/ i = hi + 1
    BY <1>3, <1>5, <2>0, <2>2 DEF Linked
  <2>7. \A n \in pops..pushs : Where(q, n) = Where(place, n)
    BY <1>3, <2>5 DEF Where
  <2>8. /\ \A i \in lo..hi : place[i] \in Chunks /\ place[i] # k
        /\ \A i, j \in lo..hi : place[i] = place[j] => i = j
    BY <1>3, <1>5, <2>2 DEF Linked, InUse
  <2>9. Linked(q, lo, hi + 1)'
    <3>1. \A i, j \in lo..(hi + 1) : q[i] = q[j] => i = j
      BY <2>5, <2>6, <2>8
    <3>2. ASSUME NEW i \in lo..hi PROVE next'[q[i]] = q[i + 1]
      <4>1. CASE i = hi
        BY <1>3, <1>5, <2>1, <2>5, <2>8, <4>1 DEF TypeOK
      <4>2. CASE i # hi
        <5>1. i \in lo..(hi - 1) /\ i + 1 \in lo..hi /\ hi \in lo..hi
          BY <1>3, <1>5, <4>2
        <5>2. next'[place[i]] = next[place[i]]
          BY <1>5, <2>1, <2>8, <4>2, <5>1 DEF TypeOK
        <5> QED BY <1>5, <2>5, <5>1, <5>2 DEF Linked
      <4> QED BY <4>1, <4>2
    <3>3. lo \in Nat /\ hi + 1 \in Nat /\ lo <= hi + 1 /\ (hi + 1) - 1 = hi
      BY <1>3, <1>5
    <3> QED BY <2>6, <3>1, <3>2, <3>3 DEF Linked
  <2>10. InUse(q)' = InUse(place) \cup {k}
    BY <1>3, <2>4, <2>5, <2>6 DEF InUse
  <2>11. Pointers(q)'
    <3>1. begin' = Where(q, pops') /\ w' = Where(q, Flushed') /\ c' \in {w', NullAddr}
      <4>1. pops \in pops..pushs /\ pushs - 1 \in pops..pushs
        BY <1>3
      <4> QED BY <1>1, <1>2, <2>7, <4>1 DEF Layout, Pointers
    <3>2. back' = Where(q, pushs' - 1) /\ f' = back'
      <4>1. pushs \in pops..pushs /\ pushs' - 1 = pushs
        BY <1>1, <1>3
      <4> QED BY <1>1, <1>5, <2>7, <4>1
    <3>3. end' = Where(q, pushs')
      BY <1>1, <2>1, <2>3, <2>5 DEF Where
    <3>4. /\ r' = NullAddr \/ \E n \in pops'..Flushed' : r' = Where(q, n)
          /\ rpc' = "take" => \E n \in (pops' + 1)..Flushed' : r' = Where(q, n)
      <4>1. \A n \in pops..Flushed : n \in pops..pushs
        BY <1>2, <1>3
      <4>2. \A n \in (pops + 1)..Flushed : n \in pops..pushs
        BY <1>2, <1>3
      <4> QED BY <1>1, <1>2, <2>7, <4>1, <4>2 DEF Layout, Pointers
    <3> QED BY <3>1, <3>2, <3>3, <3>4 DEF Pointers
  <2>12. /\ heap' = InUse(q)' \cup ({spare, old} \ {NoChunk})'
         /\ ({spare, old} \cap InUse(q) = {} /\ (spare = old => spare = NoChunk))'
    <3>1. /\ heap = InUse(place) \cup ({spare, old} \ {NoChunk})
          /\ {spare, old} \cap InUse(place) = {}
      BY DEF Layout
    <3>2. heap' = heap \cup {k} /\ spare' = NoChunk /\ old' = old
      BY <1>1, <2>1
    <3>3. NoChunk \notin InUse(place)
      <4>1. \A i \in Span : place[i] \in Chunks
        BY <1>3, <2>8
      <4> QED BY <4>1, NamesAssumption DEF InUse
    <3> QED BY <2>2, <2>10, <3>1, <3>2, <3>3
  <2>13. ASSUME NEW i \in lo..(hi + 1), NEW p \in 0..(ChunkSize - 1)
         PROVE  value'[q[i]][p] = Message(i * ChunkSize + p)'
    <3>1. \A n : Message(n)' = Message(n)
      BY <1>1 DEF Message
    <3>2. CASE i \in lo..hi
      BY <1>1, <1>3, <2>5, <3>1, <3>2 DEF Layout
    <3>3. CASE i = hi + 1
      <4>1. value[k] = Empty
        BY <2>2 DEF Layout
      <4>2. value'[q[i]][p] = NoMsg
        BY <1>1, <2>5, <3>3, <4>1 DEF Empty
      <4>3. pushs = hi * ChunkSize + Pos(pushs)
        BY <1>3, <1>0, Slots
      <4>4. i * ChunkSize = hi * ChunkSize + ChunkSize /\ hi * ChunkSize \in Nat
        BY <1>3, <1>5, <3>3
      <4>5. ~(i * ChunkSize + p < sent)
        BY <1>2, <1>5, <4>3, <4>4
      <4> QED BY <3>1, <4>2, <4>5 DEF Message
    <3> QED BY <2>6, <3>2, <3>3
  <2>14. \A j \in Chunks \ InUse(q)' : value'[j] = Empty
    BY <1>1, <2>10 DEF Layout
  <2>15. Linked(q, ChunkNo(pops), ChunkNo(pushs))'
    BY <1>0, <1>1, <2>3, <2>9
  <2>16. Layout(q)'
    BY <2>4, <2>11, <2>12, <2>13, <2>14, <2>15 DEF Layout
  <2> QED BY <1>4, <2>16
<1> QED BY <1>5, <1>6, <1>7 DEF Push

\* The steps of the reader that move no message.
LEMMA ReaderKeeps ==
  ASSUME TypeOK, Turns, NEW place, Layout(place),
         \/ \E s \in Senders : Post(s)
         \/ ReadBegin \/ Look \/ Await \/ TimedOut
  PROVE  Turns' /\ \E q : Layout(q)'
<1>1. /\ UNCHANGED <<heap, value, next, spare, pushs, pops, begin, back, end, w, r, f, c,
                     lock, sent, old, freed>>
      /\ spc' = spc \/ \E s \in Senders : spc[s] = "token" /\ spc' = [spc EXCEPT ![s] = "out"]
  BY DEF Post, ReadBegin, Look, Await, TimedOut, queue, pipe, sender, reader
<1>2. Phase' = Phase /\ Flushed' = Flushed
  <2>1. lock \in Senders => spc[lock] # "token"
    BY DEF Turns
  <2> QED BY <1>1, <2>1 DEF Phase, Flushed, TypeOK
<1>3. Turns'
  <2>1. \A t \in Senders : spc'[t] \in {"push", "flush", "set"} <=> lock' = t
    BY <1>1 DEF Turns, TypeOK
  <2>2. rpc' = rpc \/ (rpc # "recycle" /\ rpc' # "recycle")
    <3>1. CASE Look
      <4>1. rpc \in {"look", "lookAgain"} /\ rpc' \in {"take", "swap", "swapAgain"}
        BY <3>1 DEF Look
      <4> QED BY <4>1
    <3>2. CASE \E s \in Senders : Post(s)
      BY <3>2 DEF Post, reader
    <3>3. CASE ReadBegin \/ Await \/ TimedOut
      BY <3>3 DEF ReadBegin, Await, TimedOut
    <3> QED BY <3>1, <3>2, <3>3
  <2> QED BY <1>1, <1>2, <2>1, <2>2 DEF Turns
<1>4. CASE rpc' = "take" => rpc = "take"
  <2>1. Pointers(place)'
    BY <1>1, <1>2, <1>4, PointersSame DEF Layout
  <2> QED BY <1>1, <1>3, <2>1, LayoutSame
<1>5. CASE rpc' = "take" /\ rpc # "take"
  <2>1. Look /\ begin # r /\ r # NullAddr
    BY <1>5 DEF Post, ReadBegin, Look, Await, TimedOut, reader
  <2>2. PICK n \in pops..Flushed : r = Where(place, n)
    BY <2>1 DEF Layout, Pointers
  <2>3. n # pops
    BY <2>1, <2>2 DEF Layout, Pointers
  <2>4. n \in (pops + 1)..Flushed
    BY <2>2, <2>3, Numbers
  <2>5. Pointers(place)'
    BY <1>1, <1>2, <2>2, <2>4 DEF Layout, Pointers, Where
  <2> QED BY <1>1, <1>3, <2>5, LayoutSame
<1> QED BY <1>4, <1>5

LEMMA SwapKeeps ==
  ASSUME TypeOK, Turns, NEW place, Layout(place), Swap
  PROVE  Turns' /\ \E q : Layout(q)'
<1>1. /\ UNCHANGED <<heap, value, next, spare, pushs, pops, begin, back, end, w, f,
                     lock, spc, sent, old, freed>>
      /\ r' = c /\ c' = IF c = begin THEN NullAddr ELSE c
      /\ rpc \in {"swap", "swapAgain"} /\ rpc' \in {"take", "await", "out"}
      /\ rpc' = "take" => r' \notin {begin, NullAddr}
  BY DEF Swap, queue, sender
<1>2. Phase' = Phase /\ Flushed' = Flushed
  BY <1>1 DEF Phase, Flushed
<1>3. /\ pops \in Nat /\ Flushed \in Nat /\ pops <= Flushed /\ Flushed <= pushs - 1
      /\ pushs \in Nat
  BY Numbers
<1>4. c \in {Where(place, Flushed), NullAddr} /\ begin = Where(place, pops)
  BY DEF Layout, Pointers
<1>5. c = begin => Flushed = pops
  <2>1. ChunkNo(pops) \in Span /\ ChunkNo(Flushed) \in Span
    BY <1>3, Numbers
  <2>2. Where(place, pops) # NullAddr /\ (Where(place, Flushed) = Where(place, pops) => Flushed = pops)
    BY <1>3, <2>1, WhereOne DEF Layout, Span
  <2> QED BY <1>4, <2>2
<1>6. Turns'
  BY <1>1, <1>2, <1>5 DEF Turns
<1>7. Pointers(place)'
  <2>1. c' \in {w', NullAddr} /\ w' = Where(place, Flushed')
    BY <1>1, <1>2 DEF Layout, Pointers
  <2>2. r' = NullAddr \/ \E n \in pops'..Flushed' : r' = Where(place, n)
    BY <1>1, <1>2, <1>3, <1>4
  <2>3. rpc' = "take" => \E n \in (pops' + 1)..Flushed' : r' = Where(place, n)
    <3> SUFFICES ASSUME rpc' = "take" PROVE \E n \in (pops + 1)..Flushed : r' = Where(place, n)
      BY <1>1, <1>2
    <3>1. r' = Where(place, Flushed) /\ Flushed # pops
      BY <1>1, <1>4
    <3> QED BY <1>3, <3>1
  <2> QED BY <1>1, <1>2, <2>1, <2>2, <2>3 DEF Layout, Pointers
<1> QED BY <1>1, <1>6, <1>7, LayoutSame

LEMMA RecycleKeeps ==
  ASSUME TypeOK, Turns, NEW place, Layout(place), Recycle
  PROVE  Turns' /\ \E q : Layout(q)'
<1>1. /\ UNCHANGED <<value, next, pushs, pops, begin, back, end, w, r, f, c,
                     lock, spc, sent, freed>>
      /\ rpc = "recycle" /\ rpc' = "out"
      /\ spare' = old /\ old' = NoChunk /\ heap' = heap \ {spare}
  BY DEF Recycle, pipe, sender
<1>2. Phase' = Phase /\ Flushed' = Flushed
  BY <1>1 DEF Phase, Flushed
<1>3. Turns'
  BY <1>1, <1>2 DEF Turns
<1>4. Pointers(place)'
  BY <1>1, <1>2, PointersSame DEF Layout
<1>5. /\ heap = InUse(place) \cup ({spare, old} \ {NoChunk})
      /\ {spare, old} \cap InUse(place) = {} /\ spare # old /\ old # NoChunk
  BY <1>1 DEF Layout, Turns
<1>6. NoChunk \notin InUse(place)
  BY NamesAssumption DEF Layout, Linked, InUse, Span
<1>7. /\ heap' = InUse(place) \cup ({spare', old'} \ {NoChunk})
      /\ {spare', old'} \cap InUse(place) = {}
  BY <1>1, <1>5, <1>6
<1>8. Layout(place)'
  BY <1>1, <1>4, <1>5, <1>7 DEF Layout, Linked, InUse, Span, Message
<1> QED BY <1>3, <1>8

LEMMA TakeKeeps ==
  ASSUME TypeOK, Turns, NEW place, Layout(place), Take
  PROVE  Turns' /\ \E q : Layout(q)'
<1>0. PICK lo, hi : lo = ChunkNo(pops) /\ hi = ChunkNo(pushs)
  OBVIOUS
<1>1. /\ UNCHANGED <<heap, spare, pushs, back, end, w, r, f, c, lock, spc, sent, freed>>
      /\ rpc = "take" /\ pops' = pops + 1 /\ rpc' # "take" /\ old = NoChunk
  BY DEF Take, pipe, sender, Turns
<1>2. Phase' = Phase /\ Flushed' = Flushed
  BY <1>1 DEF Phase, Flushed
<1>3. PICK n \in (pops + 1)..Flushed : r = Where(place, n)
  BY <1>1 DEF Layout, Pointers
<1>4. /\ pops \in Nat /\ pushs \in Nat /\ Flushed \in Nat /\ pops + 1 <= Flushed
      /\ Flushed <= pushs - 1 /\ lo \in Nat /\ hi \in Nat /\ Span = lo..hi
      /\ \A m \in (pops + 1)..pushs : m \in Nat /\ m \in pops..pushs /\ ChunkNo(m) \in lo..hi
  BY <1>0, <1>3, Numbers DEF Span
<1>5. /\ Linked(place, lo, hi) /\ lo \in lo..hi /\ begin.chunk = place[lo]
      /\ begin.pos = Pos(pops) /\ Pos(pops) \in 0..(ChunkSize - 1) /\ ChunkSize \in Nat
  <2>1. Linked(place, lo, hi) /\ begin.chunk = place[lo] /\ begin.pos = Pos(pops)
    BY <1>0, Ends
  <2>2. lo <= hi
    BY <2>1 DEF Linked
  <2>3. Pos(pops) \in 0..(ChunkSize - 1)
    BY <1>4, Slots
  <2> QED BY <1>4, <2>1, <2>2, <2>3, ChunkAssumption
<1>6. old' # NoChunk <=> rpc' = "recycle"
  <2>1. begin.chunk # NoChunk
    BY Ends, NamesAssumption
  <2>2. begin.pos + 1 < ChunkSize => rpc' = "out" /\ old' = old
    BY <1>5 DEF Take
  <2>3. begin.pos + 1 = ChunkSize => rpc' = "recycle" /\ old' = begin.chunk
    BY <1>5 DEF Take
  <2> QED BY <1>1, <2>1, <2>2, <2>3 DEF Take
<1>7. Turns'
  <2>1. c # NullAddr
    BY <1>4 DEF Turns
  <2>2. 0 <= pops' /\ pops' <= Flushed'
    BY <1>1, <1>2, <1>4
  <2> QED BY <1>1, <1>2, <1>6, <2>1, <2>2 DEF Turns
<1>8. CASE begin.pos + 1 < ChunkSize
  <2>1. begin' = Addr(begin.chunk, begin.pos + 1) /\ UNCHANGED <<value, next, old>>
    BY <1>5, <1>8 DEF Take
  <2>2. ChunkNo(pops + 1) = lo /\ Pos(pops + 1) = Pos(pops) + 1
    BY <1>0, <1>4, <1>5, <1>8, SlotNext
  <2>3. Span' = Span /\ ChunkNo(pops)' = lo /\ ChunkNo(pushs)' = hi
    BY <1>0, <1>1, <2>2 DEF Span
  <2>4. Pointers(place)'
    <3>1. begin' = Where(place, pops')
      BY <1>1, <1>5, <2>1, <2>2 DEF Where
    <3> QED BY <1>1, <1>2, <1>3, <3>1 DEF Layout, Pointers
  <2>5. Layout(place)'
    BY <1>1, <1>5, <2>1, <2>3, <2>4 DEF Layout, Linked, InUse, Message
  <2> QED BY <1>7, <2>5
<1>9. CASE begin.pos + 1 = ChunkSize
  <2>1. /\ begin' = Addr(next[begin.chunk], 0) /\ old' = begin.chunk
        /\ value' = [value EXCEPT ![begin.chunk] = Empty]
        /\ next' = [next EXCEPT ![begin.chunk] = NoChunk]
    BY <1>5, <1>9 DEF Take
  <2>2. ChunkNo(pops + 1) = lo + 1 /\ Pos(pops + 1) = 0
    BY <1>0, <1>4, <1>5, <1>9, SlotNext
  <2>3. lo + 1 <= hi /\ lo \in lo..(hi - 1)
    BY <1>4, <2>2
  <2>4. Span' = (lo + 1)..hi /\ ChunkNo(pops)' = lo + 1 /\ ChunkNo(pushs)' = hi
    BY <1>0, <1>1, <2>2 DEF Span
  <2>0. PICK q : q = [i \in (lo + 1)..hi |-> place[i]]
    OBVIOUS
  <2>5. \A i \in (lo + 1)..hi : /\ i \in lo..hi /\ q[i] = place[i]
                                /\ place[i] \in Chunks /\ place[i] # place[lo]
    BY <1>4, <1>5, <2>0 DEF Linked
  <2>6. place[lo] \in Chunks /\ place[lo] # NoChunk
    BY <1>5, NamesAssumption DEF Linked
  <2>7. Linked(q, lo + 1, hi)'
    <3>1. q \in [(lo + 1)..hi -> Chunks]
      BY <2>0, <2>5
    <3>2. \A i, j \in (lo + 1)..hi : q[i] = q[j] => i = j
      BY <1>5, <2>5 DEF Linked
    <3>3. ASSUME NEW i \in (lo + 1)..(hi - 1) PROVE next'[q[i]] = q[i + 1]
      <4>1. i \in lo..(hi - 1) /\ i \in (lo + 1)..hi /\ i + 1 \in (lo + 1)..hi
        BY <1>4
      <4>2. next'[place[i]] = next[place[i]]
        BY <1>5, <2>1, <2>5, <4>1 DEF TypeOK
      <4> QED BY <1>5, <2>5, <4>1, <4>2 DEF Linked
    <3>4. lo + 1 \in Nat /\ hi \in Nat /\ lo + 1 <= hi
      BY <1>4, <2>3
    <3> QED BY <3>1, <3>2, <3>3, <3>4 DEF Linked
  <2>8. \A m \in (pops + 1)..pushs : Where(q, m) = Where(place, m)
    <3> SUFFICES ASSUME NEW m \in (pops + 1)..pushs PROVE q[ChunkNo(m)] = place[ChunkNo(m)]
      BY DEF Where
    <3>1. m \in Nat /\ pops + 1 \in Nat /\ pops + 1 <= m /\ ChunkNo(m) \in lo..hi
      BY <1>4
    <3>2. lo + 1 <= ChunkNo(m)
      BY <2>2, <3>1, SlotOrder
    <3>3. ChunkNo(m) \in (lo + 1)..hi
      BY <1>4, <3>1, <3>2
    <3> QED BY <2>5, <3>3
  <2>9. Pointers(q)'
    <3>1. begin' = Where(q, pops')
      <4>1. lo + 1 \in (lo + 1)..hi
        BY <1>4, <2>3
      <4>2. next[place[lo]] = place[lo + 1]
        BY <1>5, <2>3 DEF Linked
      <4>3. next[begin.chunk] = q[lo + 1]
        BY <1>5, <2>5, <4>1, <4>2
      <4> QED BY <1>1, <2>1, <2>2, <4>3 DEF Where
    <3>2. /\ pushs \in (pops + 1)..pushs /\ pushs - 1 \in (pops + 1)..pushs
          /\ Flushed \in (pops + 1)..pushs /\ n \in (pops + 1)..pushs
      BY <1>3, <1>4
    <3>3. /\ end' = Where(q, pushs') /\ back' = Where(q, pushs' - 1) /\ f' = back'
          /\ w' = Where(q, Flushed') /\ c' \in {w', NullAddr}
      BY <1>1, <1>2, <2>8, <3>2 DEF Layout, Pointers
    <3>4. r' = Where(q, n) /\ n \in pops'..Flushed'
      BY <1>1, <1>2, <1>3, <2>8, <3>2
    <3> QED BY <1>1, <3>1, <3>3, <3>4 DEF Pointers
  <2>10. InUse(place) = InUse(q)' \cup {place[lo]} /\ place[lo] \notin InUse(q)'
    <3>1. InUse(q)' = {place[i] : i \in (lo + 1)..hi}
      BY <2>4, <2>5 DEF InUse
    <3>2. \A i \in lo..hi : i = lo \/ i \in (lo + 1)..hi
      BY <1>4
    <3> QED BY <1>4, <1>5, <2>5, <3>1, <3>2 DEF InUse
  <2>11. /\ heap' = InUse(q)' \cup ({spare, old} \ {NoChunk})'
         /\ ({spare, old} \cap InUse(q) = {} /\ (spare = old => spare = NoChunk))'
    <3>1. /\ heap = InUse(place) \cup ({spare, old} \ {NoChunk})
          /\ {spare, old} \cap InUse(place) = {}
      BY DEF Layout
    <3>2. /\ heap' = heap /\ spare' = spare /\ old = NoChunk /\ old' = place[lo]
      BY <1>1, <1>5, <2>1
    <3>3. spare # place[lo]
      BY <2>10, <3>1
    <3> QED BY <2>6, <2>10, <3>1, <3>2, <3>3
  <2>12. ASSUME NEW i \in (lo + 1)..hi, NEW p \in 0..(ChunkSize - 1)
         PROVE  value'[q[i]][p] = Message(i * ChunkSize + p)'
    <3>1. value'[q[i]] = value[place[i]]
      BY <1>5, <2>1, <2>5 DEF TypeOK
    <3>2. Message(i * ChunkSize + p)' = Message(i * ChunkSize + p)
      BY <1>1 DEF Message
    <3> QED BY <1>4, <2>5, <3>1, <3>2 DEF Layout
  <2>13. \A j \in Chunks \ InUse(q)' : value'[j] = Empty
    BY <1>5, <2>1, <2>10 DEF Layout, TypeOK
  <2>14. Layout(q)'
    BY <2>4, <2>7, <2>9, <2>11, <2>12, <2>13 DEF Layout
  <2> QED BY <1>7, <2>14
<1> QED BY <1>5, <1>8, <1>9 DEF Take

LEMMA FreeKeeps ==
  ASSUME TypeOK, Turns, Free
  PROVE  Turns' /\ Quiet'
<1>1. /\ UNCHANGED <<pushs, pops, c, lock, spc, sent, rpc, old>>
      /\ rpc = "out" /\ \A s \in Senders : spc[s] = "out"
  BY DEF Free, pipe, sender, reader
<1>2. lock = NoSender
  BY <1>1 DEF Turns, TypeOK
<1>3. Phase' = Phase /\ Flushed' = Flushed
  BY <1>1 DEF Phase, Flushed
<1> QED BY <1>1, <1>2, <1>3 DEF Turns, Quiet

\* What acl_mbox_free finds.
LEMMA FreeFinds ==
  ASSUME TypeOK, Turns, NEW place, Layout(place), Free
  PROVE  /\ heap' = {}
         /\ freed' = {(pops + 1)..(pushs - 1)}
         /\ (pops + 1)..(pushs - 1) \subseteq Msgs
<1>0. PICK lo, hi, bk : lo = ChunkNo(pops) /\ hi = ChunkNo(pushs) /\ bk = ChunkNo(pushs - 1)
  OBVIOUS
<1>1. /\ rpc = "out" /\ lock = NoSender /\ Phase = "out" /\ sent = pushs - 1 /\ old = NoChunk
  <2>1. lock = NoSender /\ rpc = "out"
    BY DEF Free, Turns, TypeOK
  <2> QED BY <2>1 DEF Phase, Turns
<1>2. /\ pops \in Nat /\ pushs \in Nat /\ pushs - 1 \in Nat /\ pops <= pushs - 1
      /\ lo \in Nat /\ hi \in Nat /\ Span = lo..hi /\ bk \in lo..hi
      /\ \A n \in pops..pushs : n \in Nat /\ ChunkNo(n) \in lo..hi
  BY <1>0, Numbers DEF Span
<1>3. /\ Linked(place, lo, hi) /\ begin.chunk = place[lo] /\ begin.pos = Pos(pops)
      /\ back.chunk = place[bk] /\ back.pos = Pos(pushs - 1) /\ end.chunk = place[hi]
  BY <1>0, Ends
<1>4. /\ ChainTo(end.chunk) = {place[i] : i \in lo..hi}
      /\ ChainTo(back.chunk) = {place[i] : i \in lo..bk}
  <2>1. hi \in Span /\ bk \in Span
    BY <1>2
  <2> QED BY <1>0, <1>3, <2>1, ChainIs
<1>5. heap' = {}
  <2>1. heap' = heap \ (ChainTo(end.chunk) \cup {spare})
    BY DEF Free
  <2>2. heap = {place[i] : i \in lo..hi} \cup ({spare, old} \ {NoChunk})
    BY <1>2 DEF Layout, InUse
  <2> QED BY <1>1, <1>4, <2>1, <2>2
<1> DEFINE Here(b) == /\ b[1] = begin.chunk => b[2] >= begin.pos
                      /\ b[1] = back.chunk => b[2] <= back.pos
           B == {b \in ChainTo(back.chunk) \X (0..(ChunkSize - 1)) : Here(b)}
           F == {value[a[1]][a[2]] : a \in B} \ {NoMsg}
<1>6. freed' = {F}
  BY DEF Free
<1>7. ASSUME NEW m \in F PROVE m \in (pops + 1)..(pushs - 1)
  <2>1. PICK a \in B : m = value[a[1]][a[2]]
    OBVIOUS
  <2>2. PICK i \in lo..bk, p \in 0..(ChunkSize - 1) : a = <<place[i], p>>
    BY <1>4
  <2>3. Here(a)
    OBVIOUS
  <2>4. i = lo => p >= Pos(pops)
    BY <1>3, <2>2, <2>3
  <2> DEFINE n == i * ChunkSize + p
  <2>5. i \in Nat /\ i \in Span /\ lo <= i /\ n \in Nat
    BY <1>2, ChunkAssumption
  <2>6. m = Message(n) /\ m # NoMsg
    BY <2>1, <2>2, <2>5 DEF Layout
  <2>7. ChunkNo(n) = i /\ Pos(n) = p
    BY <2>5, SlotOf
  <2> HIDE DEF n, F
  <2>8. n < sent /\ m = n + 1
    BY <2>6 DEF Message
  <2>9. ~(n < pops)
    <3> SUFFICES ASSUME n < pops PROVE FALSE
      OBVIOUS
    <3>1. ChunkNo(n) <= ChunkNo(pops) /\ (ChunkNo(n) = ChunkNo(pops) => pops - n = Pos(pops) - Pos(n))
      BY <1>2, <2>5, SlotOrder
    <3>2. i = lo /\ pops - n = Pos(pops) - p
      BY <1>0, <1>2, <2>5, <2>7, <3>1
    <3>3. Pos(pops) \in 0..(ChunkSize - 1)
      BY <1>2, Slots
    <3> QED BY <1>2, <2>4, <2>5, <3>2, <3>3, ChunkAssumption
  <2> QED BY <1>1, <1>2, <2>5, <2>8, <2>9
<1>8. ASSUME NEW m \in (pops + 1)..(pushs - 1) PROVE m \in F
  <2> DEFINE n == m - 1
             a == <<place[ChunkNo(n)], Pos(n)>>
  <2>1. n \in pops..pushs /\ n \in Nat /\ n <= pushs - 1 /\ pops <= n /\ n + 1 = m /\ n < sent
    BY <1>1, <1>2
  <2> HIDE DEF n
  <2>2. ChunkNo(n) \in lo..hi /\ ChunkNo(n) <= bk /\ Pos(n) \in 0..(ChunkSize - 1)
    BY <1>0, <1>2, <2>1, SlotOrder, Slots
  <2>3. a \in ChainTo(back.chunk) \X (0..(ChunkSize - 1))
    <3>1. ChunkNo(n) \in lo..bk
      BY <1>2, <2>2
    <3> QED BY <1>4, <2>2, <3>1
  <2>4. a[1] = begin.chunk => a[2] >= begin.pos
    <3> SUFFICES ASSUME place[ChunkNo(n)] = place[lo] PROVE Pos(n) >= Pos(pops)
      BY <1>3
    <3>1. ChunkNo(n) = ChunkNo(pops)
      BY <1>0, <1>2, <1>3, <2>2 DEF Linked
    <3>2. n - pops = Pos(n) - Pos(pops)
      BY <1>2, <2>1, <3>1, SlotOrder
    <3>3. Pos(pops) \in 0..(ChunkSize - 1)
      BY <1>2, Slots
    <3> QED BY <1>2, <2>1, <2>2, <3>2, <3>3, ChunkAssumption
  <2>5. a[1] = back.chunk => a[2] <= back.pos
    <3> SUFFICES ASSUME place[ChunkNo(n)] = place[bk] PROVE Pos(n) <= Pos(pushs - 1)
      BY <1>3
    <3>1. ChunkNo(n) = ChunkNo(pushs - 1)
      BY <1>0, <1>2, <1>3, <2>2 DEF Linked
    <3>2. (pushs - 1) - n = Pos(pushs - 1) - Pos(n)
      BY <1>2, <2>1, <3>1, SlotOrder
    <3>3. Pos(pushs - 1) \in 0..(ChunkSize - 1)
      BY <1>2, Slots
    <3> QED BY <1>2, <2>1, <2>2, <3>2, <3>3, ChunkAssumption
  <2>6. a \in B
    BY <2>3, <2>4, <2>5
  <2>7. value[a[1]][a[2]] = m
    <3>1. value[place[ChunkNo(n)]][Pos(n)] = Message(n)
      BY <1>2, <2>1, <2>2, SlotValue
    <3> QED BY <2>1, <3>1 DEF Message
  <2>8. m # NoMsg
    BY <1>2 DEF NoMsg
  <2> HIDE DEF a, B
  <2> QED BY <2>6, <2>7, <2>8
<1>9. F = (pops + 1)..(pushs - 1)
  <2> HIDE DEF F
  <2> QED BY <1>7, <1>8
<1>10. (pops + 1)..(pushs - 1) \subseteq Msgs
  BY <1>1, <1>2, NamesAssumption DEF TypeOK, Msgs
<1> HIDE DEF F
<1> QED BY <1>5, <1>6, <1>9, <1>10

LEMMA TypeStep ==
  ASSUME TypeOK, Turns, NEW place, Layout(place), Next
  PROVE  TypeOK'
<1>1. /\ {begin.chunk, back.chunk, end.chunk} \subseteq Chunks
      /\ {begin.pos, back.pos, end.pos} \subseteq 0..(ChunkSize - 1)
  BY Ends
<1>2. ChunkSize \in Nat /\ ChunkSize >= 2 /\ MaxMsgs \in Nat
  BY ChunkAssumption, NamesAssumption
<1>3. Empty \in [0..(ChunkSize - 1) -> Msgs \cup {NoMsg}]
  BY DEF Empty
<1> USE DEF TypeOK
<1>4. ASSUME NEW s \in Senders, Store(s) PROVE TypeOK'
  <2>1. sent + 1 \in Msgs /\ sent + 1 \in 0..MaxMsgs
    BY <1>2, <1>4 DEF Store, Msgs
  <2>2. value' \in [Chunks -> [0..(ChunkSize - 1) -> Msgs \cup {NoMsg}]]
    BY <1>1, <1>4, <2>1 DEF Store
  <2> QED BY <1>4, <2>1, <2>2 DEF Store, pipe, reader
<1>5. ASSUME NEW s \in Senders, Push(s) PROVE TypeOK'
  <2>1. {back', f'} \subseteq Addrs /\ pushs' \in Nat /\ spc' \in [Senders -> {"out", "push", "flush", "set", "token"}]
    BY <1>5 DEF Push
  <2>2. heap' \subseteq Chunks /\ next' \in [Chunks -> Chunks \cup {NoChunk}] /\ end' \in Addrs
        /\ spare' \in Chunks \cup {NoChunk}
    <3>1. CASE end.pos + 1 < ChunkSize /\ end' = Addr(end.chunk, end.pos + 1) /\ UNCHANGED <<heap, next, spare>>
      <4>1. end.pos + 1 \in 0..(ChunkSize - 1)
        BY <1>1, <1>2, <3>1
      <4> QED BY <1>1, <3>1, <4>1 DEF Addrs, Addr
    <3>2. CASE end.pos + 1 = ChunkSize /\ spare' = NoChunk
      <4>1. PICK k \in IF spare # NoChunk THEN {spare} ELSE Chunks \ heap :
               heap' = heap \cup {k} /\ next' = [next EXCEPT ![end.chunk] = k] /\ end' = Addr(k, 0)
        BY <1>2, <1>5, <3>2 DEF Push
      <4>2. k \in Chunks /\ 0 \in 0..(ChunkSize - 1)
        BY <1>2, <4>1
      <4> QED BY <3>2, <4>1, <4>2 DEF Addrs, Addr
    <3> QED BY <1>5, <3>1, <3>2 DEF Push
  <2> QED BY <1>5, <2>1, <2>2 DEF Push, reader
<1>6. ASSUME NEW s \in Senders, Flush(s) \/ SetC(s) \/ Post(s) PROVE TypeOK'
  <2>1. spc' \in [Senders -> {"out", "push", "flush", "set", "token"}]
    BY <1>6 DEF Flush, SetC, Post
  <2>2. CASE Flush(s)
    BY <2>1, <2>2 DEF Flush, queue, reader
  <2>3. CASE SetC(s)
    BY <2>1, <2>3 DEF SetC, queue, reader
  <2>4. CASE Post(s)
    BY <2>1, <2>4 DEF Post, queue, pipe, reader
  <2> QED BY <1>6, <2>2, <2>3, <2>4
<1>7. ASSUME ReadBegin \/ Await \/ TimedOut PROVE TypeOK'
  <2>1. CASE ReadBegin
    BY <2>1 DEF ReadBegin, queue, pipe, sender
  <2>2. CASE Await
    BY <2>2 DEF Await, queue, pipe, sender
  <2>3. CASE TimedOut
    BY <2>3 DEF TimedOut, queue, pipe, sender
  <2> QED BY <1>7, <2>1, <2>2, <2>3
<1>8. ASSUME Look PROVE TypeOK'
  <2>1. rpc' \in {"take", "swap", "swapAgain"}
    BY <1>8 DEF Look
  <2> QED BY <1>8, <2>1 DEF Look, queue, pipe, sender
<1>9. ASSUME Swap PROVE TypeOK'
  <2>1. NullAddr \in Addrs
    BY <1>2 DEF NullAddr, Addr, Addrs
  <2>2. {r', c'} \subseteq Addrs /\ rpc' \in {"take", "await", "out"} /\ empty' \in BOOLEAN
    BY <1>9, <2>1 DEF Swap
  <2> QED BY <1>9, <2>2 DEF Swap, queue, sender
<1>10. ASSUME Take PROVE TypeOK'
  <2>0. value[begin.chunk][begin.pos] \in Msgs \cup {NoMsg}
    <3>1. /\ value \in [Chunks -> [0..(ChunkSize - 1) -> Msgs \cup {NoMsg}]]
          /\ begin.chunk \in Chunks /\ begin.pos \in 0..(ChunkSize - 1)
      BY <1>1
    <3> HIDE DEF TypeOK
    <3>2. value[begin.chunk] \in [0..(ChunkSize - 1) -> Msgs \cup {NoMsg}]
      BY <3>1
    <3> QED BY <3>1, <3>2
  <2>1. last' \in Msgs \cup {NoMsg} /\ pops' \in Nat
    BY <1>10, <2>0 DEF Take, Slot
  <2>2. CASE begin.pos + 1 < ChunkSize
    <3>1. begin.pos + 1 \in 0..(ChunkSize - 1)
      BY <1>1, <1>2, <2>2
    <3>2. begin' = Addr(begin.chunk, begin.pos + 1) /\ rpc' = "out" /\ UNCHANGED <<value, next, old>>
      BY <1>1, <1>2, <1>10, <2>2 DEF Take
    <3>3. begin' \in Addrs
      BY <1>1, <3>1, <3>2 DEF Addrs, Addr
    <3> QED BY <1>10, <2>1, <3>2, <3>3 DEF Take, pipe, sender
  <2>3. CASE begin.pos + 1 = ChunkSize
    <3>1. /\ begin' = Addr(next[begin.chunk], 0) /\ rpc' = "recycle" /\ old' = begin.chunk
          /\ value' = [value EXCEPT ![begin.chunk] = Empty]
          /\ next' = [next EXCEPT ![begin.chunk] = NoChunk]
      BY <1>1, <1>2, <1>10, <2>3 DEF Take
    <3>2. begin' \in Addrs
      BY <1>1, <1>2, <3>1 DEF Addrs, Addr
    <3>3. value' \in [Chunks -> [0..(ChunkSize - 1) -> Msgs \cup {NoMsg}]]
          /\ next' \in [Chunks -> Chunks \cup {NoChunk}]
      BY <1>1, <1>3, <3>1
    <3> QED BY <1>1, <1>10, <2>1, <3>1, <3>2, <3>3 DEF Take, pipe, sender
  <2> QED BY <1>10, <2>2, <2>3 DEF Take
<1>11. ASSUME Recycle PROVE TypeOK'
  BY <1>11 DEF Recycle, pipe, sender
<1>12. ASSUME Free PROVE TypeOK'
  <2>1. freed' \subseteq SUBSET Msgs /\ heap' \subseteq Chunks
    BY <1>12, FreeFinds
  <2> QED BY <1>12, <2>1 DEF Free, pipe, sender, reader
<1> QED BY <1>4, <1>5, <1>6, <1>7, <1>8, <1>9, <1>10, <1>11, <1>12 DEF Next

LEMMA Stutter ==
  ASSUME ChannelInv, UNCHANGED vars
  PROVE  ChannelInv'
<1>1. /\ UNCHANGED <<heap, value, next, spare, pushs, pops, begin, back, end, w, r, f, c,
                     lock, spc, sent, tokens, rpc, forever, old, last, empty, gaveUp, freed>>
  BY DEF vars, queue, pipe, sender, reader
<1>2. TypeOK' /\ Turns' /\ Flushed' = Flushed /\ Span' = Span
  BY <1>1 DEF ChannelInv, TypeOK, Turns, Phase, Flushed, Span
<1>3. CASE Freed
  BY <1>1, <1>2, <1>3 DEF ChannelInv, Freed, Quiet
<1>4. CASE ~Freed
  <2>1. PICK place \in [Span -> Chunks] : Layout(place)
    BY <1>4 DEF ChannelInv
  <2>2. Layout(place)'
    BY <1>1, <1>2, <2>1, LayoutSame, PointersSame DEF Layout
  <2> QED BY <1>1, <1>2, <1>4, <2>2 DEF ChannelInv, Freed
<1> QED BY <1>3, <1>4

LEMMA LiveOnly ==
  ASSUME ChannelInv, Next
  PROVE  ~Freed
<1> SUFFICES ASSUME Quiet, Freed PROVE FALSE
  BY DEF ChannelInv
<1>1. ASSUME NEW s \in Senders, Store(s) \/ Push(s) \/ Flush(s) \/ SetC(s) \/ Post(s) PROVE FALSE
  BY <1>1 DEF Quiet, Store, Push, Flush, SetC, Post
<1>2. ASSUME ReadBegin \/ Look \/ Swap \/ Take \/ Recycle \/ Await \/ TimedOut \/ Free PROVE FALSE
  BY <1>2 DEF Quiet, ReadBegin, Look, Swap, Take, Recycle, Await, TimedOut, Free
<1> QED BY <1>1, <1>2 DEF Next

LEMMA ChannelStep ==
  ASSUME ChannelInv, [Next]_vars
  PROVE  ChannelInv'
<1>1. CASE UNCHANGED vars
  BY <1>1, Stutter
<1>2. CASE Next
  <2>1. TypeOK /\ Turns /\ ~Freed
    BY <1>2, LiveOnly DEF ChannelInv
  <2>2. PICK place \in [Span -> Chunks] : Layout(place)
    BY <2>1 DEF ChannelInv
  <2>3. TypeOK'
    BY <1>2, <2>1, <2>2, TypeStep
  <2>4. ASSUME NEW q, Layout(q)' PROVE q \in [Span -> Chunks]'
    BY <2>4 DEF Layout, Linked, Span
  <2>5. CASE Free
    <3>1. Freed'
      BY <2>5 DEF Free, Freed
    <3> QED BY <2>1, <2>3, <2>5, <3>1, FreeKeeps DEF ChannelInv
  <2>6. CASE ~Free
    <3>1. freed' = freed
      <4>1. ASSUME NEW s \in Senders, Store(s) \/ Push(s) \/ Flush(s) \/ SetC(s) \/ Post(s) PROVE freed' = freed
        BY <4>1 DEF Store, Push, Flush, SetC, Post
      <4>2. ASSUME ReadBegin \/ Look \/ Swap \/ Take \/ Recycle \/ Await \/ TimedOut PROVE freed' = freed
        BY <4>2 DEF ReadBegin, Look, Swap, Take, Recycle, Await, TimedOut
      <4> QED BY <1>2, <2>6, <4>1, <4>2 DEF Next
    <3>2. Turns' /\ \E q : Layout(q)'
      BY <1>2, <2>1, <2>2, <2>6, StoreKeeps, PushKeeps, FlushKeeps, ReaderKeeps,
         SwapKeeps, TakeKeeps, RecycleKeeps DEF Next
    <3> QED BY <2>1, <2>3, <2>4, <3>1, <3>2 DEF ChannelInv, Freed
  <2> QED BY <2>5, <2>6
<1> QED BY <1>1, <1>2

LEMMA ChannelInit ==
  ASSUME Init
  PROVE  ChannelInv
<1>0. PICK k : k = CHOOSE j \in Chunks : TRUE
  OBVIOUS
<1>1. k \in Chunks /\ k # NoChunk
  BY <1>0, NamesAssumption
<1>2. ChunkSize \in Nat /\ 0 \in 0..(ChunkSize - 1) /\ 1 \in 0..(ChunkSize - 1) /\ MaxMsgs \in Nat
  BY ChunkAssumption, NamesAssumption
<1>3. ChunkNo(0) = 0 /\ Pos(0) = 0 /\ ChunkNo(1) = 0 /\ Pos(1) = 1
  <2>1. 0 * ChunkSize + 0 = 0 /\ 0 * ChunkSize + 1 = 1
    BY <1>2
  <2> QED BY <1>2, <2>1, SlotOf
<1>4. /\ heap = {k} /\ value = [j \in Chunks |-> Empty]
      /\ next = [j \in Chunks |-> NoChunk] /\ spare = NoChunk
      /\ begin = Addr(k, 0) /\ back = Addr(k, 0) /\ end = Addr(k, 1)
      /\ pushs = 1 /\ pops = 0
      /\ w = Addr(k, 0) /\ r = Addr(k, 0) /\ f = Addr(k, 0) /\ c = Addr(k, 0)
      /\ lock = NoSender /\ spc = [s \in Senders |-> "out"]
      /\ sent = 0
      /\ tokens = 0 /\ rpc = "out" /\ forever = FALSE /\ old = NoChunk
      /\ last = NoMsg /\ empty = FALSE /\ gaveUp = FALSE /\ freed = {}
  BY <1>0 DEF Init
<1>5. TypeOK
  <2>1. Empty \in [0..(ChunkSize - 1) -> Msgs \cup {NoMsg}]
    BY DEF Empty
  <2>2. Addr(k, 0) \in Addrs /\ Addr(k, 1) \in Addrs
    BY <1>1, <1>2 DEF Addr, Addrs
  <2>3. /\ heap \subseteq Chunks /\ next \in [Chunks -> Chunks \cup {NoChunk}]
        /\ value \in [Chunks -> [0..(ChunkSize - 1) -> Msgs \cup {NoMsg}]]
        /\ {begin, back, end, w, r, f, c} \subseteq Addrs
        /\ spc \in [Senders -> {"out", "push", "flush", "set", "token"}]
    BY <1>1, <1>4, <2>1, <2>2
  <2>4. sent \in 0..MaxMsgs /\ pushs \in Nat /\ pops \in Nat /\ tokens \in Nat
    BY <1>2, <1>4
  <2> QED BY <1>4, <2>3, <2>4 DEF TypeOK
<1>6. Phase = "out" /\ Flushed = 0
  BY <1>4 DEF Phase, Flushed
<1>7. Turns
  <2>1. c # NullAddr
    BY <1>1, <1>4 DEF NullAddr, Addr
  <2> QED BY <1>4, <1>6, <2>1, NamesAssumption DEF Turns
<1>8. PICK place : place = [i \in 0..0 |-> k]
  OBVIOUS
<1>9. Span = 0..0 /\ place \in [0..0 -> Chunks] /\ place[0] = k /\ \A i \in 0..0 : i = 0
  BY <1>1, <1>3, <1>4, <1>8 DEF Span
<1>10. Linked(place, ChunkNo(pops), ChunkNo(pushs))
  BY <1>3, <1>4, <1>9 DEF Linked
<1>11. Pointers(place)
  BY <1>3, <1>4, <1>6, <1>9 DEF Pointers, Where
<1>12. InUse(place) = {k}
  BY <1>9 DEF InUse
<1>13. ASSUME NEW i \in Span, NEW p \in 0..(ChunkSize - 1)
       PROVE  value[place[i]][p] = Message(i * ChunkSize + p)
  <2>1. i = 0 /\ i * ChunkSize + p = p /\ ~(p < 0)
    BY <1>2, <1>9
  <2>2. value[place[i]][p] = NoMsg
    BY <1>1, <1>4, <1>9, <2>1 DEF Empty
  <2> QED BY <1>4, <2>1, <2>2 DEF Message
<1>14. Layout(place)
  BY <1>1, <1>4, <1>10, <1>11, <1>12, <1>13 DEF Layout
<1> QED BY <1>4, <1>5, <1>7, <1>9, <1>14 DEF ChannelInv, Freed

-----------------------------------------------------------------------------
(* The reader that sleeps, and who wakes it *)

Posting == {s \in Senders : spc[s] = "token"}

\* A sender has put the pointer there for a reader that waits.
Woken == rpc = "await" /\ c # NullAddr

\* Until a call times out, there is one token, or a sender that will write it,
\* exactly when a waiting reader is woken; and then there is a message.
Tokens == ~gaveUp =>
  /\ ~empty
  /\ IF Woken THEN \/ tokens = 1 /\ Posting = {}
                   \/ tokens = 0 /\ \E s \in Senders : Posting = {s}
              ELSE tokens = 0 /\ Posting = {}
  /\ c = NullAddr => rpc = "await"
  /\ Woken \/ rpc \in {"lookAgain", "swapAgain"} => pops < Flushed

\* This much stays true after a time-out.
Owed == rpc = "await" => c = NullAddr \/ tokens > 0 \/ \E s \in Senders : spc[s] = "token"

LEMMA FlushPosts ==
  ASSUME TypeOK, Turns, NEW place, Layout(place), Owed, NEW s \in Senders,
         Flush(s) \/ SetC(s) \/ Post(s)
  PROVE  Owed' /\ (Tokens => Tokens')
<1>1. /\ UNCHANGED <<rpc, empty, gaveUp, pops, pushs>>
      /\ s # NoSender /\ Flushed \in Nat /\ pops \in Nat /\ pops <= Flushed /\ pushs \in Nat
  BY Numbers, NamesAssumption DEF Flush, SetC, Post, queue, reader
<1>2. CASE Flush(s) /\ c = w
  <2>1. /\ c' = f /\ spc' = [spc EXCEPT ![s] = "out"] /\ lock' = NoSender /\ tokens' = tokens
        /\ spc[s] = "flush"
    BY <1>2 DEF Flush
  <2>2. c # NullAddr /\ c' # NullAddr /\ Flushed = pushs - 2 /\ Flushed' = pushs - 1
    <3>1. c = Where(place, Flushed) /\ f = back
      BY <1>2 DEF Layout, Pointers
    <3>2. Where(place, Flushed) # NullAddr
      BY <1>1, Numbers, WhereOne DEF Layout, Span
    <3>3. back # NullAddr
      BY Ends, NamesAssumption DEF NullAddr, Addr
    <3>4. lock = s
      BY <2>1 DEF Turns
    <3> QED BY <1>1, <2>1, <3>1, <3>2, <3>3, <3>4 DEF Flushed, Phase
  <2>3. \A t \in Senders : spc'[t] = "token" <=> spc[t] = "token"
    BY <2>1 DEF TypeOK
  <2>4. Posting' = Posting
    BY <2>3 DEF Posting
  <2> QED BY <1>1, <2>1, <2>2, <2>3, <2>4 DEF Owed, Tokens, Woken
<1>3. CASE Flush(s) /\ c # w
  <2>1. /\ spc' = [spc EXCEPT ![s] = "set"] /\ UNCHANGED <<c, lock, tokens>>
        /\ spc[s] = "flush"
    BY <1>3 DEF Flush
  <2>2. Flushed' = Flushed
    <3>1. lock = s
      BY <2>1 DEF Turns
    <3> QED BY <1>1, <2>1, <3>1 DEF Flushed, Phase, TypeOK
  <2>3. \A t \in Senders : spc'[t] = "token" <=> spc[t] = "token"
    BY <2>1 DEF TypeOK
  <2>4. Posting' = Posting
    BY <2>3 DEF Posting
  <2> QED BY <1>1, <2>1, <2>2, <2>3, <2>4 DEF Owed, Tokens, Woken
<1>4. CASE SetC(s)
  <2>1. /\ c' = f /\ spc' = [spc EXCEPT ![s] = "token"] /\ lock' = NoSender /\ tokens' = tokens
        /\ spc[s] = "set"
    BY <1>4 DEF SetC
  <2>2. c = NullAddr /\ c' # NullAddr /\ Flushed = pushs - 2 /\ Flushed' = pushs - 1
    <3>1. f = back /\ back # NullAddr
      BY Ends, NamesAssumption DEF Layout, Pointers, NullAddr, Addr
    <3>2. lock = s
      BY <2>1 DEF Turns
    <3>3. Phase = "set"
      BY <1>1, <2>1, <3>2 DEF Phase
    <3> QED BY <1>1, <2>1, <3>1, <3>3 DEF Turns, Flushed, Phase
  <2>3. spc'[s] = "token" /\ \A t \in Senders : t # s => spc'[t] = spc[t]
    BY <2>1 DEF TypeOK
  <2>4. Posting = {} => Posting' = {s}
    BY <2>3 DEF Posting
  <2>5. pops < Flushed'
    BY <1>1, <2>2
  <2> QED BY <1>1, <2>1, <2>2, <2>3, <2>4, <2>5 DEF Owed, Tokens, Woken
<1>5. CASE Post(s)
  <2>1. /\ spc' = [spc EXCEPT ![s] = "out"] /\ UNCHANGED <<c, lock>> /\ tokens' = tokens + 1
        /\ spc[s] = "token" /\ tokens \in Nat
    BY <1>5 DEF Post, pipe, TypeOK
  <2>2. Flushed' = Flushed
    <3>1. lock # s
      BY <2>1 DEF Turns
    <3> QED BY <1>1, <2>1, <3>1 DEF Flushed, Phase, TypeOK
  <2>3. s \in Posting /\ \A t : Posting = {t} => Posting' = {}
    BY <2>1 DEF Posting, TypeOK
  <2>4. tokens' > 0 /\ (tokens = 0 => tokens' = 1)
    BY <2>1
  <2> QED BY <1>1, <2>1, <2>2, <2>3, <2>4 DEF Owed, Tokens, Woken
<1> QED BY <1>2, <1>3, <1>4, <1>5

LEMMA ReaderTakes ==
  ASSUME TypeOK, Turns, NEW place, Layout(place), Owed,
         ReadBegin \/ Look \/ Swap \/ Take \/ Recycle \/ Await \/ TimedOut
  PROVE  Owed' /\ (Tokens => Tokens')
<1>1. UNCHANGED <<spc, lock, pushs>>
  BY DEF ReadBegin, Look, Swap, Take, Recycle, Await, TimedOut, sender, queue
<1>2. Posting' = Posting /\ Flushed' = Flushed
  BY <1>1 DEF Posting, Flushed, Phase
<1>3. CASE ReadBegin
  BY <1>1, <1>2, <1>3 DEF ReadBegin, pipe, queue, Owed, Tokens, Woken
<1>4. CASE Look
  <2>1. /\ rpc \in {"look", "lookAgain"} /\ UNCHANGED <<c, pops, tokens, empty, gaveUp>>
        /\ rpc' \in {"take", "swap", "swapAgain"} /\ (rpc' = "swapAgain" => rpc = "lookAgain")
    BY <1>4 DEF Look, pipe, queue
  <2> QED BY <1>1, <1>2, <2>1 DEF Owed, Tokens, Woken
<1>5. CASE Swap
  <2>1. /\ UNCHANGED <<pops, tokens, gaveUp>> /\ c' = IF c = begin THEN NullAddr ELSE c
        /\ rpc \in {"swap", "swapAgain"} /\ r' = c
    BY <1>5 DEF Swap, queue
  <2>2. /\ begin # NullAddr /\ c \in {Where(place, Flushed), NullAddr}
        /\ (c = begin => Flushed = pops) /\ pops \in Nat /\ Flushed \in Nat
    <3>1. begin = Where(place, pops) /\ c \in {Where(place, Flushed), NullAddr}
      BY DEF Layout, Pointers
    <3>2. pops \in Nat /\ Flushed \in Nat /\ ChunkNo(pops) \in Span /\ ChunkNo(Flushed) \in Span
      BY Numbers
    <3>3. Where(place, pops) # NullAddr /\ (Where(place, Flushed) = Where(place, pops) => Flushed = pops)
      BY <3>2, WhereOne DEF Layout, Span
    <3> QED BY <3>1, <3>2, <3>3
  <2>3. CASE c \notin {begin, NullAddr}
    <3>1. c' = c /\ rpc' = "take" /\ empty' = empty
      BY <1>5, <2>1, <2>3 DEF Swap
    <3> QED BY <1>1, <1>2, <2>1, <3>1 DEF Owed, Tokens, Woken
  <2>4. CASE c \in {begin, NullAddr} /\ rpc = "swap"
    <3>1. c' = NullAddr /\ rpc' = "await" /\ empty' = empty
      BY <1>5, <2>1, <2>4 DEF Swap
    <3> QED BY <1>1, <1>2, <2>1, <2>4, <3>1 DEF Owed, Tokens, Woken
  <2>5. CASE c \in {begin, NullAddr} /\ rpc = "swapAgain"
    <3>1. c' = NullAddr /\ rpc' = "out"
      BY <1>5, <2>1, <2>5 DEF Swap
    <3>2. ~gaveUp => ~Tokens
      <4> SUFFICES ASSUME ~gaveUp, Tokens PROVE FALSE
        OBVIOUS
      <4>1. c # NullAddr /\ pops < Flushed
        BY <2>5 DEF Tokens
      <4> QED BY <2>2, <2>5, <4>1
    <3> QED BY <2>1, <3>1, <3>2 DEF Owed, Tokens
  <2> QED BY <2>1, <2>3, <2>4, <2>5
<1>6. CASE Take
  <2>1. /\ rpc = "take" /\ UNCHANGED <<c, tokens, empty, gaveUp>> /\ rpc' \in {"out", "recycle"}
    BY <1>6 DEF Take, pipe
  <2> QED BY <1>1, <1>2, <2>1 DEF Owed, Tokens, Woken
<1>7. CASE Recycle
  BY <1>1, <1>2, <1>7 DEF Recycle, pipe, Owed, Tokens, Woken
<1>8. CASE Await
  <2>1. /\ rpc = "await" /\ tokens > 0 /\ tokens' = tokens - 1 /\ rpc' = "lookAgain"
        /\ UNCHANGED <<c, pops, empty, gaveUp>> /\ tokens \in Nat
    BY <1>8 DEF Await, pipe, queue, TypeOK
  <2>2. Tokens /\ ~gaveUp => ~empty /\ c # NullAddr /\ Woken /\ tokens = 1 /\ Posting = {} /\ pops < Flushed
    BY <2>1 DEF Tokens, Woken
  <2>3. tokens = 1 => tokens' = 0
    BY <2>1
  <2> QED BY <1>1, <1>2, <2>1, <2>2, <2>3 DEF Owed, Tokens, Woken
<1>9. CASE TimedOut
  BY <1>9 DEF TimedOut, Owed, Tokens
<1> QED BY <1>3, <1>4, <1>5, <1>6, <1>7, <1>8, <1>9

LEMMA StoreTokens ==
  ASSUME TypeOK, Turns, Owed, NEW s \in Senders, Store(s) \/ Push(s)
  PROVE  Owed' /\ (Tokens => Tokens')
<1>1. UNCHANGED <<c, tokens, rpc, empty, gaveUp, pops>>
  BY DEF Store, Push, pipe, reader
<1>2. \A t \in Senders : spc'[t] = "token" <=> spc[t] = "token"
  BY DEF Store, Push, TypeOK
<1>3. Posting' = Posting
  BY <1>2 DEF Posting
<1>4. Flushed' = Flushed
  <2>1. s # NoSender /\ pushs \in Nat
    BY NamesAssumption DEF TypeOK
  <2>2. CASE Store(s)
    <3>1. /\ lock = NoSender /\ lock' = s /\ pushs' = pushs /\ spc' = [spc EXCEPT ![s] = "push"]
      BY <2>2 DEF Store
    <3> QED BY <2>1, <3>1 DEF Flushed, Phase, TypeOK
  <2>3. CASE Push(s)
    <3>1. /\ lock = s /\ lock' = s /\ pushs' = pushs + 1 /\ spc' = [spc EXCEPT ![s] = "flush"]
          /\ spc[s] = "push"
      BY <2>3 DEF Push, Turns
    <3>2. Phase = "push" /\ Phase' = "flush"
      BY <2>1, <3>1 DEF Phase, TypeOK
    <3> QED BY <2>1, <3>1, <3>2 DEF Flushed
  <2> QED BY <2>2, <2>3
<1> QED BY <1>1, <1>2, <1>3, <1>4 DEF Owed, Tokens, Woken

-----------------------------------------------------------------------------
(* What the mailbox holds, and what a step does to it *)

Held == [i \in 1..(pushs - 1 - pops) |-> pops + i]
Box == IF Freed THEN <<>> ELSE Contents

LEMMA BoxIs == ChannelInv => Box = IF Freed THEN <<>> ELSE Held
BY ContentsAre DEF ChannelInv, Box, Held

LEMMA HeldFacts ==
  ASSUME TypeOK, Turns
  PROVE  /\ Held \in Seq(Nat) /\ Len(Held) = pushs - 1 - pops
         /\ \A i \in 1..Len(Held) : Held[i] = pops + i
         /\ pops \in Nat /\ pushs \in Nat /\ pushs - 1 - pops \in Nat
<1>1. pops \in Nat /\ pushs \in Nat /\ pushs - 1 - pops \in Nat
  BY Numbers
<1>2. PICK n \in Nat : n = pushs - 1 - pops
  BY <1>1
<1>3. Held = [i \in 1..n |-> pops + i]
  BY <1>2 DEF Held
<1>4. \A i \in 1..n : pops + i \in Nat
  BY <1>1
<1> QED BY <1>1, <1>2, <1>3, <1>4

LEMMA HeldStep ==
  ASSUME ChannelInv, ChannelInv', Next, ~Freed
  PROVE  \/ UNCHANGED <<Freed, Held, last>>
         \/ /\ ~Freed' /\ UNCHANGED last
            /\ \E m \in Msgs : Held' = Append(Held, m)
         \/ /\ ~Freed' /\ Held # <<>> /\ last' = Head(Held) /\ Held' = Tail(Held)
         \/ Freed' /\ UNCHANGED last
<1>0. /\ Held \in Seq(Nat) /\ Len(Held) = pushs - 1 - pops
      /\ \A i \in 1..Len(Held) : Held[i] = pops + i
      /\ pops \in Nat /\ pushs \in Nat /\ pushs - 1 - pops \in Nat
  BY HeldFacts DEF ChannelInv
<1>1. ASSUME NEW s \in Senders, Store(s) \/ Flush(s) \/ SetC(s) \/ Post(s)
      PROVE UNCHANGED <<Freed, Held, last>>
  BY <1>1 DEF Store, Flush, SetC, Post, queue, reader, Freed, Held
<1>2. ASSUME ReadBegin \/ Look \/ Swap \/ Recycle \/ Await \/ TimedOut
      PROVE UNCHANGED <<Freed, Held, last>>
  BY <1>2 DEF ReadBegin, Look, Swap, Recycle, Await, TimedOut, queue, Freed, Held
<1>3. ASSUME NEW s \in Senders, Push(s)
      PROVE  ~Freed' /\ UNCHANGED last /\ \E m \in Msgs : Held' = Append(Held, m)
  <2>1. pushs' = pushs + 1 /\ UNCHANGED <<pops, freed, last>>
    BY <1>3 DEF Push, reader
  <2>2. pushs \in Msgs
    <3>1. lock = s /\ Phase = "push"
      BY <1>3, NamesAssumption DEF Push, Phase, ChannelInv, Turns
    <3> QED BY <3>1, NamesAssumption DEF ChannelInv, Turns, TypeOK, Msgs
  <2>3. Held' = [i \in 1..(pushs - pops) |-> pops + i]
    BY <1>0, <2>1 DEF Held
  <2>4. /\ Append(Held, pushs) \in Seq(Nat) /\ Len(Append(Held, pushs)) = Len(Held) + 1
        /\ \A i \in 1..Len(Held) : Append(Held, pushs)[i] = Held[i]
        /\ Append(Held, pushs)[Len(Held) + 1] = pushs
    BY <1>0, AppendProperties
  <2>5. Held' \in Seq(Nat) /\ Len(Held') = pushs - pops
    <3>1. PICK n \in Nat : n = pushs - pops
      BY <1>0
    <3>2. \A i \in 1..n : pops + i \in Nat
      BY <1>0
    <3> QED BY <2>3, <3>1, <3>2
  <2>6. ASSUME NEW i \in 1..Len(Held') PROVE Held'[i] = Append(Held, pushs)[i]
    <3>1. Held'[i] = pops + i
      BY <2>3, <2>5
    <3>2. i \in 1..Len(Held) \/ (i = Len(Held) + 1 /\ pops + i = pushs)
      BY <1>0, <2>5
    <3> QED BY <1>0, <2>4, <3>1, <3>2
  <2>7. Held' = Append(Held, pushs)
    <3>1. Len(Held') = Len(Append(Held, pushs))
      BY <1>0, <2>4, <2>5
    <3> QED BY <2>4, <2>5, <2>6, <3>1, SeqEqual
  <2> QED BY <2>1, <2>2, <2>7 DEF Freed
<1>4. ASSUME Take
      PROVE  ~Freed' /\ Held # <<>> /\ last' = Head(Held) /\ Held' = Tail(Held)
  <2>1. pops' = pops + 1 /\ UNCHANGED <<pushs, freed>> /\ last' = Slot(begin)
    BY <1>4 DEF Take
  <2>2. PICK place \in [Span -> Chunks] : Layout(place)
    BY DEF ChannelInv
  <2>3. pops < Flushed /\ Flushed <= pushs - 1 /\ pops < sent /\ ChunkNo(pops) \in Span /\ Flushed \in Nat
    <3>1. \E n \in (pops + 1)..Flushed : r = Where(place, n)
      BY <1>4, <2>2 DEF Take, Layout, Pointers
    <3> QED BY <3>1, Numbers DEF ChannelInv
  <2>4. last' = pops + 1
    <3>1. begin.chunk = place[ChunkNo(pops)] /\ begin.pos = Pos(pops)
      BY <2>2, Ends DEF ChannelInv
    <3>2. value[place[ChunkNo(pops)]][Pos(pops)] = Message(pops)
      BY <1>0, <2>2, <2>3, SlotValue
    <3> QED BY <2>1, <2>3, <3>1, <3>2 DEF Slot, Message
  <2>5. Held # <<>> /\ Head(Held) = pops + 1
    <3>1. Len(Held) > 0
      BY <1>0, <2>3
    <3> QED BY <1>0, <3>1
  <2>6. /\ Tail(Held) \in Seq(Nat) /\ Len(Tail(Held)) = Len(Held) - 1
        /\ \A i \in 1..Len(Tail(Held)) : Tail(Held)[i] = Held[i + 1]
    BY <1>0, <2>5, HeadTailProperties
  <2>7. Held' = [i \in 1..(pushs - 1 - (pops + 1)) |-> (pops + 1) + i]
    BY <2>1 DEF Held
  <2>8. Held' \in Seq(Nat) /\ Len(Held') = pushs - 1 - (pops + 1)
    <3>1. PICK n \in Nat : n = pushs - 1 - (pops + 1)
      BY <1>0, <2>3
    <3>2. \A i \in 1..n : (pops + 1) + i \in Nat
      BY <1>0
    <3> QED BY <2>7, <3>1, <3>2
  <2>9. ASSUME NEW i \in 1..Len(Held') PROVE Held'[i] = Tail(Held)[i]
    <3>1. Held'[i] = (pops + 1) + i
      BY <2>7, <2>8
    <3>2. i \in 1..Len(Tail(Held)) /\ i + 1 \in 1..Len(Held) /\ i \in Nat
      BY <1>0, <2>6, <2>8
    <3>3. Tail(Held)[i] = pops + (i + 1)
      BY <1>0, <2>6, <3>2
    <3> QED BY <1>0, <3>1, <3>2, <3>3
  <2>10. Held' = Tail(Held)
    <3>1. Len(Held') = Len(Tail(Held))
      BY <1>0, <2>6, <2>8
    <3> QED BY <2>6, <2>8, <2>9, <3>1, SeqEqual
  <2> QED BY <2>1, <2>4, <2>5, <2>10 DEF Freed
<1>5. ASSUME Free PROVE Freed' /\ UNCHANGED last
  BY <1>5 DEF Free, Freed, reader
<1> QED BY <1>1, <1>2, <1>3, <1>4, <1>5 DEF Next

-----------------------------------------------------------------------------
(* The theorems *)

MailInv == ChannelInv /\ Owed /\ Tokens /\ FreeComplete

LEMMA FreedWhole ==
  ASSUME ChannelInv, FreeComplete, [Next]_vars
  PROVE  FreeComplete'
<1>1. CASE UNCHANGED vars
  <2>1. UNCHANGED <<heap, value, next, begin, pushs, pops, freed>>
    BY <1>1 DEF vars, queue
  <2>2. Contents' = Contents
    BY <2>1 DEF Contents, After
  <2> QED BY <2>1, <2>2 DEF FreeComplete
<1>2. CASE Next /\ ~Free
  <2>1. freed = {}
    BY <1>2, LiveOnly DEF Freed
  <2>2. ASSUME NEW s \in Senders, Store(s) \/ Push(s) \/ Flush(s) \/ SetC(s) \/ Post(s) PROVE freed' = freed
    BY <2>2 DEF Store, Push, Flush, SetC, Post
  <2>3. ASSUME ReadBegin \/ Look \/ Swap \/ Take \/ Recycle \/ Await \/ TimedOut PROVE freed' = freed
    BY <2>3 DEF ReadBegin, Look, Swap, Take, Recycle, Await, TimedOut
  <2> QED BY <1>2, <2>1, <2>2, <2>3 DEF Next, FreeComplete
<1>3. CASE Free
  <2>1. ~Freed /\ TypeOK /\ Turns
    BY <1>3 DEF Free, ChannelInv
  <2>2. PICK place \in [Span -> Chunks] : Layout(place)
    BY <2>1 DEF ChannelInv
  <2>3. heap' = {} /\ freed' = {(pops + 1)..(pushs - 1)}
    BY <1>3, <2>1, <2>2, FreeFinds
  <2>4. Contents' = Contents
    BY <1>3 DEF Free, Contents, After
  <2>5. Contents = Held
    BY <2>1, <2>2, ContentsAre DEF Held
  <2>6. (pops + 1)..(pushs - 1) = {Held[i] : i \in DOMAIN Held}
    <3>1. pops \in Nat /\ pushs \in Nat
      BY <2>1, Numbers
    <3>2. DOMAIN Held = 1..(pushs - 1 - pops) /\ \A i \in DOMAIN Held : Held[i] = pops + i
      BY DEF Held
    <3>3. \A m \in (pops + 1)..(pushs - 1) : m - pops \in DOMAIN Held /\ m = pops + (m - pops)
      BY <3>1, <3>2
    <3>4. \A i \in DOMAIN Held : pops + i \in (pops + 1)..(pushs - 1)
      BY <3>1, <3>2
    <3> HIDE DEF Held
    <3> QED BY <3>2, <3>3, <3>4
  <2> QED BY <2>3, <2>4, <2>5, <2>6 DEF FreeComplete
<1> QED BY <1>1, <1>2, <1>3

LEMMA MailStep ==
  ASSUME MailInv, [Next]_vars
  PROVE  MailInv'
<1>1. ChannelInv /\ Owed /\ Tokens /\ FreeComplete
  BY DEF MailInv
<1>2. ChannelInv' /\ FreeComplete'
  BY <1>1, ChannelStep, FreedWhole
<1>3. CASE UNCHANGED vars
  BY <1>1, <1>2, <1>3 DEF MailInv, Owed, Tokens, Woken, Posting, Flushed, Phase, vars, queue, pipe, sender, reader
<1>4. CASE Next
  <2>1. TypeOK /\ Turns /\ ~Freed
    BY <1>1, <1>4, LiveOnly DEF ChannelInv
  <2>2. PICK place \in [Span -> Chunks] : Layout(place)
    BY <1>1, <2>1 DEF ChannelInv
  <2>3. CASE Free
    BY <1>1, <1>2, <2>3 DEF MailInv, Owed, Tokens, Woken, Posting, Flushed, Phase, Free, pipe, sender, reader
  <2>4. CASE ~Free
    BY <1>1, <1>2, <1>4, <2>1, <2>2, <2>4, StoreTokens, FlushPosts, ReaderTakes DEF MailInv, Next
  <2> QED BY <2>3, <2>4
<1> QED BY <1>3, <1>4

LEMMA MailInit ==
  ASSUME Init
  PROVE  MailInv
<1>1. ChannelInv
  BY ChannelInit
<1>2. (CHOOSE j \in Chunks : TRUE) \in Chunks
  BY NamesAssumption
<1>3. c # NullAddr
  BY <1>2, NamesAssumption DEF Init, Addr, NullAddr
<1>4. Owed /\ Tokens /\ FreeComplete
  BY <1>3 DEF Init, Owed, Tokens, Woken, Posting, FreeComplete
<1> QED BY <1>1, <1>4 DEF MailInv

LEMMA MailInvariant == Spec => []MailInv
BY MailInit, MailStep, PTL DEF Spec

LEMMA Pointing ==
  ASSUME TypeOK, Turns, NEW place, Layout(place), ~Freed
  PROVE  PointersLive
<1>1. /\ heap = InUse(place) \cup ({spare, old} \ {NoChunk})
      /\ {spare, old} \cap InUse(place) = {}
  BY DEF Layout
<1>2. {begin.chunk, back.chunk, end.chunk} \subseteq InUse(place)
  BY Ends
<1>3. ASSUME NEW n \in Nat, ChunkNo(n) \in Span PROVE Where(place, n).chunk \in InUse(place)
  BY <1>3 DEF Where, Addr, InUse
<1>4. \A n \in pops..Flushed : n \in Nat /\ ChunkNo(n) \in Span
  BY Numbers
<1>5. Flushed \in pops..Flushed
  BY Numbers
<1>6. \A a \in {w, r, f, c} : a = NullAddr \/ a.chunk \in heap
  <2>1. \A a \in {w, r, c} : a = NullAddr \/ \E n \in pops..Flushed : a = Where(place, n)
    BY <1>5 DEF Layout, Pointers
  <2>2. f = back
    BY DEF Layout, Pointers
  <2> QED BY <1>1, <1>2, <1>3, <1>4, <2>1, <2>2
<1>7. ChainTo(end.chunk) = InUse(place)
  <2>1. ChunkNo(pushs) \in Span /\ end.chunk = place[ChunkNo(pushs)]
    BY Numbers, Ends
  <2> QED BY <2>1, ChainIs DEF InUse, Span
<1> QED BY <1>1, <1>2, <1>6, <1>7 DEF PointersLive

LEMMA Unused ==
  ASSUME TypeOK, Turns, NEW place, Layout(place)
  PROVE  UnusedSlotsNull
<1>0. PICK hi, bk : hi = ChunkNo(pushs) /\ bk = ChunkNo(pushs - 1)
  OBVIOUS
<1>1. /\ pushs \in Nat /\ pushs - 1 \in Nat /\ sent \in Nat /\ pushs - 1 <= sent /\ sent <= pushs
      /\ hi \in Span /\ bk \in Span /\ hi \in Nat /\ bk \in Nat /\ ChunkSize \in Nat
  <2>1. /\ pushs \in Nat /\ pushs - 1 \in Nat /\ sent \in Nat /\ pushs - 1 <= sent /\ sent <= pushs
        /\ pops \in Nat /\ pops <= pushs - 1 /\ \A n \in pops..pushs : ChunkNo(n) \in Span
    BY Numbers
  <2>2. ChunkNo(pushs) \in Span /\ ChunkNo(pushs - 1) \in Span
    BY <2>1
  <2>3. ChunkNo(pushs) \in Nat /\ ChunkNo(pushs - 1) \in Nat
    BY <2>1, Slots
  <2> QED BY <1>0, <2>1, <2>2, <2>3, ChunkAssumption
<1>2. /\ back.chunk = place[bk] /\ back.pos = Pos(pushs - 1) /\ end.chunk = place[hi]
      /\ back.pos \in 0..(ChunkSize - 1) /\ end.chunk \in Chunks
  BY <1>0, Ends
<1>3. pushs - 1 = bk * ChunkSize + Pos(pushs - 1) /\ bk * ChunkSize \in Nat
  <2>1. \A i \in Nat : i * ChunkSize \in Nat
    BY <1>1
  <2>2. pushs - 1 = ChunkNo(pushs - 1) * ChunkSize + Pos(pushs - 1)
    BY <1>1, Slots
  <2> QED BY <1>0, <1>1, <2>1, <2>2
<1>4. ASSUME NEW p \in 0..(ChunkSize - 1),
             p > back.pos \/ (p = back.pos /\ \A s \in Senders : spc[s] # "push")
      PROVE  value[back.chunk][p] = NoMsg
  <2>1. value[back.chunk][p] = Message(bk * ChunkSize + p)
    BY <1>1, <1>2 DEF Layout
  <2>2. ~(bk * ChunkSize + p < sent)
    <3>1. CASE p > back.pos
      BY <1>1, <1>2, <1>3, <3>1
    <3>2. CASE p = back.pos /\ \A s \in Senders : spc[s] # "push"
      <4>1. sent = pushs - 1
        BY <3>2 DEF Turns, Phase, TypeOK
      <4> QED BY <1>1, <1>2, <1>3, <3>2, <4>1
    <3> QED BY <1>4, <3>1, <3>2
  <2> QED BY <2>1, <2>2 DEF Message
<1>5. ASSUME end.chunk # back.chunk PROVE value[end.chunk] = Empty
  <2>1. hi # bk
    BY <1>2, <1>5
  <2>2. Pos(pushs) = 0
    <3>1. (pushs - 1) + 1 = pushs
      BY <1>1
    <3> QED BY <1>0, <1>1, <2>1, <3>1, SlotNext
  <2>3. pushs = hi * ChunkSize
    <3>1. pushs = hi * ChunkSize + Pos(pushs)
      BY <1>0, <1>1, Slots
    <3>2. \A i \in Nat : i * ChunkSize \in Nat
      BY <1>1
    <3> QED BY <1>1, <2>2, <3>1, <3>2
  <2>4. ASSUME NEW p \in 0..(ChunkSize - 1) PROVE value[end.chunk][p] = NoMsg
    <3>1. value[end.chunk][p] = Message(hi * ChunkSize + p)
      BY <1>1, <1>2 DEF Layout
    <3>2. ~(hi * ChunkSize + p < sent)
      BY <1>1, <2>3
    <3> QED BY <3>1, <3>2 DEF Message
  <2>5. value[end.chunk] \in [0..(ChunkSize - 1) -> Msgs \cup {NoMsg}]
    BY <1>2 DEF TypeOK
  <2> QED BY <2>4, <2>5 DEF Empty
<1> QED BY <1>4, <1>5 DEF UnusedSlotsNull

\* The memory that the senders and the reader share without a lock is sound:
\* no pointer leads into a freed chunk, a slot yet to be filled is NULL, and
\* acl_mbox_free hands over what is in the box and leaves no chunk.
THEOREM MemorySound == Spec => []ChunksSound
<1>1. MailInv => ChunksSound
  <2> SUFFICES ASSUME MailInv PROVE ChunksSound
    OBVIOUS
  <2>1. TypeOK /\ Turns /\ FreeComplete
    BY DEF MailInv, ChannelInv
  <2>2. CASE Freed
    BY <2>1, <2>2 DEF ChunksSound, PointersLive, UnusedSlotsNull
  <2>3. CASE ~Freed
    <3>1. PICK place \in [Span -> Chunks] : Layout(place)
      BY <2>3 DEF MailInv, ChannelInv
    <3> QED BY <2>1, <2>3, <3>1, Pointing, Unused DEF ChunksSound
  <2> QED BY <2>2, <2>3
<1> QED BY <1>1, MailInvariant, PTL

\* A reader that waits while there is a message has a token, or a sender that
\* is about to write one; a read without a time limit finds nothing only after
\* another read has timed out.
THEOREM NoLostWakeup == Spec => []WaitSound
<1>1. MailInv => WaitSound
  <2> SUFFICES ASSUME MailInv PROVE WaitSound
    OBVIOUS
  <2>1. TypeOK /\ Turns /\ Owed /\ Tokens
    BY DEF MailInv, ChannelInv
  <2>2. EmptyOnlyAfterTimeOut
    BY <2>1 DEF EmptyOnlyAfterTimeOut, Tokens
  <2>3. ASSUME rpc = "await", c = NullAddr PROVE w = begin
    <3>1. ~Freed
      BY <2>3 DEF MailInv, ChannelInv, Quiet
    <3>2. PICK place \in [Span -> Chunks] : Layout(place)
      BY <3>1 DEF MailInv, ChannelInv
    <3>3. Flushed = pops
      BY <2>1, <2>3 DEF Turns
    <3> QED BY <3>2, <3>3 DEF Layout, Pointers
  <2>4. WakeupOwed
    BY <2>1, <2>3 DEF Owed, WakeupOwed
  <2> QED BY <2>2, <2>4 DEF WaitSound
<1> QED BY <1>1, MailInvariant, PTL

\* The mailbox is a channel, for any number of senders and any chunk size:
\* messages come out in the order they went in, each once, none made up.
THEOREM MailboxImplementsChannel == Spec => ImplementsChannel
<1>1. Init => Channel!Init
  <2> SUFFICES ASSUME Init PROVE Box = <<>> /\ last = NoMsg
    BY DEF Channel!Init, Box
  <2>1. ChannelInv /\ ~Freed /\ pushs = 1 /\ pops = 0 /\ last = NoMsg
    BY ChannelInit DEF Init, Freed
  <2>2. Held \in Seq(Nat) /\ Len(Held) = 0
    BY <2>1, HeldFacts DEF ChannelInv
  <2> QED BY <2>1, <2>2, BoxIs
<1>2. (ChannelInv => Box = IF Freed THEN <<>> ELSE Held)'
  BY BoxIs, PTL
<1>3. ASSUME MailInv, MailInv', [Next]_vars
      PROVE  [Channel!Send \/ Channel!Read \/ Channel!Discard]_(Channel!vars)
  <2>1. ChannelInv /\ ChannelInv'
    BY <1>3 DEF MailInv
  <2>2. Box = (IF Freed THEN <<>> ELSE Held) /\ Box' = (IF Freed' THEN <<>> ELSE Held')
    BY <1>2, <2>1, BoxIs
  <2>3. CASE UNCHANGED vars
    <3>1. Box' = Box /\ last' = last
      BY <2>3 DEF Box, Freed, Contents, After, vars, queue, reader
    <3> QED BY <3>1 DEF Channel!vars, Box
  <2>4. CASE Next
    <3>1. ~Freed
      BY <2>1, <2>4, LiveOnly
    <3>2. CASE UNCHANGED <<Freed, Held, last>>
      <4>1. Box' = Box /\ last' = last
        BY <2>2, <3>2
      <4> QED BY <4>1 DEF Channel!vars, Box
    <3>3. CASE ~Freed' /\ UNCHANGED last /\ \E m \in Msgs : Held' = Append(Held, m)
      <4>1. last' = last /\ \E m \in Msgs : Box' = Append(Box, m)
        BY <2>2, <3>1, <3>3
      <4> QED BY <4>1 DEF Channel!Send, Box
    <3>4. CASE ~Freed' /\ Held # <<>> /\ last' = Head(Held) /\ Held' = Tail(Held)
      <4>1. Box # <<>> /\ last' = Head(Box) /\ Box' = Tail(Box)
        BY <2>2, <3>1, <3>4
      <4> QED BY <4>1 DEF Channel!Read, Box
    <3>5. CASE Freed' /\ UNCHANGED last
      <4>1. Box' = <<>> /\ last' = last
        BY <2>2, <3>5
      <4> QED BY <4>1 DEF Channel!Discard, Box
    <3> QED BY <2>1, <2>4, <3>1, <3>2, <3>3, <3>4, <3>5, HeldStep
  <2> QED BY <1>3, <2>3, <2>4
<1>4. MailInv /\ MailInv' /\ [Next]_vars
        => [Channel!Send \/ Channel!Read \/ Channel!Discard]_(Channel!vars)
  BY <1>3
<1> QED BY <1>1, <1>4, MailInvariant, PTL DEF Spec, ImplementsChannel, Channel!Spec

=============================================================================
