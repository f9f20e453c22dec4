--------------------------- MODULE ConnPoolProofs ---------------------------
(***************************************************************************)
(* Theorems about ConnPool for any number of threads and connections, any  *)
(* limit and any clock: the pool is sound, it implements ConnLease, and a  *)
(* dead pool comes back on its own only after retry_inter_.                *)
(***************************************************************************)
EXTENDS ConnPool, FiniteSetTheorems, SequenceTheorems, WellFoundedInduction, TLAPS

-----------------------------------------------------------------------------
(* check_idle keeps a prefix of the idle list. *)

\* A set of numbers up to n that is not empty has a greatest element.
LEMMA GreatestElement ==
  ASSUME NEW n \in Nat, NEW S \in SUBSET (0..n), S # {}
  PROVE  \E k \in S : \A i \in S : i <= k
<1> DEFINE T == {n - i : i \in S}
<1>1. T \subseteq Nat /\ T # {}
  <2>1. \A i \in S : n - i \in Nat
    OBVIOUS
  <2> QED BY <2>1, Zenon
<1>2. PICK x \in T : \A y \in T : ~(<<y, x>> \in OpToRel(<, Nat))
  BY <1>1, WFMin, NatLessThanWellFounded
<1>3. \A y \in T : ~(y < x)
  BY <1>1, <1>2 DEF OpToRel
<1>4. PICK k \in S : x = n - k
  BY Zenon
<1>5. ASSUME NEW i \in S PROVE i <= k
  <2>1. n - i \in T
    BY <1>5, Zenon
  <2>2. ~(n - i < n - k)
    BY <2>1, <1>3, <1>4, Zenon
  <2>3. i \in Int /\ k \in Int
    OBVIOUS
  <2> HIDE DEF T
  <2> QED BY <2>2, <2>3
<1> QED BY <1>5

LEMMA SurvivorsRange ==
  ASSUME NEW p \in Seq(Conns), NEW w, NEW ttl
  PROVE  Survivors(p, w, ttl) \in 0..Len(p)
<1> DEFINE S == {k \in 0..Len(p) : k > 0 => ~Expired(w, p[k], ttl)}
<1>1. 0 \in S /\ S \in SUBSET (0..Len(p)) /\ Len(p) \in Nat
  OBVIOUS
<1>2. PICK k \in S : \A i \in S : i <= k
  <2> HIDE DEF S
  <2> QED BY <1>1, GreatestElement
<1>3. \A i \in (k + 1)..Len(p) : Expired(w, p[i], ttl)
  BY <1>1, <1>2
<1> QED BY <1>2, <1>3 DEF Survivors

LEMMA CheckedPrefix ==
  ASSUME NEW p \in Seq(Conns), NEW n \in 0..(Word - 1), NEW w, NEW ttl \in Int,
         Len(p) < Word
  PROVE  /\ Checked(p, n, w, ttl).count \in 0..(Word - 1)
         /\ \E k \in 0..Len(p) :
              /\ Checked(p, n, w, ttl).pool = SubSeq(p, 1, k)
              /\ ttl # 0 => Checked(p, n, w, ttl).count = Less(n, Len(p) - k)
<1> USE WordAssumption
<1>0. Len(p) \in Nat /\ Word \in Nat
  OBVIOUS
<1>1. CASE ttl < 0 \/ p = <<>>
  <2>1. Checked(p, n, w, ttl) = [pool |-> p, count |-> n]
    BY <1>1 DEF Checked
  <2>2. SubSeq(p, 1, Len(p)) = p
    BY SubSeqFull
  <2>3. Less(n, Len(p) - Len(p)) = n
    BY <1>0 DEF Less
  <2>4. Len(p) \in 0..Len(p)
    BY <1>0
  <2>5. Checked(p, n, w, ttl).pool = p /\ Checked(p, n, w, ttl).count = n
    BY <2>1
  <2> QED BY <2>2, <2>3, <2>4, <2>5, Zenon
<1>2. CASE ~(ttl < 0 \/ p = <<>>) /\ ttl = 0
  <2>1. Checked(p, n, w, ttl) = [pool |-> <<>>, count |-> 0]
    BY <1>2 DEF Checked
  <2>2. SubSeq(p, 1, 0) = <<>>
    BY SubSeqEmpty
  <2>3. 0 \in 0..Len(p) /\ 0 \in 0..(Word - 1)
    BY <1>0
  <2>4. Checked(p, n, w, ttl).pool = <<>> /\ Checked(p, n, w, ttl).count = 0
    BY <2>1
  <2> QED BY <1>2, <2>2, <2>3, <2>4, Zenon
<1>3. CASE ~(ttl < 0 \/ p = <<>>) /\ ttl # 0
  <2> DEFINE k == Survivors(p, w, ttl)
  <2>1. Checked(p, n, w, ttl) = [pool |-> SubSeq(p, 1, k), count |-> Less(n, Len(p) - k)]
    BY <1>3 DEF Checked
  <2>2. k \in 0..Len(p)
    BY SurvivorsRange
  <2> HIDE DEF k
  <2>3. Less(n, Len(p) - k) \in 0..(Word - 1)
    BY <1>0, <2>2 DEF Less
  <2> QED BY <2>1, <2>2, <2>3
<1> QED BY <1>1, <1>2, <1>3

\* A prefix of a list of connections is one, and has nothing new in it.
LEMMA PrefixFacts ==
  ASSUME NEW p \in Seq(Conns), NEW k \in 0..Len(p)
  PROVE  /\ SubSeq(p, 1, k) \in Seq(Conns)
         /\ Len(SubSeq(p, 1, k)) = k
         /\ \A i \in 1..k : i \in 1..Len(p) /\ SubSeq(p, 1, k)[i] = p[i]
<1>1. \A i \in 1..k : i \in 1..Len(p) /\ p[i] \in Conns
  BY LenProperties, ElementOfSeq
<1>2. k \in Int /\ Len(p) \in Nat
  BY LenProperties
<1> QED BY <1>1, <1>2, SubSeqProperties

LEMMA CheckedType ==
  ASSUME NEW p \in Seq(Conns), NEW n \in 0..(Word - 1), NEW w, NEW ttl \in Int,
         Len(p) < Word
  PROVE  /\ Checked(p, n, w, ttl).pool \in Seq(Conns)
         /\ Checked(p, n, w, ttl).count \in 0..(Word - 1)
<1>1. PICK k \in 0..Len(p) : Checked(p, n, w, ttl).pool = SubSeq(p, 1, k)
  BY CheckedPrefix
<1>2. SubSeq(p, 1, k) \in Seq(Conns)
  BY PrefixFacts
<1> QED BY <1>1, <1>2, CheckedPrefix

\* What check_idle leaves is the front of the list, whatever the time limit.
LEMMA CheckedList ==
  ASSUME NEW p \in Seq(Conns), NEW n \in 0..(Word - 1), NEW w, NEW ttl \in Int,
         Len(p) < Word
  PROVE  \E k \in 0..Len(p) : Checked(p, n, w, ttl).pool = SubSeq(p, 1, k)
BY CheckedPrefix

LEMMA LenBound ==
  ASSUME NEW p \in Seq(Conns), \A i, j \in 1..Len(p) : p[i] = p[j] => i = j
  PROVE  Len(p) <= Cardinality(Conns) /\ Len(p) < Word
<1>1. p \in Injection(1..Len(p), Conns)
  BY LenProperties DEF Injection, IsInjective
<1>2. Len(p) \in Nat /\ Cardinality(1..Len(p)) = Len(p)
  <2>1. Len(p) \in Nat
    BY LenProperties
  <2>2. Cardinality(1..Len(p)) = IF 1 > Len(p) THEN 0 ELSE Len(p) - 1 + 1
    BY <2>1, FS_Interval
  <2> QED BY <2>1, <2>2
<1>3. Cardinality(Conns) \in Nat /\ Cardinality(Threads) \in Nat
  BY ConnsAssumption, ThreadsAssumption, FS_CardinalityType
<1> QED BY <1>1, <1>2, <1>3, ConnsAssumption, WordAssumption, FS_Injection

-----------------------------------------------------------------------------
(* Type correctness and exclusive loans. *)

LEMMA TypeStep == TypeOK /\ ExclusiveLease /\ [Next]_vars => TypeOK'
<1> SUFFICES ASSUME TypeOK, ExclusiveLease, [Next]_vars PROVE TypeOK'
  OBVIOUS
<1> USE ConnsAssumption, TimeAssumption, WordAssumption
<1> USE DEF TypeOK, life, stats, local
<1>0. /\ \A n \in 0..(Word - 1) : Inc(n) \in 0..(Word - 1) /\ Dec(n) \in 0..(Word - 1)
      /\ Len(pool) < Word
  <2>1. Len(pool) < Word
    BY LenBound DEF ExclusiveLease
  <2> QED BY <2>1 DEF Inc, Dec
<1>1. CASE Tick
  BY <1>1 DEF Tick
<1>2. ASSUME NEW ttl \in CheckTtls, CheckIdle(ttl) PROVE TypeOK'
  <2> DEFINE r == Checked(pool, count, when, ttl)
  <2>1. r.count \in 0..(Word - 1) /\ r.pool \in Seq(Conns)
    BY <1>0, CheckedType
  <2>2. pool' = r.pool /\ count' = r.count /\ when' = Stamps(r.pool, when)
    BY <1>2 DEF CheckIdle
  <2> HIDE DEF r
  <2>3. when' \in [Conns -> Nat]
    BY <2>2 DEF Stamps
  <2> QED BY <1>2, <2>1, <2>2, <2>3 DEF CheckIdle
<1>3. ASSUME NEW yes \in BOOLEAN, SetAlive(yes) PROVE TypeOK'
  BY <1>3 DEF SetAlive
<1>4. CASE SetDelayDestroy
  BY <1>4 DEF SetDelayDestroy
<1>5. ASSUME NEW t \in Threads, Caller(t) PROVE TypeOK'
  <2>1. CASE GetRef(t)
    BY <2>1 DEF GetRef, Places
  <2>2. CASE PeekRefused(t)
    BY <2>2 DEF PeekRefused, Places
  <2>3. CASE PeekIdle(t)
    <3>1. Head(pool) \in Conns /\ Tail(pool) \in Seq(Conns)
      BY <2>3, HeadTailProperties DEF PeekIdle
    <3> QED BY <1>0, <2>3, <3>1 DEF PeekIdle, PeekPasses, Places
  <2>4. CASE PeekReserve(t)
    BY <1>0, <2>4 DEF PeekReserve, PeekPasses, Places
  <2>5. ASSUME NEW on \in BOOLEAN, PeekNone(t, on) PROVE TypeOK'
    BY <2>5 DEF PeekNone, PeekPasses, Places
  <2>6. CASE OpenOk(t)
    BY <2>6 DEF OpenOk, Fresh, Places
  <2>7. CASE OpenFail(t)
    BY <1>0, <2>7 DEF OpenFail, Places
  <2>8. CASE BindOne(t)
    BY <1>0, <2>8 DEF BindOne, Fresh, Places
  <2>9. ASSUME NEW k \in BOOLEAN, PutBegin(t, k) PROVE TypeOK'
    BY <2>9 DEF PutBegin, Places
  <2>10. CASE PutMarked(t)
    <3>1. pool' \in Seq(Conns) /\ when' \in [Conns -> Nat]
      <4>1. \/ pool' = <<>> /\ when' = [c \in Conns |-> 0]
            \/ UNCHANGED <<pool, when>>
        BY <2>10 DEF PutMarked
      <4>2. <<>> \in Seq(Conns) /\ [c \in Conns |-> 0] \in [Conns -> Nat]
        OBVIOUS
      <4> QED BY <4>1, <4>2
    <3>2. destroyed' \in BOOLEAN
      BY <2>10 DEF PutMarked
    <3>3. count' \in 0..(Word - 1)
      BY <1>0, <2>10 DEF PutMarked
    <3>4. pc' \in [Threads -> Places] /\ held' \in [Threads -> Conns \cup {NoConn}]
      BY <2>10 DEF PutMarked, PutDone, Places
    <3>5. keep' \in [Threads -> BOOLEAN] /\ stamp' \in [Threads -> Nat]
      BY <2>10 DEF PutMarked, PutDone
    <3> QED BY <2>10, <3>1, <3>2, <3>3, <3>4, <3>5 DEF PutMarked
  <2>11. CASE PutBack(t)
    <3> DEFINE kept == keep[t] /\ alive
               p    == IF kept THEN <<held[t]>> \o pool ELSE pool
               n    == IF kept THEN count ELSE Dec(count)
               w    == IF kept THEN [when EXCEPT ![held[t]] = stamp[t]] ELSE when
               due  == IdleTtl >= 0 /\ stamp[t] - lastCheck >= CheckInter
               r    == IF due THEN Checked(p, n, w, IdleTtl)
                              ELSE [pool |-> p, count |-> n]
    <3>1. held[t] \in Conns /\ held[t] \notin Idle
      BY <2>11 DEF PutBack, ExclusiveLease, HoldPlaces, Held
    <3>2. p \in Seq(Conns) /\ Len(p) < Word
      <4>1. CASE kept
        <5> DEFINE q == <<held[t]>> \o pool
        <5>1. /\ q \in Seq(Conns) /\ Len(q) = Len(pool) + 1
              /\ \A i \in 1..Len(q) : q[i] = IF i = 1 THEN held[t] ELSE pool[i - 1]
          <6>1. <<held[t]>> \in Seq(Conns) /\ Len(<<held[t]>>) = 1 /\ <<held[t]>>[1] = held[t]
            BY <3>1
          <6> QED BY <6>1, ConcatProperties
        <5> HIDE DEF q
        <5>2. ASSUME NEW i \in 1..Len(q), NEW j \in 1..Len(q), q[i] = q[j] PROVE i = j
          <6>1. \A m \in 1..Len(pool) : pool[m] # held[t]
            BY <3>1, Zenon DEF Idle
          <6>2. \A m \in 1..Len(q) : m # 1 => m - 1 \in 1..Len(pool) /\ q[m] = pool[m - 1]
            BY <5>1
          <6>3. \A m \in 1..Len(q) : m = 1 => q[m] = held[t]
            BY <5>1
          <6>4. CASE i = 1 \/ j = 1
            BY <5>2, <6>1, <6>2, <6>3, <6>4
          <6>5. CASE i # 1 /\ j # 1
            <7>1. pool[i - 1] = pool[j - 1]
              BY <5>2, <6>2, <6>5
            <7>2. i - 1 = j - 1
              BY <6>2, <6>5, <7>1 DEF ExclusiveLease
            <7> QED BY <7>2
          <6> QED BY <6>4, <6>5
        <5>3. Len(q) < Word
          BY <5>1, <5>2, LenBound
        <5> QED BY <4>1, <5>1, <5>3 DEF q
      <4>2. CASE ~kept
        BY <4>2, <1>0
      <4> QED BY <4>1, <4>2
    <3>3. n \in 0..(Word - 1)
      BY <1>0
    <3>4. w \in [Conns -> Nat]
      BY <3>1
    <3> HIDE DEF p, n, w
    <3>5. r.pool \in Seq(Conns) /\ r.count \in 0..(Word - 1)
      BY <3>2, <3>3, CheckedType
    <3>6. /\ pool' = r.pool /\ count' = r.count /\ when' = Stamps(r.pool, w)
          /\ lastCheck' = IF due THEN now ELSE lastCheck
      BY <2>11 DEF PutBack, p, n, w
    <3> HIDE DEF r, due
    <3>7. when' \in [Conns -> Nat]
      BY <3>4, <3>6 DEF Stamps
    <3>8. lastCheck' \in Nat
      BY <3>6
    <3> QED BY <2>11, <3>5, <3>6, <3>7, <3>8 DEF PutBack, PutDone, Places
  <2>12. CASE AlivingBegin(t)
    BY <2>12 DEF AlivingBegin, Places
  <2>13. CASE AlivingEnd(t)
    BY <2>13 DEF AlivingEnd, MayRevive, Places
  <2>14. CASE ResetBegin(t)
    BY <2>14 DEF ResetBegin, Places
  <2>15. CASE ResetEnd(t)
    BY <2>15 DEF ResetEnd, Places
  <2> QED BY <1>5, <2>1, <2>2, <2>3, <2>4, <2>5, <2>6, <2>7, <2>8, <2>9, <2>10,
             <2>11, <2>12, <2>13, <2>14, <2>15 DEF Caller, Peek, Put
<1>6. CASE UNCHANGED vars
  BY <1>6 DEF vars
<1> QED BY <1>1, <1>2, <1>3, <1>4, <1>5, <1>6 DEF Next, Owner

\* ExclusiveLease with the two disjoint sets spelt out.
PoolDistinct == \A i, j \in 1..Len(pool) : pool[i] = pool[j] => i = j
HeldDistinct == \A t, u \in Threads : held[t] = held[u] /\ held[t] # NoConn => t = u
IdleNotHeld  == \A i \in 1..Len(pool), t \in Threads : pool[i] # held[t]
HoldersHold  == \A t \in Threads : held[t] # NoConn <=> pc[t] \in HoldPlaces
LeaseInv == PoolDistinct /\ HeldDistinct /\ IdleNotHeld /\ HoldersHold

LEMMA LeaseInvMeans == TypeOK => (LeaseInv <=> ExclusiveLease)
<1> SUFFICES ASSUME TypeOK PROVE LeaseInv <=> ExclusiveLease
  OBVIOUS
<1>1. \A i \in 1..Len(pool) : pool[i] \in Conns /\ pool[i] # NoConn
  BY ElementOfSeq, ConnsAssumption DEF TypeOK
<1>2. IdleNotHeld <=> Idle \cap Held = {}
  <2>1. \A c : c \in Idle <=> \E i \in 1..Len(pool) : c = pool[i]
    BY Zenon DEF Idle
  <2>2. \A c : c \in Held <=> c # NoConn /\ \E t \in Threads : c = held[t]
    BY Zenon DEF Held
  <2>3. Idle \cap Held = {} <=> ~\E c : c \in Idle /\ c \in Held
    BY Zenon
  <2>4. ASSUME IdleNotHeld PROVE Idle \cap Held = {}
    BY <2>1, <2>2, <2>3, <2>4 DEF IdleNotHeld
  <2>5. ASSUME Idle \cap Held = {} PROVE IdleNotHeld
    <3> SUFFICES ASSUME NEW i \in 1..Len(pool), NEW t \in Threads, pool[i] = held[t]
                 PROVE  FALSE
      BY DEF IdleNotHeld
    <3>1. pool[i] \in Idle /\ pool[i] \in Held
      BY <1>1, <2>1, <2>2
    <3> QED BY <2>3, <2>5, <3>1
  <2> QED BY <2>4, <2>5
<1> QED BY <1>2 DEF LeaseInv, ExclusiveLease, PoolDistinct, HeldDistinct, HoldersHold

\* Nothing is lent, taken back or closed.
LEMMA LeaseUnchanged ==
  LeaseInv /\ UNCHANGED <<pool, held>>
    /\ (\A t \in Threads : pc'[t] \in HoldPlaces <=> pc[t] \in HoldPlaces)
  => LeaseInv'
BY DEF LeaseInv, PoolDistinct, HeldDistinct, IdleNotHeld, HoldersHold

\* check_idle closes connections of the back of a list p that is exclusive.
LEMMA LeasePrefix ==
  ASSUME TypeOK, NEW p \in Seq(Conns), NEW k \in 0..Len(p),
         pool' = SubSeq(p, 1, k),
         \A i, j \in 1..Len(p) : p[i] = p[j] => i = j,
         \A i \in 1..Len(p), t \in Threads : p[i] # held'[t],
         HeldDistinct', HoldersHold'
  PROVE  LeaseInv'
<1>1. Len(pool') = k /\ \A i \in 1..k : i \in 1..Len(p) /\ pool'[i] = p[i]
  BY PrefixFacts
<1>2. PoolDistinct'
  <2> SUFFICES ASSUME NEW i \in 1..Len(pool'), NEW j \in 1..Len(pool'), pool'[i] = pool'[j]
               PROVE  i = j
    BY Zenon DEF PoolDistinct
  <2>1. i \in 1..Len(p) /\ j \in 1..Len(p) /\ p[i] = p[j]
    BY <1>1
  <2> QED BY <2>1
<1>3. IdleNotHeld'
  <2> SUFFICES ASSUME NEW i \in 1..Len(pool'), NEW t \in Threads PROVE pool'[i] # held'[t]
    BY Zenon DEF IdleNotHeld
  <2>1. i \in 1..Len(p) /\ pool'[i] = p[i]
    BY <1>1
  <2> QED BY <2>1
<1> QED BY <1>2, <1>3 DEF LeaseInv

LEMMA LeaseStep == TypeOK /\ LeaseInv /\ [Next]_vars => LeaseInv'
<1> SUFFICES ASSUME TypeOK, LeaseInv, [Next]_vars PROVE LeaseInv'
  OBVIOUS
<1> USE DEF life, stats, local
<1>0. /\ pc \in [Threads -> Places] /\ held \in [Threads -> Conns \cup {NoConn}]
      /\ pool \in Seq(Conns) /\ NoConn \notin Conns /\ Len(pool) < Word
      /\ count \in 0..(Word - 1)
      /\ \A n \in 0..(Word - 1) : Dec(n) \in 0..(Word - 1)
      /\ CheckTtls \subseteq Int /\ IdleTtl \in Int
  <2>1. Len(pool) < Word
    BY LenBound DEF TypeOK, LeaseInv, PoolDistinct
  <2> QED BY <2>1, ConnsAssumption, WordAssumption, TimeAssumption DEF TypeOK, Dec
<1>1. CASE Tick
  BY <1>1, LeaseUnchanged DEF Tick
<1>2. ASSUME NEW ttl \in CheckTtls, CheckIdle(ttl) PROVE LeaseInv'
  <2>1. PICK k \in 0..Len(pool) : Checked(pool, count, when, ttl).pool = SubSeq(pool, 1, k)
    BY <1>0, CheckedPrefix
  <2>2. pool' = SubSeq(pool, 1, k) /\ UNCHANGED <<held, pc>>
    BY <1>2, <2>1 DEF CheckIdle
  <2> QED BY <1>0, <2>2, LeasePrefix
          DEF LeaseInv, PoolDistinct, HeldDistinct, IdleNotHeld, HoldersHold
<1>3. ASSUME NEW yes \in BOOLEAN, SetAlive(yes) PROVE LeaseInv'
  BY <1>3, LeaseUnchanged DEF SetAlive
<1>4. CASE SetDelayDestroy
  BY <1>4, LeaseUnchanged DEF SetDelayDestroy
<1>5. ASSUME NEW t \in Threads, Caller(t) PROVE LeaseInv'
  <2> USE <1>0 DEF HoldPlaces
  <2>1. CASE GetRef(t)
    BY <2>1, LeaseUnchanged DEF GetRef
  <2>2. CASE PeekRefused(t)
    BY <2>2, LeaseUnchanged DEF PeekRefused
  <2>3. CASE PeekIdle(t)
    <3>1. /\ Head(pool) = pool[1] /\ Len(pool') = Len(pool) - 1
          /\ \A i \in 1..Len(pool') : pool'[i] = pool[i + 1]
          /\ Len(pool) \in Nat \ {0} /\ pool[1] \in Conns
      BY <2>3, HeadTailProperties, EmptySeq DEF PeekIdle
    <3>2. /\ pc' = [pc EXCEPT ![t] = "using"] /\ held' = [held EXCEPT ![t] = pool[1]]
          /\ pc[t] = "ref"
      BY <2>3, <3>1 DEF PeekIdle, PeekPasses
    <3>3. PoolDistinct'
      BY <3>1 DEF LeaseInv, PoolDistinct
    <3>4. HeldDistinct'
      BY <3>1, <3>2 DEF LeaseInv, HeldDistinct, IdleNotHeld
    <3>5. IdleNotHeld'
      BY <3>1, <3>2 DEF LeaseInv, IdleNotHeld, PoolDistinct
    <3>6. HoldersHold'
      BY <3>1, <3>2 DEF LeaseInv, HoldersHold
    <3> QED BY <3>3, <3>4, <3>5, <3>6 DEF LeaseInv
  <2>4. CASE PeekReserve(t)
    BY <2>4, LeaseUnchanged DEF PeekReserve, PeekPasses
  <2>5. ASSUME NEW on \in BOOLEAN, PeekNone(t, on) PROVE LeaseInv'
    BY <2>5, LeaseUnchanged DEF PeekNone, PeekPasses
  <2>6. ASSUME OpenOk(t) \/ BindOne(t) PROVE LeaseInv'
    <3>1. PICK c \in Fresh : held' = [held EXCEPT ![t] = c]
      BY <2>6 DEF OpenOk, BindOne
    <3>2. /\ pc' = [pc EXCEPT ![t] = "using"] /\ UNCHANGED pool
          /\ pc[t] \notin HoldPlaces
      BY <2>6 DEF OpenOk, BindOne
    <3>3. /\ c \in Conns /\ \A i \in 1..Len(pool) : pool[i] # c
          /\ \A u \in Threads : held[u] # c
      BY DEF Fresh, Idle, Held
    <3>4. HeldDistinct'
      BY <3>1, <3>3 DEF LeaseInv, HeldDistinct
    <3>5. IdleNotHeld' /\ PoolDistinct'
      BY <3>1, <3>2, <3>3 DEF LeaseInv, IdleNotHeld, PoolDistinct
    <3>6. HoldersHold'
      BY <3>1, <3>2, <3>3 DEF LeaseInv, HoldersHold
    <3> QED BY <3>4, <3>5, <3>6 DEF LeaseInv
  <2>7. CASE OpenFail(t)
    BY <2>7, LeaseUnchanged DEF OpenFail
  <2>8. ASSUME NEW k \in BOOLEAN, PutBegin(t, k) PROVE LeaseInv'
    BY <2>8, LeaseUnchanged DEF PutBegin
  <2>9. CASE PutMarked(t)
    <3>1. pool' = pool \/ pool' = <<>>
      BY <2>9 DEF PutMarked
    <3>2. /\ held' = [held EXCEPT ![t] = NoConn] /\ pc' = [pc EXCEPT ![t] = "idle"]
      BY <2>9 DEF PutMarked, PutDone
    <3>3. HeldDistinct' /\ HoldersHold'
      BY <3>2 DEF LeaseInv, HeldDistinct, HoldersHold
    <3>4. PoolDistinct'
      BY <3>1, EmptySeq DEF LeaseInv, PoolDistinct
    <3>5. IdleNotHeld'
      <4>1. \A i \in 1..Len(pool) : pool[i] \in Conns
        BY ElementOfSeq
      <4> QED BY <3>1, <3>2, <4>1, EmptySeq DEF LeaseInv, IdleNotHeld
    <3> QED BY <3>3, <3>4, <3>5 DEF LeaseInv
  <2>10. CASE PutBack(t)
    <3> DEFINE kept == keep[t] /\ alive
               p    == IF kept THEN <<held[t]>> \o pool ELSE pool
               n    == IF kept THEN count ELSE Dec(count)
               w    == IF kept THEN [when EXCEPT ![held[t]] = stamp[t]] ELSE when
               due  == IdleTtl >= 0 /\ stamp[t] - lastCheck >= CheckInter
               r    == IF due THEN Checked(p, n, w, IdleTtl)
                              ELSE [pool |-> p, count |-> n]
    <3>1. held[t] \in Conns /\ \A i \in 1..Len(pool) : pool[i] # held[t]
      BY <2>10 DEF PutBack, LeaseInv, HoldersHold, IdleNotHeld
    <3>2. /\ p \in Seq(Conns)
          /\ \A i, j \in 1..Len(p) : p[i] = p[j] => i = j
          /\ \A i \in 1..Len(p) : p[i] = held[t] \/ \E j \in 1..Len(pool) : p[i] = pool[j]
      <4>1. CASE kept
        <5> DEFINE q == <<held[t]>> \o pool
        <5>1. /\ q \in Seq(Conns) /\ Len(q) = Len(pool) + 1
              /\ \A i \in 1..Len(q) : q[i] = IF i = 1 THEN held[t] ELSE pool[i - 1]
          <6>1. <<held[t]>> \in Seq(Conns) /\ Len(<<held[t]>>) = 1 /\ <<held[t]>>[1] = held[t]
            BY <3>1
          <6> QED BY <6>1, ConcatProperties
        <5> HIDE DEF q
        <5>2. Len(pool) \in Nat
          BY LenProperties
        <5>3. \A i \in 1..Len(q) : i = 1 \/ i - 1 \in 1..Len(pool)
          BY <5>1, <5>2
        <5>4. \A i, j \in 1..Len(q) : q[i] = q[j] => i = j
          <6> SUFFICES ASSUME NEW i \in 1..Len(q), NEW j \in 1..Len(q), q[i] = q[j]
                       PROVE  i = j
            OBVIOUS
          <6>1. i \in Int /\ j \in Int
            BY <5>1, <5>2
          <6>2. CASE i = 1 \/ j = 1
            BY <3>1, <5>1, <5>3, <6>2
          <6>3. CASE i # 1 /\ j # 1
            <7>1. pool[i - 1] = pool[j - 1]
              BY <5>1, <6>3
            <7>2. i - 1 = j - 1
              BY <5>3, <6>3, <7>1 DEF LeaseInv, PoolDistinct
            <7> QED BY <6>1, <7>2
          <6> QED BY <6>2, <6>3
        <5>5. \A i \in 1..Len(q) : q[i] = held[t] \/ \E j \in 1..Len(pool) : q[i] = pool[j]
          BY <5>1, <5>3
        <5>6. p = q
          BY <4>1 DEF q
        <5> QED BY <5>1, <5>4, <5>5, <5>6
      <4>2. CASE ~kept
        BY <4>2 DEF LeaseInv, PoolDistinct
      <4> QED BY <4>1, <4>2
    <3>3. n \in 0..(Word - 1)
      OBVIOUS
    <3>4. pool' = r.pool
      BY <2>10 DEF PutBack
    <3>5. /\ held' = [held EXCEPT ![t] = NoConn] /\ pc' = [pc EXCEPT ![t] = "idle"]
          /\ pc[t] = "putting"
      BY <2>10 DEF PutBack, PutDone
    <3> HIDE DEF p, n, w
    <3>6. \E k \in 0..Len(p) : pool' = SubSeq(p, 1, k)
      <4>1. Len(p) < Word
        BY <3>2, LenBound
      <4>2. CASE due
        <5>1. pool' = Checked(p, n, w, IdleTtl).pool
          BY <3>4, <4>2, Zenon
        <5>2. p \in Seq(Conns) /\ IdleTtl \in Int
          BY <3>2, TimeAssumption
        <5>3. \E k \in 0..Len(p) : Checked(p, n, w, IdleTtl).pool = SubSeq(p, 1, k)
          BY <3>3, <4>1, <5>2, CheckedList
        <5> QED BY <5>1, <5>3, Zenon
      <4>3. CASE ~due
        <5>1. pool' = SubSeq(p, 1, Len(p)) /\ Len(p) \in 0..Len(p)
          BY <3>2, <3>4, <4>3, SubSeqFull, LenProperties
        <5> QED BY <5>1
      <4> QED BY <4>2, <4>3
    <3>7. HeldDistinct' /\ HoldersHold'
      BY <3>1, <3>5 DEF LeaseInv, HeldDistinct, HoldersHold
    <3>8. \A i \in 1..Len(p), u \in Threads : p[i] # held'[u]
      <4>1. \A u \in Threads : u # t => held[u] # held[t]
        BY <3>1 DEF LeaseInv, HeldDistinct
      <4>2. \A i \in 1..Len(pool) : pool[i] \in Conns
        BY ElementOfSeq
      <4>3. \A i \in 1..Len(pool), u \in Threads : pool[i] # held[u]
        BY DEF LeaseInv, IdleNotHeld
      <4> QED BY <3>1, <3>2, <3>5, <4>1, <4>2, <4>3
    <3> QED BY <3>2, <3>6, <3>7, <3>8, LeasePrefix
  <2>11. CASE AlivingBegin(t)
    BY <2>11, LeaseUnchanged DEF AlivingBegin
  <2>12. CASE AlivingEnd(t)
    BY <2>12, LeaseUnchanged DEF AlivingEnd
  <2>13. CASE ResetBegin(t)
    BY <2>13, LeaseUnchanged DEF ResetBegin
  <2>14. CASE ResetEnd(t)
    BY <2>14, LeaseUnchanged DEF ResetEnd
  <2> QED BY <1>5, <2>1, <2>2, <2>3, <2>4, <2>5, <2>6, <2>7, <2>8, <2>9, <2>10,
             <2>11, <2>12, <2>13, <2>14 DEF Caller, Peek, Put
<1>6. CASE UNCHANGED vars
  BY <1>6, LeaseUnchanged DEF vars
<1> QED BY <1>1, <1>2, <1>3, <1>4, <1>5, <1>6 DEF Next, Owner

LEMMA InitLease == Init => TypeOK /\ LeaseInv
<1> SUFFICES ASSUME Init PROVE TypeOK /\ LeaseInv
  OBVIOUS
<1>1. TypeOK
  <2>1. <<>> \in Seq(Conns) /\ 0 \in 0..(Word - 1)
    <3>1. Cardinality(Conns) \in Nat /\ Cardinality(Threads) \in Nat
      BY ConnsAssumption, ThreadsAssumption, FS_CardinalityType
    <3> QED BY <3>1, WordAssumption
  <2> QED BY <2>1, TimeAssumption DEF Init, TypeOK, Places
<1>2. LeaseInv
  BY EmptySeq DEF Init, LeaseInv, PoolDistinct, HeldDistinct, IdleNotHeld, HoldersHold,
     HoldPlaces
<1> QED BY <1>1, <1>2

\* The variables keep their domains: no counter leaves its machine word.
THEOREM TypeCorrect == Spec => []TypeOK
<1>1. Init => TypeOK /\ LeaseInv
  BY InitLease
<1>2. TypeOK /\ LeaseInv /\ [Next]_vars => TypeOK' /\ LeaseInv'
  BY TypeStep, LeaseStep, LeaseInvMeans
<1> QED BY <1>1, <1>2, PTL DEF Spec

\* No connection is ever lent to two threads, or lent while it is idle.
THEOREM LoansExclusive == Spec => []ExclusiveLease
<1>1. Init => TypeOK /\ LeaseInv
  BY InitLease
<1>2. TypeOK /\ LeaseInv /\ [Next]_vars => TypeOK' /\ LeaseInv'
  BY TypeStep, LeaseStep, LeaseInvMeans
<1>3. TypeOK /\ LeaseInv => ExclusiveLease
  BY LeaseInvMeans
<1> QED BY <1>1, <1>2, <1>3, PTL DEF Spec

-----------------------------------------------------------------------------
(* The accounting. count_ is exact as long as no ttl is 0: check_idle(0)   *)
(* writes 0 into it, whatever is out.                                      *)

NoZeroTtl == IdleTtl # 0 /\ 0 \notin CheckTtls

\* The inductive invariant: a destroyed pool has a count of 0 and nobody in it.
Marked == destroyed => delayDestroy /\ count = 0
CountInv == TypeOK /\ LeaseInv /\ CountExact /\ Marked

LEMMA OutFacts ==
  ASSUME TypeOK, LeaseInv
  PROVE  /\ IsFiniteSet(Out) /\ Cardinality(Out) \in Nat /\ Len(pool) \in Nat
         /\ Len(pool) + Cardinality(Out) < Word
         /\ \A t \in Threads \ Out :
              /\ Cardinality(Out \cup {t}) = Cardinality(Out) + 1
              /\ Len(pool) + Cardinality(Out) + 1 < Word
         /\ \A t \in Out : /\ Cardinality(Out \ {t}) = Cardinality(Out) - 1
                           /\ Cardinality(Out) > 0
<1>1. /\ IsFiniteSet(Out) /\ Cardinality(Out) \in Nat
      /\ Cardinality(Out) <= Cardinality(Threads)
      /\ Cardinality(Threads) \in Nat /\ Cardinality(Conns) \in Nat
  BY ThreadsAssumption, ConnsAssumption, FS_Subset, FS_CardinalityType DEF Out
<1>2. Len(pool) \in Nat /\ Len(pool) <= Cardinality(Conns)
  BY LenBound, LenProperties DEF TypeOK, LeaseInv, PoolDistinct
<1>3. ASSUME NEW t \in Threads \ Out
      PROVE  /\ Cardinality(Out \cup {t}) = Cardinality(Out) + 1
             /\ Cardinality(Out) + 1 <= Cardinality(Threads)
  <2>1. Cardinality(Out \cup {t}) = Cardinality(Out) + 1
    BY <1>1, FS_AddElement
  <2>2. Cardinality(Out \cup {t}) <= Cardinality(Threads)
    <3>1. Out \cup {t} \in SUBSET Threads
      BY DEF Out
    <3> QED BY <3>1, ThreadsAssumption, FS_Subset
  <2> QED BY <2>1, <2>2
<1>4. ASSUME NEW t \in Out
      PROVE  Cardinality(Out \ {t}) = Cardinality(Out) - 1 /\ Cardinality(Out) > 0
  <2>1. Cardinality(Out \ {t}) = Cardinality(Out) - 1
    BY <1>1, FS_RemoveElement
  <2>2. Cardinality(Out) # 0
    BY <1>1, FS_EmptySet
  <2> QED BY <1>1, <2>1, <2>2
<1> QED BY <1>1, <1>2, <1>3, <1>4, WordAssumption

LEMMA CountInit == Init => CountExact /\ Marked
<1> SUFFICES ASSUME Init PROVE CountExact /\ Marked
  OBVIOUS
<1>1. Out = {}
  BY DEF Init, Out, OutPlaces
<1> QED BY <1>1, FS_EmptySet, EmptySeq DEF Init, CountExact, Marked

LEMMA CountUnchanged ==
  CountExact /\ Marked /\ UNCHANGED <<pool, count, destroyed>>
    /\ (delayDestroy => delayDestroy')
    /\ (\A t \in Threads : pc'[t] \in OutPlaces <=> pc[t] \in OutPlaces)
  => CountExact' /\ Marked'
<1> SUFFICES ASSUME CountExact, Marked, UNCHANGED <<pool, count, destroyed>>,
                    delayDestroy => delayDestroy',
                    \A t \in Threads : pc'[t] \in OutPlaces <=> pc[t] \in OutPlaces
             PROVE  CountExact' /\ Marked'
  OBVIOUS
<1>1. Out' = Out
  BY DEF Out
<1> QED BY <1>1 DEF CountExact, Marked

LEMMA CountStep ==
  ASSUME NoZeroTtl, CountInv, [Next]_vars
  PROVE  CountExact' /\ Marked'
<1> USE DEF life, stats, local
<1>0. /\ TypeOK /\ LeaseInv /\ Marked /\ count = Len(pool) + Cardinality(Out)
      /\ pc \in [Threads -> Places] /\ pool \in Seq(Conns) /\ Word \in Nat
      /\ count \in 0..(Word - 1) /\ Len(pool) \in Nat /\ Cardinality(Out) \in Nat
  BY OutFacts, WordAssumption DEF CountInv, CountExact, TypeOK
<1>c. CountExact /\ (destroyed => delayDestroy /\ count = 0)
  BY DEF CountInv, Marked
<1>d. ASSUME destroyed PROVE Out = {} /\ pool = <<>>
  <2>1. Len(pool) = 0 /\ Cardinality(Out) = 0
    BY <1>0, <1>c, <1>d
  <2> QED BY <1>0, <2>1, OutFacts, FS_EmptySet, EmptySeq
<1>1. CASE Tick
  BY <1>0, <1>c, <1>1, CountUnchanged DEF Tick
<1>2. ASSUME NEW ttl \in CheckTtls, CheckIdle(ttl) PROVE CountExact' /\ Marked'
  <2>1. ttl \in Int /\ ttl # 0 /\ Len(pool) < Word
    BY <1>0, TimeAssumption, LenBound DEF NoZeroTtl, LeaseInv, PoolDistinct
  <2>2. PICK k \in 0..Len(pool) :
          /\ Checked(pool, count, when, ttl).pool = SubSeq(pool, 1, k)
          /\ Checked(pool, count, when, ttl).count = Less(count, Len(pool) - k)
    <3>1. pool \in Seq(Conns) /\ count \in 0..(Word - 1)
      BY <1>0
    <3>2. \E k \in 0..Len(pool) :
            /\ Checked(pool, count, when, ttl).pool = SubSeq(pool, 1, k)
            /\ ttl # 0 => Checked(pool, count, when, ttl).count = Less(count, Len(pool) - k)
      BY <2>1, <3>1, CheckedPrefix, Zenon
    <3> QED BY <2>1, <3>2, Zenon
  <2>3. /\ pool' = SubSeq(pool, 1, k) /\ count' = Less(count, Len(pool) - k)
        /\ ~delayDestroy /\ UNCHANGED <<destroyed, pc>>
    BY <1>2, <2>2 DEF CheckIdle
  <2>4. Out' = Out /\ Len(pool') = k
    BY <1>0, <2>3, PrefixFacts DEF Out
  <2>5. Less(count, Len(pool) - k) = k + Cardinality(Out)
    BY <1>0 DEF Less
  <2> QED BY <1>c, <2>3, <2>4, <2>5 DEF CountExact, Marked
<1>3. ASSUME NEW yes \in BOOLEAN, SetAlive(yes) PROVE CountExact' /\ Marked'
  BY <1>0, <1>c, <1>3, CountUnchanged DEF SetAlive
<1>4. CASE SetDelayDestroy
  BY <1>0, <1>c, <1>4, CountUnchanged DEF SetDelayDestroy
<1>5. ASSUME NEW t \in Threads, Caller(t) PROVE CountExact' /\ Marked'
  <2> USE DEF OutPlaces
  <2>1. CASE GetRef(t)
    BY <1>0, <1>c, <2>1, CountUnchanged DEF GetRef
  <2>2. CASE PeekRefused(t)
    BY <1>0, <1>c, <2>2, CountUnchanged DEF PeekRefused
  <2>3. CASE PeekIdle(t)
    <3>1. t \notin Out /\ Out' = Out \cup {t}
      BY <1>0, <2>3 DEF PeekIdle, PeekPasses, Out
    <3>2. Len(pool') = Len(pool) - 1
      BY <1>0, <2>3, HeadTailProperties DEF PeekIdle
    <3>3. ~destroyed /\ UNCHANGED <<count, destroyed>>
      BY <2>3 DEF PeekIdle, PeekPasses
    <3>4. Cardinality(Out \cup {t}) = Cardinality(Out) + 1
      BY <1>0, <3>1, OutFacts
    <3> QED BY <1>0, <3>1, <3>2, <3>3, <3>4 DEF CountExact, Marked
  <2>4. ASSUME PeekReserve(t) \/ BindOne(t) PROVE CountExact' /\ Marked'
    <3>1. t \notin Out /\ Out' = Out \cup {t}
      BY <1>0, <2>4 DEF PeekReserve, PeekPasses, BindOne, Out
    <3>2. ~destroyed /\ count' = Inc(count) /\ UNCHANGED <<pool, destroyed>>
      BY <2>4 DEF PeekReserve, PeekPasses, BindOne
    <3>3. Cardinality(Out \cup {t}) = Cardinality(Out) + 1 /\ count + 1 < Word
      BY <1>0, <3>1, OutFacts
    <3>4. Inc(count) = count + 1
      BY <1>0, <3>3 DEF Inc
    <3> QED BY <1>0, <3>1, <3>2, <3>3, <3>4 DEF CountExact, Marked
  <2>5. ASSUME NEW on \in BOOLEAN, PeekNone(t, on) PROVE CountExact' /\ Marked'
    BY <1>0, <1>c, <2>5, CountUnchanged DEF PeekNone, PeekPasses
  <2>6. CASE OpenOk(t)
    BY <1>0, <1>c, <2>6, CountUnchanged DEF OpenOk
  <2>7. CASE OpenFail(t)
    <3>1. t \in Out /\ Out' = Out \ {t}
      BY <1>0, <2>7 DEF OpenFail, Out
    <3>2. count' = Dec(count) /\ UNCHANGED <<pool, destroyed>> /\ ~destroyed
      BY <1>d, <2>7, <3>1 DEF OpenFail
    <3>3. Cardinality(Out \ {t}) = Cardinality(Out) - 1 /\ Cardinality(Out) > 0
      BY <1>0, <3>1, OutFacts
    <3>4. Dec(count) = count - 1
      BY <1>0, <3>3 DEF Dec
    <3> QED BY <1>0, <3>1, <3>2, <3>3, <3>4 DEF CountExact, Marked
  <2>8. ASSUME NEW k \in BOOLEAN, PutBegin(t, k) PROVE CountExact' /\ Marked'
    BY <1>0, <1>c, <2>8, CountUnchanged DEF PutBegin
  <2>9. CASE PutMarked(t)
    <3>1. t \in Out /\ Out' = Out \ {t}
      BY <1>0, <2>9 DEF PutMarked, PutDone, Out
    <3>2. count' = Dec(count) /\ delayDestroy /\ UNCHANGED delayDestroy /\ ~destroyed
      BY <1>d, <2>9, <3>1 DEF PutMarked
    <3>3. Cardinality(Out \ {t}) = Cardinality(Out) - 1 /\ Cardinality(Out) > 0
      BY <1>0, <3>1, OutFacts
    <3>4. Dec(count) = count - 1
      BY <1>0, <3>3 DEF Dec
    <3>5. CASE count' <= 0
      <4>1. destroyed' = TRUE /\ pool' = <<>>
        BY <2>9, <3>5 DEF PutMarked, LastRef
      <4>2. count' = 0 /\ Cardinality(Out \ {t}) = 0 /\ Len(pool') = 0
        BY <1>0, <3>2, <3>3, <3>4, <3>5, <4>1
      <4> QED BY <3>1, <3>2, <4>2 DEF CountExact, Marked
    <3>6. CASE ~(count' <= 0)
      <4>1. UNCHANGED <<destroyed, pool>>
        BY <2>9, <3>6 DEF PutMarked, LastRef
      <4> QED BY <1>0, <3>1, <3>2, <3>3, <3>4, <4>1 DEF CountExact, Marked
    <3> QED BY <3>5, <3>6
  <2>10. CASE PutBack(t)
    <3> DEFINE kept == keep[t] /\ alive
               p    == IF kept THEN <<held[t]>> \o pool ELSE pool
               n    == IF kept THEN count ELSE Dec(count)
               w    == IF kept THEN [when EXCEPT ![held[t]] = stamp[t]] ELSE when
               due  == IdleTtl >= 0 /\ stamp[t] - lastCheck >= CheckInter
               r    == IF due THEN Checked(p, n, w, IdleTtl)
                              ELSE [pool |-> p, count |-> n]
    <3>1. t \in Out /\ Out' = Out \ {t}
      BY <1>0, <2>10 DEF PutBack, PutDone, Out
    <3>2. Cardinality(Out \ {t}) = Cardinality(Out) - 1 /\ Cardinality(Out) > 0
      BY <1>0, <3>1, OutFacts
    <3>3. held[t] \in Conns
      BY <1>0, <2>10 DEF PutBack, LeaseInv, HoldersHold, HoldPlaces, TypeOK
    <3>4. /\ p \in Seq(Conns) /\ n \in 0..(Word - 1) /\ Len(p) \in Nat
          /\ n = Len(p) + Cardinality(Out) - 1
      <4>1. CASE kept
        <5>1. <<held[t]>> \in Seq(Conns) /\ Len(<<held[t]>>) = 1
          BY <3>3
        <5>2. <<held[t]>> \o pool \in Seq(Conns) /\ Len(<<held[t]>> \o pool) = Len(pool) + 1
          BY <1>0, <5>1, ConcatProperties
        <5> QED BY <1>0, <4>1, <5>2
      <4>2. CASE ~kept
        <5>1. Dec(count) = count - 1
          BY <1>0, <3>2 DEF Dec
        <5> QED BY <1>0, <3>2, <4>2, <5>1
      <4> QED BY <4>1, <4>2
    <3>5. pool' = r.pool /\ count' = r.count
      BY <2>10 DEF PutBack
    <3>6. ~delayDestroy /\ UNCHANGED <<destroyed, delayDestroy>>
      BY <2>10 DEF PutBack
    <3> HIDE DEF p, n, w
    <3>7. count' = Len(pool') + Cardinality(Out) - 1
      <4>1. CASE due
        <5>1. pool' = Checked(p, n, w, IdleTtl).pool /\ count' = Checked(p, n, w, IdleTtl).count
          BY <3>5, <4>1, Zenon
        <5>2. Len(p) < Word /\ IdleTtl \in Int /\ IdleTtl # 0
          BY <1>0, <3>2, <3>4, TimeAssumption DEF NoZeroTtl
        <5>3. PICK k \in 0..Len(p) : pool' = SubSeq(p, 1, k) /\ count' = Less(n, Len(p) - k)
          BY <3>4, <5>1, <5>2, CheckedPrefix
        <5>4. Len(pool') = k
          BY <3>4, <5>3, PrefixFacts
        <5>5. Less(n, Len(p) - k) = k + Cardinality(Out) - 1
          BY <1>0, <3>2, <3>4 DEF Less
        <5> QED BY <5>3, <5>4, <5>5
      <4>2. CASE ~due
        BY <3>4, <3>5, <4>2
      <4> QED BY <4>1, <4>2
    <3>8. Len(pool') \in Nat
      <4>1. TypeOK'
        BY <1>0, TypeStep, LeaseInvMeans
      <4> QED BY <4>1, LenProperties DEF TypeOK
    <3> QED BY <1>0, <1>c, <3>1, <3>2, <3>6, <3>7, <3>8 DEF CountExact, Marked
  <2>11. CASE AlivingBegin(t)
    BY <1>0, <1>c, <2>11, CountUnchanged DEF AlivingBegin
  <2>12. CASE AlivingEnd(t)
    BY <1>0, <1>c, <2>12, CountUnchanged DEF AlivingEnd
  <2>13. CASE ResetBegin(t)
    BY <1>0, <1>c, <2>13, CountUnchanged DEF ResetBegin
  <2>14. CASE ResetEnd(t)
    BY <1>0, <1>c, <2>14, CountUnchanged DEF ResetEnd
  <2> QED BY <1>5, <2>1, <2>2, <2>3, <2>4, <2>5, <2>6, <2>7, <2>8, <2>9, <2>10,
             <2>11, <2>12, <2>13, <2>14 DEF Caller, Peek, Put
<1>6. CASE UNCHANGED vars
  BY <1>0, <1>c, <1>6, CountUnchanged DEF vars
<1> QED BY <1>1, <1>2, <1>3, <1>4, <1>5, <1>6 DEF Next, Owner

LEMMA CountInvariant == ASSUME NoZeroTtl PROVE Spec => []CountInv
<1>1. Init => CountInv
  BY InitLease, CountInit DEF CountInv
<1>2. CountInv /\ [Next]_vars => CountInv'
  BY CountStep, TypeStep, LeaseStep, LeaseInvMeans DEF CountInv
<1> QED BY <1>1, <1>2, PTL DEF Spec

\* count_ is the number of connections that exist or are being opened.
THEOREM CountIsExact == ASSUME NoZeroTtl PROVE Spec => []CountExact
<1>1. CountInv => CountExact
  BY DEF CountInv
<1> QED BY <1>1, CountInvariant, PTL

\* The pool deletes itself only when nobody else is inside it.
THEOREM DestroyedWhenUnused == ASSUME NoZeroTtl PROVE Spec => []DestroyedUnused
<1>1. CountInv => DestroyedUnused
  <2> SUFFICES ASSUME CountInv, destroyed PROVE Out = {} /\ pool = <<>>
    BY DEF DestroyedUnused
  <2>1. TypeOK /\ LeaseInv /\ Len(pool) + Cardinality(Out) = 0
    BY DEF CountInv, CountExact, Marked
  <2>2. Len(pool) = 0 /\ Cardinality(Out) = 0 /\ pool \in Seq(Conns)
    BY <2>1, OutFacts DEF TypeOK
  <2> QED BY <2>1, <2>2, OutFacts, FS_EmptySet, EmptySeq
<1> QED BY <1>1, CountInvariant, PTL

\* The assertion of put holds: the count is positive when a connection is dropped.
THEOREM PutAssertHolds == ASSUME NoZeroTtl PROVE Spec => []PutAssert
<1>1. CountInv => PutAssert
  <2> SUFFICES ASSUME CountInv, NEW t \in Threads, pc[t] = "putting" PROVE count > 0
    BY DEF PutAssert
  <2>1. TypeOK /\ LeaseInv /\ count = Len(pool) + Cardinality(Out) /\ t \in Out
    BY DEF CountInv, CountExact, Out, OutPlaces
  <2>2. Cardinality(Out) > 0 /\ Cardinality(Out) \in Nat /\ Len(pool) \in Nat
    BY <2>1, OutFacts
  <2> QED BY <2>1, <2>2
<1> QED BY <1>1, CountInvariant, PTL

-----------------------------------------------------------------------------
(* The limit. *)

OwnLive == (Idle \cup Held) \ Foreign

\* put leaves in the list what was there and, if it keeps it, the connection.
LEMMA PutBackIdle ==
  ASSUME TypeOK, LeaseInv, NEW t \in Threads, PutBack(t)
  PROVE  Idle' \subseteq Idle \cup {held[t]}
<1>0. /\ pool \in Seq(Conns) /\ count \in 0..(Word - 1) /\ IdleTtl \in Int
      /\ \A n \in 0..(Word - 1) : Dec(n) \in 0..(Word - 1)
      /\ Len(pool) < Word /\ Len(pool) \in Nat
  BY TimeAssumption, WordAssumption, LenBound, LenProperties
     DEF TypeOK, Dec, LeaseInv, PoolDistinct
<1> DEFINE kept == keep[t] /\ alive
           p    == IF kept THEN <<held[t]>> \o pool ELSE pool
           n    == IF kept THEN count ELSE Dec(count)
           w    == IF kept THEN [when EXCEPT ![held[t]] = stamp[t]] ELSE when
           due  == IdleTtl >= 0 /\ stamp[t] - lastCheck >= CheckInter
           r    == IF due THEN Checked(p, n, w, IdleTtl)
                          ELSE [pool |-> p, count |-> n]
<1>1. held[t] \in Conns /\ held[t] \notin Idle
  <2>1. held[t] \in Conns
    BY DEF PutBack, LeaseInv, HoldersHold, HoldPlaces, TypeOK
  <2> QED BY <2>1 DEF LeaseInv, IdleNotHeld, Idle
<1>2. /\ p \in Seq(Conns) /\ n \in 0..(Word - 1) /\ Len(p) < Word
      /\ \A i \in 1..Len(p) : p[i] \in Idle \cup {held[t]}
  <2>1. CASE kept
    <3> DEFINE q == <<held[t]>> \o pool
    <3>1. /\ q \in Seq(Conns) /\ Len(q) = Len(pool) + 1
          /\ \A i \in 1..Len(q) : q[i] = IF i = 1 THEN held[t] ELSE pool[i - 1]
      <4>1. <<held[t]>> \in Seq(Conns) /\ Len(<<held[t]>>) = 1 /\ <<held[t]>>[1] = held[t]
        BY <1>1
      <4> QED BY <1>0, <4>1, ConcatProperties
    <3>2. \A i, j \in 1..Len(q) : q[i] = q[j] => i = j
      <4> HIDE DEF q
      <4> SUFFICES ASSUME NEW i \in 1..Len(q), NEW j \in 1..Len(q), q[i] = q[j]
                   PROVE  i = j
        OBVIOUS
      <4>1. \A k \in 1..Len(pool) : pool[k] # held[t]
        BY <1>1 DEF Idle
      <4>2. \A k \in 1..Len(q) : k = 1 \/ k - 1 \in 1..Len(pool)
        BY <1>0, <3>1
      <4>3. CASE i = 1 \/ j = 1
        BY <3>1, <4>1, <4>2, <4>3
      <4>4. CASE i # 1 /\ j # 1
        <5>1. i - 1 = j - 1
          BY <3>1, <4>2, <4>4 DEF LeaseInv, PoolDistinct
        <5>2. i \in Int /\ j \in Int
          BY <3>1
        <5> QED BY <5>1, <5>2
      <4> QED BY <4>3, <4>4
    <3> HIDE DEF q
    <3>3. Len(q) < Word
      BY <3>1, <3>2, LenBound
    <3>4. \A i \in 1..Len(q) : q[i] \in Idle \cup {held[t]}
      <4>1. \A k \in 1..Len(q) : k = 1 \/ k - 1 \in 1..Len(pool)
        BY <1>0, <3>1
      <4> QED BY <3>1, <4>1 DEF Idle
    <3>5. p = q /\ n = count
      BY <2>1 DEF q
    <3> QED BY <1>0, <3>1, <3>3, <3>4, <3>5
  <2>2. CASE ~kept
    BY <1>0, <2>2 DEF Idle
  <2> QED BY <2>1, <2>2
<1>3. pool' = r.pool
  BY DEF PutBack
<1> HIDE DEF p, n, w
<1>4. PICK k \in 0..Len(p) : pool' = SubSeq(p, 1, k)
  <2>1. CASE due
    <3>1. pool' = Checked(p, n, w, IdleTtl).pool
      BY <1>3, <2>1, Zenon
    <3> QED BY <1>0, <1>2, <3>1, CheckedPrefix
  <2>2. CASE ~due
    <3>1. pool' = SubSeq(p, 1, Len(p)) /\ Len(p) \in 0..Len(p)
      BY <1>2, <1>3, <2>2, SubSeqFull, LenProperties
    <3> QED BY <3>1
  <2> QED BY <2>1, <2>2
<1>5. \A i \in 1..Len(pool') : i \in 1..Len(p) /\ pool'[i] = p[i]
  BY <1>2, <1>4, PrefixFacts
<1> QED BY <1>2, <1>5 DEF Idle

\* With the count exact, the own connections and the sockets being opened are
\* at most count_.
LEMMA OwnWithinOut ==
  ASSUME TypeOK, LeaseInv
  PROVE  /\ IsFiniteSet(OwnLive) /\ IsFiniteSet(Opening)
         /\ Cardinality(OwnLive) \in Nat /\ Cardinality(Opening) \in Nat
         /\ pool = <<>> => Cardinality(OwnLive) + Cardinality(Opening) <= Cardinality(Out)
<1> DEFINE Holders == {t \in Threads : pc[t] \in HoldPlaces}
           f == [t \in Holders |-> held[t]]
<1>1. /\ IsFiniteSet(Holders) /\ IsFiniteSet(Opening)
      /\ Cardinality(Holders) \in Nat /\ Cardinality(Opening) \in Nat
  BY ThreadsAssumption, FS_Subset, FS_CardinalityType DEF Opening
<1>2. Holders \cup Opening = Out /\ Holders \cap Opening = {}
  BY DEF Opening, Out, OutPlaces, HoldPlaces
<1>3. Cardinality(Out) = Cardinality(Holders) + Cardinality(Opening)
  <2>1. Cardinality(Holders \cup Opening)
          = Cardinality(Holders) + Cardinality(Opening) - Cardinality(Holders \cap Opening)
    BY <1>1, FS_Union
  <2>2. Cardinality(Holders \cap Opening) = 0
    BY <1>2, FS_EmptySet
  <2>3. Cardinality(Out) = Cardinality(Holders \cup Opening)
    BY <1>2
  <2> HIDE DEF Holders
  <2> QED BY <1>1, <2>1, <2>2, <2>3
<1>4. f \in Surjection(Holders, Held)
  <2>1. \A t \in Holders : held[t] \in Held
    BY DEF Held, LeaseInv, HoldersHold
  <2>2. \A c \in Held : \E t \in Holders : held[t] = c
    BY DEF Held, LeaseInv, HoldersHold
  <2> QED BY <2>1, <2>2 DEF Surjection
<1>5. IsFiniteSet(Held) /\ Cardinality(Held) <= Cardinality(Holders)
  BY <1>1, <1>4, FS_Surjection
<1>6. IsFiniteSet(OwnLive) /\ Cardinality(OwnLive) \in Nat
  <2>1. \A c \in Idle : c \in Conns
    BY ElementOfSeq DEF Idle, TypeOK
  <2>2. \A c \in Held : c \in Conns
    BY DEF Held, TypeOK
  <2>3. OwnLive \in SUBSET Conns
    BY <2>1, <2>2 DEF OwnLive
  <2> QED BY <2>3, ConnsAssumption, FS_Subset, FS_CardinalityType
<1>7. ASSUME pool = <<>> PROVE Cardinality(OwnLive) <= Cardinality(Held)
  <2>1. Idle = {}
    BY <1>7, EmptySeq DEF Idle
  <2>2. OwnLive \in SUBSET Held
    BY <2>1 DEF OwnLive
  <2> QED BY <1>5, <2>2, FS_Subset
<1>8. Cardinality(Held) \in Nat
  BY <1>5, FS_CardinalityType
<1> HIDE DEF Holders
<1> QED BY <1>1, <1>3, <1>5, <1>6, <1>7, <1>8

\* No step but a reservation raises the sum.
LEMMA LimitKept ==
  ASSUME TypeOK, LeaseInv, MaxRespected,
         OwnLive' \subseteq OwnLive, Opening' \subseteq Opening
  PROVE  MaxRespected'
<1>1. /\ Cardinality(OwnLive') <= Cardinality(OwnLive) /\ Cardinality(OwnLive') \in Nat
      /\ Cardinality(Opening') <= Cardinality(Opening) /\ Cardinality(Opening') \in Nat
  BY OwnWithinOut, FS_Subset, FS_CardinalityType
<1>2. Cardinality(OwnLive) \in Nat /\ Cardinality(Opening) \in Nat /\ Max \in Nat
  BY OwnWithinOut, TimeAssumption
<1> QED BY <1>1, <1>2 DEF MaxRespected, OwnLive

LEMMA LimitStep ==
  ASSUME CountInv, MaxRespected, [Next]_vars
  PROVE  MaxRespected'
<1> USE DEF life, stats, local
<1>0. /\ TypeOK /\ LeaseInv /\ CountExact /\ pc \in [Threads -> Places]
      /\ held \in [Threads -> Conns \cup {NoConn}] /\ pool \in Seq(Conns)
  BY DEF CountInv, TypeOK
<1>k. ASSUME OwnLive' \subseteq OwnLive, Opening' \subseteq Opening PROVE MaxRespected'
  BY <1>0, <1>k, LimitKept
<1>1. ASSUME UNCHANGED <<pool, held, pc>> PROVE MaxRespected'
  BY <1>1, <1>k DEF OwnLive, Idle, Held, Opening
<1>2. ASSUME NEW ttl \in CheckTtls, CheckIdle(ttl) PROVE MaxRespected'
  <2>1. Len(pool) < Word /\ ttl \in Int /\ count \in 0..(Word - 1)
    BY <1>0, TimeAssumption, LenBound DEF LeaseInv, PoolDistinct, TypeOK
  <2>2. PICK k \in 0..Len(pool) : Checked(pool, count, when, ttl).pool = SubSeq(pool, 1, k)
    <3>1. pool \in Seq(Conns) /\ count \in 0..(Word - 1)
      BY <1>0, <2>1
    <3>2. \E k \in 0..Len(pool) :
            /\ Checked(pool, count, when, ttl).pool = SubSeq(pool, 1, k)
            /\ ttl # 0 => Checked(pool, count, when, ttl).count = Less(count, Len(pool) - k)
      BY <2>1, <3>1, CheckedPrefix, Zenon
    <3> QED BY <3>2, Zenon
  <2>3. pool' = SubSeq(pool, 1, k) /\ UNCHANGED <<held, pc>>
    BY <1>2, <2>2 DEF CheckIdle
  <2>4. \A i \in 1..Len(pool') : i \in 1..Len(pool) /\ pool'[i] = pool[i]
    BY <1>0, <2>3, PrefixFacts
  <2>5. Idle' \subseteq Idle /\ Held' = Held
    BY <2>3, <2>4 DEF Idle, Held
  <2> QED BY <1>k, <2>3, <2>5 DEF OwnLive, Opening
<1>3. ASSUME NEW t \in Threads, Caller(t) PROVE MaxRespected'
  <2>1. ASSUME UNCHANGED <<pool, held>>, \E x : x # "opening" /\ pc' = [pc EXCEPT ![t] = x]
        PROVE  MaxRespected'
    BY <1>0, <1>k, <2>1 DEF OwnLive, Idle, Held, Opening
  <2>2. CASE GetRef(t)
    BY <2>1, <2>2 DEF GetRef
  <2>3. CASE PeekRefused(t)
    BY <2>1, <2>3 DEF PeekRefused
  <2>4. CASE PeekIdle(t)
    <3>1. /\ Head(pool) = pool[1] /\ Len(pool) \in Nat \ {0} /\ Len(pool') = Len(pool) - 1
          /\ \A i \in 1..Len(pool') : pool'[i] = pool[i + 1]
      BY <1>0, <2>4, HeadTailProperties, EmptySeq DEF PeekIdle
    <3>2. held' = [held EXCEPT ![t] = pool[1]] /\ pc' = [pc EXCEPT ![t] = "using"]
      BY <2>4, <3>1 DEF PeekIdle
    <3>3. Idle' \subseteq Idle
      BY <3>1 DEF Idle
    <3>4. Held' \subseteq Held \cup Idle
      BY <1>0, <3>1, <3>2 DEF Held, Idle
    <3>5. Opening' \subseteq Opening
      BY <1>0, <3>2 DEF Opening
    <3> QED BY <1>k, <3>3, <3>4, <3>5 DEF OwnLive
  <2>5. CASE PeekReserve(t)
    <3>1. /\ pool = <<>> /\ UNCHANGED <<pool, held>> /\ pc[t] = "ref"
          /\ pc' = [pc EXCEPT ![t] = "opening"] /\ ~AtLimit
      BY <2>5 DEF PeekReserve, PeekPasses
    <3>2. OwnLive' = OwnLive /\ Opening' = Opening \cup {t} /\ t \notin Opening
      BY <1>0, <3>1 DEF OwnLive, Idle, Held, Opening
    <3>3. Cardinality(Opening \cup {t}) = Cardinality(Opening) + 1
      BY <1>0, <3>2, OwnWithinOut, FS_AddElement
    <3>4. Cardinality(OwnLive) + Cardinality(Opening) <= Cardinality(Out)
      BY <1>0, <3>1, OwnWithinOut
    <3>5. Max > 0 => Cardinality(Out) < Max
      BY <1>0, <3>1, OutFacts, TimeAssumption, EmptySeq DEF AtLimit, CountExact
    <3>6. /\ Cardinality(OwnLive) \in Nat /\ Cardinality(Opening) \in Nat
          /\ Cardinality(Out) \in Nat /\ Max \in Nat
      BY <1>0, OwnWithinOut, OutFacts, TimeAssumption
    <3>7. Max > 0 => Cardinality(OwnLive') + Cardinality(Opening') <= Max
      BY <3>2, <3>3, <3>4, <3>5, <3>6
    <3> QED BY <3>7 DEF MaxRespected, OwnLive
  <2>6. ASSUME NEW on \in BOOLEAN, PeekNone(t, on) PROVE MaxRespected'
    BY <2>1, <2>6 DEF PeekNone, PeekPasses
  <2>7. CASE OpenOk(t)
    <3>1. PICK c \in Fresh \ Foreign : held' = [held EXCEPT ![t] = c]
      BY <2>7 DEF OpenOk
    <3>2. pc[t] = "opening" /\ pc' = [pc EXCEPT ![t] = "using"] /\ UNCHANGED pool
      BY <2>7 DEF OpenOk
    <3>3. OwnLive' \subseteq OwnLive \cup {c}
      BY <1>0, <3>1, <3>2 DEF OwnLive, Idle, Held
    <3>4. Opening' = Opening \ {t} /\ t \in Opening
      BY <1>0, <3>2 DEF Opening
    <3>5. /\ Cardinality(OwnLive \cup {c}) <= Cardinality(OwnLive) + 1
          /\ IsFiniteSet(OwnLive \cup {c}) /\ Cardinality(OwnLive) \in Nat
      <4>1. IsFiniteSet(OwnLive) /\ Cardinality(OwnLive) \in Nat
        BY <1>0, OwnWithinOut
      <4>2. /\ IsFiniteSet(OwnLive \cup {c})
            /\ Cardinality(OwnLive \cup {c})
                 = IF c \in OwnLive THEN Cardinality(OwnLive) ELSE Cardinality(OwnLive) + 1
        BY <4>1, FS_AddElement
      <4> QED BY <4>1, <4>2
    <3>6. /\ Cardinality(OwnLive') <= Cardinality(OwnLive \cup {c})
          /\ Cardinality(OwnLive') \in Nat /\ Cardinality(OwnLive \cup {c}) \in Nat
      BY <3>3, <3>5, FS_Subset, FS_CardinalityType
    <3>7. Cardinality(Opening \ {t}) = Cardinality(Opening) - 1 /\ Cardinality(Opening) \in Nat
      BY <1>0, <3>4, OwnWithinOut, FS_RemoveElement
    <3>8. Max > 0 => Cardinality(OwnLive') + Cardinality(Opening') <= Max
      BY <3>4, <3>5, <3>6, <3>7, TimeAssumption DEF MaxRespected, OwnLive
    <3> QED BY <3>8 DEF MaxRespected, OwnLive
  <2>8. CASE OpenFail(t)
    BY <2>1, <2>8 DEF OpenFail
  <2>9. CASE BindOne(t)
    <3>1. PICK c \in Fresh \cap Foreign : held' = [held EXCEPT ![t] = c]
      BY <2>9 DEF BindOne
    <3>2. pc' = [pc EXCEPT ![t] = "using"] /\ UNCHANGED pool
      BY <2>9 DEF BindOne
    <3>3. OwnLive' \subseteq OwnLive /\ Opening' \subseteq Opening
      BY <1>0, <3>1, <3>2 DEF OwnLive, Idle, Held, Opening
    <3> QED BY <1>k, <3>3
  <2>10. ASSUME NEW k \in BOOLEAN, PutBegin(t, k) PROVE MaxRespected'
    BY <2>1, <2>10 DEF PutBegin
  <2>11. CASE PutMarked(t)
    <3>1. UNCHANGED pool \/ pool' = <<>>
      BY <2>11 DEF PutMarked
    <3>2. held' = [held EXCEPT ![t] = NoConn] /\ pc' = [pc EXCEPT ![t] = "idle"]
      BY <2>11 DEF PutMarked, PutDone
    <3>3. Idle' \subseteq Idle
      BY <3>1, EmptySeq DEF Idle
    <3>4. Held' \subseteq Held /\ Opening' \subseteq Opening
      BY <1>0, <3>2 DEF Held, Opening
    <3> QED BY <1>k, <3>3, <3>4 DEF OwnLive
  <2>12. CASE PutBack(t)
    <3>1. /\ pc' = [pc EXCEPT ![t] = "idle"] /\ held' = [held EXCEPT ![t] = NoConn]
          /\ held[t] \in Held
      BY <1>0, <2>12 DEF PutBack, PutDone, LeaseInv, HoldersHold, HoldPlaces, Held
    <3>2. Held' \subseteq Held /\ Opening' \subseteq Opening
      BY <1>0, <3>1 DEF Held, Opening
    <3>3. Idle' \subseteq Idle \cup {held[t]}
      BY <1>0, <2>12, PutBackIdle
    <3> QED BY <1>k, <3>1, <3>2, <3>3 DEF OwnLive
  <2>13. CASE AlivingBegin(t)
    BY <2>1, <2>13 DEF AlivingBegin
  <2>14. CASE AlivingEnd(t)
    BY <2>1, <2>14 DEF AlivingEnd
  <2>15. CASE ResetBegin(t)
    BY <2>1, <2>15 DEF ResetBegin
  <2>16. CASE ResetEnd(t)
    BY <2>1, <2>16 DEF ResetEnd
  <2> QED BY <1>3, <2>2, <2>3, <2>4, <2>5, <2>6, <2>7, <2>8, <2>9, <2>10, <2>11,
             <2>12, <2>13, <2>14, <2>15, <2>16 DEF Caller, Peek, Put
<1> QED BY <1>1, <1>2, <1>3 DEF Next, Owner, Tick, SetAlive, SetDelayDestroy, vars

\* No more than max_ connections exist or are being opened at any time.
THEOREM LimitRespected == ASSUME NoZeroTtl PROVE Spec => []MaxRespected
<1>1. Init => MaxRespected
  <2> SUFFICES ASSUME Init PROVE MaxRespected
    OBVIOUS
  <2>1. Idle = {} /\ Held = {} /\ Opening = {}
    BY EmptySeq DEF Init, Idle, Held, Opening
  <2>2. (Idle \cup Held) \ Foreign = {}
    BY <2>1
  <2> QED BY <2>1, <2>2, FS_EmptySet, TimeAssumption DEF MaxRespected
<1>2. CountInv /\ MaxRespected /\ [Next]_vars => MaxRespected'
  BY LimitStep
<1> QED BY <1>1, <1>2, CountInvariant, PTL DEF Spec

\* The callers of a pool may rely on all four.
THEOREM PoolIsSound == ASSUME NoZeroTtl PROVE Spec => []PoolSound
BY LimitRespected, LoansExclusive, DestroyedWhenUnused, PutAssertHolds, PTL DEF PoolSound

-----------------------------------------------------------------------------
(* Retry. A thread in aliving compares a clock it read earlier: that clock *)
(* is never ahead of now.                                                  *)

StampPast == \A t \in Threads : stamp[t] <= now

LEMMA StampStep == TypeOK /\ StampPast /\ [Next]_vars => StampPast'
<1> SUFFICES ASSUME TypeOK, StampPast, [Next]_vars PROVE StampPast'
  OBVIOUS
<1>0. stamp \in [Threads -> Nat] /\ now \in Nat
  BY DEF TypeOK
<1>1. CASE UNCHANGED stamp /\ now' \in Nat /\ now' >= now
  BY <1>0, <1>1 DEF StampPast
<1>2. ASSUME NEW t \in Threads, now' = now, NEW s \in {0, now}, stamp' = [stamp EXCEPT ![t] = s]
      PROVE  StampPast'
  BY <1>0, <1>2 DEF StampPast
<1> USE DEF life, stats, local
<1>3. CASE Tick
  BY <1>0, <1>1, <1>3 DEF Tick
<1>4. CASE Owner
  BY <1>0, <1>1, <1>4 DEF Owner, CheckIdle, SetAlive, SetDelayDestroy
<1>5. ASSUME NEW t \in Threads, Caller(t) PROVE StampPast'
  <2>1. CASE GetRef(t) \/ Peek(t) \/ OpenOk(t) \/ OpenFail(t) \/ BindOne(t)
    BY <1>0, <1>1, <2>1
       DEF GetRef, Peek, PeekRefused, PeekIdle, PeekReserve, PeekNone, PeekPasses, OpenOk,
           OpenFail, BindOne
  <2>2. CASE (\E k \in BOOLEAN : PutBegin(t, k)) \/ AlivingBegin(t) \/ ResetBegin(t)
    BY <1>2, <2>2 DEF PutBegin, AlivingBegin, ResetBegin
  <2>3. CASE Put(t) \/ AlivingEnd(t) \/ ResetEnd(t)
    BY <1>2, <2>3 DEF Put, PutMarked, PutBack, PutDone, AlivingEnd, ResetEnd
  <2> QED BY <1>5, <2>1, <2>2, <2>3 DEF Caller
<1>6. CASE UNCHANGED vars
  BY <1>0, <1>1, <1>6 DEF vars
<1> QED BY <1>3, <1>4, <1>5, <1>6 DEF Next

\* A dead pool is alive again only through set_alive, or retry_inter_ seconds
\* after its last death, although aliving reads the clock before it locks.
THEOREM RevivedInTime == Spec => RevivedOnlyAfterRetry
<1>1. Init => StampPast
  BY TimeAssumption DEF Init, StampPast
<1>2. TypeOK /\ StampPast /\ [Next]_vars =>
        [~alive /\ alive' => \/ RetryInter > 0 /\ now - lastDead >= RetryInter
                             \/ SetAlive(TRUE)]_vars
  <2> SUFFICES ASSUME TypeOK, StampPast, Next, ~alive, alive', ~SetAlive(TRUE)
               PROVE  RetryInter > 0 /\ now - lastDead >= RetryInter
    OBVIOUS
  <2> USE DEF life, stats, local
  <2>1. CASE Tick
    BY <2>1 DEF Tick
  <2>2. CASE Owner
    BY <2>2 DEF Owner, CheckIdle, SetAlive, SetDelayDestroy
  <2>3. ASSUME NEW t \in Threads, Caller(t)
        PROVE  RetryInter > 0 /\ now - lastDead >= RetryInter
    <3>1. CASE Peek(t)
      BY <3>1 DEF Peek, PeekRefused, PeekIdle, PeekReserve, PeekNone, PeekPasses, MayRevive
    <3>2. CASE AlivingEnd(t)
      <4>1. stamp[t] \in Nat /\ stamp[t] <= now /\ now \in Nat /\ lastDead \in Nat
        BY DEF TypeOK, StampPast
      <4>2. RetryInter > 0 /\ stamp[t] - lastDead >= RetryInter
        BY <3>2 DEF AlivingEnd, MayRevive
      <4> QED BY <4>1, <4>2, TimeAssumption
    <3>3. CASE GetRef(t) \/ OpenOk(t) \/ OpenFail(t) \/ BindOne(t) \/ Put(t)
      BY <3>3 DEF GetRef, OpenOk, OpenFail, BindOne, Put, PutMarked, PutBack
    <3>4. CASE (\E k \in BOOLEAN : PutBegin(t, k)) \/ AlivingBegin(t) \/ ResetBegin(t) \/ ResetEnd(t)
      BY <3>4 DEF PutBegin, AlivingBegin, ResetBegin, ResetEnd
    <3> QED BY <2>3, <3>1, <3>2, <3>3, <3>4 DEF Caller
  <2> QED BY <2>1, <2>2, <2>3 DEF Next
<1> QED BY <1>1, <1>2, StampStep, TypeCorrect, PTL DEF Spec, RevivedOnlyAfterRetry

-----------------------------------------------------------------------------
(* The lease. Where a connection is follows from the idle list and from    *)
(* what the threads hold.                                                  *)

PlacesRight ==
  /\ Idle \subseteq Conns /\ Held \subseteq Conns
  /\ \A t \in Threads : held[t] # NoConn => held[t] \in Held \ Idle
  /\ \A c \in Conns :
       /\ PlaceOf(c) \in {"idle", "absent"} \cup Threads
       /\ PlaceOf(c) = "idle" <=> c \in Idle
       /\ PlaceOf(c) = "absent" <=> c \notin Idle \cup Held
       /\ \A t \in Threads : PlaceOf(c) = t <=> held[t] = c

LEMMA PlaceFacts == TypeOK /\ LeaseInv => PlacesRight
<1> SUFFICES ASSUME TypeOK, LeaseInv PROVE PlacesRight
  OBVIOUS
<1>1. Idle \subseteq Conns
  BY ElementOfSeq DEF Idle, TypeOK
<1>2. Held \subseteq Conns
  BY DEF Held, TypeOK
<1>3. \A t \in Threads : held[t] # NoConn => held[t] \in Held \ Idle
  BY DEF Held, Idle, LeaseInv, IdleNotHeld
<1>4. ASSUME NEW c \in Conns
      PROVE  /\ PlaceOf(c) \in {"idle", "absent"} \cup Threads
             /\ PlaceOf(c) = "idle" <=> c \in Idle
             /\ PlaceOf(c) = "absent" <=> c \notin Idle \cup Held
             /\ \A t \in Threads : PlaceOf(c) = t <=> held[t] = c
  <2>0. c # NoConn
    BY ConnsAssumption
  <2>1. CASE c \in Idle
    <3>1. PlaceOf(c) = "idle"
      BY <2>1 DEF PlaceOf
    <3>2. \A t \in Threads : held[t] # c
      BY <1>3, <2>0, <2>1
    <3> QED BY <2>1, <3>1, <3>2, PlacesAssumption
  <2>2. CASE c \notin Idle /\ c \in Held
    <3>1. PICK t \in Threads : held[t] = c
      BY <2>2 DEF Held
    <3>2. \A u \in Threads : held[u] = c => u = t
      BY <2>0, <3>1 DEF LeaseInv, HeldDistinct
    <3>3. PlaceOf(c) = t
      BY <2>2, <3>1, <3>2 DEF PlaceOf
    <3> QED BY <2>2, <3>1, <3>2, <3>3, PlacesAssumption
  <2>3. CASE c \notin Idle /\ c \notin Held
    <3>1. PlaceOf(c) = "absent"
      BY <2>3 DEF PlaceOf
    <3>2. \A t \in Threads : held[t] # c
      BY <2>0, <2>3 DEF Held
    <3> QED BY <2>3, <3>1, <3>2, PlacesAssumption
  <2> QED BY <2>1, <2>2, <2>3
<1> QED BY <1>1, <1>2, <1>3, <1>4 DEF PlacesRight

LEMMA PlaceFactsNext == TypeOK' /\ LeaseInv' => PlacesRight'
BY PlaceFacts, PTL

\* A step that leaves the list's members and the loans alone changes no place.
LEMMA SamePlace ==
  ASSUME PlacesRight, PlacesRight', NEW c \in Conns,
         c \in Idle' <=> c \in Idle,
         \A t \in Threads : held'[t] = c <=> held[t] = c
  PROVE  PlaceOf(c)' = PlaceOf(c)
BY DEF PlacesRight

LEMMA LeaseUnmoved ==
  UNCHANGED <<pool, held, destroyed>> => UNCHANGED Lease!lvars
BY DEF Lease!lvars, PlaceOf, Idle, Held

\* What the abstract sets are.
LEMMA LeaseSets ==
  ASSUME PlacesRight
  PROVE  /\ Lease!Live = Idle \cup Held
         /\ \A t \in Threads : held[t] = NoConn => Lease!Lent(t) = {}
         /\ Lease!Lendings = Held
<1>1. Lease!Live = Idle \cup Held
  BY DEF Lease!Live, PlacesRight
<1>2. ASSUME NEW t \in Threads, held[t] = NoConn PROVE Lease!Lent(t) = {}
  BY <1>2, ConnsAssumption DEF Lease!Lent, PlacesRight
<1>3. Lease!Lendings = Held
  <2>1. \A c \in Conns : c \in Held <=> \E t \in Threads : held[t] = c
    BY ConnsAssumption DEF Held
  <2> QED BY <2>1 DEF Lease!Lendings, PlacesRight
<1> QED BY <1>1, <1>2, <1>3

LEMMA LivePool ==
  ASSUME CountInv, destroyed
  PROVE  delayDestroy /\ Out = {}
<1>1. Len(pool) + Cardinality(Out) = 0 /\ delayDestroy
  BY DEF CountInv, CountExact, Marked
<1>2. IsFiniteSet(Out) /\ Cardinality(Out) = 0
  BY <1>1, OutFacts DEF CountInv
<1> QED BY <1>1, <1>2, FS_EmptySet

\* peek takes the front of the idle list.
LEMMA PeekLends ==
  ASSUME TypeOK, LeaseInv, PlacesRight, PlacesRight', NEW t \in Threads, PeekIdle(t)
  PROVE  Lease!Next
<1>1. /\ ~destroyed /\ destroyed' = destroyed /\ held[t] = NoConn
      /\ pool' = Tail(pool) /\ held' = [held EXCEPT ![t] = Head(pool)] /\ pool # <<>>
  BY DEF PeekIdle, PeekPasses, LeaseInv, HoldersHold, HoldPlaces
<1>2. pool \in Seq(Conns) /\ held \in [Threads -> Conns \cup {NoConn}]
  BY DEF TypeOK
<1>3. PICK c \in Conns : c = Head(pool) /\ c \in Idle
  <2>1. Len(pool) \in Nat /\ 1 \in 1..Len(pool) /\ Head(pool) = pool[1]
    BY <1>1, <1>2, HeadTailProperties, LenProperties, EmptySeq
  <2>2. Head(pool) \in Conns /\ Head(pool) \in Idle
    BY <1>2, <2>1, ElementOfSeq DEF Idle
  <2> QED BY <2>2
<1>4. Idle' = Idle \ {c}
  <2>1. /\ Len(pool) \in Nat /\ Len(pool') = Len(pool) - 1 /\ c = pool[1]
        /\ \A i \in 1..Len(pool') : pool'[i] = pool[i + 1]
    BY <1>1, <1>2, <1>3, HeadTailProperties, LenProperties, EmptySeq
  <2>2. \A i \in 1..Len(pool') : i + 1 \in 1..Len(pool) /\ i + 1 # 1
    BY <2>1
  <2>3. \A i \in 2..Len(pool) : i - 1 \in 1..Len(pool') /\ pool'[i - 1] = pool[i]
    BY <2>1
  <2>4. \A i \in 2..Len(pool) : pool[i] # c
    BY <2>1 DEF LeaseInv, PoolDistinct
  <2>5. \A d \in Idle' : d \in Idle /\ d # c
    BY <2>1, <2>2, <2>4 DEF Idle
  <2>6. ASSUME NEW d \in Idle, d # c PROVE d \in Idle'
    <3>1. PICK i \in 1..Len(pool) : pool[i] = d
      BY DEF Idle
    <3>2. i \in 2..Len(pool)
      BY <2>1, <2>6, <3>1
    <3> QED BY <2>3, <3>1, <3>2 DEF Idle
  <2> QED BY <2>5, <2>6
<1>5. ASSUME NEW d \in Conns, d # c PROVE PlaceOf(d)' = PlaceOf(d)
  BY <1>1, <1>2, <1>3, <1>4, <1>5, ConnsAssumption, SamePlace
<1>6. PlaceOf(c)' = t /\ PlaceOf(c) = "idle"
  BY <1>1, <1>2, <1>3 DEF PlacesRight
<1>7. Lease!Lend(t, c)
  BY <1>1, <1>3, <1>5, <1>6, LeaseSets DEF Lease!Lend
<1> QED BY <1>3, <1>7 DEF Lease!Next

\* A connection that was nowhere comes to a thread.
LEMMA FreshPlaces ==
  ASSUME TypeOK, PlacesRight, PlacesRight', NEW t \in Threads, NEW c \in Fresh,
         held[t] = NoConn, held' = [held EXCEPT ![t] = c], pool' = pool
  PROVE  /\ c \in Conns /\ PlaceOf(c) = "absent" /\ PlaceOf(c)' = t
         /\ \A d \in Conns \ {c} : PlaceOf(d)' = PlaceOf(d)
<1>1. held \in [Threads -> Conns \cup {NoConn}] /\ Idle' = Idle
  BY DEF TypeOK, Idle
<1>2. c \in Conns /\ PlaceOf(c) = "absent" /\ PlaceOf(c)' = t
  BY <1>1 DEF Fresh, PlacesRight
<1>3. ASSUME NEW d \in Conns \ {c} PROVE PlaceOf(d)' = PlaceOf(d)
  BY <1>1, ConnsAssumption, SamePlace
<1> QED BY <1>2, <1>3

\* ConnLease counts with its own instance of FiniteSets.
LEMMA SameCardinality == \A S : Lease!Cardinality(S) = Cardinality(S)
BY Zenon DEF Lease!Cardinality, Cardinality

\* The socket is opened outside the lock, within the limit all the same.
LEMMA OpenOpens ==
  ASSUME CountInv, MaxRespected, PlacesRight, PlacesRight', NEW t \in Threads, OpenOk(t)
  PROVE  Lease!Next
<1>0. TypeOK /\ LeaseInv
  BY DEF CountInv
<1>1. PICK c \in Fresh \ Foreign : held' = [held EXCEPT ![t] = c]
  BY DEF OpenOk
<1>2. pool' = pool /\ destroyed' = destroyed /\ held[t] = NoConn /\ pc[t] = "opening"
  BY <1>0 DEF OpenOk, life, LeaseInv, HoldersHold, HoldPlaces
<1>3. ~destroyed
  BY <1>2, LivePool DEF Out, OutPlaces
<1>4. Max > 0 => Cardinality((Idle \cup Held) \ Foreign) < Max
  <2>1. Cardinality(Opening) > 0
    <3>1. t \in Opening
      BY <1>2 DEF Opening
    <3> QED BY <1>0, <3>1, OwnWithinOut, FS_EmptySet
  <2>2. Cardinality(OwnLive) \in Nat /\ Cardinality(Opening) \in Nat /\ Max \in Nat
    BY <1>0, OwnWithinOut, TimeAssumption
  <2> QED BY <2>1, <2>2 DEF MaxRespected, OwnLive
<1>5. /\ c \in Conns /\ PlaceOf(c) = "absent" /\ PlaceOf(c)' = t
      /\ \A d \in Conns \ {c} : PlaceOf(d)' = PlaceOf(d)
  BY <1>0, <1>1, <1>2, FreshPlaces
<1>6. Lease!Open(t, c)
  BY <1>1, <1>2, <1>3, <1>4, <1>5, LeaseSets, SameCardinality DEF Lease!Open
<1> QED BY <1>5, <1>6 DEF Lease!Next

LEMMA BindBrings ==
  ASSUME TypeOK, LeaseInv, PlacesRight, PlacesRight', NEW t \in Threads, BindOne(t)
  PROVE  Lease!Next
<1>1. PICK c \in Fresh \cap Foreign : held' = [held EXCEPT ![t] = c]
  BY DEF BindOne
<1>2. pool' = pool /\ destroyed' = destroyed /\ held[t] = NoConn /\ ~destroyed
  BY DEF BindOne, life, LeaseInv, HoldersHold, HoldPlaces
<1>3. /\ c \in Conns /\ PlaceOf(c) = "absent" /\ PlaceOf(c)' = t
      /\ \A d \in Conns \ {c} : PlaceOf(d)' = PlaceOf(d)
  BY <1>1, <1>2, FreshPlaces
<1>4. Lease!Bring(t, c)
  BY <1>1, <1>2, <1>3, LeaseSets DEF Lease!Bring
<1> QED BY <1>3, <1>4 DEF Lease!Next

\* The owner's check_idle closes idle connections.
LEMMA CheckCloses ==
  ASSUME CountInv, PlacesRight, PlacesRight', NEW ttl \in CheckTtls, CheckIdle(ttl)
  PROVE  Lease!Next
<1> DEFINE S == Idle \ Idle'
<1>1. TypeOK /\ LeaseInv /\ pool \in Seq(Conns) /\ count \in 0..(Word - 1)
  BY DEF CountInv, TypeOK
<1>2. ttl \in Int /\ Len(pool) < Word
  BY <1>1, TimeAssumption, LenBound DEF LeaseInv, PoolDistinct
<1>3. pool' = Checked(pool, count, when, ttl).pool /\ UNCHANGED <<held, destroyed>> /\ ~destroyed
  BY LivePool DEF CheckIdle, life
<1>4. PICK k \in 0..Len(pool) : pool' = SubSeq(pool, 1, k)
  BY <1>1, <1>2, <1>3, CheckedList
<1>5. Idle' \subseteq Idle
  BY <1>1, <1>4, PrefixFacts DEF Idle
<1>6. PICK T \in SUBSET Conns : T = S
  BY DEF PlacesRight
<1>7. ASSUME NEW c \in Conns
      PROVE  PlaceOf(c)' = IF c \in T THEN "absent" ELSE PlaceOf(c)
  <2>1. CASE c \in T
    <3>1. c \in Idle /\ c \notin Idle' /\ c \notin Held'
      BY <1>3, <1>6, <2>1, <1>5 DEF PlacesRight, Held
    <3> QED BY <2>1, <3>1 DEF PlacesRight
  <2>2. CASE c \notin T
    BY <1>3, <1>5, <1>6, <2>2, SamePlace
  <2> QED BY <2>1, <2>2
<1>8. \A c \in T : PlaceOf(c) = "idle"
  BY <1>6 DEF PlacesRight
<1>9. Lease!Close(T)
  BY <1>3, <1>7, <1>8 DEF Lease!Close
<1> QED BY <1>9 DEF Lease!Next

\* A thread gives up its connection; other idle ones may be closed with it.
LEMMA GivesBack ==
  ASSUME TypeOK, LeaseInv, PlacesRight, PlacesRight', NEW t \in Threads, ~destroyed,
         destroyed' = destroyed, held[t] # NoConn, held' = [held EXCEPT ![t] = NoConn],
         Idle' \subseteq Idle \cup {held[t]}
  PROVE  Lease!Next
<1>1. PICK c \in Conns : c = held[t] /\ PlaceOf(c) = t
  BY DEF PlacesRight
<1>2. PICK S \in SUBSET Conns : S = (Idle \cup {c}) \ Idle'
  <2>1. (Idle \cup {c}) \ Idle' \in SUBSET Conns
    BY DEF PlacesRight
  <2> QED BY <2>1
<1>3. held \in [Threads -> Conns \cup {NoConn}] /\ NoConn \notin Conns
  BY ConnsAssumption DEF TypeOK
<1>4. \A d \in S : d = c \/ PlaceOf(d) = "idle"
  BY <1>2 DEF PlacesRight
<1>5. \A u \in Threads : held'[u] # c
  BY <1>1, <1>3 DEF LeaseInv, HeldDistinct
<1>6. ASSUME NEW d \in Conns
      PROVE  PlaceOf(d)' = IF d \in S THEN "absent" ELSE IF d = c THEN "idle" ELSE PlaceOf(d)
  <2>1. CASE d \in S
    <3>1. \A u \in Threads : held'[u] # d
      <4>1. CASE d = c
        BY <1>5, <4>1
      <4>2. CASE d # c
        <5>1. \A u \in Threads : held[u] # d
          BY <1>2, <2>1, <4>2 DEF LeaseInv, IdleNotHeld, Idle
        <5> QED BY <1>3, <5>1
      <4> QED BY <4>1, <4>2
    <3>2. d \notin Idle' /\ d \notin Held'
      BY <1>2, <2>1, <3>1 DEF Held
    <3> QED BY <2>1, <3>2 DEF PlacesRight
  <2>2. CASE d \notin S /\ d = c
    BY <1>2, <2>2 DEF PlacesRight
  <2>3. CASE d \notin S /\ d # c
    <3>1. d \in Idle' <=> d \in Idle
      BY <1>1, <1>2, <2>3
    <3>2. \A u \in Threads : held'[u] = d <=> held[u] = d
      BY <1>1, <1>3, <2>3
    <3> QED BY <2>3, <3>1, <3>2, SamePlace
  <2> QED BY <2>1, <2>2, <2>3
<1>7. Lease!Return(t, c, S)
  BY <1>1, <1>4, <1>6 DEF Lease!Return
<1> QED BY <1>7 DEF Lease!Next

LEMMA PutReturns ==
  ASSUME CountInv, PlacesRight, PlacesRight', NEW t \in Threads, PutBack(t)
  PROVE  Lease!Next
<1>1. TypeOK /\ LeaseInv
  BY DEF CountInv
<1>2. ~destroyed /\ destroyed' = destroyed
  BY LivePool DEF PutBack, life
<1>3. held[t] # NoConn /\ held' = [held EXCEPT ![t] = NoConn]
  BY <1>1 DEF PutBack, PutDone, LeaseInv, HoldersHold, HoldPlaces
<1> QED BY <1>1, <1>2, <1>3, PutBackIdle, GivesBack

\* The last loan of a marked pool ends it; an earlier one is only returned.
LEMMA PutEnds ==
  ASSUME CountInv, PlacesRight, PlacesRight', NEW t \in Threads, PutMarked(t)
  PROVE  Lease!Next
<1>1. TypeOK /\ LeaseInv /\ count = Len(pool) + Cardinality(Out)
  BY DEF CountInv, CountExact
<1>2. t \in Out
  BY DEF PutMarked, Out, OutPlaces
<1>3. ~destroyed
  BY <1>2, LivePool
<1>4. held[t] # NoConn /\ held' = [held EXCEPT ![t] = NoConn]
  BY <1>1 DEF PutMarked, PutDone, LeaseInv, HoldersHold, HoldPlaces
<1>5. CASE ~LastRef(count')
  <2>1. pool' = pool /\ destroyed' = destroyed
    BY <1>5 DEF PutMarked
  <2>2. Idle' \subseteq Idle \cup {held[t]}
    BY <2>1 DEF Idle
  <2> QED BY <1>1, <1>3, <1>4, <2>1, <2>2, GivesBack
<1>6. CASE LastRef(count')
  <2>1. pool' = <<>> /\ destroyed' = TRUE /\ count' = Dec(count) /\ count' <= 0
    BY <1>6 DEF PutMarked, LastRef
  <2>2. Out = {t}
    <3>1. /\ Cardinality(Out \ {t}) = Cardinality(Out) - 1 /\ Cardinality(Out) > 0
          /\ Cardinality(Out) \in Nat /\ Len(pool) \in Nat /\ Len(pool) + Cardinality(Out) < Word
          /\ IsFiniteSet(Out)
      BY <1>1, <1>2, OutFacts
    <3>2. count # 0 /\ Dec(count) = count - 1
      BY <1>1, <3>1 DEF Dec
    <3>3. Cardinality(Out \ {t}) = 0 /\ IsFiniteSet(Out \ {t})
      BY <1>1, <2>1, <3>1, <3>2, FS_Subset
    <3>4. Out \ {t} = {}
      BY <3>3, FS_EmptySet
    <3> QED BY <1>2, <3>4
  <2>3. \A u \in Threads : u # t => held[u] = NoConn
    BY <1>1, <2>2 DEF Out, OutPlaces, LeaseInv, HoldersHold, HoldPlaces
  <2>4. PICK c \in Conns : c = held[t] /\ PlaceOf(c) = t
    BY <1>4 DEF PlacesRight
  <2>5. Lease!Lendings = {c}
    <3>1. Held = {c}
      BY <1>4, <2>3, <2>4 DEF Held
    <3> QED BY <3>1, LeaseSets
  <2>6. \A d \in Conns : PlaceOf(d)' = "absent"
    <3>1. Idle' = {}
      BY <2>1, EmptySeq DEF Idle
    <3>2. Held' = {}
      BY <1>1, <1>4, <2>3 DEF Held, TypeOK
    <3> QED BY <3>1, <3>2 DEF PlacesRight
  <2>7. Lease!End(t, c)
    BY <1>3, <2>1, <2>4, <2>5, <2>6 DEF Lease!End
  <2> QED BY <2>4, <2>7 DEF Lease!Next
<1> QED BY <1>5, <1>6

LEMMA ImplStep ==
  ASSUME CountInv, MaxRespected, PlacesRight, PlacesRight', [Next]_vars
  PROVE  [Lease!Next]_(Lease!lvars)
<1>0. TypeOK /\ LeaseInv
  BY DEF CountInv
<1> USE DEF life, stats, local
<1>1. CASE Tick \/ UNCHANGED vars
  BY <1>1, LeaseUnmoved DEF Tick, vars
<1>2. ASSUME NEW ttl \in CheckTtls, CheckIdle(ttl) PROVE Lease!Next
  BY <1>2, CheckCloses
<1>3. CASE SetDelayDestroy \/ \E yes \in BOOLEAN : SetAlive(yes)
  BY <1>3, LeaseUnmoved DEF SetDelayDestroy, SetAlive
<1>4. ASSUME NEW t \in Threads, Caller(t) PROVE [Lease!Next]_(Lease!lvars)
  <2>1. CASE PeekIdle(t)
    BY <1>0, <2>1, PeekLends
  <2>2. CASE OpenOk(t)
    BY <2>2, OpenOpens
  <2>3. CASE BindOne(t)
    BY <1>0, <2>3, BindBrings
  <2>4. CASE PutBack(t)
    BY <2>4, PutReturns
  <2>5. CASE PutMarked(t)
    BY <2>5, PutEnds
  <2>6. CASE GetRef(t) \/ PeekRefused(t) \/ PeekReserve(t) \/ \E on \in BOOLEAN : PeekNone(t, on)
    BY <2>6, LeaseUnmoved DEF GetRef, PeekRefused, PeekReserve, PeekNone, PeekPasses
  <2>7. CASE OpenFail(t) \/ \E k \in BOOLEAN : PutBegin(t, k)
    BY <2>7, LeaseUnmoved DEF OpenFail, PutBegin
  <2>8. CASE AlivingBegin(t) \/ AlivingEnd(t) \/ ResetBegin(t) \/ ResetEnd(t)
    BY <2>8, LeaseUnmoved DEF AlivingBegin, AlivingEnd, ResetBegin, ResetEnd
  <2> QED BY <1>4, <2>1, <2>2, <2>3, <2>4, <2>5, <2>6, <2>7, <2>8 DEF Caller, Peek, Put
<1> QED BY <1>1, <1>2, <1>3, <1>4 DEF Next, Owner

LEMMA ImplInit == Init => Lease!Init
<1> SUFFICES ASSUME Init PROVE Lease!Init
  OBVIOUS
<1>1. Idle = {} /\ Held = {}
  BY EmptySeq DEF Init, Idle, Held
<1>2. \A c \in Conns : PlaceOf(c) = "absent"
  BY <1>1 DEF PlaceOf
<1> QED BY <1>2 DEF Init, Lease!Init

\* The pool is a pool of leases: whatever its counter, its list and its clocks
\* do between the critical sections, every step is one ConnLease allows.
THEOREM PoolImplementsLease == ASSUME NoZeroTtl PROVE Spec => ImplementsLease
<1>1. CountInv => PlacesRight
  BY PlaceFacts DEF CountInv
<1>2. CountInv /\ MaxRespected /\ PlacesRight /\ PlacesRight' /\ [Next]_vars
        => [Lease!Next]_(Lease!lvars)
  BY ImplStep
<1> QED BY <1>1, <1>2, ImplInit, CountInvariant, LimitRespected, PTL
        DEF Spec, ImplementsLease, Lease!Spec
=============================================================================
