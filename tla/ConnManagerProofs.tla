-------------------------- MODULE ConnManagerProofs -------------------------
(***************************************************************************)
(* Theorems about ConnManager for any number of threads, addresses and     *)
(* pools: what holds in every build, and what needs the build in which     *)
(* lock_guard takes the lock.                                              *)
(***************************************************************************)
EXTENDS ConnManager, FiniteSetTheorems, SequenceTheorems, TLAPS

-----------------------------------------------------------------------------
(* The inductive invariant, in every build. *)

Places == InsidePlaces \cup {"idle", "enter", "have", "opening", "using"}

\* Where the threads are. A scan has a size, who left with a pool has one.
ThreadInv ==
  /\ owner \in Threads \cup {NoThread}
  /\ pc \in [Threads -> Places]
  /\ op \in [Threads -> Ops \cup {"none"}]
  /\ arg \in [Threads -> Addrs \cup {NoAddr}]
  /\ todo \in [Threads -> SUBSET Addrs]
  /\ left \in [Threads -> 0..MaxPools] /\ size \in [Threads -> 0..MaxPools]
  /\ live \in [Threads -> SUBSET PoolIds]
  /\ result \in [Threads -> 0..MaxPools]
  /\ \A t \in Threads :
       /\ pc[t] = "scan" => size[t] > 0
       /\ pc[t] \in {"have", "opening", "using"} => result[t] > 0
       /\ op[t] \in NeedsAddr => arg[t] \in Addrs

\* The vector has each pool once, and no pool that is marked.
TableInv ==
  /\ addrs \subseteq Addrs
  /\ made \in 0..MaxPools /\ pools \in Seq(1..made)
  /\ addrOf \in [PoolIds -> Addrs \cup {NoAddr}]
  /\ connsNext \in 0..(Cycle - 1) /\ checkNext \in 0..(Cycle - 1)
  /\ \A i, j \in 1..Len(pools) : pools[i] = pools[j] => i = j
  /\ marked \subseteq 1..made /\ marked \cap Here = {}

\* The loans of a pool are its users, and the callers that open a connection.
Users(p) == {t \in Threads : HasConn(t, p)}
LoanInv ==
  /\ alive \in [PoolIds -> BOOLEAN] /\ picks \in [PoolIds -> Nat]
  /\ idle \in [PoolIds -> 0..MaxConns] /\ lent \in [PoolIds -> 0..MaxConns]
  /\ deleted \subseteq marked
  /\ \A p \in PoolIds : lent[p] = Cardinality(Users(p)) /\ idle[p] + lent[p] <= MaxConns

ManagerInv == ThreadInv /\ TableInv /\ LoanInv

\* The vector is no longer than the pools ever made.
LEMMA VectorFacts ==
  ASSUME TableInv
  PROVE  /\ Len(pools) \in 0..MaxPools /\ Len(pools) <= made /\ made \in Nat /\ MaxPools \in Nat
         /\ \A i \in 1..Len(pools) : pools[i] \in 1..made /\ pools[i] \in PoolIds
         /\ Here \subseteq PoolIds /\ Here \subseteq 1..made
         /\ pools # <<>> => Len(pools) > 0
<1>0. made \in Nat /\ MaxPools \in Nat /\ pools \in Seq(1..made) /\ made <= MaxPools
  BY BoundsAssumption DEF TableInv
<1>1. Len(pools) \in Nat /\ \A i \in 1..Len(pools) : pools[i] \in 1..made
  BY <1>0, LenProperties, ElementOfSeq
<1>2. pools \in Injection(1..Len(pools), 1..made)
  BY <1>0, <1>1, LenProperties DEF TableInv, Injection, IsInjective
<1>3. \A n \in Nat : IsFiniteSet(1..n) /\ Cardinality(1..n) = n
  <2> SUFFICES ASSUME NEW n \in Nat PROVE IsFiniteSet(1..n) /\ Cardinality(1..n) = n
    OBVIOUS
  <2>1. IsFiniteSet(1..n) /\ Cardinality(1..n) = IF 1 > n THEN 0 ELSE n - 1 + 1
    BY FS_Interval
  <2> QED BY <2>1
<1>4. Len(pools) <= made
  BY <1>0, <1>1, <1>2, <1>3, FS_Injection
<1>5. Here \subseteq 1..made
  BY <1>1 DEF Here
<1> QED BY <1>0, <1>1, <1>4, <1>5, EmptySeq DEF PoolIds

\* The turn of a scan is a place of the vector, or past its end.
LEMMA NthHere ==
  ASSUME ThreadInv, TableInv, NEW t \in Threads, pc[t] = "scan", InVector(t)
  PROVE  Nth(t) \in Here /\ Nth(t) \in PoolIds
<1>1. size[t] \in Nat /\ size[t] > 0 /\ connsNext \in Nat /\ Len(pools) \in Nat
  BY VectorFacts, BoundsAssumption DEF ThreadInv, TableInv
<1>2. connsNext % size[t] \in Nat
  BY <1>1
<1>3. (connsNext % size[t]) + 1 \in 1..Len(pools)
  BY <1>1, <1>2 DEF InVector
<1> QED BY <1>3, VectorFacts DEF Nth, Here

-----------------------------------------------------------------------------
(* The threads. *)

LEMMA LeaveThread ==
  ASSUME ThreadInv, NEW t \in Threads, NEW p \in 0..MaxPools, Leave(t, p)
  PROVE  ThreadInv'
<1>1. 0 \in 0..MaxPools /\ {} \in SUBSET Addrs /\ {} \in SUBSET PoolIds
  BY BoundsAssumption
<1> QED BY <1>1 DEF ThreadInv, Leave, Unlocked, Places, NeedsAddr

LEMMA ScanThread ==
  ASSUME ThreadInv, NEW t \in Threads, NEW v, Len(v) \in 1..MaxPools,
         \A i \in 1..Len(v) : v[i] \in PoolIds, StartScan(t, v),
         todo' \in [Threads -> SUBSET Addrs], UNCHANGED <<owner, op, arg, result>>
  PROVE  ThreadInv'
<1>1. {v[i] : i \in {j \in 1..Len(v) : alive[v[j]]}} \in SUBSET PoolIds
  OBVIOUS
<1>2. Len(v) \in 0..MaxPools /\ Len(v) > 0
  BY BoundsAssumption
<1> QED BY <1>1, <1>2 DEF ThreadInv, StartScan, Places, InsidePlaces

LEMMA ThreadStep == ManagerInv /\ [Next]_vars => ThreadInv'
<1> SUFFICES ASSUME ManagerInv, [Next]_vars PROVE ThreadInv'
  OBVIOUS
<1> USE DEF table, state, scan
<1>0. /\ ThreadInv /\ TableInv /\ MaxPools \in Nat \ {0}
      /\ Len(pools) \in 0..MaxPools /\ made \in Nat
      /\ \A i \in 1..Len(pools) : pools[i] \in PoolIds
      /\ Here \subseteq PoolIds /\ 0 \in 0..MaxPools
      /\ pools # <<>> => Len(pools) > 0
  BY VectorFacts, BoundsAssumption DEF ManagerInv
<1>1. ASSUME NEW t \in Threads, NEW o \in Ops, NEW a \in Addrs \cup {NoAddr}, Call(t, o, a)
      PROVE  ThreadInv'
  BY <1>0, <1>1, SetsAssumption DEF Call, ThreadInv, Places
<1>2. ASSUME NEW t \in Threads, Enter(t) PROVE ThreadInv'
  BY <1>0, <1>2 DEF Enter, ThreadInv, Places, InsidePlaces
<1>3. ASSUME NEW t \in Threads,
             Set(t) \/ GetNone(t) \/ RemoveFound(t) \/ RemoveNone(t) \/ SetStatus(t)
               \/ PeekNoConfig(t) \/ PeekAllDead(t) \/ \E step \in 1..2 : CheckIdle(t, step)
      PROVE  ThreadInv'
  <2>1. Leave(t, 0)
    BY <1>3 DEF Set, GetNone, RemoveFound, RemoveNone, SetStatus, PeekNoConfig, PeekAllDead,
                CheckIdle
  <2> QED BY <1>0, <2>1, LeaveThread
<1>4. ASSUME NEW t \in Threads, GetFound(t) \/ PeekHash(t) PROVE ThreadInv'
  <2>1. PICK p \in Here : Leave(t, p)
    BY <1>4 DEF GetFound, PeekHash, PoolsOf
  <2> QED BY <1>0, <2>1, LeaveThread DEF PoolIds
<1>5. ASSUME NEW t \in Threads, GetCreate(t) PROVE ThreadInv'
  <2>1. Leave(t, made + 1) /\ made + 1 \in 0..MaxPools
    BY <1>0, <1>5 DEF GetCreate, Create
  <2> QED BY <1>0, <2>1, LeaveThread
<1>6. ASSUME NEW t \in Threads, PeekSize(t) PROVE ThreadInv'
  <2>1. CASE pools = <<>>
    <3>1. /\ todo' = [todo EXCEPT ![t] = addrs] /\ pc' = [pc EXCEPT ![t] = "create"]
          /\ UNCHANGED <<owner, op, arg, left, size, live, result>>
      BY <1>6, <2>1 DEF PeekSize
    <3>2. addrs \in SUBSET Addrs
      BY <1>0 DEF TableInv
    <3> QED BY <1>0, <3>1, <3>2 DEF ThreadInv, Places, InsidePlaces
  <2>2. CASE pools # <<>>
    <3>1. StartScan(t, pools) /\ UNCHANGED <<todo, owner, op, arg, result>>
      BY <1>6, <2>2 DEF PeekSize
    <3>2. Len(pools) \in 1..MaxPools /\ todo' \in [Threads -> SUBSET Addrs]
      BY <1>0, <2>2, <3>1 DEF ThreadInv
    <3> QED BY <1>0, <3>1, <3>2, ScanThread
  <2> QED BY <2>1, <2>2
<1>7. ASSUME NEW t \in Threads, PeekCreate(t) PROVE ThreadInv'
  <2>1. PICK a \in todo[t] : Create(a) /\ todo' = [todo EXCEPT ![t] = todo[t] \ {a}]
    BY <1>7 DEF PeekCreate
  <2>2. todo' \in [Threads -> SUBSET Addrs] /\ UNCHANGED <<owner, op, arg, result>>
    BY <1>0, <1>7, <2>1 DEF PeekCreate, ThreadInv
  <2>3. CASE todo'[t] = {}
    <3>1. StartScan(t, pools') /\ made < MaxPools /\ pools' = Append(pools, made + 1)
      BY <1>7, <2>1, <2>3 DEF PeekCreate, Create
    <3>2. /\ Len(pools') = Len(pools) + 1 /\ Len(pools) <= made
          /\ \A i \in 1..Len(pools') : pools'[i] \in PoolIds
      <4>1. pools \in Seq(1..made) /\ Len(pools) <= made
        BY <1>0, VectorFacts DEF TableInv
      <4>2. pools \in Seq(PoolIds) /\ made + 1 \in PoolIds
        <5>1. made + 1 \in PoolIds /\ 1..made \subseteq PoolIds
          BY <1>0, <3>1 DEF PoolIds
        <5> QED BY <4>1, <5>1, SeqMonotonic
      <4>3. Append(pools, made + 1) \in Seq(PoolIds) /\ Len(Append(pools, made + 1)) = Len(pools) + 1
        BY <4>2, AppendProperties
      <4> QED BY <3>1, <4>1, <4>3, ElementOfSeq
    <3>3. Len(pools') \in 1..MaxPools
      BY <1>0, <3>1, <3>2
    <3> QED BY <1>0, <2>2, <3>1, <3>2, <3>3, ScanThread
  <2>4. CASE todo'[t] # {}
    BY <1>0, <1>7, <2>2, <2>4 DEF PeekCreate, ThreadInv
  <2> QED BY <2>3, <2>4
<1>8. ASSUME NEW t \in Threads, PeekAlive(t) PROVE ThreadInv'
  <2>1. Nth(t) \in 0..MaxPools
    BY <1>0, <1>8, NthHere DEF PoolIds, PeekAlive
  <2>2. Leave(t, Nth(t))
    BY <1>8 DEF PeekAlive
  <2> QED BY <1>0, <2>1, <2>2, LeaveThread
<1>9. ASSUME NEW t \in Threads, PeekDead(t) PROVE ThreadInv'
  BY <1>0, <1>9 DEF PeekDead, OneLess, ThreadInv
<1>10. ASSUME NEW t \in Threads, Use(t) PROVE ThreadInv'
  <2>1. CASE BorrowIdle(t)
    BY <1>0, <2>1 DEF BorrowIdle, ThreadInv, Places
  <2>2. CASE Reserve(t)
    BY <1>0, <2>2 DEF Reserve, ThreadInv, Places
  <2>4. CASE OpenOk(t)
    BY <1>0, <2>4 DEF OpenOk, ThreadInv, Places
  <2>5. CASE OpenFail(t)
    BY <1>0, <2>5 DEF OpenFail, ThreadInv, Places
  <2>6. CASE BorrowNothing(t)
    BY <1>0, <2>6 DEF BorrowNothing, ThreadInv, Places
  <2>3. ASSUME NEW keep \in BOOLEAN, GiveBack(t, keep) PROVE ThreadInv'
    BY <1>0, <2>3 DEF GiveBack, ThreadInv, Places
  <2> QED BY <1>10, <2>1, <2>2, <2>3, <2>4, <2>5, <2>6 DEF Use
<1>11. CASE UNCHANGED vars
  BY <1>0, <1>11 DEF vars, thread, ThreadInv
<1> QED BY <1>1, <1>2, <1>3, <1>4, <1>5, <1>6, <1>7, <1>8, <1>9, <1>10, <1>11 DEF Next, Step

-----------------------------------------------------------------------------
(* The vector. *)

LEMMA CreateTable ==
  ASSUME TableInv, NEW a \in Addrs, Create(a), UNCHANGED <<addrs, connsNext, checkNext, marked>>
  PROVE  TableInv' /\ Here' = Here \cup {made + 1}
<1>0. /\ made \in Nat /\ made < MaxPools /\ MaxPools \in Nat /\ made' = made + 1
      /\ pools' = Append(pools, made + 1) /\ Len(pools) \in Nat
      /\ addrOf' = [addrOf EXCEPT ![made + 1] = a]
      /\ pools \in Seq(1..made) /\ \A i \in 1..Len(pools) : pools[i] \in 1..made
  BY VectorFacts DEF Create, TableInv
<1>1. pools \in Seq(1..(made + 1)) /\ made + 1 \in 1..(made + 1)
  <2>1. 1..made \subseteq 1..(made + 1) /\ made + 1 \in 1..(made + 1)
    BY <1>0
  <2> QED BY <1>0, <2>1, SeqMonotonic
<1>2. /\ pools' \in Seq(1..(made + 1)) /\ Len(pools') = Len(pools) + 1
      /\ \A i \in 1..Len(pools) : pools'[i] = pools[i]
      /\ pools'[Len(pools) + 1] = made + 1
  BY <1>0, <1>1, AppendProperties
<1>3. \A i \in 1..Len(pools') : i \in 1..Len(pools) \/ i = Len(pools) + 1
  BY <1>0, <1>2
<1>4. \A i \in 1..Len(pools) : i \in 1..Len(pools') /\ pools[i] # made + 1
  BY <1>0, <1>2
<1>5. Len(pools) + 1 \in 1..Len(pools')
  BY <1>0, <1>2
<1>6. Here' = Here \cup {made + 1}
  BY <1>2, <1>3, <1>4, <1>5 DEF Here
<1>7. \A i, j \in 1..Len(pools') : pools'[i] = pools'[j] => i = j
  BY <1>2, <1>3, <1>4 DEF TableInv
<1>8. marked' \subseteq 1..made' /\ made + 1 \notin marked
  <2>1. marked \subseteq 1..made /\ 1..made \subseteq 1..(made + 1) /\ made + 1 \notin 1..made
    BY <1>0 DEF TableInv
  <2> QED BY <1>0, <2>1
<1>9. addrOf' \in [PoolIds -> Addrs \cup {NoAddr}] /\ made' \in 0..MaxPools
  <2>1. addrOf \in [PoolIds -> Addrs \cup {NoAddr}] /\ a \in Addrs \cup {NoAddr}
    BY DEF TableInv
  <2>2. made + 1 \in 0..MaxPools
    BY <1>0
  <2> QED BY <1>0, <2>1, <2>2
<1> QED BY <1>0, <1>2, <1>6, <1>7, <1>8, <1>9 DEF TableInv

\* Erasing a pool leaves the others in their order.
LEMMA EraseTable ==
  ASSUME TableInv, NEW p \in Here, pools' = Erase(p), marked' = marked \cup {p},
         UNCHANGED <<addrs, connsNext, checkNext, made, addrOf>>
  PROVE  TableInv' /\ Here' = Here \ {p}
<1> DEFINE i == CHOOSE j \in 1..Len(pools) : pools[j] = p
<1>0. pools \in Seq(1..made) /\ Len(pools) \in Nat /\ made \in Nat /\ p \in 1..made
  BY VectorFacts DEF TableInv
<1>1. i \in 1..Len(pools) /\ pools[i] = p
  BY DEF Here
<1>2. pools' = SubSeq(pools, 1, i - 1) \o SubSeq(pools, i + 1, Len(pools))
  BY Zenon DEF Erase
<1> HIDE DEF i
<1>3. i \in Int /\ i - 1 \in Int /\ i + 1 \in Int /\ Len(pools) \in Int
  BY <1>0, <1>1
<1> DEFINE a == SubSeq(pools, 1, i - 1)
           b == SubSeq(pools, i + 1, Len(pools))
<1>4. /\ a \in Seq(1..made) /\ Len(a) = i - 1
      /\ \A j \in 1..(i - 1) : a[j] = pools[j]
  <2>1. \A j \in 1..(i - 1) : pools[j] \in 1..made
    BY <1>0, <1>1, ElementOfSeq
  <2>2. /\ a \in Seq(1..made) /\ Len(a) = IF 1 <= i - 1 THEN (i - 1) - 1 + 1 ELSE 0
        /\ \A j \in 1..((i - 1) - 1 + 1) : a[j] = pools[1 + j - 1]
    BY <1>3, <2>1, SubSeqProperties
  <2> QED BY <1>0, <1>1, <2>2
<1>5. /\ b \in Seq(1..made) /\ Len(b) = Len(pools) - i
      /\ \A j \in 1..(Len(pools) - i) : b[j] = pools[i + j]
  <2>1. \A j \in (i + 1)..Len(pools) : pools[j] \in 1..made
    BY <1>0, <1>1, ElementOfSeq
  <2>2. /\ b \in Seq(1..made)
        /\ Len(b) = IF i + 1 <= Len(pools) THEN Len(pools) - (i + 1) + 1 ELSE 0
        /\ \A j \in 1..(Len(pools) - (i + 1) + 1) : b[j] = pools[(i + 1) + j - 1]
    BY <1>3, <2>1, SubSeqProperties
  <2> QED BY <1>0, <1>1, <2>2
<1> HIDE DEF a, b
<1>6. /\ pools' \in Seq(1..made) /\ Len(pools') = Len(pools) - 1
      /\ \A j \in 1..Len(pools') : pools'[j] = IF j <= i - 1 THEN pools[j] ELSE pools[j + 1]
  <2>1. pools' = a \o b
    BY <1>2 DEF a, b
  <2>2. /\ pools' \in Seq(1..made) /\ Len(pools') = (i - 1) + (Len(pools) - i)
        /\ \A j \in 1..Len(pools') : pools'[j] = IF j <= i - 1 THEN a[j] ELSE b[j - (i - 1)]
    BY <1>4, <1>5, <2>1, ConcatProperties
  <2>3. Len(pools') = Len(pools) - 1
    BY <1>0, <1>1, <2>2
  <2>4. ASSUME NEW j \in 1..Len(pools')
        PROVE  pools'[j] = IF j <= i - 1 THEN pools[j] ELSE pools[j + 1]
    <3>1. CASE j <= i - 1
      BY <1>0, <1>1, <1>4, <2>2, <3>1
    <3>2. CASE ~(j <= i - 1)
      <4>1. j - (i - 1) \in 1..(Len(pools) - i) /\ i + (j - (i - 1)) = j + 1
        BY <1>0, <1>1, <2>3, <3>2
      <4> QED BY <1>5, <2>2, <3>2, <4>1
    <3> QED BY <3>1, <3>2
  <2> QED BY <2>2, <2>3, <2>4
<1>7. \A j \in 1..Len(pools') :
        \E k \in 1..Len(pools) : k # i /\ pools'[j] = pools[k] /\ k = (IF j < i THEN j ELSE j + 1)
  <2> SUFFICES ASSUME NEW j \in 1..Len(pools')
               PROVE  \E k \in 1..Len(pools) : k # i /\ pools'[j] = pools[k]
                        /\ k = (IF j < i THEN j ELSE j + 1)
    OBVIOUS
  <2>1. CASE j < i
    BY <1>0, <1>1, <1>6, <2>1
  <2>2. CASE ~(j < i)
    <3>1. j + 1 \in 1..Len(pools) /\ j + 1 # i /\ pools'[j] = pools[j + 1]
      BY <1>0, <1>1, <1>6, <2>2
    <3> QED BY <2>2, <3>1
  <2> QED BY <2>1, <2>2
<1>8. \A k \in 1..Len(pools) : k # i =>
        \E j \in 1..Len(pools') : pools'[j] = pools[k]
  <2> SUFFICES ASSUME NEW k \in 1..Len(pools), k # i
               PROVE  \E j \in 1..Len(pools') : pools'[j] = pools[k]
    OBVIOUS
  <2>1. CASE k < i
    <3>1. k \in 1..Len(pools') /\ k <= i - 1
      BY <1>0, <1>1, <1>6, <2>1
    <3> QED BY <1>6, <3>1
  <2>2. CASE ~(k < i)
    <3>1. k - 1 \in 1..Len(pools') /\ pools'[k - 1] = pools[(k - 1) + 1]
      BY <1>0, <1>1, <1>6, <2>2
    <3>2. (k - 1) + 1 = k
      BY <1>0
    <3> QED BY <3>1, <3>2
  <2> QED BY <2>1, <2>2
<1>9. \A j, k \in 1..Len(pools) : pools[j] = pools[k] => j = k
  BY DEF TableInv
<1>10. Here' = Here \ {p}
  <2>1. \A q \in Here' : q \in Here /\ q # p
    BY <1>1, <1>7, <1>9 DEF Here
  <2>2. \A q \in Here : q # p => q \in Here'
    BY <1>1, <1>8 DEF Here
  <2> QED BY <2>1, <2>2
<1>11. \A j, k \in 1..Len(pools') : pools'[j] = pools'[k] => j = k
  <2> SUFFICES ASSUME NEW j \in 1..Len(pools'), NEW k \in 1..Len(pools'), pools'[j] = pools'[k]
               PROVE  j = k
    OBVIOUS
  <2>1. (IF j < i THEN j ELSE j + 1) = (IF k < i THEN k ELSE k + 1)
    BY <1>7, <1>9
  <2> QED BY <1>3, <1>6, <2>1
<1>12. marked' \subseteq 1..made /\ marked' \cap Here' = {}
  BY <1>0, <1>10 DEF TableInv
<1> QED BY <1>6, <1>10, <1>11, <1>12 DEF TableInv

LEMMA TableStep == ManagerInv /\ [Next]_vars => TableInv'
<1> SUFFICES ASSUME ManagerInv, [Next]_vars PROVE TableInv'
  OBVIOUS
<1> USE DEF table, state, scan
<1>0. ThreadInv /\ TableInv /\ Cycle \in Nat \ {0}
  BY BoundsAssumption DEF ManagerInv
<1>1. ASSUME addrs' \subseteq Addrs, connsNext' \in 0..(Cycle - 1), checkNext' \in 0..(Cycle - 1),
             UNCHANGED <<pools, made, addrOf, marked>>
      PROVE  TableInv'
  BY <1>0, <1>1 DEF TableInv, Here
<1>2. CASE UNCHANGED <<table, marked>>
  BY <1>0, <1>1, <1>2 DEF TableInv
<1>3. \A n \in 0..(Cycle - 1) : (n + 1) % Cycle \in 0..(Cycle - 1)
  BY <1>0
<1>4. ASSUME NEW t \in Threads, NEW o \in Ops, NEW a \in Addrs \cup {NoAddr}, Call(t, o, a)
      PROVE  TableInv'
  BY <1>2, <1>4 DEF Call
<1>5. ASSUME NEW t \in Threads,
             Enter(t) \/ GetNone(t) \/ RemoveNone(t) \/ SetStatus(t) \/ GetFound(t)
               \/ PeekNoConfig(t) \/ PeekAllDead(t) \/ PeekHash(t) \/ PeekSize(t)
      PROVE  TableInv'
  BY <1>2, <1>5 DEF Enter, GetNone, RemoveNone, SetStatus, GetFound, PeekNoConfig, PeekAllDead,
                    PeekHash, PeekSize
<1>6. ASSUME NEW t \in Threads, Set(t) PROVE TableInv'
  BY <1>0, <1>1, <1>6 DEF Set, In, ThreadInv, TableInv, NeedsAddr
<1>7. ASSUME NEW t \in Threads, GetCreate(t) PROVE TableInv'
  BY <1>0, <1>7, CreateTable DEF GetCreate, In, ThreadInv, NeedsAddr
<1>8. ASSUME NEW t \in Threads, PeekCreate(t) PROVE TableInv'
  <2>1. PICK a \in todo[t] : Create(a)
    BY <1>8 DEF PeekCreate
  <2>2. a \in Addrs
    BY <1>0 DEF ThreadInv
  <2> QED BY <1>0, <1>8, <2>1, <2>2, CreateTable DEF PeekCreate
<1>9. ASSUME NEW t \in Threads, RemoveFound(t) PROVE TableInv'
  BY <1>0, <1>9, EraseTable DEF RemoveFound, PoolsOf
<1>10. ASSUME NEW t \in Threads, PeekAlive(t) \/ PeekDead(t) PROVE TableInv'
  BY <1>0, <1>1, <1>3, <1>10 DEF PeekAlive, PeekDead, TableInv
<1>11. ASSUME NEW t \in Threads, NEW step \in 1..2, CheckIdle(t, step) PROVE TableInv'
  BY <1>0, <1>1, <1>3, <1>11 DEF CheckIdle, TableInv
<1>12. ASSUME NEW t \in Threads, Use(t) PROVE TableInv'
  BY <1>2, <1>12 DEF Use, BorrowIdle, Reserve, OpenOk, OpenFail, BorrowNothing, GiveBack
<1>13. CASE UNCHANGED vars
  BY <1>2, <1>13 DEF vars
<1> QED BY <1>4, <1>5, <1>6, <1>7, <1>8, <1>9, <1>10, <1>11, <1>12, <1>13 DEF Next, Step

-----------------------------------------------------------------------------
(* The loans. *)

SameUsers ==
  \A t \in Threads :
    /\ pc'[t] \in {"opening", "using"} <=> pc[t] \in {"opening", "using"}
    /\ pc[t] \in {"opening", "using"} => result'[t] = result[t]

LEMMA LoansSame ==
  ASSUME LoanInv, SameUsers, UNCHANGED <<lent, deleted>>, marked \subseteq marked',
         idle' \in [PoolIds -> 0..MaxConns], \A p \in PoolIds : idle'[p] <= idle[p],
         alive' \in [PoolIds -> BOOLEAN], picks' \in [PoolIds -> Nat]
  PROVE  LoanInv'
<1>1. ASSUME NEW p \in PoolIds
      PROVE  lent'[p] = Cardinality(Users(p)') /\ idle'[p] + lent'[p] <= MaxConns
  <2>1. Users(p)' = Users(p)
    BY DEF Users, HasConn, SameUsers
  <2>2. /\ idle[p] \in 0..MaxConns /\ lent[p] \in 0..MaxConns /\ idle'[p] \in 0..MaxConns
        /\ idle[p] + lent[p] <= MaxConns /\ lent[p] = Cardinality(Users(p))
    BY DEF LoanInv
  <2>3. idle'[p] <= idle[p] /\ lent'[p] = lent[p]
    OBVIOUS
  <2>4. idle'[p] + lent'[p] <= MaxConns
    BY <2>2, <2>3, BoundsAssumption
  <2>5. lent'[p] = Cardinality(Users(p)')
    BY <2>1, <2>2, <2>3
  <2> QED BY <2>4, <2>5
<1>2. lent' \in [PoolIds -> 0..MaxConns] /\ deleted' \subseteq marked'
  BY DEF LoanInv
<1> QED BY <1>1, <1>2 DEF LoanInv

LEMMA LeaveUsers ==
  ASSUME ThreadInv, NEW t \in Threads, NEW p, Leave(t, p), pc[t] \notin {"opening", "using"}
  PROVE  SameUsers
BY DEF ThreadInv, Leave, SameUsers

LEMMA UserFacts ==
  ASSUME LoanInv, NEW p \in PoolIds
  PROVE  /\ IsFiniteSet(Users(p)) /\ lent[p] = Cardinality(Users(p))
         /\ \A t \in Threads \ Users(p) : Cardinality(Users(p) \cup {t}) = lent[p] + 1
         /\ \A t \in Users(p) : Cardinality(Users(p) \ {t}) = lent[p] - 1 /\ lent[p] > 0
<1>1. IsFiniteSet(Users(p)) /\ lent[p] = Cardinality(Users(p)) /\ Cardinality(Users(p)) \in Nat
  BY SetsAssumption, FS_Subset, FS_CardinalityType DEF Users, LoanInv
<1>2. ASSUME NEW t \in Users(p) PROVE Cardinality(Users(p)) # 0
  BY <1>1, FS_EmptySet
<1> QED BY <1>1, <1>2, FS_AddElement, FS_RemoveElement

\* A connection is taken from the list, or one more is counted.
LEMMA BorrowLoans ==
  ASSUME ManagerInv, NEW t \in Threads, BorrowIdle(t) \/ Reserve(t)
  PROVE  LoanInv'
<1> USE DEF table, state, scan
<1>0. ThreadInv /\ LoanInv /\ MaxConns \in Nat
  BY BoundsAssumption DEF ManagerInv
<1>1. PICK p \in PoolIds : p = result[t]
  BY <1>0 DEF BorrowIdle, Reserve, ThreadInv, PoolIds
<1>2. /\ \/ idle[p] > 0 /\ idle' = [idle EXCEPT ![p] = idle[p] - 1]
         \/ ~(idle[p] + lent[p] >= MaxConns) /\ idle' = idle
      /\ lent' = [lent EXCEPT ![p] = lent[p] + 1] /\ pc[t] = "have"
      /\ \/ pc' = [pc EXCEPT ![t] = "using"]
         \/ pc' = [pc EXCEPT ![t] = "opening"]
      /\ UNCHANGED <<marked, deleted, result>>
  BY <1>1 DEF BorrowIdle, Reserve, Full
<1>3. alive' \in [PoolIds -> BOOLEAN] /\ picks' \in [PoolIds -> Nat]
  BY <1>0, <1>1 DEF BorrowIdle, Reserve, Revive, Aliving, NoPicks, LoanInv
<1>4. /\ idle \in [PoolIds -> 0..MaxConns] /\ lent \in [PoolIds -> 0..MaxConns]
      /\ idle[p] \in Nat /\ lent[p] \in Nat /\ idle[p] + lent[p] <= MaxConns
      /\ pc \in [Threads -> Places]
  BY <1>0 DEF LoanInv, ThreadInv
<1>5. /\ idle'[p] \in 0..MaxConns /\ lent'[p] \in 0..MaxConns
      /\ idle'[p] + lent'[p] <= MaxConns /\ lent'[p] = lent[p] + 1
  BY <1>0, <1>2, <1>4
<1>6. idle' \in [PoolIds -> 0..MaxConns] /\ lent' \in [PoolIds -> 0..MaxConns]
  BY <1>2, <1>4, <1>5
<1>7. Users(p)' = Users(p) \cup {t} /\ t \notin Users(p)
  BY <1>1, <1>2, <1>4 DEF Users, HasConn
<1>8. \A q \in PoolIds \ {p} : Users(q)' = Users(q)
  BY <1>1, <1>2, <1>4 DEF Users, HasConn
<1>9. ASSUME NEW q \in PoolIds
      PROVE  lent'[q] = Cardinality(Users(q)') /\ idle'[q] + lent'[q] <= MaxConns
  <2>1. CASE q = p
    <3>1. Cardinality(Users(p)') = lent[p] + 1
      BY <1>0, <1>7, UserFacts
    <3> QED BY <1>5, <2>1, <3>1
  <2>2. CASE q # p
    <3>1. idle'[q] = idle[q] /\ lent'[q] = lent[q] /\ Users(q)' = Users(q)
      BY <1>2, <1>4, <1>8, <2>2
    <3> QED BY <1>0, <3>1, Zenon DEF LoanInv
  <2> QED BY <2>1, <2>2
<1> QED BY <1>0, <1>2, <1>3, <1>6, <1>9 DEF LoanInv

\* A connection comes back, or could not be opened. The last one leaves nobody.
LEMMA LoanEnds ==
  ASSUME ManagerInv, NEW t \in Threads, NEW p \in PoolIds, HasConn(t, p),
         lent' = [lent EXCEPT ![p] = lent[p] - 1],
         idle' = idle \/ idle' = [idle EXCEPT ![p] = idle[p] + 1],
         pc' = [pc EXCEPT ![t] = "idle"], result' = [result EXCEPT ![t] = 0],
         UNCHANGED <<marked, alive, picks>>, deleted' \subseteq marked
  PROVE  LoanInv' /\ lent[p] > 0 /\ (lent[p] = 1 => Users(p)' = {})
<1>0. ThreadInv /\ LoanInv /\ MaxConns \in Nat
  BY BoundsAssumption DEF ManagerInv
<1>4. /\ idle \in [PoolIds -> 0..MaxConns] /\ lent \in [PoolIds -> 0..MaxConns]
      /\ idle[p] \in Nat /\ lent[p] \in Nat /\ idle[p] + lent[p] <= MaxConns
      /\ pc \in [Threads -> Places] /\ result \in [Threads -> 0..MaxPools]
  BY <1>0 DEF LoanInv, ThreadInv
<1>5. /\ t \in Users(p) /\ lent[p] > 0 /\ Cardinality(Users(p) \ {t}) = lent[p] - 1
      /\ IsFiniteSet(Users(p))
  <2>1. t \in Users(p)
    BY DEF Users
  <2> QED BY <1>0, <2>1, UserFacts
<1>6. /\ idle'[p] \in 0..MaxConns /\ lent'[p] \in 0..MaxConns
      /\ idle'[p] + lent'[p] <= MaxConns /\ lent'[p] = lent[p] - 1
  BY <1>0, <1>4, <1>5
<1>7. /\ idle' \in [PoolIds -> 0..MaxConns] /\ lent' \in [PoolIds -> 0..MaxConns]
      /\ \A q \in PoolIds \ {p} : idle'[q] = idle[q] /\ lent'[q] = lent[q]
  BY <1>4, <1>6
<1>8. Users(p)' = Users(p) \ {t}
  BY <1>4 DEF Users, HasConn, PoolIds
<1>9. \A q \in PoolIds \ {p} : Users(q)' = Users(q)
  BY <1>4 DEF Users, HasConn, PoolIds
<1>10. lent[p] = 1 => Users(p)' = {}
  <2>1. SUFFICES ASSUME lent[p] = 1 PROVE Users(p) \ {t} = {}
    BY <1>8
  <2>2. lent[p] - 1 = 0 /\ IsFiniteSet(Users(p) \ {t})
    BY <1>5, <2>1, FS_Subset
  <2> QED BY <1>5, <2>2, FS_EmptySet
<1>11. ASSUME NEW q \in PoolIds
       PROVE  lent'[q] = Cardinality(Users(q)') /\ idle'[q] + lent'[q] <= MaxConns
  <2>1. CASE q = p
    BY <1>5, <1>6, <1>8, <2>1
  <2>2. CASE q # p
    BY <1>0, <1>7, <1>9, <2>2 DEF LoanInv
  <2> QED BY <2>1, <2>2
<1>12. alive' \in [PoolIds -> BOOLEAN] /\ picks' \in [PoolIds -> Nat]
  BY <1>0 DEF LoanInv
<1> QED BY <1>5, <1>7, <1>10, <1>11, <1>12 DEF LoanInv

\* put, which deletes only a marked pool, and only with its last connection.
LEMMA GiveBackLoans ==
  ASSUME ManagerInv, NEW t \in Threads, NEW keep \in BOOLEAN, GiveBack(t, keep)
  PROVE  /\ LoanInv'
         /\ \A q \in deleted' \ deleted : q \in marked /\ Users(q)' = {} /\ idle'[q] = 0
<1> USE DEF table, state, scan
<1>0. ThreadInv /\ LoanInv
  BY DEF ManagerInv
<1>1. PICK p \in PoolIds : p = result[t]
  BY <1>0 DEF GiveBack, ThreadInv, PoolIds
<1>2. /\ lent' = [lent EXCEPT ![p] = lent[p] - 1]
      /\ idle' = idle \/ idle' = [idle EXCEPT ![p] = idle[p] + 1]
      /\ p \in marked => idle' = idle
      /\ deleted' = IF p \in marked /\ idle[p] + lent[p] = 1 THEN deleted \cup {p} ELSE deleted
      /\ pc[t] = "using" /\ pc' = [pc EXCEPT ![t] = "idle"]
      /\ result' = [result EXCEPT ![t] = 0] /\ UNCHANGED <<marked, alive, picks>>
  BY <1>1, Zenon DEF GiveBack, Condemned, LastOf
<1>3. HasConn(t, p) /\ deleted' \subseteq marked
  BY <1>0, <1>1, <1>2 DEF HasConn, LoanInv
<1>4. LoanInv' /\ lent[p] > 0 /\ (lent[p] = 1 => Users(p)' = {})
  BY <1>2, <1>3, LoanEnds
<1>5. idle[p] \in Nat /\ lent[p] \in Nat
  BY <1>0, BoundsAssumption DEF LoanInv
<1>6. ASSUME NEW q \in deleted' \ deleted
      PROVE  q \in marked /\ Users(q)' = {} /\ idle'[q] = 0
  <2>1. q = p /\ p \in marked /\ idle[p] + lent[p] = 1
    BY <1>2, <1>6
  <2>2. lent[p] = 1 /\ idle[p] = 0
    BY <1>4, <1>5, <2>1
  <2> QED BY <1>2, <1>4, <2>1, <2>2
<1> QED BY <1>4, <1>6

LEMMA LoanStep == ManagerInv /\ [Next]_vars => LoanInv'
<1> SUFFICES ASSUME ManagerInv, [Next]_vars PROVE LoanInv'
  OBVIOUS
<1> USE DEF table, state, scan
<1>0. ThreadInv /\ TableInv /\ LoanInv /\ MaxConns \in Nat /\ Here \subseteq PoolIds
  BY VectorFacts, BoundsAssumption DEF ManagerInv
<1>a. /\ idle \in [PoolIds -> 0..MaxConns] /\ \A p \in PoolIds : idle[p] <= idle[p]
      /\ alive \in [PoolIds -> BOOLEAN] /\ picks \in [PoolIds -> Nat]
      /\ NoPicks \in [PoolIds -> Nat]
  BY <1>0 DEF LoanInv, NoPicks
<1>b. ASSUME SameUsers, UNCHANGED <<lent, deleted, idle>>, marked \subseteq marked',
             alive' \in [PoolIds -> BOOLEAN], picks' \in [PoolIds -> Nat]
      PROVE  LoanInv'
  BY <1>0, <1>a, <1>b, LoansSame
<1>1. ASSUME NEW t \in Threads, NEW o \in Ops, NEW a \in Addrs \cup {NoAddr}, Call(t, o, a)
      PROVE  LoanInv'
  BY <1>0, <1>a, <1>b, <1>1 DEF Call, SameUsers, ThreadInv
<1>2. ASSUME NEW t \in Threads, Enter(t) \/ PeekSize(t) \/ PeekCreate(t) \/ PeekDead(t)
      PROVE  LoanInv'
  <2>1. SameUsers
    BY <1>0, <1>2 DEF Enter, PeekSize, PeekCreate, PeekDead, In, StartScan, SameUsers, ThreadInv
  <2>2. UNCHANGED <<lent, deleted, idle, marked, alive>> /\ picks' \in {picks, NoPicks}
    BY <1>2 DEF Enter, PeekSize, PeekCreate, PeekDead, Create
  <2> QED BY <1>a, <1>b, <2>1, <2>2
<1>3. ASSUME NEW t \in Threads, GetFound(t) \/ SetStatus(t) PROVE LoanInv'
  <2>1. SameUsers
    BY <1>0, <1>3, LeaveUsers DEF GetFound, SetStatus, In
  <2>2. UNCHANGED <<lent, deleted, idle, marked>> /\ picks' \in {picks, NoPicks}
    BY <1>3 DEF GetFound, SetStatus
  <2>3. alive' \in [PoolIds -> BOOLEAN]
    BY <1>a, <1>3 DEF GetFound, SetStatus
  <2> QED BY <1>a, <1>b, <2>1, <2>2, <2>3
<1>4. ASSUME NEW t \in Threads,
             Set(t) \/ GetNone(t) \/ RemoveNone(t) \/ RemoveFound(t) \/ GetCreate(t)
               \/ PeekNoConfig(t) \/ PeekAllDead(t) \/ PeekHash(t)
      PROVE  LoanInv'
  <2>1. SameUsers
    BY <1>0, <1>4, LeaveUsers
       DEF Set, GetNone, RemoveNone, RemoveFound, GetCreate, PeekNoConfig, PeekAllDead,
           PeekHash, In
  <2>2. UNCHANGED <<lent, deleted, idle, alive>> /\ marked \subseteq marked'
        /\ picks' \in {picks, NoPicks}
    BY <1>4 DEF Set, GetNone, RemoveNone, RemoveFound, GetCreate, Create, PeekNoConfig,
                PeekAllDead, PeekHash
  <2> QED BY <1>a, <1>b, <2>1, <2>2
<1>5. ASSUME NEW t \in Threads, PeekAlive(t) PROVE LoanInv'
  <2>1. SameUsers
    BY <1>0, <1>5, LeaveUsers DEF PeekAlive
  <2>2. UNCHANGED <<lent, deleted, idle, marked>> /\ alive' \in [PoolIds -> BOOLEAN]
    BY <1>a, <1>5 DEF PeekAlive
  <2>3. picks' = Picked(Nth(t)) \/ picks' = NoPicks
    BY <1>5 DEF PeekAlive
  <2>4. ASSUME NEW p PROVE Picked(p) \in [PoolIds -> Nat]
    <3> DEFINE more == [picks EXCEPT ![p] = @ + 1]
               all  == \A q \in Here : more[q] > 0
    <3>1. more \in [PoolIds -> Nat]
      <4>1. \A q \in PoolIds : picks[q] \in Nat /\ picks[q] + 1 \in Nat
        BY <1>a
      <4> QED BY <1>a, <4>1
    <3>2. Picked(p) = [q \in PoolIds |-> IF all /\ q \in Here THEN more[q] - 1 ELSE more[q]]
      BY DEF Picked
    <3> HIDE DEF more
    <3>3. \A q \in PoolIds : (IF all /\ q \in Here THEN more[q] - 1 ELSE more[q]) \in Nat
      <4>1. ASSUME all, NEW q \in PoolIds, q \in Here PROVE more[q] - 1 \in Nat
        BY <3>1, <4>1
      <4> HIDE DEF all
      <4> QED BY <3>1, <4>1
    <3> HIDE DEF all
    <3> QED BY <3>2, <3>3
  <2> QED BY <1>a, <1>b, <2>1, <2>2, <2>3, <2>4
<1>6. ASSUME NEW t \in Threads, NEW step \in 1..2, CheckIdle(t, step) PROVE LoanInv'
  <2>1. SameUsers
    BY <1>0, <1>6, LeaveUsers DEF CheckIdle, In
  <2>2. UNCHANGED <<lent, deleted, marked, alive, picks>>
    BY <1>6 DEF CheckIdle
  <2>3. idle' \in [PoolIds -> 0..MaxConns] /\ \A p \in PoolIds : idle'[p] <= idle[p]
    <3>1. CASE pools = <<>>
      BY <1>a, <1>6, <3>1 DEF CheckIdle
    <3>2. CASE pools # <<>>
      <4> DEFINE seen == {pools[i] : i \in {j \in 1..Len(pools) :
                             checkNext % Len(pools) < j /\ j <= (checkNext % Len(pools)) + step}}
      <4>1. PICK n \in [seen -> 0..MaxConns] :
              /\ \A p \in seen : n[p] <= idle[p]
              /\ idle' = [p \in PoolIds |-> IF p \in seen THEN n[p] ELSE idle[p]]
        BY <1>6, <3>2 DEF CheckIdle
      <4> HIDE DEF seen
      <4> QED BY <1>a, <4>1
    <3> QED BY <3>1, <3>2
  <2> QED BY <1>0, <1>a, <2>1, <2>2, <2>3, LoansSame
<1>7. ASSUME NEW t \in Threads, BorrowNothing(t) PROVE LoanInv'
  <2>1. SameUsers
    BY <1>0, <1>7 DEF BorrowNothing, SameUsers, ThreadInv
  <2>2. UNCHANGED <<lent, deleted, idle, marked>> /\ alive' \in [PoolIds -> BOOLEAN]
        /\ picks' \in {picks, NoPicks}
    BY <1>a, <1>7 DEF BorrowNothing, Revive, Aliving
  <2> QED BY <1>a, <1>b, <2>1, <2>2
<1>8. CASE UNCHANGED vars
  BY <1>a, <1>b, <1>8 DEF vars, thread, SameUsers
<1>9. ASSUME NEW t \in Threads, BorrowIdle(t) \/ Reserve(t) PROVE LoanInv'
  BY <1>9, BorrowLoans
<1>10. ASSUME NEW t \in Threads, NEW keep \in BOOLEAN, GiveBack(t, keep) PROVE LoanInv'
  BY <1>10, GiveBackLoans
<1>11. ASSUME NEW t \in Threads, OpenOk(t) PROVE LoanInv'
  <2>1. SameUsers
    BY <1>0, <1>11 DEF OpenOk, SameUsers, ThreadInv
  <2> QED BY <1>a, <1>b, <1>11, <2>1 DEF OpenOk
<1>12. ASSUME NEW t \in Threads, OpenFail(t) PROVE LoanInv'
  <2>1. PICK p \in PoolIds : p = result[t]
    BY <1>0, <1>12 DEF OpenFail, ThreadInv, PoolIds
  <2>2. /\ HasConn(t, p) /\ lent' = [lent EXCEPT ![p] = lent[p] - 1]
        /\ pc' = [pc EXCEPT ![t] = "idle"] /\ result' = [result EXCEPT ![t] = 0]
        /\ UNCHANGED <<idle, marked, alive, picks>> /\ deleted' \subseteq marked
    BY <1>0, <1>12, <2>1 DEF OpenFail, HasConn, LoanInv
  <2> QED BY <2>2, LoanEnds
<1> QED BY <1>1, <1>2, <1>3, <1>4, <1>5, <1>6, <1>7, <1>8, <1>9, <1>10, <1>11, <1>12
        DEF Next, Step, Use

-----------------------------------------------------------------------------
(* Every build. *)

LEMMA InitManager == Init => ManagerInv
<1> SUFFICES ASSUME Init PROVE ManagerInv
  OBVIOUS
<1>0. /\ MaxPools \in Nat \ {0} /\ MaxConns \in Nat /\ Cycle \in Nat \ {0}
      /\ 0 \in 0..MaxPools /\ 1 \in 0..MaxPools /\ 0 \in 0..MaxConns /\ 0 \in 0..(Cycle - 1)
      /\ Configured \subseteq Addrs /\ Default \in Addrs \cup {NoAddr}
  BY BoundsAssumption, SetsAssumption
<1>1. ThreadInv
  BY <1>0 DEF Init, ThreadInv, Places, NeedsAddr
<1>2. TableInv
  <2>1. CASE Default = NoAddr
    <3>1. pools = <<>> /\ made = 0 /\ addrOf = [p \in PoolIds |-> NoAddr]
      BY <2>1 DEF Init
    <3>2. pools \in Seq(1..made) /\ Len(pools) = 0
      BY <3>1, EmptySeq
    <3> QED BY <1>0, <2>1, <3>1, <3>2 DEF Init, TableInv, Here
  <2>2. CASE Default # NoAddr
    <3>1. /\ pools = <<1>> /\ made = 1
          /\ addrOf = [p \in PoolIds |-> IF p = 1 THEN Default ELSE NoAddr]
      BY <2>2 DEF Init
    <3>2. pools \in Seq(1..made) /\ Len(pools) = 1
      BY <3>1
    <3>3. /\ addrs \subseteq Addrs /\ marked = {}
          /\ connsNext \in 0..(Cycle - 1) /\ checkNext \in 0..(Cycle - 1)
      BY <1>0 DEF Init
    <3>4. addrOf \in [PoolIds -> Addrs \cup {NoAddr}]
      BY <1>0, <3>1
    <3>5. \A i, j \in 1..Len(pools) : i = j
      BY <3>2
    <3>6. made \in 0..MaxPools /\ marked \subseteq 1..made /\ marked \cap Here = {}
      BY <1>0, <3>1, <3>3
    <3> QED BY <3>2, <3>3, <3>4, <3>5, <3>6, Zenon DEF TableInv
  <2> QED BY <2>1, <2>2
<1>3. LoanInv
  <2>1. \A p : Users(p) = {}
    BY DEF Init, Users, HasConn
  <2>2. /\ alive \in [PoolIds -> BOOLEAN] /\ picks \in [PoolIds -> Nat]
        /\ idle \in [PoolIds -> 0..MaxConns] /\ lent \in [PoolIds -> 0..MaxConns]
        /\ deleted \subseteq marked
    BY <1>0 DEF Init, NoPicks
  <2>3. \A p \in PoolIds : idle[p] = 0 /\ lent[p] = 0
    BY DEF Init
  <2>4. Cardinality({}) = 0
    BY FS_EmptySet
  <2>5. ASSUME NEW p \in PoolIds
        PROVE  lent[p] = Cardinality(Users(p)) /\ idle[p] + lent[p] <= MaxConns
    <3>1. lent[p] = 0 /\ idle[p] = 0 /\ Cardinality(Users(p)) = 0
      BY <2>1, <2>3, <2>4
    <3> QED BY <1>0, <3>1
  <2> QED BY <2>2, <2>5 DEF LoanInv
<1> QED BY <1>1, <1>2, <1>3 DEF ManagerInv

LEMMA ManagerInvariant == Spec => []ManagerInv
<1>1. ManagerInv /\ [Next]_vars => ManagerInv'
  BY ThreadStep, TableStep, LoanStep DEF ManagerInv
<1> QED BY InitManager, <1>1, PTL DEF Spec

\* The type invariant needs the vector and the loans.
LEMMA ManagerTypes == ManagerInv => TypeOK
<1> SUFFICES ASSUME ManagerInv PROVE TypeOK
  OBVIOUS
<1>1. ThreadInv /\ TableInv /\ LoanInv /\ Here \subseteq 1..made /\ made \in 0..MaxPools
  BY VectorFacts DEF ManagerInv, TableInv
<1>2. marked \subseteq PoolIds
  BY <1>1, BoundsAssumption DEF TableInv, PoolIds
<1> QED BY <1>1, <1>2 DEF TypeOK, ThreadInv, TableInv, LoanInv, Places

\* No step but put deletes a pool.
LEMMA OnlyPutDeletes ==
  ASSUME [Next]_vars, deleted' # deleted
  PROVE  \E t \in Threads, keep \in BOOLEAN : GiveBack(t, keep)
<1> USE DEF table, state, scan
<1>1. ASSUME NEW t \in Threads, Step(t) PROVE deleted' = deleted
  BY <1>1 DEF Step, Enter, Set, GetFound, GetCreate, GetNone, RemoveFound, RemoveNone, SetStatus,
              PeekNoConfig, PeekSize, PeekCreate, PeekAlive, PeekDead, PeekAllDead, PeekHash,
              CheckIdle
<1>2. ASSUME NEW t \in Threads,
             BorrowIdle(t) \/ Reserve(t) \/ OpenOk(t) \/ OpenFail(t) \/ BorrowNothing(t)
      PROVE  deleted' = deleted
  BY <1>2 DEF BorrowIdle, Reserve, OpenOk, OpenFail, BorrowNothing
<1> QED BY <1>1, <1>2 DEF Next, Use, Call, vars

\* connect_pool::put deletes a pool that remove has marked when the last of its
\* connections comes back: in every build, also the one where the methods take
\* no lock, the pool is then in no vector, its list is empty, and nobody has a
\* connection of it or is opening one.
THEOREM DeletedPoolUnused == Spec => DeletedUnused
<1>1. ManagerInv /\ ManagerInv' /\ [Next]_vars =>
        [\A p \in deleted' \ deleted :
           p \notin Here' /\ idle'[p] = 0 /\ \A t \in Threads : ~HasConn(t, p)']_vars
  <2> SUFFICES ASSUME ManagerInv, ManagerInv', [Next]_vars, NEW p \in deleted' \ deleted
               PROVE  p \notin Here' /\ idle'[p] = 0 /\ \A t \in Threads : ~HasConn(t, p)'
    OBVIOUS
  <2>1. PICK t \in Threads, keep \in BOOLEAN : GiveBack(t, keep)
    BY OnlyPutDeletes
  <2>2. p \in marked /\ Users(p)' = {} /\ idle'[p] = 0
    BY <2>1, GiveBackLoans
  <2>3. p \notin Here'
    <3>1. marked' = marked
      BY <2>1 DEF GiveBack
    <3> QED BY <2>2, <3>1 DEF ManagerInv, TableInv
  <2> QED BY <2>2, <2>3 DEF Users
<1> QED BY <1>1, ManagerInvariant, PTL DEF Spec, DeletedUnused

-----------------------------------------------------------------------------
(* The build in which lock_guard takes the lock. *)

\* The thread that owns lock_ is the one inside a method.
OwnerInv == \A t \in Threads : Inside(t) <=> owner = t

\* One pool for each address, and none yet for those that
\* create_pools_for has still to do.
AddrInv ==
  /\ \A p, q \in Here : addrOf[p] = addrOf[q] => p = q
  /\ \A t \in Threads : pc[t] = "create" => \A p \in Here : addrOf[p] \notin todo[t]

LEMMA OwnerStep ==
  ASSUME Asserts, ManagerInv, OwnerInv, [Next]_vars
  PROVE  OwnerInv'
<1> USE DEF table, state, scan
<1>0. ThreadInv /\ NoThread \notin Threads
  BY SetsAssumption DEF ManagerInv
<1>1. ASSUME UNCHANGED owner, \A t \in Threads : Inside(t)' <=> Inside(t)
      PROVE  OwnerInv'
  BY <1>1 DEF OwnerInv
<1>2. ASSUME NEW t \in Threads, NEW p, Leave(t, p), Inside(t)
      PROVE  OwnerInv'
  <2>1. owner' = NoThread /\ owner = t
    BY <1>2 DEF Leave, Unlocked, TakesLock, OwnerInv
  <2>2. ASSUME NEW u \in Threads PROVE ~Inside(u)'
    BY <1>0, <1>2, <2>1 DEF Leave, Inside, InsidePlaces, OwnerInv, ThreadInv
  <2> QED BY <1>0, <2>1, <2>2 DEF OwnerInv
<1>3. ASSUME NEW t \in Threads, NEW o \in Ops, NEW a \in Addrs \cup {NoAddr}, Call(t, o, a)
      PROVE  OwnerInv'
  BY <1>0, <1>1, <1>3 DEF Call, Inside, InsidePlaces, ThreadInv
<1>4. ASSUME NEW t \in Threads, Enter(t) PROVE OwnerInv'
  <2>1. owner = NoThread /\ owner' = t /\ pc' = [pc EXCEPT ![t] = "in"]
    BY <1>4 DEF Enter, TakesLock
  <2> QED BY <1>0, <2>1 DEF Inside, InsidePlaces, OwnerInv, ThreadInv
<1>5. ASSUME NEW t \in Threads, PeekSize(t) \/ PeekCreate(t) \/ PeekDead(t) PROVE OwnerInv'
  BY <1>0, <1>1, <1>5
     DEF PeekSize, PeekCreate, PeekDead, StartScan, In, Inside, InsidePlaces, ThreadInv
<1>6. ASSUME NEW t \in Threads,
             Set(t) \/ GetNone(t) \/ RemoveFound(t) \/ RemoveNone(t) \/ SetStatus(t)
               \/ GetCreate(t) \/ PeekNoConfig(t) \/ \E step \in 1..2 : CheckIdle(t, step)
      PROVE  OwnerInv'
  <2>1. Inside(t)
    BY <1>6 DEF Set, GetNone, RemoveFound, RemoveNone, SetStatus, GetCreate, PeekNoConfig,
                CheckIdle, In, Inside, InsidePlaces
  <2>2. Leave(t, 0) \/ Leave(t, made + 1)
    BY <1>6 DEF Set, GetNone, RemoveFound, RemoveNone, SetStatus, GetCreate, PeekNoConfig,
                CheckIdle
  <2> QED BY <1>2, <2>1, <2>2
<1>7. ASSUME NEW t \in Threads, PeekAlive(t) \/ PeekAllDead(t) \/ PeekHash(t) \/ GetFound(t)
      PROVE  OwnerInv'
  <2>1. Inside(t)
    BY <1>7 DEF PeekAlive, PeekAllDead, PeekHash, GetFound, In, Inside, InsidePlaces
  <2>2. \E p : Leave(t, p)
    BY <1>7 DEF PeekAlive, PeekAllDead, PeekHash, GetFound
  <2> QED BY <1>2, <2>1, <2>2
<1>8. ASSUME NEW t \in Threads, Use(t) PROVE OwnerInv'
  BY <1>0, <1>1, <1>8
     DEF Use, BorrowIdle, Reserve, OpenOk, OpenFail, BorrowNothing, GiveBack, Inside, InsidePlaces, ThreadInv
<1>9. CASE UNCHANGED vars
  BY <1>1, <1>9 DEF vars, thread, Inside
<1> QED BY <1>3, <1>4, <1>5, <1>6, <1>7, <1>8, <1>9 DEF Next, Step

\* A new pool is the first for its address, and nobody else is creating pools.
LEMMA CreateAddr ==
  ASSUME ManagerInv, OwnerInv, AddrInv, NEW t \in Threads, Inside(t), NEW a \in Addrs,
         Create(a), \A p \in Here : addrOf[p] # a,
         UNCHANGED <<addrs, connsNext, checkNext, marked>>,
         \A u \in Threads \ {t} : pc'[u] = pc[u],
         pc'[t] = "create" => pc[t] = "create" /\ todo'[t] = todo[t] \ {a}
  PROVE  AddrInv'
<1>0. TableInv /\ Here \subseteq 1..made /\ made \in Nat /\ made + 1 \in PoolIds
  BY VectorFacts DEF ManagerInv, Create, PoolIds
<1>1. Here' = Here \cup {made + 1} /\ made + 1 \notin Here
  BY <1>0, CreateTable
<1>2. addrOf'[made + 1] = a /\ \A p \in Here : addrOf'[p] = addrOf[p]
  BY <1>0, <1>1 DEF Create, TableInv
<1>3. \A p, q \in Here' : addrOf'[p] = addrOf'[q] => p = q
  BY <1>1, <1>2 DEF AddrInv
<1>4. ASSUME NEW u \in Threads, pc'[u] = "create"
      PROVE  \A p \in Here' : addrOf'[p] \notin todo'[u]
  <2>1. u = t
    BY <1>4 DEF OwnerInv, Inside, InsidePlaces
  <2>2. pc[t] = "create" /\ todo'[t] = todo[t] \ {a}
    BY <1>4, <2>1
  <2>3. \A p \in Here : addrOf[p] \notin todo[t]
    BY <2>2 DEF AddrInv
  <2> QED BY <1>1, <1>2, <2>1, <2>2, <2>3
<1> QED BY <1>3, <1>4 DEF AddrInv

LEMMA AddrStep ==
  ASSUME ManagerInv, OwnerInv, AddrInv, [Next]_vars
  PROVE  AddrInv'
<1> USE DEF table, state, scan
<1>0. ThreadInv /\ TableInv
  BY DEF ManagerInv
<1>1. ASSUME Here' \subseteq Here, UNCHANGED addrOf,
             \A u \in Threads : pc'[u] = "create" => pc[u] = "create" /\ todo'[u] = todo[u]
      PROVE  AddrInv'
  BY <1>1 DEF AddrInv
<1>2. UNCHANGED pools => Here' \subseteq Here
  BY DEF Here
<1>3. ASSUME NEW t \in Threads, NEW p, Leave(t, p), UNCHANGED <<pools, addrOf>>
      PROVE  AddrInv'
  BY <1>0, <1>1, <1>2, <1>3 DEF Leave, ThreadInv
<1>4. ASSUME NEW t \in Threads, NEW o \in Ops, NEW a \in Addrs \cup {NoAddr}, Call(t, o, a)
      PROVE  AddrInv'
  BY <1>0, <1>1, <1>2, <1>4 DEF Call, ThreadInv
<1>5. ASSUME NEW t \in Threads, Enter(t) \/ PeekDead(t) \/ Use(t) PROVE AddrInv'
  BY <1>0, <1>1, <1>2, <1>5
     DEF Enter, PeekDead, Use, BorrowIdle, Reserve, OpenOk, OpenFail, BorrowNothing, GiveBack, ThreadInv
<1>6. ASSUME NEW t \in Threads,
             Set(t) \/ GetFound(t) \/ GetNone(t) \/ RemoveNone(t) \/ SetStatus(t)
               \/ PeekNoConfig(t) \/ PeekAlive(t) \/ PeekAllDead(t) \/ PeekHash(t)
               \/ \E step \in 1..2 : CheckIdle(t, step)
      PROVE  AddrInv'
  <2>1. \E p : Leave(t, p)
    BY <1>6 DEF Set, GetFound, GetNone, RemoveNone, SetStatus, PeekNoConfig, PeekAlive,
                PeekAllDead, PeekHash, CheckIdle
  <2>2. UNCHANGED <<pools, addrOf>>
    BY <1>6 DEF Set, GetFound, GetNone, RemoveNone, SetStatus, PeekNoConfig, PeekAlive,
                PeekAllDead, PeekHash, CheckIdle
  <2> QED BY <1>3, <2>1, <2>2
<1>7. ASSUME NEW t \in Threads, PeekSize(t) PROVE AddrInv'
  <2>1. UNCHANGED <<pools, addrOf>>
    BY <1>7 DEF PeekSize
  <2>2. CASE pools = <<>>
    <3>1. Here' = {}
      BY <2>1, <2>2 DEF Here
    <3> QED BY <3>1 DEF AddrInv
  <2>3. CASE pools # <<>>
    BY <1>0, <1>1, <1>2, <1>7, <2>1, <2>3 DEF PeekSize, StartScan, ThreadInv
  <2> QED BY <2>2, <2>3
<1>8. ASSUME NEW t \in Threads, GetCreate(t) PROVE AddrInv'
  <2>1. Inside(t) /\ arg[t] \in Addrs /\ \A p \in Here : addrOf[p] # arg[t]
    BY <1>0, <1>8 DEF GetCreate, In, Inside, InsidePlaces, PoolsOf, TableInv
  <2>2. Create(arg[t]) /\ Leave(t, made + 1) /\ UNCHANGED <<addrs, connsNext, checkNext, marked>>
    BY <1>8 DEF GetCreate
  <2>3. pc'[t] # "create" /\ \A u \in Threads \ {t} : pc'[u] = pc[u]
    BY <1>0, <2>2 DEF Leave, ThreadInv
  <2> QED BY <2>1, <2>2, <2>3, CreateAddr
<1>9. ASSUME NEW t \in Threads, PeekCreate(t) PROVE AddrInv'
  <2>1. PICK a \in todo[t] : Create(a) /\ todo' = [todo EXCEPT ![t] = todo[t] \ {a}]
    BY <1>9 DEF PeekCreate
  <2>2. Inside(t) /\ pc[t] = "create" /\ a \in Addrs /\ \A p \in Here : addrOf[p] # a
    BY <1>0, <1>9 DEF PeekCreate, Inside, InsidePlaces, ThreadInv, AddrInv
  <2>3. UNCHANGED <<addrs, connsNext, checkNext, marked>>
    BY <1>9 DEF PeekCreate
  <2>4. todo'[t] = todo[t] \ {a} /\ \A u \in Threads \ {t} : pc'[u] = pc[u]
    BY <1>0, <1>9, <2>1 DEF PeekCreate, StartScan, ThreadInv
  <2> QED BY <2>1, <2>2, <2>3, <2>4, CreateAddr
<1>10. ASSUME NEW t \in Threads, RemoveFound(t) PROVE AddrInv'
  <2>1. Here' \subseteq Here /\ UNCHANGED addrOf
    BY <1>0, <1>10, EraseTable DEF RemoveFound, PoolsOf
  <2>2. Leave(t, 0)
    BY <1>10 DEF RemoveFound
  <2> QED BY <1>0, <1>1, <2>1, <2>2 DEF Leave, ThreadInv
<1>11. CASE UNCHANGED vars
  BY <1>1, <1>2, <1>11 DEF vars, thread
<1> QED BY <1>4, <1>5, <1>6, <1>7, <1>8, <1>9, <1>10, <1>11 DEF Next, Step

\* The find-or-create of get and the create-all of peek are each one critical
\* section: where lock_guard takes the lock, the methods exclude each other and
\* an address never has two pools, for any number of callers.
THEOREM OnePoolForEach == ASSUME Asserts PROVE Spec => []OnePoolPerAddr
<1>1. Init => OwnerInv /\ AddrInv
  <2> SUFFICES ASSUME Init PROVE OwnerInv /\ AddrInv
    OBVIOUS
  <2>1. OwnerInv
    BY SetsAssumption DEF Init, OwnerInv, Inside, InsidePlaces
  <2>2. \A p, q \in Here : p = q
    BY DEF Init, Here
  <2> QED BY <2>1, <2>2 DEF Init, AddrInv
<1>2. ManagerInv /\ OwnerInv /\ AddrInv /\ [Next]_vars => OwnerInv' /\ AddrInv'
  BY OwnerStep, AddrStep
<1>3. ManagerInv /\ OwnerInv /\ AddrInv => OnePoolPerAddr
  <2> SUFFICES ASSUME ManagerInv, OwnerInv, AddrInv PROVE OnePoolPerAddr
    OBVIOUS
  <2>1. \A i, j \in 1..Len(pools) : addrOf[pools[i]] = addrOf[pools[j]] => pools[i] = pools[j]
    BY DEF AddrInv, Here
  <2>2. \A i, j \in 1..Len(pools) : pools[i] = pools[j] => i = j
    BY DEF ManagerInv, TableInv
  <2>3. Exclusive
    BY DEF OwnerInv, Exclusive
  <2> QED BY <2>1, <2>2, <2>3, ManagerTypes DEF OnePoolPerAddr
<1> QED BY <1>1, <1>2, <1>3, ManagerInvariant, PTL DEF Spec

-----------------------------------------------------------------------------
(* The turns. Places of the vector are counted from 0 here, as n in peek.  *)

\* The quotient and the rest of a division are unique.
LEMMA Quotient ==
  ASSUME NEW n \in Nat \ {0}, NEW a \in Nat, NEW q \in Int, NEW r \in 0..(n - 1), a = n * q + r
  PROVE  a % n = r
<1>1. a = n * (a \div n) + (a % n) /\ a % n \in 0..(n - 1) /\ a \div n \in Int
  OBVIOUS
<1>2. ASSUME NEW i \in Int, NEW j \in Int, i < j PROVE n * i + n <= n * j
  <2>1. n * (i + 1) <= n * j
    BY <1>2
  <2> QED BY <2>1
<1>3. CASE q < a \div n
  <2>1. n * q + n <= n * (a \div n)
    BY <1>1, <1>2, <1>3
  <2>2. n * q \in Int /\ n * (a \div n) \in Int
    BY <1>1
  <2> QED BY <1>1, <2>1, <2>2
<1>4. CASE a \div n < q
  <2>1. n * (a \div n) + n <= n * q
    BY <1>1, <1>2, <1>4
  <2>2. n * q \in Int /\ n * (a \div n) \in Int
    BY <1>1
  <2> QED BY <1>1, <2>1, <2>2
<1>5. CASE a \div n = q
  BY <1>1, <1>5
<1> QED BY <1>1, <1>3, <1>4, <1>5

\* A counter that wraps at a multiple of n goes round the n places.
LEMMA NextTurn ==
  ASSUME NEW n \in Nat \ {0}, Cycle % n = 0, NEW c \in 0..(Cycle - 1)
  PROVE  /\ c % n \in 0..(n - 1)
         /\ ((c + 1) % Cycle) % n = IF c % n = n - 1 THEN 0 ELSE (c % n) + 1
<1>0. Cycle \in Nat \ {0}
  BY BoundsAssumption
<1>1. /\ c = n * (c \div n) + (c % n) /\ c % n \in 0..(n - 1) /\ c \div n \in Int
      /\ c \in Nat /\ c + 1 \in Nat /\ n - 1 \in Nat /\ 0 \in 0..(n - 1)
  BY <1>0
<1>2. (c + 1) % n = IF c % n = n - 1 THEN 0 ELSE (c % n) + 1
  <2>1. CASE c % n = n - 1
    <3>1. PICK q \in Int : q = (c \div n) + 1 /\ c + 1 = n * q + 0
      <4>1. (c \div n) + 1 \in Int /\ c + 1 = n * ((c \div n) + 1) + 0
        BY <1>1, <2>1
      <4> QED BY <4>1
    <3>2. (c + 1) % n = 0
      <4>1. c + 1 \in Nat /\ 0 \in 0..(n - 1)
        BY <1>1
      <4>2. c + 1 = n * q + 0
        BY <3>1
      <4> HIDE <1>1, <3>1
      <4> QED BY <4>1, <4>2, Quotient
    <3> QED BY <2>1, <3>2
  <2>2. CASE c % n # n - 1
    <3>1. c + 1 = n * (c \div n) + ((c % n) + 1) /\ (c % n) + 1 \in 0..(n - 1)
      BY <1>1, <2>2
    <3>2. (c + 1) % n = (c % n) + 1
      BY <1>1, <3>1, Quotient
    <3> QED BY <2>2, <3>2
  <2> QED BY <2>1, <2>2
<1>3. CASE c + 1 = Cycle
  <2>1. (c + 1) % Cycle = 0
    <3>1. c + 1 = Cycle * 1 + 0 /\ 0 \in 0..(Cycle - 1)
      BY <1>0, <1>3
    <3> QED BY <1>0, <1>1, <3>1, Quotient
  <2>2. 0 % n = 0
    <3>1. 0 = n * 0 + 0 /\ 0 \in Nat
      OBVIOUS
    <3> QED BY <1>1, <3>1, Quotient
  <2>3. (c + 1) % n = 0
    BY <1>3
  <2> QED BY <1>1, <1>2, <2>1, <2>2, <2>3
<1>4. CASE c + 1 # Cycle
  <2>1. (c + 1) % Cycle = c + 1
    <3>1. c + 1 = Cycle * 0 + (c + 1) /\ c + 1 \in 0..(Cycle - 1)
      BY <1>0, <1>4
    <3> QED BY <1>0, <1>1, <3>1, Quotient
  <2> QED BY <1>1, <1>2, <2>1
<1> QED BY <1>1, <1>3, <1>4

\* Place j is one of the b places of n that come just before place x, going round.
Behind(j, x, b, n) == (x - b <= j /\ j < x) \/ x - b + n <= j

\* One more place is behind after a turn; at first there is none, at last all.
LEMMA BehindNext ==
  ASSUME NEW n \in Nat \ {0}, NEW x \in 0..(n - 1)
  PROVE  /\ \A j \in 0..(n - 1) : ~Behind(j, x, 0, n) /\ Behind(j, x, n, n)
         /\ \A b \in 0..(n - 1) :
              /\ ~Behind(x, x, b, n)
              /\ \A j \in 0..(n - 1) :
                   Behind(j, IF x = n - 1 THEN 0 ELSE x + 1, b + 1, n) <=> Behind(j, x, b, n) \/ j = x
              /\ b + 1 < n => ~Behind(IF x = n - 1 THEN 0 ELSE x + 1, x, b, n)
  BY DEF Behind

Turn == connsNext % Len(pools)
Visited(j, b) == Behind(j, Turn, b, Len(pools))

\* Every pool is one of a configured address.
AddrGiven == \A p \in Here : addrOf[p] \in Addrs

\* The scan counts the pools of the vector; none of those it has been to was
\* alive when it began, and those that were still are.
ScanInv ==
  \A t \in Threads : pc[t] = "scan" =>
    /\ size[t] = Len(pools) /\ left[t] \in 0..Len(pools)
    /\ \A p \in live[t] : alive[p]
    /\ \A j \in 0..(Len(pools) - 1) : Visited(j, size[t] - left[t]) => pools[j + 1] \notin live[t]

\* The pools with one pick more are those of the last turns.
PicksInv ==
  /\ \A p \in PoolIds : p \notin Here => picks[p] = 0
  /\ pools # <<>> =>
       \E b \in 0..(Len(pools) - 1) : \A j \in 0..(Len(pools) - 1) :
         picks[pools[j + 1]] = IF Visited(j, b) THEN 1 ELSE 0

TurnInv == AddrGiven /\ ScanInv /\ PicksInv

\* One pool per address: the vector is no longer than the set of addresses,
\* and the counter wraps at a multiple of its length.
LEMMA CycleFits ==
  ASSUME Asserts, TableInv, AddrInv, AddrGiven, pools # <<>>
  PROVE  /\ Len(pools) \in Nat \ {0} /\ Cycle % Len(pools) = 0
         /\ Turn \in 0..(Len(pools) - 1) /\ connsNext \in 0..(Cycle - 1)
<1>0. /\ Len(pools) \in Nat \ {0} /\ \A i \in 1..Len(pools) : pools[i] \in Here
      /\ IsFiniteSet(Addrs) /\ connsNext \in 0..(Cycle - 1)
  BY VectorFacts, SetsAssumption DEF Here, TableInv
<1>1. PICK n \in Nat : n = Len(pools)
  BY <1>0
<1>2. PICK f : f = [i \in 1..n |-> addrOf[pools[i]]]
  OBVIOUS
<1>3. \A i \in 1..n : f[i] \in Addrs
  BY <1>0, <1>1, <1>2 DEF AddrGiven
<1>4. \A i, j \in 1..n : f[i] = f[j] => i = j
  <2> SUFFICES ASSUME NEW i \in 1..n, NEW j \in 1..n, f[i] = f[j] PROVE i = j
    OBVIOUS
  <2>1. pools[i] = pools[j]
    BY <1>0, <1>1, <1>2 DEF AddrInv
  <2> QED BY <1>1, <2>1 DEF TableInv
<1>5. f \in Injection(1..n, Addrs)
  BY <1>2, <1>3, <1>4 DEF Injection, IsInjective
<1>6. IsFiniteSet(1..n) /\ Cardinality(1..n) = n
  <2>1. IsFiniteSet(1..n) /\ Cardinality(1..n) = IF 1 > n THEN 0 ELSE n - 1 + 1
    BY FS_Interval
  <2> QED BY <2>1
<1>7. n <= Cardinality(Addrs) /\ Cardinality(Addrs) \in Nat
  BY <1>0, <1>5, <1>6, FS_Injection, FS_CardinalityType
<1>8. Cycle % n = 0
  <2>1. n \in 1..Cardinality(Addrs)
    BY <1>0, <1>1, <1>7
  <2> QED BY <2>1, BoundsAssumption
<1>9. connsNext % n \in 0..(n - 1)
  BY <1>0, <1>1, <1>8, NextTurn
<1> QED BY <1>0, <1>1, <1>8, <1>9 DEF Turn

\* With no picks there is nothing to be even about.
LEMMA NoPicksTurn ==
  ASSUME Asserts, TableInv, AddrInv, AddrGiven, picks = NoPicks
  PROVE  PicksInv
<1>1. \A p \in PoolIds : picks[p] = 0
  BY DEF NoPicks
<1>2. ASSUME pools # <<>>
      PROVE  \E b \in 0..(Len(pools) - 1) : \A j \in 0..(Len(pools) - 1) :
               picks[pools[j + 1]] = IF Visited(j, b) THEN 1 ELSE 0
  <2>1. Len(pools) \in Nat \ {0} /\ Turn \in 0..(Len(pools) - 1)
    BY <1>2, CycleFits
  <2>2. \A j \in 0..(Len(pools) - 1) : ~Visited(j, 0)
    BY <2>1, BehindNext DEF Visited
  <2>3. \A j \in 0..(Len(pools) - 1) : pools[j + 1] \in PoolIds
    BY <2>1, VectorFacts
  <2>4. 0 \in 0..(Len(pools) - 1)
    BY <2>1
  <2> QED BY <1>1, <2>2, <2>3, <2>4
<1> QED BY <1>1, <1>2 DEF PicksInv

\* The turn of a scan is the pool that has waited longest.
LEMMA PickedTurn ==
  ASSUME Asserts, ManagerInv, AddrInv, TurnInv, NEW t \in Threads, pc[t] = "scan",
         InVector(t), connsNext' = (connsNext + 1) % Cycle, picks' = Picked(Nth(t)),
         UNCHANGED pools, picks' # NoPicks
  PROVE  PicksInv'
<1> USE DEF ManagerInv
<1>0. /\ pools # <<>> /\ size[t] = Len(pools)
      /\ \A i \in 1..Len(pools) : pools[i] \in Here /\ pools[i] \in PoolIds
      /\ \A i, j \in 1..Len(pools) : pools[i] = pools[j] => i = j
      /\ Here \subseteq PoolIds
  <2>1. size[t] = Len(pools)
    BY DEF TurnInv, ScanInv
  <2>2. pools # <<>>
    <3>1. size[t] > 0 /\ Len(<<>>) = 0
      BY DEF ThreadInv
    <3> QED BY <2>1, <3>1
  <2> QED BY <2>1, <2>2, VectorFacts DEF TableInv, Here
<1>1. /\ Len(pools) \in Nat \ {0} /\ Cycle % Len(pools) = 0 /\ Turn \in 0..(Len(pools) - 1)
      /\ connsNext \in 0..(Cycle - 1)
  BY <1>0, CycleFits DEF TurnInv
<1>2. PICK n : n = Len(pools)
  OBVIOUS
<1>3. PICK x : x = Turn
  OBVIOUS
<1>4. PICK y : y = IF x = n - 1 THEN 0 ELSE x + 1
  OBVIOUS
<1>5. n \in Nat \ {0} /\ x \in 0..(n - 1) /\ y \in 0..(n - 1)
  BY <1>1, <1>2, <1>3, <1>4
<1>6. Turn' = y /\ Len(pools)' = n
  BY <1>1, <1>2, <1>3, <1>4, NextTurn DEF Turn
<1>7. PICK b \in 0..(n - 1) :
        \A j \in 0..(n - 1) : picks[pools[j + 1]] = IF Behind(j, x, b, n) THEN 1 ELSE 0
  BY <1>0, <1>2, <1>3 DEF TurnInv, PicksInv, Visited
<1>8. PICK p : p = pools[x + 1]
  OBVIOUS
<1>9. Nth(t) = p /\ p \in Here /\ p \in PoolIds
  BY <1>0, <1>2, <1>3, <1>5, <1>8 DEF Nth, Turn
<1>10. PICK more : more = [picks EXCEPT ![p] = @ + 1]
  OBVIOUS
<1>11. picks \in [PoolIds -> Nat] /\ more \in [PoolIds -> Nat] /\ DOMAIN more = PoolIds
  <2>1. picks \in [PoolIds -> Nat] /\ picks[p] + 1 \in Nat
    BY <1>9 DEF LoanInv
  <2> QED BY <1>10, <2>1
<1>12. \A j \in 0..(n - 1) : more[pools[j + 1]] = IF Behind(j, x, b, n) \/ j = x THEN 1 ELSE 0
  <2> SUFFICES ASSUME NEW j \in 0..(n - 1)
               PROVE  more[pools[j + 1]] = IF Behind(j, x, b, n) \/ j = x THEN 1 ELSE 0
    OBVIOUS
  <2>1. pools[j + 1] \in PoolIds /\ j + 1 \in 1..n /\ x + 1 \in 1..n
    BY <1>0, <1>2, <1>5
  <2>2. pools[j + 1] = p <=> j = x
    BY <1>0, <1>2, <1>5, <1>8, <2>1
  <2>3. ~Behind(x, x, b, n)
    BY <1>5, BehindNext
  <2> QED BY <1>7, <1>8, <1>10, <1>11, <2>1, <2>2, <2>3
<1>13. \A q \in PoolIds : q \notin Here => more[q] = 0
  BY <1>9, <1>10, <1>11 DEF TurnInv, PicksInv
<1>14. picks' = [q \in PoolIds |-> IF (\A r \in Here : more[r] > 0) /\ q \in Here
                                    THEN more[q] - 1 ELSE more[q]]
  BY <1>9, <1>10 DEF Picked
<1>15. \A q \in Here : \E j \in 0..(n - 1) : q = pools[j + 1]
  <2> SUFFICES ASSUME NEW q \in Here PROVE \E j \in 0..(n - 1) : q = pools[j + 1]
    OBVIOUS
  <2>1. PICK i \in 1..n : q = pools[i]
    BY <1>2 DEF Here
  <2>2. i - 1 \in 0..(n - 1) /\ (i - 1) + 1 = i
    BY <1>5
  <2> QED BY <2>1, <2>2
<1>16. b + 1 < n
  <2> SUFFICES ASSUME ~(b + 1 < n) PROVE FALSE
    OBVIOUS
  <2>1. b = n - 1
    BY <1>5
  <2>2. \A j \in 0..(n - 1) : Behind(j, x, b, n) \/ j = x
    BY <1>5, <2>1 DEF Behind
  <2>3. \A q \in Here : more[q] = 1
    BY <1>12, <1>15, <2>2
  <2>4. \A q \in PoolIds : picks'[q] = 0
    BY <1>13, <1>14, <2>3
  <2>5. picks' = NoPicks
    BY <1>14, <2>4 DEF NoPicks
  <2> QED BY <2>5
<1>17. picks' = more
  <2>1. ~Behind(y, x, b, n) /\ y # x
    BY <1>4, <1>5, <1>16 DEF Behind
  <2>2. more[pools[y + 1]] = 0 /\ pools[y + 1] \in Here
    BY <1>0, <1>2, <1>5, <1>12, <2>1
  <2>3. ~\A r \in Here : more[r] > 0
    BY <2>2
  <2>4. picks' = [q \in PoolIds |-> more[q]]
    BY <1>14, <2>3
  <2> QED BY <1>11, <2>4
<1>18. \A j \in 0..(n - 1) : Behind(j, y, b + 1, n) <=> Behind(j, x, b, n) \/ j = x
  BY <1>4, <1>5, BehindNext
<1>19. b + 1 \in 0..(n - 1)
  BY <1>5, <1>16
<1>20. Here' = Here
  BY DEF Here
<1>21. \A j \in 0..(n - 1) : picks'[pools'[j + 1]] = IF Behind(j, y, b + 1, n) THEN 1 ELSE 0
  BY <1>12, <1>17, <1>18
<1>22. \A j \in 0..(n - 1) : Visited(j, b + 1)' <=> Behind(j, y, b + 1, n)
  BY <1>6 DEF Visited
<1>23. \A j \in 0..(n - 1) : picks'[pools'[j + 1]] = IF Visited(j, b + 1)' THEN 1 ELSE 0
  BY <1>21, <1>22
<1> QED BY <1>6, <1>13, <1>17, <1>19, <1>20, <1>23 DEF PicksInv

LEMMA PicksStep ==
  ASSUME Asserts, ManagerInv, OwnerInv, AddrInv, TurnInv, [Next]_vars, TableInv', AddrInv',
         AddrGiven'
  PROVE  PicksInv'
<1> USE DEF table, state, scan
<1>0. ThreadInv /\ TableInv /\ PicksInv
  BY DEF ManagerInv, TurnInv
<1>a. ASSUME UNCHANGED <<pools, connsNext, picks>> PROVE PicksInv'
  BY <1>0, <1>a DEF PicksInv, Here, Visited, Turn
<1>b. ASSUME picks' = NoPicks PROVE PicksInv'
  <2>1. (picks = NoPicks)'
    BY <1>b DEF NoPicks, PoolIds
  <2>2. TableInv' /\ AddrInv' /\ AddrGiven' /\ (picks = NoPicks)' => PicksInv'
    BY NoPicksTurn, PTL
  <2> QED BY <2>1, <2>2
<1>1. ASSUME NEW t \in Threads, NEW o \in Ops, NEW a \in Addrs \cup {NoAddr}, Call(t, o, a)
      PROVE  PicksInv'
  BY <1>a, <1>1 DEF Call
<1>2. ASSUME NEW t \in Threads,
             Enter(t) \/ Set(t) \/ GetNone(t) \/ RemoveNone(t) \/ PeekNoConfig(t)
               \/ PeekSize(t) \/ PeekAllDead(t) \/ PeekHash(t)
               \/ (\E step \in 1..2 : CheckIdle(t, step))
               \/ (\E keep \in BOOLEAN : GiveBack(t, keep))
      PROVE  PicksInv'
  BY <1>a, <1>2 DEF Enter, Set, GetNone, RemoveNone, PeekNoConfig, PeekSize, PeekAllDead,
                    PeekHash, CheckIdle, GiveBack
<1>3. ASSUME NEW t \in Threads, GetFound(t) \/ SetStatus(t) PROVE PicksInv'
  <2>1. UNCHANGED <<pools, connsNext>> /\ (picks' = picks \/ picks' = NoPicks)
    BY <1>3 DEF GetFound, SetStatus
  <2> QED BY <1>a, <1>b, <2>1
<1>4. ASSUME NEW t \in Threads,
             BorrowIdle(t) \/ Reserve(t) \/ BorrowNothing(t) \/ OpenOk(t) \/ OpenFail(t)
      PROVE  PicksInv'
  <2>1. UNCHANGED <<pools, connsNext>> /\ (picks' = picks \/ picks' = NoPicks)
    BY <1>4 DEF BorrowIdle, Reserve, OpenOk, OpenFail, BorrowNothing, Revive
  <2> QED BY <1>a, <1>b, <2>1
<1>5. ASSUME NEW t \in Threads, GetCreate(t) \/ PeekCreate(t) \/ RemoveFound(t) \/ PeekDead(t)
      PROVE  PicksInv'
  BY <1>b, <1>5 DEF GetCreate, PeekCreate, Create, RemoveFound, PeekDead
<1>6. ASSUME NEW t \in Threads, PeekAlive(t) PROVE PicksInv'
  <2>1. CASE picks' = NoPicks
    BY <1>b, <2>1
  <2>2. CASE picks' # NoPicks
    <3>1. /\ pc[t] = "scan" /\ InVector(t) /\ connsNext' = (connsNext + 1) % Cycle
          /\ picks' = Picked(Nth(t)) /\ UNCHANGED pools
      BY <1>6, <2>2 DEF PeekAlive
    <3> QED BY <2>2, <3>1, PickedTurn
  <2> QED BY <2>1, <2>2
<1>7. CASE UNCHANGED vars
  BY <1>a, <1>7 DEF vars
<1> QED BY <1>1, <1>2, <1>3, <1>4, <1>5, <1>6, <1>7 DEF Next, Step, Use

LEMMA GivenStep ==
  ASSUME ManagerInv, AddrGiven, [Next]_vars
  PROVE  AddrGiven'
<1> USE DEF table, state, scan
<1>0. ThreadInv /\ TableInv /\ Here \subseteq 1..made /\ made \in Nat
  BY VectorFacts DEF ManagerInv
<1>a. ASSUME UNCHANGED <<pools, addrOf>> PROVE AddrGiven'
  BY <1>a DEF AddrGiven, Here
<1>b. ASSUME NEW a \in Addrs, Create(a), UNCHANGED <<addrs, connsNext, checkNext, marked>>
      PROVE  AddrGiven'
  <2>1. Here' = Here \cup {made + 1} /\ made + 1 \notin Here /\ made + 1 \in PoolIds
    <3>1. Here' = Here \cup {made + 1}
      BY <1>0, <1>b, CreateTable
    <3>2. made + 1 \in PoolIds /\ made + 1 \notin 1..made
      BY <1>0, <1>b, BoundsAssumption DEF Create, PoolIds
    <3> QED BY <1>0, <3>1, <3>2
  <2>2. addrOf'[made + 1] = a /\ \A p \in Here : addrOf'[p] = addrOf[p]
    BY <1>0, <1>b, <2>1 DEF Create, TableInv
  <2> QED BY <2>1, <2>2 DEF AddrGiven
<1>1. ASSUME NEW t \in Threads, NEW o \in Ops, NEW a \in Addrs \cup {NoAddr}, Call(t, o, a)
      PROVE  AddrGiven'
  BY <1>a, <1>1 DEF Call
<1>2. ASSUME NEW t \in Threads,
             Enter(t) \/ Set(t) \/ GetFound(t) \/ GetNone(t) \/ RemoveNone(t) \/ SetStatus(t)
               \/ PeekNoConfig(t) \/ PeekSize(t) \/ PeekAlive(t) \/ PeekDead(t)
               \/ PeekAllDead(t) \/ PeekHash(t) \/ (\E step \in 1..2 : CheckIdle(t, step))
               \/ Use(t)
      PROVE  AddrGiven'
  BY <1>a, <1>2 DEF Enter, Set, GetFound, GetNone, RemoveNone, SetStatus, PeekNoConfig, PeekSize,
                    PeekAlive, PeekDead, PeekAllDead, PeekHash, CheckIdle, Use, BorrowIdle,
                    Reserve, OpenOk, OpenFail, BorrowNothing, GiveBack
<1>3. ASSUME NEW t \in Threads, GetCreate(t) PROVE AddrGiven'
  <2>1. arg[t] \in Addrs /\ Create(arg[t]) /\ UNCHANGED <<addrs, connsNext, checkNext, marked>>
    BY <1>0, <1>3 DEF GetCreate, In, ThreadInv, NeedsAddr
  <2> QED BY <1>b, <2>1
<1>4. ASSUME NEW t \in Threads, PeekCreate(t) PROVE AddrGiven'
  <2>1. PICK a \in todo[t] : Create(a)
    BY <1>4 DEF PeekCreate
  <2>2. a \in Addrs /\ UNCHANGED <<addrs, connsNext, checkNext, marked>>
    BY <1>0, <1>4 DEF PeekCreate, ThreadInv
  <2> QED BY <1>b, <2>1, <2>2
<1>5. ASSUME NEW t \in Threads, RemoveFound(t) PROVE AddrGiven'
  <2>1. Here' \subseteq Here /\ UNCHANGED addrOf
    BY <1>0, <1>5, EraseTable DEF RemoveFound, PoolsOf
  <2> QED BY <2>1 DEF AddrGiven
<1>6. CASE UNCHANGED vars
  BY <1>a, <1>6 DEF vars
<1> QED BY <1>1, <1>2, <1>3, <1>4, <1>5, <1>6 DEF Next, Step

\* A scan that begins has been nowhere.
LEMMA ScanBegins ==
  ASSUME NEW v, NEW t \in Threads, ThreadInv, StartScan(t, v), TableInv', pools' = v, v # <<>>,
         UNCHANGED alive, \A u \in Threads \ {t} : pc[u] # "scan",
         Turn' \in 0..(Len(v) - 1)
  PROVE  ScanInv'
<1>1. Len(v) \in Nat \ {0}
  <2>1. v \in Seq(1..made')
    BY DEF TableInv
  <2> QED BY <2>1, EmptySeq
<1>2. size'[t] = Len(v) /\ left'[t] = Len(v) /\ \A p \in live'[t] : alive[p]
  BY DEF StartScan, ThreadInv
<1>3. PICK x : x = Turn'
  OBVIOUS
<1>4. \A j \in 0..(Len(v) - 1) : ~Behind(j, x, 0, Len(v))
  BY <1>1, <1>3, BehindNext
<1>5. \A u \in Threads : pc'[u] = "scan" => u = t
  BY DEF StartScan, ThreadInv
<1>6. size'[t] - left'[t] = 0
  BY <1>1, <1>2
<1>7. \A j \in 0..(Len(v) - 1) : ~Visited(j, size[t] - left[t])'
  BY <1>3, <1>4, <1>6 DEF Visited
<1>8. left'[t] \in 0..Len(v)
  BY <1>1, <1>2
<1> QED BY <1>2, <1>5, <1>7, <1>8 DEF ScanInv

\* A pool that was alive when the scan began is not the one found dead.
LEMMA ScanGoesOn ==
  ASSUME Asserts, ManagerInv, OwnerInv, AddrInv, TurnInv, NEW t \in Threads, PeekDead(t)
  PROVE  ScanInv'
<1> USE DEF state
<1>0. /\ ThreadInv /\ TableInv /\ ScanInv /\ pc[t] = "scan" /\ left[t] > 0
      /\ UNCHANGED <<pools, alive, pc, size, live>>
  BY DEF ManagerInv, TurnInv, PeekDead
<1>1. /\ size[t] = Len(pools) /\ left[t] \in 0..Len(pools) /\ pools # <<>>
      /\ \A p \in live[t] : alive[p]
  <2>1. size[t] = Len(pools) /\ size[t] > 0 /\ Len(<<>>) = 0
    BY <1>0 DEF ScanInv, ThreadInv
  <2> QED BY <1>0, <2>1 DEF ScanInv
<1>2. /\ Len(pools) \in Nat \ {0} /\ Cycle % Len(pools) = 0 /\ Turn \in 0..(Len(pools) - 1)
      /\ connsNext \in 0..(Cycle - 1) /\ connsNext' = (connsNext + 1) % Cycle
  BY <1>0, <1>1, CycleFits DEF TurnInv, PeekDead
<1>3. PICK n \in Nat \ {0} : n = Len(pools)
  BY <1>2
<1>4. PICK x \in 0..(n - 1) : x = Turn
  BY <1>2, <1>3
<1>5. PICK b \in 0..(n - 1) : b = size[t] - left[t]
  BY <1>0, <1>1, <1>3
<1>6. Turn' = IF x = n - 1 THEN 0 ELSE x + 1
  BY <1>0, <1>2, <1>3, <1>4, NextTurn DEF Turn
<1>7. size'[t] - left'[t] = b + 1 /\ left'[t] \in 0..Len(pools)
  <2>1. left' = [left EXCEPT ![t] = left[t] - 1]
    BY DEF PeekDead, OneLess
  <2>2. left'[t] = left[t] - 1
    BY <1>0, <2>1 DEF ThreadInv
  <2> QED BY <1>0, <1>1, <1>2, <1>5, <2>2
<1>8. pools[x + 1] \notin live[t]
  <2>1. Nth(t) = pools[x + 1] /\ ~alive[Nth(t)]
    BY <1>1, <1>4 DEF Nth, Turn, PeekDead, Aliving
  <2> QED BY <1>1, <2>1
<1>9. \A j \in 0..(n - 1) : Visited(j, size[t] - left[t])' => Behind(j, x, b, n) \/ j = x
  <2>1. \A j \in 0..(n - 1) :
          Behind(j, IF x = n - 1 THEN 0 ELSE x + 1, b + 1, n) <=> Behind(j, x, b, n) \/ j = x
    BY BehindNext
  <2>2. \A j \in 0..(n - 1) : Visited(j, size[t] - left[t])'
            <=> Behind(j, IF x = n - 1 THEN 0 ELSE x + 1, b + 1, n)
    BY <1>0, <1>3, <1>6, <1>7 DEF Visited
  <2> QED BY <2>1, <2>2
<1>10. \A j \in 0..(n - 1) : Behind(j, x, b, n) => pools[j + 1] \notin live[t]
  BY <1>0, <1>3, <1>4, <1>5 DEF ScanInv, Visited
<1>11. \A u \in Threads : pc'[u] = "scan" => u = t
  BY <1>0 DEF OwnerInv, Inside, InsidePlaces
<1> QED BY <1>0, <1>1, <1>3, <1>7, <1>8, <1>9, <1>10, <1>11 DEF ScanInv

LEMMA ScanStep ==
  ASSUME Asserts, ManagerInv, OwnerInv, AddrInv, TurnInv, [Next]_vars, TableInv', AddrInv',
         AddrGiven'
  PROVE  ScanInv'
<1> USE DEF table, state, scan
<1>0. ThreadInv /\ TableInv /\ ScanInv
  BY DEF ManagerInv, TurnInv
\* Who is outside of the methods disturbs no scan: it only revives pools.
<1>a. ASSUME UNCHANGED <<pools, connsNext>>,
             \A p \in PoolIds : alive[p] => alive'[p],
             \A u \in Threads : pc'[u] = "scan" =>
               /\ pc[u] = "scan" /\ left'[u] = left[u] /\ size'[u] = size[u]
               /\ live'[u] = live[u]
      PROVE  ScanInv'
  <2> SUFFICES ASSUME NEW u \in Threads, pc'[u] = "scan"
               PROVE  /\ size'[u] = Len(pools') /\ left'[u] \in 0..Len(pools')
                      /\ \A p \in live'[u] : alive'[p]
                      /\ \A j \in 0..(Len(pools') - 1) :
                           Visited(j, size[u] - left[u])' => pools'[j + 1] \notin live'[u]
    BY DEF ScanInv
  <2>1. /\ pc[u] = "scan" /\ left'[u] = left[u] /\ size'[u] = size[u] /\ live'[u] = live[u]
        /\ live[u] \in SUBSET PoolIds
    BY <1>0, <1>a DEF ThreadInv
  <2>2. \A j \in 0..(Len(pools) - 1) :
          Visited(j, size[u] - left[u])' <=> Visited(j, size[u] - left[u])
    BY <1>a, <2>1 DEF Visited, Turn
  <2> QED BY <1>0, <1>a, <2>1, <2>2 DEF ScanInv
\* Who leaves was the only one in a scan.
<1>b. ASSUME NEW t \in Threads, NEW p, Leave(t, p), Inside(t) PROVE ScanInv'
  <2>1. \A u \in Threads : pc'[u] # "scan"
    BY <1>0, <1>b DEF Leave, ThreadInv, OwnerInv, Inside, InsidePlaces
  <2> QED BY <2>1 DEF ScanInv
<1>c. pools' # <<>> => Turn' \in 0..(Len(pools') - 1)
  <2>1. TableInv' /\ AddrInv' /\ AddrGiven' /\ (pools # <<>>)' => (Turn \in 0..(Len(pools) - 1))'
    BY CycleFits, PTL
  <2> QED BY <2>1
<1>1. ASSUME NEW t \in Threads, NEW o \in Ops, NEW a \in Addrs \cup {NoAddr}, Call(t, o, a)
      PROVE  ScanInv'
  BY <1>0, <1>a, <1>1 DEF Call, ThreadInv
<1>2. ASSUME NEW t \in Threads, Enter(t) PROVE ScanInv'
  BY <1>0, <1>a, <1>2 DEF Enter, ThreadInv
<1>3. ASSUME NEW t \in Threads,
             Set(t) \/ GetFound(t) \/ GetCreate(t) \/ GetNone(t) \/ RemoveFound(t)
               \/ RemoveNone(t) \/ SetStatus(t) \/ PeekNoConfig(t) \/ PeekAlive(t)
               \/ PeekAllDead(t) \/ PeekHash(t) \/ (\E step \in 1..2 : CheckIdle(t, step))
      PROVE  ScanInv'
  <2>1. Inside(t)
    BY <1>3 DEF Set, GetFound, GetCreate, GetNone, RemoveFound, RemoveNone, SetStatus,
                PeekNoConfig, PeekAlive, PeekAllDead, PeekHash, CheckIdle, In, Inside,
                InsidePlaces
  <2>2. \E p : Leave(t, p)
    BY <1>3 DEF Set, GetFound, GetCreate, GetNone, RemoveFound, RemoveNone, SetStatus,
                PeekNoConfig, PeekAlive, PeekAllDead, PeekHash, CheckIdle
  <2> QED BY <1>b, <2>1, <2>2
<1>4. ASSUME NEW t \in Threads, PeekSize(t) PROVE ScanInv'
  <2>1. Inside(t) /\ UNCHANGED <<pools, alive>>
    BY <1>4 DEF PeekSize, In, Inside, InsidePlaces
  <2>2. \A u \in Threads \ {t} : pc[u] # "scan"
    BY <2>1 DEF OwnerInv, Inside, InsidePlaces
  <2>3. CASE pools = <<>>
    <3>1. pc' = [pc EXCEPT ![t] = "create"]
      BY <1>4, <2>3 DEF PeekSize
    <3>2. \A u \in Threads : pc'[u] # "scan"
      BY <1>0, <2>2, <3>1 DEF ThreadInv
    <3> QED BY <3>2 DEF ScanInv
  <2>4. CASE pools # <<>>
    <3>1. StartScan(t, pools)
      BY <1>4, <2>4 DEF PeekSize
    <3> QED BY <1>0, <1>c, <2>1, <2>2, <2>4, <3>1, ScanBegins
  <2> QED BY <2>3, <2>4
<1>5. ASSUME NEW t \in Threads, PeekCreate(t) PROVE ScanInv'
  <2>1. /\ Inside(t) /\ pc[t] = "create" /\ UNCHANGED alive
        /\ \E a \in todo[t] : Create(a)
    BY <1>5 DEF PeekCreate, Inside, InsidePlaces
  <2>2. \A u \in Threads \ {t} : pc[u] # "scan"
    BY <2>1 DEF OwnerInv, Inside, InsidePlaces
  <2>3. CASE todo'[t] # {}
    <3>1. UNCHANGED pc
      BY <1>5, <2>3 DEF PeekCreate
    <3> QED BY <2>1, <2>2, <3>1 DEF ScanInv
  <2>4. CASE todo'[t] = {}
    <3>1. StartScan(t, pools')
      BY <1>5, <2>4 DEF PeekCreate
    <3>2. pools' # <<>>
      <4>1. pools' = Append(pools, made + 1) /\ pools \in Seq(1..made) /\ made + 1 \in Nat
            /\ made \in Nat
        BY <1>0, <2>1, VectorFacts DEF Create, TableInv
      <4>2. pools \in Seq(Nat)
        <5>1. 1..made \subseteq Nat
          BY <4>1
        <5> QED BY <4>1, <5>1, SeqMonotonic
      <4> QED BY <4>1, <4>2, AppendProperties
    <3> QED BY <1>0, <1>c, <2>1, <2>2, <3>1, <3>2, ScanBegins
  <2> QED BY <2>3, <2>4
<1>6. ASSUME NEW t \in Threads, PeekDead(t) PROVE ScanInv'
  BY <1>6, ScanGoesOn
<1>7. ASSUME NEW t \in Threads,
             BorrowIdle(t) \/ Reserve(t) \/ BorrowNothing(t) \/ OpenOk(t) \/ OpenFail(t)
      PROVE  ScanInv'
  <2>1. alive \in [PoolIds -> BOOLEAN]
    BY DEF ManagerInv, LoanInv
  <2>2. \A p \in PoolIds : alive[p] => alive'[p]
    BY <1>7, <2>1 DEF BorrowIdle, Reserve, OpenOk, OpenFail, BorrowNothing, Revive, Aliving
  <2>3. UNCHANGED <<pools, connsNext, left, size, live>>
    BY <1>7 DEF BorrowIdle, Reserve, OpenOk, OpenFail, BorrowNothing
  <2>4. \A u \in Threads : pc'[u] = "scan" => pc[u] = "scan"
    BY <1>0, <1>7 DEF BorrowIdle, Reserve, OpenOk, OpenFail, BorrowNothing, ThreadInv
  <2> QED BY <1>a, <2>2, <2>3, <2>4
<1>8. ASSUME NEW t \in Threads, NEW keep \in BOOLEAN, GiveBack(t, keep) PROVE ScanInv'
  BY <1>0, <1>a, <1>8 DEF GiveBack, ThreadInv
<1>9. CASE UNCHANGED vars
  BY <1>a, <1>9 DEF vars, thread
<1> QED BY <1>1, <1>2, <1>3, <1>4, <1>5, <1>6, <1>7, <1>8, <1>9 DEF Next, Step, Use

LEMMA TurnsInvariant ==
  ASSUME Asserts
  PROVE  Spec => [](ManagerInv /\ OwnerInv /\ AddrInv /\ TurnInv)
<1>1. Init => OwnerInv /\ AddrInv /\ TurnInv
  <2> SUFFICES ASSUME Init PROVE OwnerInv /\ AddrInv /\ TurnInv
    OBVIOUS
  <2>1. OwnerInv
    BY SetsAssumption DEF Init, OwnerInv, Inside, InsidePlaces
  <2>2. \A p, q \in Here : p = q
    BY DEF Init, Here
  <2>3. AddrInv
    BY <2>2 DEF Init, AddrInv
  <2>4. AddrGiven
    BY SetsAssumption, BoundsAssumption DEF Init, Here, AddrGiven, PoolIds
  <2>5. ScanInv
    BY DEF Init, ScanInv
  <2>6. ManagerInv /\ picks = NoPicks
    BY InitManager DEF Init
  <2>7. PicksInv
    BY <2>3, <2>4, <2>6, NoPicksTurn DEF ManagerInv
  <2> QED BY <2>1, <2>3, <2>4, <2>5, <2>7 DEF TurnInv
<1>2. ManagerInv /\ OwnerInv /\ AddrInv /\ TurnInv /\ [Next]_vars /\ ManagerInv'
        => OwnerInv' /\ AddrInv' /\ TurnInv'
  <2> SUFFICES ASSUME ManagerInv, OwnerInv, AddrInv, TurnInv, [Next]_vars, ManagerInv'
               PROVE  OwnerInv' /\ AddrInv' /\ TurnInv'
    OBVIOUS
  <2>1. OwnerInv' /\ AddrInv' /\ AddrGiven' /\ TableInv'
    BY OwnerStep, AddrStep, GivenStep DEF ManagerInv, TurnInv
  <2> QED BY <2>1, PicksStep, ScanStep DEF TurnInv
<1> QED BY <1>1, <1>2, ManagerInvariant, PTL DEF Spec

\* peek gives the pools their turns one after the other: while no pool comes,
\* goes, dies or revives, none gets two turns more than another, for any number
\* of callers and of pools.
THEOREM TurnsEven == ASSUME Asserts PROVE Spec => []EvenTurns
<1>1. ManagerInv /\ AddrInv /\ TurnInv => EvenTurns
  <2> SUFFICES ASSUME ManagerInv, AddrInv, TurnInv, NEW p \in Here, NEW q \in Here
               PROVE  picks[p] <= picks[q] + 1
    BY DEF EvenTurns
  <2>1. PICK i \in 1..Len(pools) : p = pools[i]
    BY DEF Here
  <2>2. PICK k \in 1..Len(pools) : q = pools[k]
    BY DEF Here
  <2>3. Len(pools) \in Nat /\ pools # <<>>
    <3>1. Len(pools) \in Nat
      BY VectorFacts DEF ManagerInv
    <3> QED BY <2>1, <3>1, EmptySeq
  <2>4. PICK b \in 0..(Len(pools) - 1) : \A j \in 0..(Len(pools) - 1) :
          picks[pools[j + 1]] = IF Visited(j, b) THEN 1 ELSE 0
    BY <2>3 DEF TurnInv, PicksInv
  <2>5. /\ i - 1 \in 0..(Len(pools) - 1) /\ (i - 1) + 1 = i
        /\ k - 1 \in 0..(Len(pools) - 1) /\ (k - 1) + 1 = k
    BY <2>3
  <2>6. picks[p] \in {0, 1} /\ picks[q] \in {0, 1}
    BY <2>1, <2>2, <2>4, <2>5
  <2> QED BY <2>6
<1> QED BY <1>1, TurnsInvariant, PTL

\* peek returns NULL only after its counter, wherever it started and whoever
\* moved it before, has been at every place of the vector: no pool that was alive
\* when it began to look is overlooked.
THEOREM NoLivePoolOverlooked == ASSUME Asserts PROVE Spec => LivePoolFound
<1>1. ManagerInv /\ AddrInv /\ TurnInv =>
        [\A t \in Threads : PeekAllDead(t) => \A p \in live[t] \cap Here : ~alive[p]]_vars
  <2> SUFFICES ASSUME ManagerInv, AddrInv, TurnInv, NEW t \in Threads, PeekAllDead(t),
                      NEW p \in live[t] \cap Here
               PROVE  FALSE
    OBVIOUS
  <2>1. /\ pc[t] = "scan" /\ left[t] = 0 /\ size[t] = Len(pools)
        /\ \A j \in 0..(Len(pools) - 1) : Visited(j, size[t] - left[t]) => pools[j + 1] \notin live[t]
    BY DEF PeekAllDead, TurnInv, ScanInv
  <2>2. PICK i \in 1..Len(pools) : p = pools[i]
    BY DEF Here
  <2>3. Len(pools) \in Nat \ {0} /\ pools # <<>>
    <3>1. Len(pools) \in Nat
      BY VectorFacts DEF ManagerInv
    <3> QED BY <2>2, <3>1, EmptySeq
  <2>4. Turn \in 0..(Len(pools) - 1)
    BY <2>3, CycleFits DEF ManagerInv, TurnInv
  <2>5. i - 1 \in 0..(Len(pools) - 1) /\ (i - 1) + 1 = i /\ size[t] - left[t] = Len(pools)
    BY <2>1, <2>3
  <2>6. Visited(i - 1, Len(pools))
    BY <2>3, <2>4, <2>5, BehindNext DEF Visited
  <2> QED BY <2>1, <2>2, <2>5, <2>6
<1> QED BY <1>1, TurnsInvariant, PTL DEF LivePoolFound

=============================================================================
