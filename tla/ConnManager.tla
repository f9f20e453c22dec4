---------------------------- MODULE ConnManager -----------------------------
(***************************************************************************)
(* acl::connect_manager (aclredis/src/connpool/connect_manager.cpp): the   *)
(* pools of the redis nodes, found by address, by hash or in turn, added   *)
(* and removed while the callers run.                                      *)
(*                                                                         *)
(* Most methods take lock_ with lock_guard, whose constructor is           *)
(* acl_assert(lk_.lock()) (stdlib/locker.cpp): a build with NDEBUG, like   *)
(* the documented RELEASE build, takes no lock there. get and peek(addr)   *)
(* call lock_.lock() themselves. The constant Asserts tells the builds     *)
(* apart. A pool is what ConnLease makes of it: idle and lent connections. *)
(***************************************************************************)
EXTENDS Integers, Sequences, FiniteSets

CONSTANTS
  Threads,
  Addrs,        \* redis node addresses
  NoAddr,
  NoThread,
  Configured,   \* addr_list of init
  Default,      \* default_addr of init, or NoAddr
  Asserts,      \* acl_assert evaluates its argument in this build
  Ops,          \* the operations the callers use
  MaxPools,     \* BOUND: pools ever created
  Cycle,        \* the counters conns_next and check_next are kept modulo this:
                \* only their remainder by a vector's length is ever used
  MaxConns      \* max_ of each pool

ASSUME SetsAssumption ==
  /\ IsFiniteSet(Threads) /\ IsFiniteSet(Addrs)
  /\ NoAddr \notin Addrs /\ NoThread \notin Threads
  /\ Configured \subseteq Addrs /\ Default \in Addrs \cup {NoAddr}
  /\ Asserts \in BOOLEAN
  /\ Ops \subseteq {"set", "get", "restore", "peek", "hash", "remove", "up", "down", "check"}
ASSUME BoundsAssumption ==
  /\ MaxPools \in Nat \ {0} /\ MaxConns \in Nat /\ Cycle \in Nat \ {0}
  \* the lengths of the vector: one pool per address, when the lock is taken
  /\ \A n \in 1..(IF Asserts THEN Cardinality(Addrs) ELSE MaxPools) : Cycle % n = 0

VARIABLES
  addrs,      \* addrs_: the addresses that have a conn_config
  pools,      \* the vector of pools, by creation number
  connsNext,  \* conns_next
  checkNext,  \* check_next
  made,       \* number of pools created so far
  addrOf,     \* key_ of each pool
  alive,      \* alive_ of each pool
  marked,     \* delay_destroy_ of each pool
  deleted,    \* pools whose put has run "delete this"
  idle, lent, \* connections of each pool in its list, and with the callers, the
              \* ones that are being opened included: their sum is count_
  owner,      \* the thread inside lock_
  pc, op, arg,  \* where each thread is, in which operation, on which address
  todo,       \* create_pools_for: addresses without a pool yet
  left,       \* peek: how many pools remain to be looked at
  size,       \* peek: service_size
  live,       \* HISTORY: the pools that were alive when peek began its scan
  result,     \* the pool an operation returned, 0 is NULL
  picks       \* HISTORY: how often peek returned each pool, less the picks all
              \* of them had, since the pools or their states last changed

table  == <<addrs, pools, connsNext, checkNext, made, addrOf>>
state  == <<alive, marked, deleted, idle, lent>>
scan   == <<todo, left, size, live>>
thread == <<pc, op, arg, scan, result>>
vars   == <<table, state, owner, thread, picks>>

PoolIds == 1..MaxPools
Here == {pools[i] : i \in 1..Len(pools)}
NoPicks == [p \in PoolIds |-> 0]

\* init: the list is configured; the default server, if there is one, is
\* configured too and its pool created at once by get.
Init ==
  /\ addrs = Configured \cup ({Default} \ {NoAddr})
  /\ connsNext = 0 /\ checkNext = 0
  /\ IF Default = NoAddr
       THEN pools = <<>> /\ made = 0 /\ addrOf = [p \in PoolIds |-> NoAddr]
       ELSE /\ pools = <<1>> /\ made = 1
            /\ addrOf = [p \in PoolIds |-> IF p = 1 THEN Default ELSE NoAddr]
  /\ alive = [p \in PoolIds |-> TRUE]
  /\ marked = {} /\ deleted = {}
  /\ idle = [p \in PoolIds |-> 0] /\ lent = [p \in PoolIds |-> 0]
  /\ owner = NoThread
  /\ pc = [t \in Threads |-> "idle"]
  /\ op = [t \in Threads |-> "none"]
  /\ arg = [t \in Threads |-> NoAddr]
  /\ todo = [t \in Threads |-> {}]
  /\ left = [t \in Threads |-> 0] /\ size = [t \in Threads |-> 0]
  /\ live = [t \in Threads |-> {}]
  /\ result = [t \in Threads |-> 0]
  /\ picks = NoPicks

-----------------------------------------------------------------------------
(* Taking and giving back lock_. *)

NeedsAddr == {"set", "get", "restore", "remove", "up", "down"}
LockedDirectly == {"get", "restore", "hash"}

\* Every address without a pool, and every removal, may cost one more pool.
RoomForOneMore ==
  made + Cardinality({a \in Addrs : \A p \in Here : addrOf[p] # a})
       + Cardinality({u \in Threads : op[u] = "remove"}) < MaxPools

Call(t, o, a) ==
  /\ pc[t] = "idle"
  /\ a = NoAddr <=> o \notin NeedsAddr
  /\ o = "remove" => RoomForOneMore
  /\ pc' = [pc EXCEPT ![t] = "enter"]
  /\ op' = [op EXCEPT ![t] = o] /\ arg' = [arg EXCEPT ![t] = a]
  /\ UNCHANGED <<table, state, owner, scan, result, picks>>

TakesLockByGuard(o) == o \notin LockedDirectly /\ Asserts   \* mutant: get forgets its lock
TakesLock(o) == o \in LockedDirectly \/ Asserts

Enter(t) ==
  /\ pc[t] = "enter"
  /\ IF TakesLock(op[t]) THEN owner = NoThread /\ owner' = t ELSE UNCHANGED owner
  /\ pc' = [pc EXCEPT ![t] = "in"]
  /\ UNCHANGED <<table, state, op, arg, scan, result, picks>>

Unlocked(t) == IF TakesLock(op[t]) THEN NoThread ELSE owner

\* Every return path unlocks; p is the pool returned.
Leave(t, p) ==
  /\ owner' = Unlocked(t)
  /\ pc' = [pc EXCEPT ![t] = IF p = 0 THEN "idle" ELSE "have"]
  /\ result' = [result EXCEPT ![t] = p]
  /\ op' = [op EXCEPT ![t] = "none"] /\ arg' = [arg EXCEPT ![t] = NoAddr]
  /\ todo' = [todo EXCEPT ![t] = {}]
  /\ left' = [left EXCEPT ![t] = 0] /\ size' = [size EXCEPT ![t] = 0]
  /\ live' = [live EXCEPT ![t] = {}]

In(t, o) == pc[t] = "in" /\ op[t] = o

-----------------------------------------------------------------------------
(* The bodies. *)

\* set adds a configuration; the pool is made when it is first needed.
Set(t) ==
  /\ In(t, "set")
  /\ addrs' = addrs \cup {arg[t]}
  /\ Leave(t, 0)
  /\ UNCHANGED <<pools, connsNext, checkNext, made, addrOf, state, picks>>

\* new pool for a, put at the end of the vector.
Create(a) ==
  /\ made < MaxPools
  /\ made' = made + 1
  /\ pools' = Append(pools, made + 1)
  /\ addrOf' = [addrOf EXCEPT ![made + 1] = a]
  /\ picks' = NoPicks

\* Mutant: get looks at the address of the first pool only.
PoolsOfFirst(a) == {p \in Here : addrOf[p] = a /\ p = Head(pools)}
PoolsOf(a) == {p \in Here : addrOf[p] = a}

\* aliving(): a dead pool comes back when its retry interval has passed, which
\* the clock decides.
Aliving(p, again) == alive[p] \/ again

\* The first pool of the vector with this address. get_pools_by_id and the
\* search are in one critical section with the creation.
GetFound(t) ==
  /\ In(t, "get") \/ In(t, "restore")
  /\ \E p \in PoolsOf(arg[t]) :
       /\ IF op[t] = "restore" /\ ~alive[p]
            THEN alive' = [alive EXCEPT ![p] = TRUE] /\ picks' = NoPicks
            ELSE UNCHANGED <<alive, picks>>
       /\ Leave(t, p)
  /\ UNCHANGED <<table, marked, deleted, idle, lent>>

GetCreate(t) ==
  /\ In(t, "get") \/ In(t, "restore")
  /\ PoolsOf(arg[t]) = {} /\ arg[t] \in addrs
  /\ Create(arg[t])
  /\ Leave(t, made + 1)
  /\ UNCHANGED <<addrs, connsNext, checkNext, state>>

GetNone(t) ==
  /\ In(t, "get") \/ In(t, "restore")
  /\ PoolsOf(arg[t]) = {} /\ arg[t] \notin addrs
  /\ Leave(t, 0)
  /\ UNCHANGED <<table, state, picks>>

\* remove marks the pool and takes it out of the vector; its configuration
\* stays, so a later get makes a new pool for the address.
Erase(p) ==
  LET i == CHOOSE j \in 1..Len(pools) : pools[j] = p
  IN  SubSeq(pools, 1, i - 1) \o SubSeq(pools, i + 1, Len(pools))

RemoveFound(t) ==
  /\ In(t, "remove")
  /\ \E p \in PoolsOf(arg[t]) :
       /\ pools' = Erase(p)
       /\ marked' = marked \cup {p}
  /\ picks' = NoPicks
  /\ Leave(t, 0)
  /\ UNCHANGED <<addrs, connsNext, checkNext, made, addrOf, alive, deleted, idle, lent>>

RemoveNone(t) ==
  /\ In(t, "remove") /\ PoolsOf(arg[t]) = {}
  /\ Leave(t, 0)
  /\ UNCHANGED <<table, state, picks>>

\* set_pools_status: up or down for the first pool of the address.
SetStatus(t) ==
  /\ In(t, "up") \/ In(t, "down")
  /\ LET yes == op[t] = "up" IN
     \/ \E p \in PoolsOf(arg[t]) :
          /\ alive' = [alive EXCEPT ![p] = yes]
          /\ picks' = IF alive[p] = yes THEN picks ELSE NoPicks
     \/ PoolsOf(arg[t]) = {} /\ UNCHANGED <<alive, picks>>
  /\ Leave(t, 0)
  /\ UNCHANGED <<table, marked, deleted, idle, lent>>

-----------------------------------------------------------------------------
(* peek, in turn over the pools. *)

PeekNoConfig(t) ==
  /\ In(t, "peek") \/ In(t, "hash")
  /\ addrs = {}
  /\ Leave(t, 0)
  /\ UNCHANGED <<table, state, picks>>

\* service_size is the length of the vector when the scan begins.
StartScan(t, vector) ==
  /\ left' = [left EXCEPT ![t] = Len(vector)]
  /\ size' = [size EXCEPT ![t] = Len(vector)]
  /\ live' = [live EXCEPT ![t] = {vector[i] : i \in {j \in 1..Len(vector) : alive[vector[j]]}}]
  /\ pc' = [pc EXCEPT ![t] = "scan"]

\* When the vector is empty a pool is made for every address first.
PeekSize(t) ==
  /\ In(t, "peek") \/ In(t, "hash")
  /\ addrs # {}
  /\ IF pools = <<>>
       THEN /\ todo' = [todo EXCEPT ![t] = addrs]
            /\ pc' = [pc EXCEPT ![t] = "create"]
            /\ UNCHANGED <<left, size, live>>
       ELSE StartScan(t, pools) /\ UNCHANGED todo
  /\ UNCHANGED <<table, state, owner, op, arg, result, picks>>

\* create_pools_for makes them one after the other, and peek reads the size.
PeekCreate(t) ==
  /\ pc[t] = "create"
  /\ \E a \in todo[t] : Create(a) /\ todo' = [todo EXCEPT ![t] = @ \ {a}]
  /\ IF todo'[t] = {} THEN StartScan(t, pools') ELSE UNCHANGED <<left, size, live, pc>>
  /\ UNCHANGED <<addrs, connsNext, checkNext, state, owner, op, arg, result>>

\* n = conns_next++ % service_size. The index is past the end of the vector
\* only when another thread has erased a pool since the size was read.
NthOfFirst(t) == pools[IF connsNext % 2 = 0 THEN 1 ELSE Len(pools)]  \* mutant
Nth(t) == pools[(connsNext % size[t]) + 1]
InVector(t) == connsNext % size[t] < Len(pools)

TwoLess(n) == IF n > 1 THEN n - 2 ELSE 0   \* mutant: the scan skips a turn
OneLess(n) == n - 1

Picked(p) ==
  LET more == [picks EXCEPT ![p] = @ + 1]
      all  == \A q \in Here : more[q] > 0
  IN  [q \in PoolIds |-> IF all /\ q \in Here THEN more[q] - 1 ELSE more[q]]

PeekAlive(t) ==
  /\ pc[t] = "scan" /\ op[t] = "peek" /\ left[t] > 0
  /\ InVector(t)
  /\ connsNext' = (connsNext + 1) % Cycle
  /\ \E again \in BOOLEAN :
       /\ Aliving(Nth(t), again)
       /\ alive' = [alive EXCEPT ![Nth(t)] = TRUE]
       /\ picks' = IF alive[Nth(t)] THEN Picked(Nth(t)) ELSE NoPicks
  /\ Leave(t, Nth(t))
  /\ UNCHANGED <<addrs, pools, checkNext, made, addrOf, marked, deleted, idle, lent>>

PeekDead(t) ==
  /\ pc[t] = "scan" /\ op[t] = "peek" /\ left[t] > 0
  /\ InVector(t) /\ ~Aliving(Nth(t), FALSE)
  /\ connsNext' = (connsNext + 1) % Cycle
  /\ left' = [left EXCEPT ![t] = OneLess(@)]
  /\ picks' = NoPicks
  /\ UNCHANGED <<addrs, pools, checkNext, made, addrOf, state, owner,
                 pc, op, arg, todo, size, live, result>>

PeekAllDead(t) ==
  /\ pc[t] = "scan" /\ op[t] = "peek" /\ left[t] = 0
  /\ Leave(t, 0)
  /\ UNCHANGED <<table, state, picks>>

\* peek(addr): the pool the hash of the key selects, dead or alive.
PeekHash(t) ==
  /\ pc[t] = "scan" /\ op[t] = "hash"
  /\ \E p \in Here : Leave(t, p)
  /\ UNCHANGED <<table, state, picks>>

\* check_idle(step): the next pools, up to the end of the vector, close
\* connections that are idle.
CheckIdle(t, step) ==
  /\ In(t, "check")
  /\ IF pools = <<>> THEN UNCHANGED <<idle, checkNext>>
     ELSE /\ checkNext' = (checkNext + 1) % Cycle
          /\ LET pos  == checkNext % Len(pools)
                 seen == {pools[i] : i \in {j \in 1..Len(pools) : pos < j /\ j <= pos + step}}
             IN \E n \in [seen -> 0..MaxConns] :
                  /\ \A p \in seen : n[p] <= idle[p]
                  /\ idle' = [p \in PoolIds |-> IF p \in seen THEN n[p] ELSE idle[p]]
  /\ Leave(t, 0)
  /\ UNCHANGED <<addrs, pools, connsNext, made, addrOf, alive, marked, deleted, lent, picks>>

-----------------------------------------------------------------------------
(* What callers do with the pool they got (connect_pool, see ConnPool). *)

\* The first test of pool->peek(): like aliving.
Revive(p, again) ==
  /\ alive' = [alive EXCEPT ![p] = Aliving(p, again)]
  /\ picks' = IF alive' = alive THEN picks ELSE NoPicks

\* pool->peek() takes a connection from the list. Nothing keeps the pool alive
\* between the return of the manager and this call: on a pool that has deleted
\* itself all of this is undefined, and may go as if the memory were still there.
BorrowIdle(t) ==
  /\ pc[t] = "have"
  /\ LET p == result[t] IN
     /\ \E again \in BOOLEAN : Aliving(p, again) /\ Revive(p, again)
     /\ idle[p] > 0
     /\ idle' = [idle EXCEPT ![p] = @ - 1]
     /\ lent' = [lent EXCEPT ![p] = @ + 1]
  /\ pc' = [pc EXCEPT ![t] = "using"]
  /\ UNCHANGED <<table, marked, deleted, owner, op, arg, scan, result>>

\* The list is empty: a new one is counted under the pool's lock and opened
\* after it.
Full(p) == idle[p] + lent[p] >= MaxConns
Reserve(t) ==
  /\ pc[t] = "have"
  /\ LET p == result[t] IN
     /\ \E again \in BOOLEAN : Aliving(p, again) /\ Revive(p, again)
     /\ idle[p] = 0 /\ ~Full(p)
     /\ lent' = [lent EXCEPT ![p] = @ + 1]
  /\ pc' = [pc EXCEPT ![t] = "opening"]
  /\ UNCHANGED <<table, marked, deleted, idle, owner, op, arg, scan, result>>

OpenOk(t) ==
  /\ pc[t] = "opening"
  /\ pc' = [pc EXCEPT ![t] = "using"]
  /\ UNCHANGED <<table, state, owner, op, arg, scan, result, picks>>

\* The reservation is taken back. A marked pool does not go here, also when
\* this was the last one.
OpenFail(t) ==
  /\ pc[t] = "opening"
  /\ lent' = [lent EXCEPT ![result[t]] = @ - 1]
  /\ pc' = [pc EXCEPT ![t] = "idle"]
  /\ result' = [result EXCEPT ![t] = 0]
  /\ UNCHANGED <<table, alive, marked, deleted, idle, owner, op, arg, scan, picks>>

\* NULL: the pool is dead, or at its limit; or it is deleted.
BorrowNothing(t) ==
  /\ pc[t] = "have"
  /\ LET p == result[t] IN
     \/ (~alive[p] \/ p \in deleted) /\ UNCHANGED <<alive, picks>>
     \/ idle[p] = 0 /\ Full(p) /\ \E again \in BOOLEAN : Aliving(p, again) /\ Revive(p, again)
  /\ pc' = [pc EXCEPT ![t] = "idle"]
  /\ result' = [result EXCEPT ![t] = 0]
  /\ UNCHANGED <<table, marked, deleted, idle, lent, owner, op, arg, scan>>

\* count_ <= 0 after the connection is gone: connections in the list, with
\* other callers, or being opened keep the pool.
LastOfList(p) == idle[p] = 0   \* mutant: the pool goes when its list is empty
LastOf(p) == idle[p] + lent[p] = 1

Condemned(p) == p \in marked

\* put: a marked pool drops the connection and goes with the last one.
GiveBack(t, keep) ==
  /\ pc[t] = "using"
  /\ LET p == result[t] IN
     /\ lent' = [lent EXCEPT ![p] = @ - 1]
     /\ idle' = IF keep /\ alive[p] /\ ~Condemned(p)
                THEN [idle EXCEPT ![p] = @ + 1] ELSE idle
     /\ deleted' = IF Condemned(p) /\ LastOf(p) THEN deleted \cup {p} ELSE deleted
  /\ pc' = [pc EXCEPT ![t] = "idle"]
  /\ result' = [result EXCEPT ![t] = 0]
  /\ UNCHANGED <<table, alive, marked, owner, op, arg, scan, picks>>

Step(t) ==
  \/ Enter(t) \/ Set(t) \/ GetFound(t) \/ GetCreate(t) \/ GetNone(t)
  \/ RemoveFound(t) \/ RemoveNone(t) \/ SetStatus(t)
  \/ PeekNoConfig(t) \/ PeekSize(t) \/ PeekCreate(t)
  \/ PeekAlive(t) \/ PeekDead(t) \/ PeekAllDead(t) \/ PeekHash(t)
  \/ \E step \in 1..2 : CheckIdle(t, step)
Use(t) ==
  \/ BorrowIdle(t) \/ Reserve(t) \/ OpenOk(t) \/ OpenFail(t) \/ BorrowNothing(t)
  \/ \E keep \in BOOLEAN : GiveBack(t, keep)

Next ==
  \E t \in Threads :
    \/ \E o \in Ops, a \in Addrs \cup {NoAddr} : Call(t, o, a)
    \/ Step(t) \/ Use(t)

Spec == Init /\ [][Next]_vars

-----------------------------------------------------------------------------
(* Properties *)

InsidePlaces == {"in", "create", "scan"}
Inside(t) == pc[t] \in InsidePlaces

TypeOK ==
  /\ addrs \subseteq Addrs
  /\ Here \subseteq 1..made /\ made \in 0..MaxPools
  /\ connsNext \in 0..(Cycle - 1) /\ checkNext \in 0..(Cycle - 1)
  /\ addrOf \in [PoolIds -> Addrs \cup {NoAddr}]
  /\ alive \in [PoolIds -> BOOLEAN]
  /\ marked \subseteq PoolIds /\ deleted \subseteq marked
  /\ idle \in [PoolIds -> 0..MaxConns] /\ lent \in [PoolIds -> 0..MaxConns]
  /\ owner \in Threads \cup {NoThread}
  /\ pc \in [Threads -> InsidePlaces \cup {"idle", "enter", "have", "opening", "using"}]
  /\ op \in [Threads -> Ops \cup {"none"}]
  /\ arg \in [Threads -> Addrs \cup {NoAddr}]
  /\ todo \in [Threads -> SUBSET Addrs]
  /\ left \in [Threads -> 0..MaxPools] /\ size \in [Threads -> 0..MaxPools]
  /\ live \in [Threads -> SUBSET PoolIds]
  /\ result \in [Threads -> 0..MaxPools]
  /\ picks \in [PoolIds -> Nat]

\* connect_manager.hpp:62, :75, :95, :114 "locks internally": one thread at a
\* time is between the lock and the unlock of a method.
Exclusive == \A t, u \in Threads : Inside(t) /\ Inside(u) => t = u

\* The variables have their types, the methods exclude each other, and the
\* find-or-create of get and the create-all of peek never make two pools for
\* one address, also when both are called at once and pools are removed: the
\* connection limit of a node is the limit of its one pool.
OnePoolPerAddr ==
  /\ TypeOK /\ Exclusive
  /\ \A i, j \in 1..Len(pools) : addrOf[pools[i]] = addrOf[pools[j]] => i = j

\* peek gives up only after its turn counter, which starts anywhere, has
\* visited every pool: none that was alive when it began to look, and still is,
\* was overlooked. (One that a caller's own peek revives meanwhile may be.)
LivePoolFound ==
  [][\A t \in Threads : PeekAllDead(t) => \A p \in live[t] \cap Here : ~alive[p]]_vars

\* connect_manager.hpp:115: while no pool comes, goes, dies or revives, no
\* pool gets two turns more than another, whoever calls.
EvenTurns == \A p, q \in Here : picks[p] <= picks[q] + 1

\* connect_pool.cpp:206: when a pool deletes itself, in the put of one of several
\* callers, it has left the vector, no other caller has one of its connections or
\* is opening one outside the lock, and its list is empty. (A caller may still
\* have its pointer: PointerValid.)
HasConn(t, p) == pc[t] \in {"opening", "using"} /\ result[t] = p
DeletedUnused ==
  [][\A p \in deleted' \ deleted :
       p \notin Here' /\ idle'[p] = 0 /\ \A t \in Threads : ~HasConn(t, p)']_vars

\* connect_manager.hpp:95 "may be called while the program runs": the pool a
\* method returned still exists when the caller turns to it.
PointerValid == \A t \in Threads : pc[t] = "have" => result[t] \notin deleted
=============================================================================
