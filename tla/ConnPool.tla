------------------------------ MODULE ConnPool ------------------------------
(***************************************************************************)
(* acl::connect_pool (aclredis/src/connpool/connect_pool.cpp): the         *)
(* connections to one redis server, shared by the caller's threads.        *)
(*                                                                         *)
(* Every method is one or more critical sections of the pool's own lock_.  *)
(* A critical section is one action; what a method does outside the lock   *)
(* -- reading the clock before locking, opening the socket after unlocking *)
(* -- is a step of its own, so that the other threads may run in between.  *)
(***************************************************************************)
EXTENDS Integers, Sequences, FiniteSets

CONSTANTS
  Threads,      \* the callers' threads
  Conns,        \* connection objects (connect_client)
  Foreign,      \* those of them a caller made itself and gives to bind_one
  NoConn,       \* NULL
  Max,          \* max_: limit of the connections, 0 is no limit
  IdleTtl,      \* idle_ttl_: < 0 never expires, 0 expires at once
  CheckTtls,    \* the ttl arguments the owner passes to check_idle
  CheckInter,   \* check_inter_
  RetryInter,   \* retry_inter_
  StatInter,    \* argument of reset_statistics
  Epoch,        \* time(NULL) when the pool is created
  EndTime,      \* BOUND: the clock stops here
  MaxUsed,      \* BOUND: no connection is lent once total_used_ is here
  Word          \* modulus of size_t and of unsigned long long

ASSUME ThreadsAssumption == IsFiniteSet(Threads)
ASSUME ConnsAssumption ==
  /\ IsFiniteSet(Conns) /\ Foreign \subseteq Conns /\ NoConn \notin Conns
\* The names ConnLease has for the other places of a connection are no threads.
ASSUME PlacesAssumption == "idle" \notin Threads /\ "absent" \notin Threads
ASSUME TimeAssumption ==
  /\ Max \in Nat /\ IdleTtl \in Int /\ CheckTtls \subseteq Int
  /\ CheckInter \in Nat /\ RetryInter \in Int /\ StatInter \in Nat
  /\ Epoch \in Nat \ {0} /\ EndTime \in Nat /\ Epoch <= EndTime
ASSUME WordAssumption ==
  /\ Word \in Nat /\ MaxUsed \in Nat
  /\ Cardinality(Conns) + Cardinality(Threads) < Word /\ MaxUsed < Word

VARIABLES
  alive,         \* alive_
  delayDestroy,  \* delay_destroy_
  destroyed,     \* "delete this" has run
  lastDead,      \* last_dead_
  count,         \* count_, a size_t
  lastCheck,     \* last_check_
  totalUsed,     \* total_used_
  currentUsed,   \* current_used_
  last,          \* last_
  pool,          \* pool_, the idle connections, the front first
  when,          \* connect_client::when_ of the idle connections
  now,           \* time(NULL)
  pc,            \* where each thread is
  held,          \* the connection each thread has borrowed
  keep,          \* the argument of the put a thread is in
  stamp          \* the clock a thread read before it asked for the lock

life  == <<alive, delayDestroy, destroyed, lastDead>>
stats == <<totalUsed, currentUsed, last>>
local == <<keep, stamp>>
vars  == <<life, count, lastCheck, stats, pool, when, now, pc, held, local>>

\* A thread counts as one of count_ from the reservation in peek to the
\* critical section of put.
Places == {"idle", "ref", "aliving", "resetting", "opening", "using", "putting"}
OutPlaces == {"opening", "using", "putting"}
HoldPlaces == {"using", "putting"}

Idle == {pool[i] : i \in 1..Len(pool)}
Out  == {t \in Threads : pc[t] \in OutPlaces}
Opening == {t \in Threads : pc[t] = "opening"}
Held == {held[t] : t \in Threads} \ {NoConn}
Fresh == Conns \ (Idle \cup Held)

\* Arithmetic of the unsigned counters.
Inc(n) == IF n = Word - 1 THEN 0 ELSE n + 1
DecSigned(n) == n - 1  \* mutant: a signed counter, no wrap at 0
Dec(n) == IF n = 0 THEN Word - 1 ELSE n - 1
Less(n, k) == IF k <= n THEN n - k ELSE n + Word - k

Init ==
  /\ alive = TRUE /\ delayDestroy = FALSE /\ destroyed = FALSE
  /\ lastDead = 0 /\ count = 0 /\ lastCheck = 0
  /\ totalUsed = 0 /\ currentUsed = 0 /\ last = 0
  /\ pool = <<>> /\ when = [c \in Conns |-> 0] /\ now = Epoch
  /\ pc = [t \in Threads |-> "idle"]
  /\ held = [t \in Threads |-> NoConn]
  /\ keep = [t \in Threads |-> FALSE]
  /\ stamp = [t \in Threads |-> 0]

Tick ==
  /\ now < EndTime
  /\ now' = now + 1
  /\ UNCHANGED <<life, count, lastCheck, stats, pool, when, pc, held, local>>

\* A thread gets the pool's pointer from the manager, which stops handing it
\* out in the critical section that marks the pool (connect_manager::remove).
GetRef(t) ==
  /\ pc[t] = "idle" /\ ~delayDestroy
  /\ pc' = [pc EXCEPT ![t] = "ref"]
  /\ UNCHANGED <<life, count, lastCheck, stats, pool, when, now, held, local>>

-----------------------------------------------------------------------------
(* peek *)

\* Mutant: the interval is not compared with the last death.
MayReviveAnytime(clock) == RetryInter > 0
MayRevive(clock) == RetryInter > 0 /\ clock - lastDead >= RetryInter

\* The first test of peek: a dead pool whose retry interval has not passed.
PeekRefused(t) ==
  /\ pc[t] = "ref" /\ ~destroyed
  /\ ~alive /\ ~MayRevive(now)
  /\ pc' = [pc EXCEPT ![t] = "idle"]
  /\ UNCHANGED <<life, count, lastCheck, stats, pool, when, now, held, local>>

\* Past that test the pool is alive, whatever peek returns next.
PeekPasses(t) ==
  /\ pc[t] = "ref" /\ ~destroyed
  /\ alive \/ MayRevive(now)
  /\ alive' = TRUE
  /\ UNCHANGED <<delayDestroy, destroyed, lastDead, lastCheck, last, now, local>>

PeekIdle(t) ==
  /\ PeekPasses(t)
  /\ pool # <<>>
  /\ totalUsed < MaxUsed
  /\ held' = [held EXCEPT ![t] = Head(pool)]
  /\ pool' = Tail(pool)
  /\ when' = [when EXCEPT ![Head(pool)] = 0]
  /\ totalUsed' = Inc(totalUsed) /\ currentUsed' = Inc(currentUsed)
  /\ pc' = [pc EXCEPT ![t] = "using"]
  /\ UNCHANGED count

AtLimitLate == Max > 0 /\ count > Max  \* mutant: off by one
AtLimit == Max > 0 /\ count >= Max

\* NULL: the limit is reached, or the caller asked for no new connection.
PeekNone(t, on) ==
  /\ PeekPasses(t)
  /\ pool = <<>>
  /\ AtLimit \/ ~on
  /\ pc' = [pc EXCEPT ![t] = "idle"]
  /\ UNCHANGED <<count, totalUsed, currentUsed, pool, when, held>>

\* The slot is reserved under the lock, the socket opened outside it.
PeekReserve(t) ==
  /\ PeekPasses(t)
  /\ pool = <<>> /\ ~AtLimit
  /\ totalUsed < MaxUsed
  /\ count' = Inc(count)
  /\ totalUsed' = Inc(totalUsed) /\ currentUsed' = Inc(currentUsed)
  /\ pc' = [pc EXCEPT ![t] = "opening"]
  /\ UNCHANGED <<pool, when, held>>

OpenOk(t) ==
  /\ pc[t] = "opening"
  /\ \E c \in Fresh \ Foreign : held' = [held EXCEPT ![t] = c]
  /\ pc' = [pc EXCEPT ![t] = "using"]
  /\ UNCHANGED <<life, count, lastCheck, stats, pool, when, now, local>>

\* The second critical section of peek. AUTO_SET_ALIVE is defined by no build
\* file, so the pool stays alive.
OpenFail(t) ==
  /\ pc[t] = "opening"
  /\ count' = Dec(count)
  /\ totalUsed' = Dec(totalUsed) /\ currentUsed' = Dec(currentUsed)
  /\ pc' = [pc EXCEPT ![t] = "idle"]
  /\ UNCHANGED <<life, lastCheck, last, pool, when, now, held, local>>

\* The caller gives the pool a connection of its own; no limit is looked at.
BindOne(t) ==
  /\ pc[t] = "ref" /\ ~destroyed
  /\ \E c \in Fresh \cap Foreign : held' = [held EXCEPT ![t] = c]
  /\ count' = Inc(count)
  /\ pc' = [pc EXCEPT ![t] = "using"]
  /\ UNCHANGED <<life, lastCheck, stats, pool, when, now, local>>

-----------------------------------------------------------------------------
(* check_idle *)

\* check_idle walks from the back and stops at the first connection that has
\* not expired: what is left is the list up to the last such connection. (An
\* idle connection was stamped by put, so its "when <= 0" test never holds.)
Expired(w, c, ttl) == now - w[c] >= ttl
Survivors(p, w, ttl) ==
  CHOOSE k \in 0..Len(p) :
    /\ k > 0 => ~Expired(w, p[k], ttl)
    /\ \A i \in (k + 1)..Len(p) : Expired(w, p[i], ttl)

\* Mutant: the connections that expired stay counted.
CheckedKeepsCount(p, n, w, ttl) ==
  [pool |-> IF ttl < 0 THEN p ELSE SubSeq(p, 1, Survivors(p, w, ttl)), count |-> n]

\* The list and the count after check_idle(ttl).
Checked(p, n, w, ttl) ==
  IF ttl < 0 \/ p = <<>> THEN [pool |-> p, count |-> n]
  ELSE IF ttl = 0 THEN [pool |-> <<>>, count |-> 0]
  ELSE LET k == Survivors(p, w, ttl)
       IN  [pool |-> SubSeq(p, 1, k), count |-> Less(n, Len(p) - k)]

\* Only the stamps of idle connections are ever read.
Stamps(p, w) == [c \in Conns |-> IF \E i \in 1..Len(p) : p[i] = c THEN w[c] ELSE 0]

\* The owner's call; the manager makes it under its own lock, so never on a
\* pool it has removed.
CheckIdle(ttl) ==
  /\ ~delayDestroy
  /\ LET r == Checked(pool, count, when, ttl)
     IN  pool' = r.pool /\ count' = r.count /\ when' = Stamps(r.pool, when)
  /\ UNCHANGED <<life, lastCheck, stats, now, pc, held, local>>

-----------------------------------------------------------------------------
(* put *)

\* put reads the clock before it asks for the lock.
PutBegin(t, k) ==
  /\ pc[t] = "using"
  /\ pc' = [pc EXCEPT ![t] = "putting"]
  /\ keep' = [keep EXCEPT ![t] = k]
  /\ stamp' = [stamp EXCEPT ![t] = now]
  /\ UNCHANGED <<life, count, lastCheck, stats, pool, when, now, held>>

PutDone(t) ==
  /\ pc' = [pc EXCEPT ![t] = "idle"]
  /\ held' = [held EXCEPT ![t] = NoConn]
  /\ keep' = [keep EXCEPT ![t] = FALSE]
  /\ stamp' = [stamp EXCEPT ![t] = 0]

LastRefEarly(n) == n <= 1  \* mutant: one reference too early
LastRefNever(n) == n < 0   \* mutant: a test no unsigned count passes
LastRef(n) == n <= 0

\* The pool is marked: the connection is deleted and the last one takes the
\* pool, whose destructor deletes the idle connections, with it.
PutMarked(t) ==
  /\ pc[t] = "putting" /\ delayDestroy
  /\ count' = Dec(count)
  /\ IF LastRef(count')
       THEN destroyed' = TRUE /\ pool' = <<>> /\ when' = [c \in Conns |-> 0]
       ELSE UNCHANGED <<destroyed, pool, when>>
  /\ PutDone(t)
  /\ UNCHANGED <<alive, delayDestroy, lastDead, lastCheck, stats, now>>

\* Kept at the front of the list, or deleted; then the periodic check_idle.
PutBack(t) ==
  /\ pc[t] = "putting" /\ ~delayDestroy
  /\ LET kept == keep[t] /\ alive
         p    == IF kept THEN <<held[t]>> \o pool ELSE pool
         n    == IF kept THEN count ELSE Dec(count)
         w    == IF kept THEN [when EXCEPT ![held[t]] = stamp[t]] ELSE when
         due  == IdleTtl >= 0 /\ stamp[t] - lastCheck >= CheckInter
         r    == IF due THEN Checked(p, n, w, IdleTtl)
                        ELSE [pool |-> p, count |-> n]
     IN  /\ pool' = r.pool /\ count' = r.count /\ when' = Stamps(r.pool, w)
         /\ lastCheck' = IF due THEN now ELSE lastCheck
  /\ PutDone(t)
  /\ UNCHANGED <<life, stats, now>>

-----------------------------------------------------------------------------
(* the pool's state *)

SetAlive(yes) ==
  /\ ~delayDestroy
  /\ alive' = yes
  /\ lastDead' = IF yes THEN lastDead ELSE now
  /\ UNCHANGED <<delayDestroy, destroyed, count, lastCheck, stats, pool, when,
                 now, pc, held, local>>

\* aliving looks at alive_ and reads the clock without the lock ...
AlivingBegin(t) ==
  /\ pc[t] = "ref" /\ ~destroyed /\ ~alive
  /\ pc' = [pc EXCEPT ![t] = "aliving"]
  /\ stamp' = [stamp EXCEPT ![t] = now]
  /\ UNCHANGED <<life, count, lastCheck, stats, pool, when, now, held, keep>>

\* ... and compares that clock with last_dead_ under the lock.
AlivingEnd(t) ==
  /\ pc[t] = "aliving" /\ ~destroyed
  /\ alive' = (alive \/ MayRevive(stamp[t]))
  /\ pc' = [pc EXCEPT ![t] = IF MayRevive(stamp[t]) THEN "ref" ELSE "idle"]
  /\ stamp' = [stamp EXCEPT ![t] = 0]
  /\ UNCHANGED <<delayDestroy, destroyed, lastDead, count, lastCheck, stats,
                 pool, when, now, held, keep>>

ResetBegin(t) ==
  /\ pc[t] = "ref" /\ ~destroyed
  /\ pc' = [pc EXCEPT ![t] = "resetting"]
  /\ stamp' = [stamp EXCEPT ![t] = now]
  /\ UNCHANGED <<life, count, lastCheck, stats, pool, when, now, held, keep>>

ResetEnd(t) ==
  /\ pc[t] = "resetting" /\ ~destroyed
  /\ IF stamp[t] - last >= StatInter
       THEN last' = stamp[t] /\ currentUsed' = 0
       ELSE UNCHANGED <<last, currentUsed>>
  /\ pc' = [pc EXCEPT ![t] = "idle"]
  /\ stamp' = [stamp EXCEPT ![t] = 0]
  /\ UNCHANGED <<life, count, lastCheck, totalUsed, pool, when, now, held, keep>>

SetDelayDestroy ==
  /\ ~delayDestroy
  /\ delayDestroy' = TRUE
  /\ UNCHANGED <<alive, destroyed, lastDead, count, lastCheck, stats, pool,
                 when, now, pc, held, local>>

-----------------------------------------------------------------------------
Peek(t) ==
  \/ PeekRefused(t) \/ PeekIdle(t) \/ PeekReserve(t)
  \/ \E on \in BOOLEAN : PeekNone(t, on)

Put(t) == PutMarked(t) \/ PutBack(t)

Caller(t) ==
  \/ GetRef(t) \/ Peek(t) \/ OpenOk(t) \/ OpenFail(t) \/ BindOne(t)
  \/ \E k \in BOOLEAN : PutBegin(t, k)
  \/ Put(t)
  \/ AlivingBegin(t) \/ AlivingEnd(t) \/ ResetBegin(t) \/ ResetEnd(t)

Owner ==
  \/ \E ttl \in CheckTtls : CheckIdle(ttl)
  \/ \E yes \in BOOLEAN : SetAlive(yes)
  \/ SetDelayDestroy

Next == Tick \/ Owner \/ \E t \in Threads : Caller(t)

Spec == Init /\ [][Next]_vars

\* A thread inside peek or put finishes (connect and I/O have timeouts), and
\* whoever borrowed a connection gives it back.
Fairness ==
  \A t \in Threads :
    /\ WF_vars(OpenOk(t) \/ OpenFail(t))
    /\ WF_vars(\E k \in BOOLEAN : PutBegin(t, k))
    /\ WF_vars(Put(t))

FairSpec == Spec /\ Fairness

-----------------------------------------------------------------------------
(* Properties *)

\* Every variable stays in its domain; counters stay machine words.
TypeOK ==
  /\ alive \in BOOLEAN /\ delayDestroy \in BOOLEAN /\ destroyed \in BOOLEAN
  /\ lastDead \in Nat /\ lastCheck \in Nat /\ last \in Nat /\ now \in Nat
  /\ count \in 0..(Word - 1)
  /\ totalUsed \in 0..(Word - 1) /\ currentUsed \in 0..(Word - 1)
  /\ pool \in Seq(Conns)
  /\ when \in [Conns -> Nat]
  /\ pc \in [Threads -> Places]
  /\ held \in [Threads -> Conns \cup {NoConn}]
  /\ keep \in [Threads -> BOOLEAN]
  /\ stamp \in [Threads -> Nat]

\* count_ is the number of connections that exist or are being opened: the
\* reservation, its rollback when open fails, bind_one, put and check_idle,
\* run by any threads in any order, never lose or invent one.
CountExact == count = Len(pool) + Cardinality(Out)

\* The pool's own connections that exist or are being opened never exceed
\* max_, although the socket is opened outside the lock.
MaxRespected ==
  Max > 0 => Cardinality((Idle \cup Held) \ Foreign) + Cardinality(Opening) <= Max

\* A connection is in one place: at most once in the idle list, or with one
\* thread. Two threads never talk on one redis connection.
ExclusiveLease ==
  /\ \A i, j \in 1..Len(pool) : pool[i] = pool[j] => i = j
  /\ \A t, u \in Threads : held[t] = held[u] /\ held[t] # NoConn => t = u
  /\ Idle \cap Held = {}
  /\ \A t \in Threads : held[t] # NoConn <=> pc[t] \in HoldPlaces

\* "delete this" in put runs only when no other thread is opening, using or
\* returning a connection of the pool, and leaves no idle one behind.
DestroyedUnused == destroyed => Out = {} /\ pool = <<>>

\* A dead pool comes back on its own only when retry_inter_ seconds have
\* passed since the last time it was marked dead -- also when the thread in
\* aliving read the clock before another thread marked the pool again.
RevivedOnlyAfterRetry ==
  [][~alive /\ alive' => \/ RetryInter > 0 /\ now - lastDead >= RetryInter
                        \/ SetAlive(TRUE)]_vars

\* acl_assert(count_ > 0) in put (connect_pool.cpp:223).
PutAssert ==
  \A t \in Threads :
    pc[t] = "putting" /\ ~delayDestroy /\ ~(keep[t] /\ alive) => count > 0

\* What the callers of a pool rely on, whatever they do at once.
PoolSound == MaxRespected /\ ExclusiveLease /\ DestroyedUnused /\ PutAssert

\* Nobody but the holders can still reach the pool, and nothing is idle.
OnlyHoldersLeft ==
  /\ delayDestroy /\ pool = <<>>
  /\ \A t \in Threads : pc[t] \in {"idle"} \cup HoldPlaces
  /\ \E t \in Threads : pc[t] \in HoldPlaces

\* The last put of a marked pool destroys it.
LastPutDestroys == OnlyHoldersLeft ~> destroyed

\* Where ConnLease says each connection is.
PlaceOf(c) ==
  IF c \in Idle THEN "idle"
  ELSE IF c \in Held THEN CHOOSE t \in Threads : held[t] = c
  ELSE "absent"

Lease == INSTANCE ConnLease WITH
           Limit <- Max, ended <- destroyed, place <- [c \in Conns |-> PlaceOf(c)]

\* The pool implements the lease of connections.
ImplementsLease == Lease!Spec
=============================================================================
