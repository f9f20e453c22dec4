# A verification development for libmwredis

libmwredis is a C++ redis client: `acllib` (a C base library), `aclredis` (the
acl_cpp connection pools, redis client and redis cluster commands) and the `mw`
component on top of it (`aclredis/include/mw`), which wraps the redis commands
and adds *sliced lists*, one logical list cut into many redis lists. `aclredis` also
ships a monitor that watches the pools' servers, on a thread pool and a mailbox of
`acllib`.

This directory holds TLA+ modules that model the parts of it that carry state
from one call to the next or share state between threads, configurations that
check them with TLC on small instances, and modules of theorems
checked by TLAPS. File names below are relative to the repository; `cpp:123` is a line.

Contents: 1 the system, 2 the modules and the code, 3 the runs, 4 fairness,
5 what is proved, 6 what only TLC checks, 7 disagreements with the docs, 8 what
is not modelled, 9 plan.

## 1. The system

```
 caller threads
   |  MWRedisRedisImpl (mwredisimpl.cpp): one wrapper per redis command
   |     \-- slicelist_*  -> get_slicelist -> MWRedisSliceList  (sliced lists)
   v
 redis_command::run(cluster, ...)  -- rounds, MOVED / ASK, retries
   |        |
   |        +-- redis_client_cluster: slot table, passwords
   v                |
 connect_manager <--+   address -> connect_pool, chosen by address or in turn
   v
 connect_pool           the connections to one node, lent to threads
   v
 redis_client           one connection: open, AUTH, SELECT, request, reply
   v
 socket_stream -> a redis node

 connect_monitor (a thread of its own)     sets the status of the manager's pools
   |-- check_timer, check_client           timer, one check per address
   \-- rpc_service -> acl_pthread_pool     blocking checks in other threads
 acl::mbox (acl_mbox, acl_ypipe, acl_yqueue)   messages from threads to one reader
```

| component | state it keeps | operations | correct when |
|---|---|---|---|
| **connection pool** `connpool/connect_pool.cpp` | `count_`, idle list `pool_` with stamps `when_`, `alive_`, `last_dead_`, `delay_destroy_`, use counters | `peek`, `bind_one`, `put`, `check_idle`, `set_alive`, `aliving`, `reset_statistics`, `set_delay_destroy` | `count_` is what exists; the limit holds although sockets are opened outside the lock; a connection is with one thread; it deletes itself only when nobody uses it |
| **connection manager** `connpool/connect_manager.cpp` | configured addresses, vector of pools, turn counters, `lock_` | `init`, `set`, `get`, `peek` (turn, hash, address), `remove`, `set_pools_status`, `check_idle` | one pool per address; the methods exclude each other; even turns; no live pool overlooked; the lock is given back; a pool handed out still exists |
| **redis connection** `redis/redis_client.cpp`, `redis_connection.cpp` | socket, `opened`, `check_addr_`, the reply being read | `open`, `run` (two forms), `close`, `eof`, `check_connection` | a reply is read as the answer to its request; commands run authenticated and on the right database; at most one repetition; NULL means closed |
| **reply storage** `redis_client.cpp` `get_redis_string`, `redis_result.cpp` | places and pieces of a value | `set_size`, `put`, reading | the pieces are the value |
| **cluster commands** `redis/redis_command.cpp`, `redis_client_cluster.cpp` | slot table; per command: slot, connection, round, `last_moved` | `run`, `peek_conn`, `redirect`, `peek_slot`, `set_slot`, `clear_slot`, `set_all_slot` | every connection taken is given back once; only owners are learned; commands end; a calm cluster needs three rounds |
| **sliced list** `mw/mwredisslicelist.cpp` | two atomic turn counters; the data is on the nodes | `listrpush`, `listlpop`, `listbatchlpop`, `list_lpop_by_index`, `list_totallen`, `list_len`, `list_lrange` | "no data" means that all slices were looked at; nothing is given out twice; lengths are plausible; searches end |
| **sliced lists by topic** `mw/mwredisimpl.cpp` `get_slicelist` | map topic to list, mutex | `get_slicelist` | one list per topic |
| **connection monitor** `connpool/connect_monitor.cpp`, `check_timer.cpp`, `check_client.cpp`, `check_rpc.cpp`, `ipc/` | addresses under check, open checks, requests and threads of the rpc service, `stop_` | `timer_callback`, `open_callback`, `close_callback`, `rpc_run`, `rpc_onover`, `finish`, `stop`, `run` | one check per address at a time; a check lives while a thread works on it; a down server is noticed; `stop` ends the thread and leaves nobody behind |
| **thread pool** `acllib/src/thread/acl_pthread_pool.c` | job queue, idle list, `count`, `idle`, `quit`, one condition variable per worker | `add`, the worker's loop and timed wait, `stop`, `destroy` | counters exact; every job started once; no wake-up lost; `stop` returns to a pool without threads or jobs |
| **mailbox** `acllib/src/stdlib/acl_mbox.c`, `common/acl_ypipe.c`, `acl_yqueue.c` | chunked queue, pointers `w` `r` `f` `c`, spare chunk, eventfd | `send`, `read`, `free` | first in, first out; no wake-up lost; no pointer into freed memory |

**How they interact.** By calls, and by shared objects: all threads share one
cluster object (a manager) and its pools; a connection belongs to one thread
between `peek` and `put`. `put` and the manager's `remove` together decide when a
pool deletes itself. `run` of a connection tells `run` of the command, through
`eof()`, whether the connection is still good. The slot table is written by every
command that was redirected. The monitor reads the manager's pools under its lock,
and sets their status later, when the check of an address is over; its blocking
checks run in the thread pool and come back as messages to its event loop.

**What is hard.** Sockets are opened between two critical sections and clocks are
read before one; a pool deletes itself while threads may have its pointer; locks
are taken inside assertions; the server may cut a connection, lose a request or
its reply, or answer after the time limit, and the client repeats; the cluster
moves slots while commands run; consumers scan slices that others fill and empty;
a worker is signalled after the unlock, and may have timed out, run the job and
ended by then; the two sides of the mailbox share memory without a lock.
The `hazards` of `PROJECT.json` list these at their lines, with the properties
that watch them.

**The build.** `编译使用说明.txt` documents `cmake . -DCMAKE_BUILD_TYPE=RELEASE`,
and `aclredis/CMakeLists.txt:90` then defines `NDEBUG`: `acl_assert` is `assert`
(`acl_define_unix.h:49`) and evaluates nothing. `lock_guard` locks inside
`acl_assert`. The manager's constant `Asserts` tells the builds apart; the other
modules are about code that locks by hand or not at all. Modules that build on the
manager (RedisCluster) take the build with assertions.

## 2. The modules and the code

One module per component, an `MC` module beside each that adds symmetry sets and
the constants a cfg cannot write. Variables carry the name of the member they
model, actions the name of the method or of the part of it they stand for.
Grain: **a critical section is one action; whatever a method does outside its lock
is a step of its own.** Variables marked HISTORY are not in the program; they
remember what a property needs.

* **ConnLease** - abstract specification: what a pool promises. A connection is
  absent, idle or lent to one thread; at most `Limit` of the pool's own exist; the
  pool ends in the step that takes back its last loan. No counters, no clock.
* **ConnPool** - `connect_pool`. `peek` is `GetRef` (the pointer comes from the
  manager), then `PeekRefused`, `PeekIdle`, `PeekNone` or `PeekReserve` (the
  locked part), then `OpenOk` or `OpenFail` (the socket is opened unlocked). `put`
  is `PutBegin` (reads the clock), then `PutMarked` or `PutBack` with the idle
  check that runs in it. `aliving` and `reset_statistics` read the clock in a
  first step. Counters are words modulo `Word`, so that an unsigned underflow is
  visible. Connections are objects; `Foreign` ones come from `bind_one`. `Tick` is
  the clock. The idle list is the sequence `pool`, front first, and `Survivors`
  is what the loop from the back leaves.
* **ConnManager** - `connect_manager`, `lock_guard`, and of each pool what matters
  here: alive, marked, idle and lent counts, deletion in `put`. A call is `Call`,
  `Enter` (the lock), the operation, `Leave`; then the caller uses the returned pool
  without the manager's lock, as a thread that lost the race would, also a deleted
  one: `BorrowIdle`, or `Reserve`, the open outside the pool's lock, and `OpenOk` or
  `OpenFail`; `BorrowNothing`; and at last `GiveBack`. `lent` counts reservations too,
  as `count_` does. `peek` in turn is a loop of `PeekAlive` / `PeekDead`, because
  `aliving()` takes the pool's lock. `Cycle` keeps the turn counters finite: only
  their remainder by the length of the vector is used.
* **RedisClient** - `redis_client`. `open()` runs AUTH and SELECT with `run()`,
  which calls `open()`: the variable `stack` is that recursion, a frame per active
  `run`. `wire` and `pending` are the request and the replies under way; the
  server (`Serve`, `Push`, `Cut`) is external and may do anything to them at any
  step.
* **RedisReply** - `get_redis_string` and `redis_result::put`: operators, used by
  RedisClient. Bytes are positions, a piece is an interval. `Pieces` is the loop that
  reads and stores, one turn of it is `ReadPiece`; RedisClient's `ReadReply` leaves its
  result in `value`. `ReplyKept` is about what the caller of `run` gets over a
  connection that is cut, opened again and repeated on: pieces that join, and the whole
  reply unless it was sliced and has a chunk or more. `ReplyWhole` is what the headers
  promise, the whole reply always (section 7).
* **RedisCluster** - `redis_command::run` with a cluster object, and the slot
  table. Each call of a pool, of the slot table or of a connection is a step.
  `Answers` is what a node answers by its own state; "error" stands for every answer
  with which `run` gives the connection back and returns, a malformed MOVED or ASK and
  an unknown result among them. `TakeNothing` is every way to get no connection: no
  pool, a dead one, one at its limit, a failed open. Nodes crash, restart, migrate
  a slot (`importing`) and take it over. Pools are lease counts (justified by
  ConnPool and ConnLease), a run of a connection answers or leaves eof (justified
  by RedisClient, `NullMeansEof`).
* **SliceList** - `MWRedisSliceList`. One redis command is one step; a batch pop is
  one step because it is a Lua script (`zlpop_list`). `PopFault`, `RPushFault` and
  `ReadFault` are a command whose reply was lost, repeated by `redis_client` at
  most once (`AtMostTwice`): a pop may take up to two elements and return nothing.
* **ThreadPool** - `acl_pthread_pool.c`. `worker_mutex` is one lock, so a critical
  section is one action: `Deliver` or `Enqueue` of `job_add`; `Start`, `Finish`
  (both the worker's `Loop` from one lock to the next unlock), `Wake` and `TimeOut`
  of `worker_wait`; `StopWorkers` and `StopWoken` of `wait_worker_exit`. Outside of
  it: the job itself, the init function (`InitFail`), and `Signal`, which comes after
  the unlock. A worker is named by its condition variable, which a later worker
  inherits: a late signal may reach that one. Condition variables have no memory and
  may wake for nothing.
* **MailChannel** - abstract specification: a first-in first-out channel that hands
  out each message once, and may be discarded.
* **Mbox** - `acl_mbox` on `acl_ypipe` on `acl_yqueue`. Senders hold a mutex, the
  reader does not: each access to what the two share (`c`, the spare chunk, a slot,
  the eventfd) is a step. Pointers are addresses, a chunk and a position, so a chunk
  that is used again brings its addresses back. Steps are sequentially consistent:
  the atomics of `acl_atomic.c` are full barriers, and a slot is published by them.
* **ConnMonitor** - the monitor's loop: a pass over the events (`Tick`, `Opened`,
  `Refused`, `NioCheck`, `RpcOver`, in any order), then the closes that were put off
  (`Closed`), then the next pass or `Finish`. The manager is its set of pools with
  their status; threads of the rpc service are `PeekConn`, `SioCheck`, `PushConn`.
  `mode` is how checks run: in the loop, in a thread pool, in a detached thread each.
  The thread pool's end is one step, `DeleteService`, because ThreadPool's
  `StopDrains` says what `destroy` leaves.
* **SliceTopics** - `get_slicelist`: the look without the mutex, the look with it,
  and the insertion in the two steps that a racing reader can see.

`PROJECT.json` maps every definition to the lines it models.

## 3. The runs

All instances are small on purpose: two threads are enough for every race in the
list of hazards that is a pair of steps, a third is added where a property needs a
bystander.

| run | instance | checks |
|---|---|---|
| `ConnPool_safety` | 2 threads, 2 own connections and 1 bound, limit 1, idle time 1, two clock values, no symmetry | `TypeOK`, `CountExact`, `PoolSound` (limit, exclusive loans, deletion only unused, the assertion of `put`), `RevivedOnlyAfterRetry`, `ImplementsLease`, `LastPutDestroys` |
| `ConnManager_safety` | 3 threads, 1 address, 3 pools ever, 2 connections each, all operations, from an empty manager | `OnePoolPerAddr` (with types and mutual exclusion), `DeletedUnused`; no deadlock |
| `ConnManager_turns` | 2 threads, 3 addresses, pools die and revive | `OnePoolPerAddr`, `EvenTurns`, `LivePoolFound` |
| `RedisClient_safety` | password, database, retry, 3 calls, 4 frames; replies of 0..25 bytes in chunks of 5 | `ReplyMatches`, `WrittenRight` (on the selected database, at most twice), `ReplyKept`, `NullMeansEof`, `CallReturns` |
| `RedisCluster_safety` | 2 threads, 2 nodes, 1 slot, limit 1, 3 rounds, 3 events | `LoansAccounted`, `SlotLearnedFromOwner`, `CalmRounds`, `StepsNearer` |
| `SliceList_safety` | 2 threads, 2 slices, 2 elements, 2 calls, 1 fault | `NoDataMeansTaken`, `LengthPlausible`, `DeliveredOnce`, `CallEnds` |
| `SliceTopics_safety` | 3 threads, 2 topics, 5 calls | `OneListPerTopic` |
| `ThreadPool_safety` | at most 2 threads on 3 condition variables, 2 callers, 3 jobs, 2 time-outs | `Accounts`, `StartedOnce`, `NoLostWakeup`, `StopDrains`, `JobsRun`, `StopReturns` |
| `Mbox_safety` | 2 senders, 5 messages, chunks of 2 slots, 4 chunks | `ChunksSound`, `WaitSound`, `ImplementsChannel`, `Delivered` |
| `ConnMonitor_safety` | 1 address, 2 checks, 2 threads of the service, all three modes | `CheckerKept`, `StopClean`, `OneCheckPerAddr`, `Noticed`, `StopReturns` |
| `RedisClient_slices` | replies of 4 to 6 bytes in chunks of 5 | finds `ReplyWhole` violated |
| `SliceList_empty` | empty elements | finds `TakenIsReturned` violated |

Where a module has a type invariant without a line above, it is a conjunct of the
first invariant listed.

**What the passing runs show, and why the bounds do.**

* *ConnPool*. With a limit of 1 the second opener meets the limit while the first
  is still outside the lock; a bound connection takes `count_` above the limit, so
  both sides of `count_ >= max_` occur; with idle time 1 and two clock values
  connections expire in `put`'s own idle check and in the owner's. `MaxUsed` 3
  loans let a connection be opened, returned, lent again and expire. `Word` 8 is
  larger than every legal count and small enough to see a wrap. The clock value at
  the start is not 0, as `time()` is not. `ImplementsLease` is the refinement:
  `place` is idle, the holder, or absent, and every step of the pool is one of
  ConnLease or leaves the places alone; it ties the order of `count_` updates and
  socket openings to the promise, which no state invariant does.
* *ConnManager*. An empty manager that threads fill by `set`, `get` and the first
  `peek` at once is where a second pool for an address could come from; removals and
  new pools for the same address use the second and the third. In the step in which a
  pool goes, two connections and three callers matter: one gives back the only
  connection that is at hand while a second has one or waits outside the lock for
  its socket, and a third has removed the pool. `ConnManager_turns` has three
  addresses, for which `create_pools_for` makes pools one after the other. That no
  return path keeps the lock was read from the code: each ends in `Leave`. In
  `ConnManager_turns` three pools and a `Cycle` of 6 start `peek` from every remainder
  for lengths 1, 2 and 3.
  `LivePoolFound` speaks of the pools that were alive when the scan began and still
  are: a pool that another caller's own `peek` revives behind the scan, without the
  manager's lock, may be overlooked. `EvenTurns` counts only while the pools and
  their states stay as they are.
* *RedisClient*. Three calls put a call before, at and after a breakage; four
  frames are a command, its AUTH, its SELECT, and one that nests. The module has no bound
  on the nesting, as the code has none: `Shallow` is a constraint of the run, states with
  more than `MaxDepth` frames are checked and not continued (and `RedisClientProofs`
  needs none). With a password or a database and retry a call need not return, for each
  repetition may open an AUTH that is repeated in its turn (section 7). `CallReturns`
  says that a call returns unless that happens, `SetUpNested`; of four frames two are of
  one kind, so that no behaviour is cut off by the constraint before it has happened.
  The replies: five is a chunk length where one missing byte per piece adds up to a
  missing place within 25 bytes as well as at exactly one chunk.
* *RedisCluster*. Two threads on pools of one connection meet at the limit. Three
  events are a stale table (a migration and its end) and a migration under way, or a
  crash with its takeover and restart; after the third the threads run one at a time
  (`LastAlone`). A fourth round in a calm cluster would show as `tooMany`. `StepsNearer`
  says that a command has a bounded number of steps whatever nodes and other threads do;
  that it is never stuck is plain, for each of its places has a step whose only condition
  is that place: no connection (`TakeNothing`, `RedirectNothing`), a broken one (`RunEof`,
  `AskingFail`), an error.
* *SliceList*. Two slices, two elements, two threads: one thread pops behind the
  other's cursor. Elements are not empty here: with empty ones `listlpop` loses
  elements and leaves a slice before it has no data (section 7), and
  `NoDataMeansTaken` fails. `LengthPlausible` and `DeliveredOnce` are weakened,
  and say so, for a call in which a command was repeated.
* *SliceTopics*. Three threads: one inserts, one looks without the mutex, one waits
  at it.
* *ThreadPool*. Three jobs for two threads: one is queued while both run, and one is
  delivered to a worker whose wait times out. Three condition variables, so that a
  worker that ended and the one that came after it may be two or the same. Two
  callers: one stops while the other is between its unlock and its signal. Threads
  may fail to be created or to initialise, at every point. `JobsRun` and
  `StopReturns` except the pool that has lost its last thread that way
  (`shorthanded`), and say so.
* *Mbox*. Five messages in chunks of two slots use three chunks, so that a chunk is
  left, kept, linked in again, and freed because another is kept; four chunks are
  never exhausted. Two senders: one holds the mutex while the other has released it
  and not yet written its token. Reads with and without a time limit alternate.
* *ConnMonitor*. One address is enough: its pool may be removed and made again while
  its check is under way, which is how two checks of one address arise; two checks
  and two threads let both be in other threads' hands. The server goes up and down at
  any step. `Noticed`: a pool that stays while its server stays down is marked dead,
  or the monitor is stopped.

TLC checks deadlock in every run but four, where the system may stop: ConnPool (the
clock stops at `EndTime`, and a pool ends by its deletion), ThreadPool (all jobs run
and the pool destroyed), Mbox (all messages sent, the box freed) and ConnMonitor (the
monitor's thread has ended).

Every property of a passing run has a mutant in `PROJECT.json`: a definition
changed as a bug would change it, under which the run finds the property violated.
The mutated forms stand in front of the definitions they replace.

## 4. Fairness

* ConnPool, `Fairness`: a thread that opens a socket comes to the end of it
  (`conn_timeout` bounds it), a borrower calls `put` at last (the library's own
  borrowers do, see `LoansAccounted`), and a thread inside `put` goes on. Nothing
  is assumed of the owner, the clock, or of threads that might call `peek`.
* RedisClient: the client's thread runs on, and a read ends by its time limit at the
  latest (`rw_timeout`). Nothing of the server.
* ThreadPool: the threads are scheduled, jobs and init functions end, and a worker
  whose condition variable was signalled wakes. Not assumed: that anybody adds a job
  or stops the pool, that a wait times out, or that a condition variable wakes for
  nothing.
* Mbox: the senders go on, and the reader keeps calling `read`; `Delivered` is about a
  reader that reads. A time limit need not pass.
* ConnMonitor: the loop goes on, a connect is answered or times out, a check ends, the
  threads of the service are scheduled. The timer and each check's events are strongly
  fair, because they can happen only while the loop is in its pass over the events,
  and no pass leaves out what stays ready. Nothing of servers, callers, and `stop`.
* SliceList: a thread inside a call goes on. Nothing of the other threads.
* ConnManager, RedisCluster: none, they have no liveness properties (`StepsNearer` is an
  action property).

## 5. What is proved

`ConnPoolProofs` proves about ConnPool, for any sets of threads and connections,
any limit, intervals and clock:

| theorem | states |
|---|---|
| `TypeCorrect` | `Spec => []TypeOK` |
| `LoansExclusive` | `Spec => []ExclusiveLease` |
| `CountIsExact` | `NoZeroTtl` implies `Spec => []CountExact` |
| `DestroyedWhenUnused` | `NoZeroTtl` implies `Spec => []DestroyedUnused` |
| `PutAssertHolds` | `NoZeroTtl` implies `Spec => []PutAssert` |
| `LimitRespected` | `NoZeroTtl` implies `Spec => []MaxRespected` |
| `PoolIsSound` | `NoZeroTtl` implies `Spec => []PoolSound`, the four safety properties together |

Assumptions. The named ones of ConnPool: finite sets of threads and connections;
`Epoch > 0`; the words are larger than everything that can be counted (64-bit
counters). And `NoZeroTtl == IdleTtl # 0 /\ 0 \notin CheckTtls`, needed because
`check_idle(0)` sets `count_` to 0 even when connections are out
(`connect_pool.cpp:277`); `TypeCorrect` and `LoansExclusive` do not need it.

Argument.

1. *check_idle keeps a prefix.* `SurvivorsRange`, `CheckedPrefix`: the loop from the
   back leaves the first k idle connections, and reduces `count_` by the rest. The
   longest such prefix exists by the least element principle (`GreatestElement`).
2. *Types and leases together.* `LeaseInv` says that the idle list has no
   repetitions, no two threads hold one connection, held ones are not idle, and
   exactly the threads in `HoldPlaces` hold one. Neither `TypeOK` nor `LeaseInv`
   is inductive alone: that a reservation fits into a word needs the number of idle
   connections bounded, which needs the list to have no repetitions.
3. *Counting.* `CountInv == TypeOK /\ LeaseInv /\ CountExact /\ Marked`. `Marked`,
   a destroyed pool was marked and has count 0, is needed because `DestroyedUnused`
   follows from `CountExact` only at count 0. `CountStep` has one step per action;
   each adds or takes one thread of `Out`, or moves a connection between `Out` and
   the list.
4. *PutAssert* follows: a thread in `putting` is in `Out`, so `count_ >= 1`.
5. *The limit.* `LimitStep`: only `PeekReserve` makes own connections more; it
   requires `count_ < max_`, and by `CountExact` own connections and openings are
   at most `count_`. All other actions only move or close them (`LimitKept`).

The second half of the module goes on from there:

| theorem | states |
|---|---|
| `RevivedInTime` | `Spec => RevivedOnlyAfterRetry` |
| `PoolImplementsLease` | `NoZeroTtl` implies `Spec => ImplementsLease` |

A dead pool revives in time because a clock reading is never later than the clock
(`StampPast`), so `aliving` in a thread that read it before the lock errs only on
the late side. The refinement puts a connection where its lease is: free, absent, or
with a thread (`PlacesRight`, an inductive invariant that needs a thread to be
none of the places: `PlacesAssumption`). There is one lemma for each step that lends,
returns, drops or destroys; the abstract limit is `LimitRespected`, and an
abstract pool ends with no lease out because of `CountIsExact`.

`ConnManagerProofs` proves about ConnManager, for any number of threads,
addresses and pools, and any configured list:

| theorem | states |
|---|---|
| `DeletedPoolUnused` | `Spec => DeletedUnused`, in every build |
| `OnePoolForEach` | `Asserts` implies `Spec => []OnePoolPerAddr` |
| `TurnsEven` | `Asserts` implies `Spec => []EvenTurns` |
| `NoLivePoolOverlooked` | `Asserts` implies `Spec => LivePoolFound` |

Assumptions: `SetsAssumption` and `BoundsAssumption`, among them finite sets of
threads and addresses. `Asserts` is the build in which `lock_guard` takes the lock.

Argument. `ManagerInv` needs no lock: the vector has a pool once and none that is marked
(`TableInv`; `CreateTable` and `EraseTable` say what `push_back` and `erase` keep), and
the number a pool has lent is the number of its users (`LoanInv`), so a pool that goes
with its last connection has none. Users are the callers that have a connection and
those that open one outside the lock. `DeletedUnused` follows for each step in which
a pool is deleted. With the lock,
`OwnerInv` says that the owner of `lock_` is the one thread inside a method. So
nobody else makes a pool between the search of `get` and its `push_back`,
or between the steps of `create_pools_for`, whose remaining addresses have none
(`AddrInv`, `CreateAddr`).

*The turns.* A counter kept modulo a multiple of the vector's length goes round its
places, also when it wraps (`Quotient`, `NextTurn`); and `Cycle` is such a multiple,
because the vector is no longer than the set of addresses (`CycleFits`: one pool per
address). `Behind(j, x, b, n)` is "place j is one of the b before x, going round", and
`BehindNext` its step. With it, `PicksInv` says that the pools with one pick more are
those of the last b turns, from which `EvenTurns` is a difference of at most one; and
`ScanInv` that a scan counts the pools of the vector, that those it has been to were
not alive when it began, and that those which were still are, for only the owner of
the lock changes their number. When it ends it has been to all. Both need
`Asserts`: without the lock the vector changes under the scan.

`RedisClientProofs` proves about RedisClient, for any number of calls, any depth of
nested set-up calls, replies of any length and pieces of any size, with and without
password, database and retry, and whatever the server and the network do:

| theorem | states |
|---|---|
| `RepliesMatch` | `Spec => []ReplyMatches` |
| `CommandsWrittenRight` | `Spec => []WrittenRight` |
| `NullClosed` | `Spec => []NullMeansEof` |
| `RepliesKept` | `Spec => []ReplyKept` |

Assumptions: `ClientAssumption`, and `ChunkAssumption` of RedisReply: a piece has
room for a byte beside its zero. Argument. `StackInv` gives the stack its shape: the root
call is the caller's, and every other one is the AUTH or SELECT for which the call below
it waits. `GotoStack`, `RetryStack`, `BeginStack` and `ReturnStack` say once what the
four moves keep, and the actions need no more of the stack than its top and its root.
`WireInv`: at most one request or reply is under way, that of the top call, which
reads. `SessionInv`: whoever is past its `open()` has the session that it needs, an AUTH
none, a SELECT the password, all others both. That it holds again in a call that goes
on after a nested one needs to be said of the waiting calls too (`Top.at = "auth"` with
`ret = "ok"`). `SentInv` counts one request before the repetition and one after it.

*Pieces.* `Pieces` is a recursive function over the turns of the loop. `PiecesRead` gives
it a course, a function that obeys the recursion (a least counterexample, by
`WFMin`, takes the place of an induction rule). `SlicesOf` is the loop's invariant: the
pieces so far join, all but the last are full, and they hold all that was read or all
that the places can. At `left = 0` it is `SlicesKept`: the pieces join and hold
`Placed(len)` bytes, the lesser of the length and what the places hold, which is the
whole length below one chunk (`ShortPlaced`) and less at exactly one: `ReplyWhole` is
not provable, and `RedisClient_slices` violates it. `WholeKept` is the reply in one piece. `ValueInv` adds that only a call which is over
has a value, so a reply that a broken connection cut short leaves none.

`RedisClusterProofs` proves about RedisCluster, for any number of threads, nodes and
slots, any limits, and whatever the nodes do:

| theorem | states |
|---|---|
| `LoansKept` | `Spec => []LoansAccounted` |
| `OwnersLearned` | `Spec => []SlotLearnedFromOwner` |
| `CalmThreeRounds` | `RedirectMax >= 3` implies `Spec => []CalmRounds` |
| `CommandsEnd` | `Spec => StepsNearer` |

Assumption: `ClusterAssumption`; and for the last one three rounds, because in a calm
cluster a stale table costs one and a slot that moves another. Argument.

1. *Loans.* `ClusterInv`: every address in use is configured (`TableInv`), a thread has a
   connection at the places `Holding` and nowhere else (`ThreadInv`), and a node has
   lent as many as threads hold (`LoanInv`, with `TakeLoans` and `PutLoans`).
2. *Owners.* An answer is learned only from a node that was not sent ASKING, and such a
   node answers `ok` only as owner. So `OwnersKnown` needs `AnswerOfOwner`, which spans
   the time from the reply to the entry, and that needs `AskedOnce`.
3. *Calm.* `CalmInv` says of every place how many rounds it can have taken: after the
   first the command turns to the owner, after the second to the importing node
   (`Sure`), and an answer that redirects names the one of them it should
   (`Redirected`).
4. *End.* `ToGo` counts the rounds that are left, each for more than the stages of a
   round (`RoundNearer`); inside a round every step goes to a lower `Stage` (`GoNearer`).
   Only a thread's own steps move it (`OwnSteps`). With a thread that is scheduled this
   is the end of every command, which as a liveness formula is out of the prover's reach.

`SliceListProofs` proves about SliceList, for any number of threads, slices, elements,
calls and faults:

| theorem | states |
|---|---|
| `PoppedOnce` | `Spec => []DeliveredOnce` |
| `NothingOverlooked` | `~EmptyElems` implies `Spec => NoDataMeansTaken` |
| `LengthsPlausible` | `Spec => LengthPlausible` |

Assumption: `SliceAssumption`. `NothingOverlooked` needs that no empty string is pushed,
because `listlpop` takes one off a slice and goes on as if the slice had none (section 7).

Argument.

1. *One place.* `HomeInv`: an element is stored in one slice at most, also twice after a
   repetition, and in none before its RPUSH; `OnceInv`: without a repetition it is there
   once, and not once more among the popped ones.
2. *Searches.* `ScanInv`: an element that was stored when the search began, and still is,
   is in a slice that lies ahead (`AheadOf`, cyclic; `NextAhead` is the step of the
   cursor). So when the cursor is back at its first slice and finds nothing, none is left.
3. *Lengths.* `LenInv`: the sum so far is at least the number of lasting elements in the
   slices that were read (`Counted`), and the size of a set of seen elements that are in
   no slice still to be read (`CountedOnce`). An element that moved to a later
   slice would break both; by `HomeInv` it has been pushed already and does not.
4. What the steps of all other threads do to a call is said once (`Stepped`,
   `Undisturbed`, `OthersKeep`).

The end of the module is about SliceTopics (the two specifications share no name, so
that one module may be about both): for any callers, topics and number of calls,
`ListsShared`: `TopicsSpec => []OneListPerTopic`, from `TopicsAssumption`. `TopicsInv`
says that the map and the insertion that is under way name each list once, and that a
caller that has left the lock has the list of the map.

`ThreadPoolProofs` proves about ThreadPool, for any finite sets of threads, callers
and jobs, any limit, and with or without time-outs:

| theorem | states |
|---|---|
| `TypeCorrect` | `Spec => []TypeOK` |
| `AccountsKept` | `Spec => []Accounts`: `count` and `idle` are the threads there are and the ones that wait for work |
| `NoWakeupLost` | `Spec => []NoLostWakeup` |
| `StopHasDrained` | `Spec => StopDrains` |
| `JobsStartedOnce` | `Spec => []StartedOnce` |

Assumptions: `WorkersAssumption`, `JobsAssumption` and `OptionsAssumption` of
ThreadPool; the first makes the set of condition variables finite, so that the
threads can be counted.

Argument.

1. *Types.* `Types` (the variables, and which calls are at which place) is inductive.
   What a worker does between two locks is the operator `Loop`, used by three
   actions; `LoopTypes`, `LoopCount` and `LoopIdle` say what it keeps, once.
2. *Accounts.* `CountExact` and `IdleExact` are inductive with `Types`. Each step adds
   or takes one thread of a finite set; `EnqueueThreads`, `UnlistIdle`, `RousedIdle`
   and `LoopCount` compute the two cardinalities.
3. *Wake-ups.* A worker that has been given a job or a request to end and still waits
   is owed a signal (`WakeupOwed`): some caller is between its unlock and that
   signal. That this worker has not gone on by itself needs `OwnWaits`, a worker with
   a delivered job is listed no more; that no job is queued while a worker waits with
   empty hands (`NobodySleepsOnWork`) needs the accounts, because `job_add` looks at
   the idle list and not at the workers.
4. *Stop.* `wait_worker_exit` returns at `count = 0`, which by `CountExact` means no
   thread; `StopReturnsAtZero` finds the one step that can return.
5. *Jobs.* `JobsInv` adds `InHands`: a job is in one place. `AppendQueued`,
   `TailQueued` and `TakeOnce` say what the queue's operations do to its places.

`MboxProofs` proves about Mbox, for any senders, number of messages, number of chunks
and slots in a chunk, and any time-outs:

| theorem | states |
|---|---|
| `MemorySound` | `Spec => []ChunksSound`: no pointer goes to freed memory or to a slot that keeps an old message |
| `NoLostWakeup` | `Spec => []WaitSound` |
| `MailboxImplementsChannel` | `Spec => ImplementsChannel`, the refinement of MailChannel |

Assumptions: `ChunkAssumption` (two slots or more) and `NamesAssumption`. Argument.

1. *Numbers instead of addresses.* The pointers are addresses, and a chunk that is
   used again brings its addresses back, so the order of two pointers cannot be read
   off them. The invariant numbers all slots from the first push on: `pops` and `pushs`
   give the ends, `Flushed` what was published, and some `place` maps the chunk
   numbers in use to chunks (`Linked`, `Pointers`, `Layout`). `Turns` is what
   the two sides know of each other by the numbers alone. The address of a slot then
   names that slot (`Where`), `c = f` compares numbers, and `After` of the module, a
   recursive function that follows `next`, is `place` (`AfterLinked`).
2. *Memory* (`MemorySound`). The heap is the chunks of `place`, the spare one and the
   one that the reader is about to give back, and all slots hold exactly the
   messages not yet read; `FreeComplete` adds what `acl_mbox_free` leaves.
3. *Wake-ups* (`NoLostWakeup`). `Owed`: a reader that waits with a pointer put there
   for it has a token, or a sender that will write one. `Tokens` says more, that there
   is exactly one of the two, as long as no read has timed out; a
   read that did leaves its token behind (section 7).
4. *Refinement*. The channel's queue is the slots from `pops` to the last push:
   a push appends and a pop takes the first, by the numbers; all other steps
   leave it. `free` discards what is left.

`ConnMonitorProofs` proves about ConnMonitor, for any addresses, checks and threads of
the service, and in all three modes:

| theorem | states |
|---|---|
| `ChecksAreKept` | `Spec => []CheckerKept`: a check lives while a thread or the queue has it |
| `ChecksApart` | `Spec => []OneCheckPerAddr` |
| `GracefulStopClean` | `Spec => []StopClean` |

Assumptions: `NoAddrAssumption`, `NoCheckerAssumption`, `FiniteAssumption`,
`ModesAssumption`. Argument.

1. *Kept.* `CheckerInv` is `TypeOK`, `CheckerKept`, and that exactly the threads that
   check have one. `Tick` opens several checks in one step; `Fits` (a finite
   set fits into one that is not smaller) and `TickFacts` give each an object of
   its own, once for all the proofs.
2. *Apart.* `CountsKept`: `addrs_` counts the addresses under check, each has
   one object, but for addresses whose pool was removed.
3. *Stop.* `StopInv`: `rpc_service_` is deleted only after the last check was waited
   for, and in between no other begins. It relates the two flags that `stop` writes
   to the place of the loop that reads them.

## 6. What only TLC checks

Liveness under fairness is out of the prover's reach: `LastPutDestroys`,
`CallReturns`, `CallEnds`, `JobsRun`, `StopReturns`
(of ThreadPool and of ConnMonitor), `Delivered`, `Noticed`. Every safety invariant and
every action property of a passing run, and both refinements, are stated by a theorem
of section 5. Four hypotheses limit what these say: `NoZeroTtl` for most of ConnPool, `Asserts`
for three of the four of ConnManager, `~EmptyElems` for one of SliceList (section 7 says
what the code does without them), and three rounds for `CalmThreeRounds`.

What a theorem shows beyond its run is the size of the instance. What it does not show
is what the models leave out (section 8), or what a counter that wraps does: the words of
ConnPool and the `Cycle` of ConnManager are assumed larger than what is counted, or a
multiple of it.

## 7. Disagreements with the docs

Shown by a run:

* `RedisClient_slices`, `ReplyWhole`: a sliced value of 8192 bytes gets one place for its
  two pieces, 8191 bytes and 1 (`redis_client.cpp:264`), and loses the second, where
  `redis_result.hpp:144` promises the length of all data. `Placed` in the proofs is
  what is left in general.
* `SliceList_empty`, `TakenIsReturned`: an empty string stored by the vector form of
  `listrpush` is popped by `listlpop`, taken for "no element" and lost
  (`mwredisslicelist.cpp:245`).

Claims that the code, its comments or its headers make and that it does not keep. Each
is a definition of its module, without a run here; TLC refutes it when it is added to a
cfg, with the constants that are named. The passing properties say what remains true
beside these.

* `PutAssert` of ConnPool with `IdleTtl = 0` and `CheckTtls = {0}`: `connect_pool.hpp:54`
  allows an idle time of 0; `check_idle(0)` zeroes `count_` with connections out
  (`connect_pool.cpp:277`), and a later `put` fails its assertion, or wraps the counter
  in a build without (hence `NoZeroTtl`).
* `Exclusive` of ConnManager with `Asserts = FALSE`: in the documented RELEASE build
  `lock_guard` takes no lock (`locker.cpp:197`), although `connect_manager.hpp:62`,
  `:95`, `:114` say that the methods lock.
* `PointerValid` of ConnManager (three threads, one address, two connections):
  `connect_manager.hpp:95` says `remove` may be called at run time; a pool that a method
  has just returned can delete itself, in the `put` of its last connection, before the
  caller uses it. The model lets the caller go on with the deleted pool.
* `AuthNotNested` of RedisClient (`Password = TRUE`, `Retry = TRUE`): the guard against
  AUTH inside AUTH is commented out (`redis_client.cpp:108`), although the comment under
  it says that an endless loop is prevented. A server that accepts connections and
  answers no AUTH makes the recursion unbounded.
* `StopAlwaysReturns` of ThreadPool: a worker whose init function fails leaves without
  a signal (`acl_pthread_pool.c:433`), and `stop` may wait for it for ever, although
  `thread_pool.hpp:28` says that it makes all threads exit.
* `WaitsForData` of Mbox: `acl_mbox.h:36` says that a negative time limit waits until a
  message comes; a read that timed out before leaves its token in the eventfd, and the
  next one returns without a message.
* `GracefulLeavesNothing` of ConnMonitor: `connect_monitor.hpp:56` says that a graceful
  stop waits for the checks under way. `finish` deletes the timer only when there are
  some (`check_timer.cpp:128`); with none, the loop's last pass over the events, after
  the wait (`connect_monitor.cpp:82`), may begin new ones.
* `StopEndsRun` of ConnMonitor with `Modes = {"pool"}`: when a thread of the service gets
  no connection to the monitor (`ipc_service.cpp:61`, `:113`), the request is dropped,
  its check stays open, and a graceful stop never ends, although
  `connect_monitor.hpp:55` says that it stops the thread.
* `OneCheckAtATime` of ConnMonitor: an address whose pool is removed during its check
  keeps its count of 1 and gets a second check, although the comment at
  `check_timer.cpp:77` takes a count above 1 for the sign of one under way.

Modelled as the code does it, seen while modelling, without a run of their own:

* `connect_pool.cpp:167`: `current_used_` can wrap below zero when
  `reset_statistics` comes between its increment and the rollback of a failed open.
* `connect_pool.cpp:195`: `put` reads the clock before it locks, so stamps enter the
  idle list out of order and an expired connection may outlive one `check_idle`.
* `connect_pool.cpp:237`: a marked pool whose connections are all idle is never
  destroyed, because only a `put` destroys it; `connect_pool.hpp:189` promises no more,
  and `LastPutDestroys` is about pools with a loan.
* `connect_pool.cpp:116`, `:168`: `retry_inter <= 0` refuses a dead pool for good,
  and a failed open does not mark the pool, unlike `connect_pool.hpp:45`, `:69`.
* `connect_manager.cpp:119`, `:432`: with a default server the first `peek` makes no
  other pools; `peek` returns NULL when all pools are dead (`hpp:45`, `:117`).
* `redis_command.cpp:669`: AUTH and SELECT switch off `check_addr_` for the command
  that opened the connection.
* `redis_command.cpp:339`, `:546`: `redirect` never falls back to another node, and
  the pause from the second redirection on never happens.
* `mwredisslicelist.cpp:405`, `:256`: every range that is not empty is refused; an
  empty list gives 0 where the header says a negative value.
* `mwredisimpl.cpp:602`, `:604`: the look without the mutex may find a node whose
  pointer is not assigned; the slice count of later callers is ignored.
* `connect_monitor.cpp`: `stop_` is a plain bool, set before `stop_graceful_`, and
  never reset; the loop may read the first and not the second. `rpc_service_` is
  deleted and not cleared, so a last pass may use it, as detached threads do.
* `acl_mbox.c`: the count of sends is the count of wake-ups written, not of messages.

## 8. What is not modelled

The map covers a small part of the repository's lines. Most of them are the base
library `acllib` (streams, strings, containers, events, character sets), its C++ wraps
in `aclredis/src/stdlib`, one function per redis command that formats a request and
reads typed results, and the demos: code that keeps nothing between calls, or keeps
data without a protocol. What carries state between calls and is left out:

* `connect_manager`: `bind_thread` (one manager per thread, not used by the redis
  component), `statistics` (walks the vector of pools without the lock, `:493`),
  changing `retry_inter` while running.
* `redis_client_cluster`: the password table (`set_all_slot` reads it without the lock
  of `set_password`, `:133`). Requests without content (subscribers).
* Publish/subscribe and transactions: in the plan.
* Thread pool: adding a batch of jobs and the poller that starts it, the reuse of job
  slots. Ipc: `rpc_signal` and `cond_wait`, the Windows messages.
* ThreadPool: two threads in `stop` at a time, which the code does not synchronise.
  Mbox: errors of `poll`, `read` and `write` on the eventfd.
* Threads and locks: wraps of pthreads; the modules take a mutex as one action.
* Memory ordering weaker than sequential consistency: the atomics of the mailbox are
  full barriers, all else that is modelled is under a lock, or named as a race.
* `listinit` while a list is in use, and `unintRedis` while commands run: the owner
  calls them alone.

## 9. Plan

Done: ConnPool with ConnLease; ConnManager; RedisClient with RedisReply; RedisCluster
over pools, manager and connection; SliceList; SliceTopics; ThreadPool; Mbox with
MailChannel; ConnMonitor over the manager's pools and the thread pool; and the proofs of
all safety and action properties of these, and of both refinements.

Next modules: the password table of the cluster object; publish/subscribe and
transactions over RedisClient; batches of jobs in ThreadPool; thread start and join.
Abstract specifications worth stating: a sliced list as a bag of elements that
SliceList implements when no command fails; a once-map that SliceTopics implements.

Next theorems: that SliceList, without faults, implements the bag, for which `HomeInv`
already gives the places of an element; that SliceTopics implements the once-map, whose
mapping is the map's pointers (`TopicsInv`); and for `CallEnds` the part that is no
liveness, as `StepsNearer` is for the commands of the cluster: each step inside a call
leaves fewer slices ahead.
