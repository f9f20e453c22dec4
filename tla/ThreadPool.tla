----------------------------- MODULE ThreadPool -----------------------------
(***************************************************************************)
(* The thread pool: acllib/src/thread/acl_pthread_pool.c, which            *)
(* acl::thread_pool (aclredis/src/stdlib/thread_pool.cpp) wraps.           *)
(*                                                                         *)
(* A job goes to an idle worker, or into the pool's queue for whichever    *)
(* worker asks next. worker_mutex is one lock, so a critical section is    *)
(* one action. Three things happen outside it: a job runs, a new thread    *)
(* calls its init function, and job_deliver signals the worker it chose    *)
(* after it has unlocked.                                                  *)
(*                                                                         *)
(* A worker is named by its condition variable: these outlive the workers  *)
(* on the list cond_first and are given to later ones, so a late signal    *)
(* may reach the next owner. Which idle worker is the first of the list is *)
(* left open.                                                              *)
(***************************************************************************)
EXTENDS Integers, Sequences, FiniteSets

CONSTANTS
  Workers,      \* condition variables, at least one per thread
  Callers,      \* threads that add jobs; one of them stops the pool
  Jobs,         \* the jobs, each added once
  NoJob,        \* NULL
  NoWorker,     \* NULL
  Limit,        \* parallelism: the number of threads at most
  WaitCount,    \* timed waits before an idle worker leaves, 0: it never does
  MayFail       \* pthread_create and worker_init_fn may fail

ASSUME WorkersAssumption ==
  /\ IsFiniteSet(Workers) /\ NoWorker \notin Workers
  /\ Limit \in Nat \ {0} /\ Limit <= Cardinality(Workers)
ASSUME JobsAssumption == NoJob \notin Jobs
ASSUME OptionsAssumption == WaitCount \in Nat /\ MayFail \in BOOLEAN

VARIABLES
  valid,        \* valid
  freed,        \* destroy has freed the pool
  quit,         \* quit
  queue,        \* job_first .. job_last: anybody's jobs
  count,        \* count: the number of threads
  idle,         \* idle: the number of idle threads
  idlers,       \* thr_first and its successors
  state,        \* where the thread that owns each condition variable is
  own,          \* job_first of a worker: the job delivered to it
  curr,         \* the job a worker runs
  misses,       \* idle_count of worker_wait
  signalled,    \* the worker's condition has been signalled while it waited
  bell,         \* the pool's cond has been signalled while stop waited
  pc,           \* where each caller is
  job,          \* the job it adds
  target,       \* the worker it delivered the job to
  ran,          \* history: how often each job was started
  shorthanded   \* history: a thread was not created, or failed to initialise

pool    == <<valid, freed, quit>>
sleep   == <<idle, idlers, misses, signalled>>
work    == <<queue, own, curr, ran>>
threads == <<count, state>>
calls   == <<pc, job, target>>
vars    == <<pool, sleep, work, threads, calls, bell, shorthanded>>

States == {"none", "created", "running", "waiting"}
Places == {"out", "add", "signal", "stop", "destroy", "stopWait", "destroyWait"}
Stopping == {"stop", "destroy"}
Waiting  == {"stopWait", "destroyWait"}

Queued(j) == \E i \in 1..Len(queue) : queue[i] = j
Added(j)  == Queued(j) \/ (\E w \in Workers : own[w] = j) \/ ran[j] > 0

Init ==
  /\ valid = TRUE /\ freed = FALSE /\ quit = FALSE
  /\ queue = <<>> /\ count = 0 /\ idle = 0 /\ idlers = {}
  /\ state = [w \in Workers |-> "none"]
  /\ own = [w \in Workers |-> NoJob] /\ curr = [w \in Workers |-> NoJob]
  /\ misses = [w \in Workers |-> 0]
  /\ signalled = [w \in Workers |-> FALSE] /\ bell = FALSE
  /\ pc = [c \in Callers |-> "out"] /\ job = [c \in Callers |-> NoJob]
  /\ target = [c \in Callers |-> NoWorker]
  /\ ran = [j \in Jobs |-> 0] /\ shorthanded = FALSE

-----------------------------------------------------------------------------
(* Adding a job *)

\* The pool is valid and the job is allocated, before the lock is asked for.
Add(c) ==
  /\ pc[c] = "out" /\ valid
  /\ \E j \in Jobs :
       /\ ~Added(j) /\ \A d \in Callers : job[d] # j
       /\ job' = [job EXCEPT ![c] = j]
  /\ pc' = [pc EXCEPT ![c] = "add"]
  /\ UNCHANGED <<pool, sleep, work, threads, target, bell, shorthanded>>

\* Mutant: the worker leaves the list and stays counted as idle, as
\* acl_pthread_pool_bat_add_end has it.
DeliverStillIdle(c) ==
  /\ pc[c] = "add"
  /\ \E w \in idlers :
       /\ own' = [own EXCEPT ![w] = job[c]]
       /\ idlers' = idlers \ {w}
       /\ target' = [target EXCEPT ![c] = w]
  /\ job' = [job EXCEPT ![c] = NoJob]
  /\ pc' = [pc EXCEPT ![c] = "signal"]
  /\ UNCHANGED <<pool, idle, misses, signalled, queue, curr, ran, threads, bell,
                 shorthanded>>

\* The worker is taken off the idle list; the signal comes after the unlock.
Deliver(c) ==
  /\ pc[c] = "add"
  /\ \E w \in idlers :
       /\ own[w] = NoJob
       /\ own' = [own EXCEPT ![w] = job[c]]
       /\ idlers' = idlers \ {w} /\ idle' = idle - 1
       /\ target' = [target EXCEPT ![c] = w]
  /\ job' = [job EXCEPT ![c] = NoJob]
  /\ pc' = [pc EXCEPT ![c] = "signal"]
  /\ UNCHANGED <<pool, misses, signalled, queue, curr, ran, threads, bell,
                 shorthanded>>

\* Mutant: only workers of the idle list are signalled.
SignalIdle(c) ==
  /\ pc[c] = "signal"
  /\ signalled' = [signalled EXCEPT ![target[c]] = @ \/ target[c] \in idlers]
  /\ target' = [target EXCEPT ![c] = NoWorker]
  /\ pc' = [pc EXCEPT ![c] = "out"]
  /\ UNCHANGED <<pool, idle, idlers, misses, work, threads, job, bell, shorthanded>>

\* A condition variable nobody waits on forgets the signal.
Signal(c) ==
  /\ pc[c] = "signal"
  /\ signalled' = IF state[target[c]] = "waiting"
                    THEN [signalled EXCEPT ![target[c]] = TRUE] ELSE signalled
  /\ target' = [target EXCEPT ![c] = NoWorker]
  /\ pc' = [pc EXCEPT ![c] = "out"]
  /\ UNCHANGED <<pool, idle, idlers, misses, work, threads, job, bell, shorthanded>>

RoomForThread == count < Limit

\* No idle worker, or the first one has a job already: the job is queued, and
\* a thread made if there may be one more. The creation may fail, and the job
\* stays queued.
Enqueue(c) ==
  /\ pc[c] = "add"
  /\ (\A w \in idlers : own[w] = NoJob) => idlers = {}
  /\ queue' = Append(queue, job[c])
  /\ \/ /\ RoomForThread
        /\ \E w \in Workers : /\ state[w] = "none"
                              /\ state' = [state EXCEPT ![w] = "created"]
        /\ count' = count + 1
        /\ UNCHANGED shorthanded
     \/ /\ RoomForThread /\ MayFail
        /\ shorthanded' = TRUE
        /\ UNCHANGED threads
     \/ ~RoomForThread /\ UNCHANGED <<threads, shorthanded>>
  /\ job' = [job EXCEPT ![c] = NoJob]
  /\ pc' = [pc EXCEPT ![c] = "out"]
  /\ UNCHANGED <<pool, sleep, own, curr, ran, target, bell>>

-----------------------------------------------------------------------------
(* A worker *)

\* Mutant: the delivered job stays with the worker.
TakeOwnAgain(w) ==
  /\ own[w] # NoJob
  /\ curr' = [curr EXCEPT ![w] = own[w]]
  /\ ran' = [ran EXCEPT ![own[w]] = @ + 1]
  /\ state' = [state EXCEPT ![w] = "running"]
  /\ ran[own[w]] < 2
  /\ UNCHANGED <<own, queue, count, bell>>

TakeOwn(w) ==
  /\ own[w] # NoJob
  /\ own' = [own EXCEPT ![w] = NoJob]
  /\ curr' = [curr EXCEPT ![w] = own[w]]
  /\ ran' = [ran EXCEPT ![own[w]] = @ + 1]
  /\ state' = [state EXCEPT ![w] = "running"]
  /\ UNCHANGED <<queue, count, bell>>

TakeQueued(w) ==
  /\ own[w] = NoJob /\ queue # <<>>
  /\ queue' = Tail(queue)
  /\ curr' = [curr EXCEPT ![w] = Head(queue)]
  /\ ran' = [ran EXCEPT ![Head(queue)] = @ + 1]
  /\ state' = [state EXCEPT ![w] = "running"]
  /\ UNCHANGED <<own, count, bell>>

Nothing(w) == own[w] = NoJob /\ queue = <<>>

\* The thread ends. When the pool is quitting it tells the caller of stop.
Leave(w) ==
  /\ Nothing(w)
  /\ state' = [state EXCEPT ![w] = "none"]
  /\ curr' = [curr EXCEPT ![w] = NoJob]
  /\ count' = count - 1
  /\ bell' = (bell \/ (quit /\ \E c \in Callers : pc[c] \in Waiting))
  /\ UNCHANGED <<queue, own, ran>>

\* worker_wait begins: the thread goes on the idle list and waits.
Doze(w) ==
  /\ Nothing(w) /\ ~quit
  /\ state' = [state EXCEPT ![w] = "waiting"]
  /\ curr' = [curr EXCEPT ![w] = NoJob]
  /\ idlers' = idlers \cup {w} /\ idle' = idle + 1
  /\ misses' = [misses EXCEPT ![w] = 0]
  /\ signalled' = [signalled EXCEPT ![w] = FALSE]
  /\ UNCHANGED <<queue, own, ran, count, bell>>

\* The loop of worker_thread, from the lock to the next unlock.
Loop(w) ==
  \/ TakeOwn(w) /\ UNCHANGED sleep
  \/ TakeQueued(w) /\ UNCHANGED sleep
  \/ quit /\ Leave(w) /\ UNCHANGED sleep
  \/ Doze(w)

Start(w) ==
  /\ state[w] = "created"
  /\ Loop(w)
  /\ UNCHANGED <<pool, calls, shorthanded>>

\* The init function fails: the thread is gone, and tells nobody.
InitFail(w) ==
  /\ state[w] = "created" /\ MayFail
  /\ state' = [state EXCEPT ![w] = "none"]
  /\ count' = count - 1
  /\ shorthanded' = TRUE
  /\ UNCHANGED <<pool, sleep, work, calls, bell>>

Finish(w) ==
  /\ state[w] = "running"
  /\ Loop(w)
  /\ UNCHANGED <<pool, calls, shorthanded>>

Unlist(w) == idlers' = idlers \ {w} /\ idle' = idle - 1

\* What worker_wait looks at first after any return of the condition's wait.
Roused(w) ==
  \/ TakeOwn(w) /\ UNCHANGED <<idlers, idle>>
  \/ TakeQueued(w) /\ Unlist(w)
  \/ quit /\ Leave(w) /\ Unlist(w)

\* The wait returns 0: signalled, or for no reason at all.
Wake(w) ==
  /\ state[w] = "waiting"
  /\ signalled' = [signalled EXCEPT ![w] = FALSE]
  /\ misses' = [misses EXCEPT ![w] = 0]
  /\ \/ Roused(w)
     \/ /\ Nothing(w) /\ ~quit
        /\ UNCHANGED <<work, threads, bell, idlers, idle>>
  /\ UNCHANGED <<pool, calls, shorthanded>>

\* Mutant: a timed-out worker leaves without looking for a job.
TimeOutBlind(w) ==
  /\ state[w] = "waiting" /\ WaitCount > 0
  /\ signalled' = [signalled EXCEPT ![w] = FALSE]
  /\ state' = [state EXCEPT ![w] = "none"] /\ count' = count - 1
  /\ Unlist(w)
  /\ UNCHANGED <<pool, calls, shorthanded, work, bell, misses>>

\* The wait times out. A signal may come while the thread waits for the lock.
TimeOut(w) ==
  /\ state[w] = "waiting" /\ WaitCount > 0
  /\ signalled' = [signalled EXCEPT ![w] = FALSE]
  /\ \/ Roused(w) /\ UNCHANGED misses
     \/ /\ Nothing(w) /\ ~quit /\ misses[w] + 1 < WaitCount
        /\ misses' = [misses EXCEPT ![w] = @ + 1]
        /\ UNCHANGED <<work, threads, bell, idlers, idle>>
     \/ /\ ~quit /\ misses[w] + 1 >= WaitCount
        /\ Leave(w) /\ Unlist(w)
        /\ UNCHANGED misses
  /\ UNCHANGED <<pool, calls, shorthanded>>

-----------------------------------------------------------------------------
(* stop and destroy *)

\* The owner destroys the pool when no other thread is inside a call of it.
Stop(c) ==
  /\ pc[c] = "out" /\ valid
  /\ \E p \in Stopping :
       /\ p = "destroy" => \A d \in Callers : pc[d] = "out"
       /\ pc' = [pc EXCEPT ![c] = p]
  /\ valid' = FALSE
  /\ UNCHANGED <<freed, quit, sleep, work, threads, job, target, bell, shorthanded>>

\* stop makes the pool valid again, destroy frees it.
Return(c) ==
  /\ count = 0
  /\ pc' = [pc EXCEPT ![c] = "out"]
  /\ valid' = (pc[c] \in {"stop", "stopWait"})
  /\ freed' = (pc[c] \in {"destroy", "destroyWait"})

\* Mutant: the idle workers are not signalled.
StopWorkersSilent(c) ==
  /\ pc[c] \in Stopping
  /\ quit' = TRUE
  /\ \/ Return(c) /\ UNCHANGED bell
     \/ /\ count > 0
        /\ bell' = FALSE
        /\ pc' = [pc EXCEPT ![c] = IF @ = "stop" THEN "stopWait" ELSE "destroyWait"]
        /\ UNCHANGED <<valid, freed>>
  /\ UNCHANGED <<sleep, work, threads, job, target, shorthanded>>

\* wait_worker_exit: the flag is set and every idle worker signalled.
StopWorkers(c) ==
  /\ pc[c] \in Stopping
  /\ quit' = TRUE
  /\ \/ Return(c) /\ UNCHANGED <<signalled, bell>>
     \/ /\ count > 0
        /\ signalled' = [w \in Workers |-> signalled[w] \/ w \in idlers]
        /\ bell' = FALSE
        /\ pc' = [pc EXCEPT ![c] = IF @ = "stop" THEN "stopWait" ELSE "destroyWait"]
        /\ UNCHANGED <<valid, freed>>
  /\ UNCHANGED <<idle, idlers, misses, work, threads, job, target, shorthanded>>

\* Mutant: the first worker to leave ends the wait.
StopWokenEarly(c) ==
  /\ pc[c] \in Waiting /\ bell
  /\ bell' = FALSE
  /\ pc' = [pc EXCEPT ![c] = "out"]
  /\ valid' = (pc[c] = "stopWait")
  /\ freed' = (pc[c] = "destroyWait")
  /\ UNCHANGED <<quit, sleep, work, threads, job, target, shorthanded>>

StopWoken(c) ==
  /\ pc[c] \in Waiting /\ bell
  /\ bell' = FALSE
  /\ Return(c) \/ (count > 0 /\ UNCHANGED <<pc, valid, freed>>)
  /\ UNCHANGED <<quit, sleep, work, threads, job, target, shorthanded>>

-----------------------------------------------------------------------------
Next ==
  \/ \E c \in Callers : \/ Add(c) \/ Deliver(c) \/ Signal(c) \/ Enqueue(c)
                        \/ Stop(c) \/ StopWorkers(c) \/ StopWoken(c)
  \/ \E w \in Workers : \/ Start(w) \/ InitFail(w) \/ Finish(w)
                        \/ Wake(w) \/ TimeOut(w)

Spec == Init /\ [][Next]_vars

\* The threads are scheduled, jobs and init functions end, and a condition
\* variable wakes the thread it was signalled for. Nobody need call the pool,
\* and no wait need time out.
Fairness ==
  /\ \A c \in Callers : WF_vars(Deliver(c) \/ Enqueue(c)) /\ WF_vars(Signal(c))
                        /\ WF_vars(StopWorkers(c)) /\ WF_vars(StopWoken(c))
  /\ \A w \in Workers : WF_vars(Start(w)) /\ WF_vars(Finish(w))
                        /\ WF_vars(signalled[w] /\ Wake(w))

FairSpec == Spec /\ Fairness
-----------------------------------------------------------------------------
(* Properties *)

Live == {w \in Workers : state[w] # "none"}

TypeOK ==
  /\ valid \in BOOLEAN /\ freed \in BOOLEAN /\ quit \in BOOLEAN
  /\ queue \in Seq(Jobs) /\ count \in Int /\ idle \in Int
  /\ idlers \subseteq Workers
  /\ state \in [Workers -> States]
  /\ own \in [Workers -> Jobs \cup {NoJob}] /\ curr \in [Workers -> Jobs \cup {NoJob}]
  /\ misses \in [Workers -> Nat] /\ signalled \in [Workers -> BOOLEAN]
  /\ bell \in BOOLEAN /\ pc \in [Callers -> Places]
  /\ job \in [Callers -> Jobs \cup {NoJob}]
  /\ target \in [Callers -> Workers \cup {NoWorker}]
  /\ ran \in [Jobs -> Nat] /\ shorthanded \in BOOLEAN

\* count, decreased on three paths and increased on one, is the number of
\* threads, and that number never passes the limit.
CountExact == count = Cardinality(Live) /\ count <= Limit

\* idle and the idle list agree with each other and with the threads: a
\* worker is listed from the start of its wait until a job is delivered to it
\* or it takes itself off, whichever of the two sides is first.
IdleExact ==
  /\ idle = Cardinality(idlers)
  /\ idlers = {w \in Workers : state[w] = "waiting" /\ own[w] = NoJob}

\* The counters agree with the threads and with the idle list.
Accounts == TypeOK /\ CountExact /\ IdleExact

\* A job is in one place only -- the queue, one worker's hands, or the past --
\* and is started once, however the adder, the signal and a time-out race.
StartedOnce ==
  /\ \A j \in Jobs :
       /\ ran[j] <= 1
       /\ ran[j] = 1 => ~Queued(j) /\ \A w \in Workers : own[w] # j
  /\ \A i, k \in 1..Len(queue) : queue[i] = queue[k] => i = k
  /\ \A w \in Workers : own[w] # NoJob =>
       ~Queued(own[w]) /\ \A v \in Workers \ {w} : own[v] # own[w]

\* job_deliver signals after the unlock: until then the caller still owes the
\* signal, and afterwards the worker is awake. No wake-up is lost.
WakeupOwed ==
  \A w \in Workers : own[w] # NoJob =>
    \/ signalled[w]
    \/ \E c \in Callers : pc[c] = "signal" /\ target[c] = w

\* No worker sleeps on a queued job; a queued job without any thread means a
\* thread could not be had. A quitting pool has roused every sleeper.
NobodySleepsOnWork ==
  /\ queue # <<>> => idlers = {} /\ (count > 0 \/ shorthanded)
  /\ quit => \A w \in idlers : signalled[w]

\* Nobody sleeps on work: what is delivered or queued wakes a thread.
NoLostWakeup == WakeupOwed /\ NobodySleepsOnWork

\* stop and destroy return to a pool without threads, with every accepted job
\* run unless a thread could not be had.
StopDrains ==
  [][\A c \in Callers : pc[c] \in Stopping \cup Waiting /\ pc'[c] = "out" =>
       /\ \A w \in Workers : state'[w] = "none" /\ own'[w] = NoJob
       /\ idlers' = {} /\ (queue' = <<>> \/ shorthanded)]_vars

\* Every accepted job is run, unless no thread could be had.
JobsRun ==
  \A j \in Jobs : Added(j) ~> (ran[j] > 0 \/ (shorthanded /\ count = 0))

\* stop and destroy return, unless the last thread failed to initialise.
StopReturns ==
  \A c \in Callers :
    (pc[c] \in Waiting) ~> (pc[c] = "out" \/ (shorthanded /\ count = 0))

\* thread_pool.hpp says of stop that it makes all threads exit, and of wait
\* that it waits for the tasks: both come back when the threads are gone. A
\* thread whose init function fails leaves without the signal they wait for.
StopAlwaysReturns == \A c \in Callers : (pc[c] \in Waiting) ~> (pc[c] = "out")
=============================================================================
