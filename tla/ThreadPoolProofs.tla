-------------------------- MODULE ThreadPoolProofs --------------------------
(***************************************************************************)
(* Theorems about ThreadPool for any number of workers, callers and jobs.  *)
(***************************************************************************)
EXTENDS ThreadPool, FiniteSetTheorems, SequenceTheorems, TLAPS

-----------------------------------------------------------------------------
(* Types. A job is in a caller's hands, and a worker is its target, exactly *)
(* at the places of the code where the local variables are in use.          *)

CallsOK ==
  \A c \in Callers : /\ pc[c] = "add" <=> job[c] # NoJob
                     /\ pc[c] = "signal" <=> target[c] # NoWorker

Types == TypeOK /\ CallsOK

\* What a worker does when it has the lock keeps the types.
LEMMA LoopTypes ==
  ASSUME Types, NEW w \in Workers, TakeOwn(w) \/ TakeQueued(w) \/ Leave(w) \/ Doze(w)
  PROVE  /\ queue' \in Seq(Jobs) /\ count' \in Int
         /\ state' \in [Workers -> States]
         /\ own' \in [Workers -> Jobs \cup {NoJob}]
         /\ curr' \in [Workers -> Jobs \cup {NoJob}]
         /\ ran' \in [Jobs -> Nat] /\ bell' \in BOOLEAN
<1> USE DEF Types, TypeOK, States
<1>1. CASE TakeOwn(w)
  BY <1>1 DEF TakeOwn
<1>2. CASE TakeQueued(w)
  <2>1. Head(queue) \in Jobs /\ Tail(queue) \in Seq(Jobs)
    BY <1>2, HeadTailProperties DEF TakeQueued
  <2> QED BY <1>2, <2>1 DEF TakeQueued
<1>3. CASE Leave(w)
  <2>1. bell' \in BOOLEAN
    BY <1>3 DEF Leave
  <2> QED BY <1>3, <2>1 DEF Leave
<1>4. CASE Doze(w)
  BY <1>4 DEF Doze
<1> QED BY <1>1, <1>2, <1>3, <1>4

\* The list of the idle workers and the counters of a wait.
SleepTypes ==
  /\ idle \in Int /\ idlers \subseteq Workers
  /\ misses \in [Workers -> Nat] /\ signalled \in [Workers -> BOOLEAN]

LEMMA WorkerTypes ==
  ASSUME Types, NEW w \in Workers,
         Start(w) \/ InitFail(w) \/ Finish(w) \/ Wake(w) \/ TimeOut(w)
  PROVE  Types'
<1>1. UNCHANGED <<pool, calls>>
  BY DEF Start, InitFail, Finish, Wake, TimeOut
<1>2. CASE InitFail(w)
  BY <1>2 DEF InitFail, Types, TypeOK, CallsOK, States, pool, sleep, work, calls
<1>3. CASE ~InitFail(w)
  <2>1. \/ TakeOwn(w) \/ TakeQueued(w) \/ Leave(w) \/ Doze(w)
        \/ UNCHANGED <<work, threads, bell>>
    BY <1>3 DEF Start, Finish, Wake, TimeOut, Loop, Roused
  <2>2. /\ queue' \in Seq(Jobs) /\ count' \in Int /\ state' \in [Workers -> States]
        /\ own' \in [Workers -> Jobs \cup {NoJob}]
        /\ curr' \in [Workers -> Jobs \cup {NoJob}]
        /\ ran' \in [Jobs -> Nat] /\ bell' \in BOOLEAN
    BY <2>1, LoopTypes DEF Types, TypeOK, work, threads
  <2>3. SleepTypes'
    <3> USE DEF Types, TypeOK, SleepTypes, sleep
    <3>1. CASE Start(w) \/ Finish(w)
      <4>1. UNCHANGED sleep \/ Doze(w)
        BY <3>1 DEF Start, Finish, Loop
      <4>2. CASE Doze(w)
        BY <4>2 DEF Doze
      <4> QED BY <4>1, <4>2
    <3>2. CASE Wake(w)
      BY <3>2 DEF Wake, Roused, Unlist
    <3>3. CASE TimeOut(w)
      <4>1. idle' \in Int /\ idlers' \subseteq Workers
        BY <3>3 DEF TimeOut, Roused, Unlist
      <4>2. misses' \in [Workers -> Nat]
        BY <3>3 DEF TimeOut
      <4>3. signalled' \in [Workers -> BOOLEAN]
        BY <3>3 DEF TimeOut
      <4> QED BY <4>1, <4>2, <4>3
    <3> QED BY <1>3, <3>1, <3>2, <3>3
  <2>4. shorthanded' = shorthanded
    BY <1>3 DEF Start, Finish, Wake, TimeOut
  <2> QED BY <1>1, <2>2, <2>3, <2>4 DEF Types, TypeOK, CallsOK, SleepTypes, pool, calls
<1> QED BY <1>2, <1>3

LEMMA ReturnTypes ==
  ASSUME NEW c \in Callers, Return(c)
  PROVE  valid' \in BOOLEAN /\ freed' \in BOOLEAN
BY DEF Return

\* A thread is made, or none is and that is remembered if one should have been.
LEMMA EnqueueThreads ==
  ASSUME NEW c \in Callers, Enqueue(c)
  PROVE  \/ /\ count < Limit /\ count' = count + 1
            /\ \E w \in Workers : /\ state[w] = "none"
                                  /\ state' = [state EXCEPT ![w] = "created"]
            /\ shorthanded' = shorthanded
         \/ count' = count /\ state' = state /\ shorthanded' = TRUE
         \/ /\ ~(count < Limit) /\ count' = count /\ state' = state
            /\ shorthanded' = shorthanded
BY DEF Enqueue, RoomForThread, threads

LEMMA CallerTypes ==
  ASSUME Types, NEW c \in Callers,
         Add(c) \/ Deliver(c) \/ Signal(c) \/ Enqueue(c)
           \/ Stop(c) \/ StopWorkers(c) \/ StopWoken(c)
  PROVE  Types'
<1> USE DEF Types, TypeOK, CallsOK, pool, sleep, work, threads, calls
<1> USE JobsAssumption, WorkersAssumption
<1>1. CASE Add(c)
  BY <1>1 DEF Add, Places
<1>2. CASE Deliver(c)
  BY <1>2 DEF Deliver, Places
<1>3. CASE Signal(c)
  BY <1>3 DEF Signal, Places
<1>4. CASE Enqueue(c)
  <2>1. job[c] \in Jobs
    BY <1>4 DEF Enqueue
  <2>2. queue' \in Seq(Jobs)
    BY <1>4, <2>1 DEF Enqueue
  <2>3. count' \in Int /\ state' \in [Workers -> States] /\ shorthanded' \in BOOLEAN
    <3>1. shorthanded' = TRUE \/ shorthanded' = shorthanded
      BY <1>4, EnqueueThreads, Zenon
    <3>2. shorthanded' \in BOOLEAN
      BY <3>1, Zenon
    <3>3. count' = count + 1 \/ count' = count
      BY <1>4, EnqueueThreads, Zenon
    <3>4. count' \in Int
      BY <3>3
    <3>5. state' = state \/ \E w \in Workers : state' = [state EXCEPT ![w] = "created"]
      BY <1>4, EnqueueThreads, Zenon
    <3>6. state' \in [Workers -> States]
      BY <3>5 DEF States
    <3> QED BY <3>2, <3>4, <3>6
  <2> QED BY <1>4, <2>2, <2>3 DEF Enqueue, Places
<1>5. CASE Stop(c)
  BY <1>5 DEF Stop, Stopping, Places
<1>6. CASE StopWorkers(c)
  <2>1. valid' \in BOOLEAN /\ freed' \in BOOLEAN
    BY <1>6, ReturnTypes, Zenon DEF StopWorkers
  <2>4. pc' \in [Callers -> Places]
    BY <1>6 DEF StopWorkers, Return, Stopping, Places
  <2>2. signalled' \in [Workers -> BOOLEAN] /\ bell' \in BOOLEAN
    BY <1>6 DEF StopWorkers, Return
  <2>3. \A d \in Callers : (pc'[d] = "add" <=> pc[d] = "add")
                             /\ (pc'[d] = "signal" <=> pc[d] = "signal")
    BY <1>6 DEF StopWorkers, Return, Stopping
  <2> QED BY <1>6, <2>1, <2>2, <2>3, <2>4 DEF StopWorkers
<1>7. CASE StopWoken(c)
  <2>1. valid' \in BOOLEAN /\ freed' \in BOOLEAN
    BY <1>7, ReturnTypes, Zenon DEF StopWoken
  <2>3. pc' \in [Callers -> Places]
    BY <1>7 DEF StopWoken, Return, Waiting, Places
  <2>2. \A d \in Callers : (pc'[d] = "add" <=> pc[d] = "add")
                             /\ (pc'[d] = "signal" <=> pc[d] = "signal")
    BY <1>7 DEF StopWoken, Return, Waiting
  <2> QED BY <1>7, <2>1, <2>2, <2>3 DEF StopWoken
<1> QED BY <1>1, <1>2, <1>3, <1>4, <1>5, <1>6, <1>7

LEMMA TypesStep == Types /\ [Next]_vars => Types'
<1> SUFFICES ASSUME Types, [Next]_vars PROVE Types'
  OBVIOUS
<1>1. CASE Next
  BY <1>1, CallerTypes, WorkerTypes DEF Next
<1>2. CASE UNCHANGED vars
  BY <1>2 DEF vars, pool, sleep, work, threads, calls, Types, TypeOK, CallsOK
<1> QED BY <1>1, <1>2

LEMMA TypesInit == Init => Types
<1> SUFFICES ASSUME Init PROVE Types
  OBVIOUS
<1>1. queue \in Seq(Jobs) /\ count \in Int /\ idle \in Int
  BY EmptySeq DEF Init
<1>2. /\ state \in [Workers -> States] /\ pc \in [Callers -> Places]
      /\ misses \in [Workers -> Nat] /\ ran \in [Jobs -> Nat]
  BY DEF Init, States, Places
<1>3. /\ own \in [Workers -> Jobs \cup {NoJob}] /\ curr \in [Workers -> Jobs \cup {NoJob}]
      /\ job \in [Callers -> Jobs \cup {NoJob}]
      /\ target \in [Callers -> Workers \cup {NoWorker}]
  BY DEF Init
<1>4. /\ signalled \in [Workers -> BOOLEAN] /\ bell \in BOOLEAN /\ valid \in BOOLEAN
      /\ freed \in BOOLEAN /\ quit \in BOOLEAN /\ shorthanded \in BOOLEAN
      /\ idlers \subseteq Workers
  BY DEF Init
<1>5. CallsOK
  BY DEF Init, CallsOK
<1> QED BY <1>1, <1>2, <1>3, <1>4, <1>5 DEF Types, TypeOK

LEMMA TypesInvariant == Spec => []Types
BY TypesInit, TypesStep, PTL DEF Spec

\* The variables keep their types.
THEOREM TypeCorrect == Spec => []TypeOK
BY TypesInvariant, PTL DEF Types

-----------------------------------------------------------------------------
(* The counters *)

LEMMA LiveFinite ==
  ASSUME NEW S \in SUBSET Workers
  PROVE  IsFiniteSet(S) /\ Cardinality(S) \in Nat
BY WorkersAssumption, FS_Subset, FS_CardinalityType

\* A worker that has the lock stays one of the threads, or is counted out.
LEMMA LoopCount ==
  ASSUME Types, CountExact, NEW w \in Workers, state[w] # "none",
         TakeOwn(w) \/ TakeQueued(w) \/ Leave(w) \/ Doze(w)
  PROVE  CountExact'
<1>0. state \in [Workers -> States] /\ count \in Int /\ Limit \in Nat
  BY WorkersAssumption DEF Types, TypeOK
<1>1. CASE TakeOwn(w) \/ TakeQueued(w) \/ Doze(w)
  <2>1. /\ count' = count
        /\ state' = [state EXCEPT ![w] = "running"] \/ state' = [state EXCEPT ![w] = "waiting"]
    BY <1>1 DEF TakeOwn, TakeQueued, Doze
  <2>2. Live' = Live
    BY <1>0, <2>1 DEF Live
  <2> QED BY <2>1, <2>2 DEF CountExact
<1>2. CASE Leave(w)
  <2>1. count' = count - 1 /\ state' = [state EXCEPT ![w] = "none"]
    BY <1>2 DEF Leave
  <2>2. Live' = Live \ {w} /\ w \in Live
    BY <1>0, <2>1 DEF Live
  <2>3. IsFiniteSet(Live) /\ Cardinality(Live) \in Nat
    BY LiveFinite DEF Live
  <2>4. Cardinality(Live') = Cardinality(Live) - 1
    BY <2>2, <2>3, FS_RemoveElement
  <2> QED BY <1>0, <2>1, <2>3, <2>4 DEF CountExact
<1> QED BY <1>1, <1>2

LEMMA CountStep == Types /\ CountExact /\ [Next]_vars => CountExact'
<1> SUFFICES ASSUME Types, CountExact, [Next]_vars PROVE CountExact'
  OBVIOUS
<1>0. state \in [Workers -> States] /\ count \in Int /\ Limit \in Nat
  BY WorkersAssumption DEF Types, TypeOK
<1>f. IsFiniteSet(Live) /\ Cardinality(Live) \in Nat
  BY LiveFinite DEF Live
<1>k. UNCHANGED threads => CountExact'
  BY DEF threads, CountExact, Live
<1>1. ASSUME NEW c \in Callers, Enqueue(c) PROVE CountExact'
  <2>1. CASE count' = count /\ state' = state
    BY <2>1 DEF CountExact, Live
  <2>2. CASE /\ count < Limit /\ count' = count + 1
             /\ \E w \in Workers : /\ state[w] = "none"
                                   /\ state' = [state EXCEPT ![w] = "created"]
    <3>1. PICK w \in Workers : state[w] = "none" /\ state' = [state EXCEPT ![w] = "created"]
      BY <2>2
    <3>2. Live' = Live \cup {w} /\ w \notin Live
      BY <1>0, <3>1 DEF Live
    <3>3. Cardinality(Live') = Cardinality(Live) + 1
      BY <1>f, <3>2, FS_AddElement
    <3> QED BY <1>0, <1>f, <2>2, <3>3 DEF CountExact
  <2> QED BY <1>1, <2>1, <2>2, EnqueueThreads
<1>2. ASSUME NEW w \in Workers, InitFail(w) PROVE CountExact'
  <2>1. count' = count - 1 /\ state' = [state EXCEPT ![w] = "none"] /\ state[w] = "created"
    BY <1>2 DEF InitFail
  <2>2. Live' = Live \ {w} /\ w \in Live
    BY <1>0, <2>1 DEF Live
  <2>3. Cardinality(Live') = Cardinality(Live) - 1
    BY <1>f, <2>2, FS_RemoveElement
  <2> QED BY <1>0, <1>f, <2>1, <2>3 DEF CountExact
<1>3. ASSUME NEW w \in Workers, Start(w) \/ Finish(w) \/ Wake(w) \/ TimeOut(w)
      PROVE  CountExact'
  <2>1. state[w] # "none"
    BY <1>3 DEF Start, Finish, Wake, TimeOut
  <2>2. \/ TakeOwn(w) \/ TakeQueued(w) \/ Leave(w) \/ Doze(w)
        \/ UNCHANGED threads
    BY <1>3 DEF Start, Finish, Wake, TimeOut, Loop, Roused
  <2> QED BY <1>k, <2>1, <2>2, LoopCount
<1>4. ASSUME NEW c \in Callers,
             Add(c) \/ Deliver(c) \/ Signal(c) \/ Stop(c) \/ StopWorkers(c) \/ StopWoken(c)
      PROVE  CountExact'
  BY <1>k, <1>4 DEF Add, Deliver, Signal, Stop, StopWorkers, StopWoken
<1> QED BY <1>k, <1>1, <1>2, <1>3, <1>4 DEF Next, vars

\* What job_deliver takes off the list it also counts out; a worker is listed
\* exactly while it waits with no job of its own.
LEMMA UnlistIdle ==
  ASSUME Types, idle = Cardinality(idlers), NEW w \in idlers, Unlist(w)
  PROVE  idle' = Cardinality(idlers')
<1>1. IsFiniteSet(idlers) /\ Cardinality(idlers) \in Nat
  BY LiveFinite DEF Types, TypeOK
<1> QED BY <1>1, FS_RemoveElement DEF Unlist

LEMMA RousedIdle ==
  ASSUME Types, IdleExact, NEW w \in Workers, state[w] = "waiting", Roused(w)
  PROVE  IdleExact'
<1>0. state \in [Workers -> States] /\ own \in [Workers -> Jobs \cup {NoJob}]
  BY DEF Types, TypeOK
<1>1. CASE TakeOwn(w) /\ UNCHANGED <<idlers, idle>>
  <2>1. /\ own[w] # NoJob /\ own' = [own EXCEPT ![w] = NoJob]
        /\ state' = [state EXCEPT ![w] = "running"]
    BY <1>1 DEF TakeOwn
  <2> QED BY <1>0, <1>1, <2>1 DEF IdleExact
<1>2. CASE (TakeQueued(w) \/ Leave(w)) /\ Unlist(w)
  <2>1. /\ own[w] = NoJob /\ own' = own
        /\ state' = [state EXCEPT ![w] = "running"] \/ state' = [state EXCEPT ![w] = "none"]
    BY <1>2 DEF TakeQueued, Leave, Nothing
  <2>2. w \in idlers
    BY <2>1 DEF IdleExact
  <2>3. idle' = Cardinality(idlers')
    BY <1>2, <2>2, UnlistIdle DEF IdleExact
  <2>4. idlers' = {v \in Workers : state'[v] = "waiting" /\ own'[v] = NoJob}
    BY <1>0, <1>2, <2>1 DEF IdleExact, Unlist
  <2> QED BY <2>3, <2>4 DEF IdleExact
<1> QED BY <1>1, <1>2 DEF Roused

LEMMA LoopIdle ==
  ASSUME Types, IdleExact, NEW w \in Workers, state[w] \in {"created", "running"}, Loop(w)
  PROVE  IdleExact'
<1>0. /\ state \in [Workers -> States] /\ own \in [Workers -> Jobs \cup {NoJob}]
      /\ IsFiniteSet(idlers) /\ Cardinality(idlers) \in Nat
  BY LiveFinite DEF Types, TypeOK
<1>1. CASE (TakeOwn(w) \/ TakeQueued(w) \/ Leave(w)) /\ UNCHANGED sleep
  <2>1. /\ own' = own \/ own' = [own EXCEPT ![w] = NoJob]
        /\ state' = [state EXCEPT ![w] = "running"] \/ state' = [state EXCEPT ![w] = "none"]
    BY <1>1 DEF TakeOwn, TakeQueued, Leave
  <2>2. idlers' = idlers /\ idle' = idle
    BY <1>1 DEF sleep
  <2> QED BY <1>0, <2>1, <2>2 DEF IdleExact
<1>2. CASE Doze(w)
  <2>1. /\ own[w] = NoJob /\ own' = own /\ state' = [state EXCEPT ![w] = "waiting"]
        /\ idlers' = idlers \cup {w} /\ idle' = idle + 1
    BY <1>2 DEF Doze, Nothing
  <2>2. w \notin idlers
    BY DEF IdleExact
  <2>3. Cardinality(idlers') = Cardinality(idlers) + 1
    BY <1>0, <2>1, <2>2, FS_AddElement
  <2>4. idlers' = {v \in Workers : state'[v] = "waiting" /\ own'[v] = NoJob}
    BY <1>0, <2>1 DEF IdleExact
  <2> QED BY <1>0, <2>1, <2>3, <2>4 DEF IdleExact
<1> QED BY <1>1, <1>2 DEF Loop

LEMMA IdleStep == Types /\ IdleExact /\ [Next]_vars => IdleExact'
<1> SUFFICES ASSUME Types, IdleExact, [Next]_vars PROVE IdleExact'
  OBVIOUS
<1>0. /\ state \in [Workers -> States] /\ own \in [Workers -> Jobs \cup {NoJob}]
      /\ job \in [Callers -> Jobs \cup {NoJob}]
      /\ IsFiniteSet(idlers) /\ Cardinality(idlers) \in Nat
  BY LiveFinite DEF Types, TypeOK
<1>k. UNCHANGED <<idle, idlers, state, own>> => IdleExact'
  BY DEF IdleExact
<1>1. ASSUME NEW c \in Callers, Deliver(c) PROVE IdleExact'
  <2>1. PICK w \in idlers : /\ own[w] = NoJob /\ own' = [own EXCEPT ![w] = job[c]]
                            /\ Unlist(w)
    BY <1>1 DEF Deliver, Unlist
  <2>2. job[c] # NoJob /\ state' = state
    BY <1>1 DEF Deliver, Types, CallsOK, threads
  <2>3. idle' = Cardinality(idlers')
    BY <2>1, UnlistIdle DEF IdleExact
  <2>4. idlers' = {v \in Workers : state'[v] = "waiting" /\ own'[v] = NoJob}
    BY <1>0, <2>1, <2>2 DEF IdleExact, Unlist
  <2> QED BY <2>3, <2>4 DEF IdleExact
<1>2. ASSUME NEW c \in Callers, Enqueue(c) PROVE IdleExact'
  <2>1. idle' = idle /\ idlers' = idlers /\ own' = own
    BY <1>2 DEF Enqueue, sleep
  <2>2. \/ state' = state
        \/ \E w \in Workers : state[w] = "none" /\ state' = [state EXCEPT ![w] = "created"]
    BY <1>2, EnqueueThreads, Zenon
  <2> QED BY <1>0, <2>1, <2>2 DEF IdleExact
<1>3. ASSUME NEW w \in Workers, InitFail(w) PROVE IdleExact'
  <2>1. /\ state[w] = "created" /\ state' = [state EXCEPT ![w] = "none"]
        /\ UNCHANGED <<idle, idlers, own>>
    BY <1>3 DEF InitFail, sleep, work
  <2> QED BY <1>0, <2>1 DEF IdleExact
<1>4. ASSUME NEW w \in Workers, Start(w) \/ Finish(w) PROVE IdleExact'
  BY <1>4, LoopIdle DEF Start, Finish
<1>5. ASSUME NEW w \in Workers, Wake(w) \/ TimeOut(w) PROVE IdleExact'
  <2>1. state[w] = "waiting"
    BY <1>5 DEF Wake, TimeOut
  <2>2. Roused(w) \/ UNCHANGED <<idle, idlers, state, own>> \/ (~quit /\ Leave(w) /\ Unlist(w))
    BY <1>5 DEF Wake, TimeOut, work, threads
  <2>3. CASE Leave(w) /\ Unlist(w)
    <3>1. own[w] = NoJob /\ own' = own /\ state' = [state EXCEPT ![w] = "none"]
      BY <2>3 DEF Leave, Nothing
    <3>2. w \in idlers
      BY <2>1, <3>1 DEF IdleExact
    <3>3. idle' = Cardinality(idlers')
      BY <2>3, <3>2, UnlistIdle DEF IdleExact
    <3>4. idlers' = {v \in Workers : state'[v] = "waiting" /\ own'[v] = NoJob}
      BY <1>0, <2>3, <3>1 DEF IdleExact, Unlist
    <3> QED BY <3>3, <3>4 DEF IdleExact
  <2> QED BY <1>k, <2>1, <2>2, <2>3, RousedIdle
<1>6. ASSUME NEW c \in Callers,
             Add(c) \/ Signal(c) \/ Stop(c) \/ StopWorkers(c) \/ StopWoken(c)
      PROVE  IdleExact'
  BY <1>k, <1>6 DEF Add, Signal, Stop, StopWorkers, StopWoken, sleep, work, threads
<1> QED BY <1>k, <1>1, <1>2, <1>3, <1>4, <1>5, <1>6 DEF Next, vars, sleep, work, threads

AccountsInv == Types /\ CountExact /\ IdleExact

LEMMA AccountsInit == Init => AccountsInv
<1> SUFFICES ASSUME Init PROVE CountExact /\ IdleExact
  BY TypesInit DEF AccountsInv
<1>1. Live = {} /\ {w \in Workers : state[w] = "waiting" /\ own[w] = NoJob} = {}
  BY DEF Init, Live
<1> QED BY <1>1, FS_EmptySet, WorkersAssumption DEF Init, CountExact, IdleExact

LEMMA AccountsStep == AccountsInv /\ [Next]_vars => AccountsInv'
BY TypesStep, CountStep, IdleStep DEF AccountsInv

LEMMA AccountsInvariant == Spec => []AccountsInv
BY AccountsInit, AccountsStep, PTL DEF Spec

\* count and idle are exact, and the limit holds, whatever the adders, the
\* signals, the time-outs and the failures of threads do at once.
THEOREM AccountsKept == Spec => []Accounts
BY AccountsInvariant, PTL DEF AccountsInv, Accounts, Types

-----------------------------------------------------------------------------
(* Wake-ups. A worker that was given a job is still waiting: it leaves its   *)
(* wait only with the job.                                                   *)

OwnWaits == \A w \in Workers : own[w] # NoJob => state[w] = "waiting"

LEMMA OwnWaitsStep == Types /\ IdleExact /\ OwnWaits /\ [Next]_vars => OwnWaits'
<1> SUFFICES ASSUME Types, IdleExact, OwnWaits, [Next]_vars PROVE OwnWaits'
  OBVIOUS
<1>0. state \in [Workers -> States] /\ own \in [Workers -> Jobs \cup {NoJob}]
  BY DEF Types, TypeOK
<1>k. UNCHANGED <<state, own>> => OwnWaits'
  BY DEF OwnWaits
<1>1. ASSUME NEW c \in Callers, Deliver(c) PROVE OwnWaits'
  <2>1. PICK w \in idlers : own' = [own EXCEPT ![w] = job[c]]
    BY <1>1 DEF Deliver
  <2>2. state[w] = "waiting" /\ state' = state
    BY <1>1 DEF Deliver, IdleExact, threads
  <2> QED BY <1>0, <2>1, <2>2 DEF OwnWaits
<1>2. ASSUME NEW c \in Callers, Enqueue(c) PROVE OwnWaits'
  <2>1. own' = own
    BY <1>2 DEF Enqueue
  <2>2. \/ state' = state
        \/ \E w \in Workers : state[w] = "none" /\ state' = [state EXCEPT ![w] = "created"]
    BY <1>2, EnqueueThreads, Zenon
  <2> QED BY <1>0, <2>1, <2>2 DEF OwnWaits
<1>3. ASSUME NEW w \in Workers, InitFail(w) PROVE OwnWaits'
  <2>1. /\ state[w] = "created" /\ state' = [state EXCEPT ![w] = "none"]
        /\ own' = own
    BY <1>3 DEF InitFail, work
  <2> QED BY <1>0, <2>1 DEF OwnWaits
<1>4. ASSUME NEW w \in Workers, Start(w) \/ Finish(w) \/ Wake(w) \/ TimeOut(w)
      PROVE  OwnWaits'
  <2>1. \/ TakeOwn(w) \/ TakeQueued(w) \/ Leave(w) \/ Doze(w)
        \/ UNCHANGED <<state, own>>
    BY <1>4 DEF Start, Finish, Wake, TimeOut, Loop, Roused, work, threads
  <2>2. CASE TakeOwn(w)
    <3>1. own' = [own EXCEPT ![w] = NoJob] /\ state' = [state EXCEPT ![w] = "running"]
      BY <2>2 DEF TakeOwn
    <3> QED BY <1>0, <3>1 DEF OwnWaits
  <2>3. CASE TakeQueued(w) \/ Leave(w) \/ Doze(w)
    <3>1. own[w] = NoJob /\ own' = own /\ \E x \in States : state' = [state EXCEPT ![w] = x]
      BY <2>3 DEF TakeQueued, Leave, Doze, Nothing, States
    <3> QED BY <1>0, <3>1 DEF OwnWaits
  <2> QED BY <1>k, <2>1, <2>2, <2>3
<1>5. ASSUME NEW c \in Callers,
             Add(c) \/ Signal(c) \/ Stop(c) \/ StopWorkers(c) \/ StopWoken(c)
      PROVE  OwnWaits'
  BY <1>k, <1>5 DEF Add, Signal, Stop, StopWorkers, StopWoken, work, threads
<1> QED BY <1>k, <1>1, <1>2, <1>3, <1>4, <1>5 DEF Next, vars, work, threads

\* A worker forgets a signal only when it has no job left to be signalled for.
LEMMA WorkerOwed ==
  ASSUME Types, WakeupOwed, NEW w \in Workers,
         Start(w) \/ InitFail(w) \/ Finish(w) \/ Wake(w) \/ TimeOut(w)
  PROVE  WakeupOwed'
<1>0. own \in [Workers -> Jobs \cup {NoJob}] /\ signalled \in [Workers -> BOOLEAN]
  BY DEF Types, TypeOK
<1>1. pc' = pc /\ target' = target
  BY DEF Start, InitFail, Finish, Wake, TimeOut, calls
<1>2. \A v \in Workers \ {w} : own'[v] = own[v] /\ signalled'[v] = signalled[v]
  <2>1. own' = own \/ own' = [own EXCEPT ![w] = NoJob]
    BY DEF Start, InitFail, Finish, Wake, TimeOut, Loop, Roused, TakeOwn, TakeQueued,
           Leave, Doze, work
  <2>2. signalled' = signalled \/ signalled' = [signalled EXCEPT ![w] = FALSE]
    BY DEF Start, InitFail, Finish, Wake, TimeOut, Loop, Doze, sleep
  <2> QED BY <1>0, <2>1, <2>2
<1>3. own'[w] = NoJob \/ (own'[w] = own[w] /\ signalled'[w] = signalled[w])
  <2>1. CASE InitFail(w)
    BY <2>1 DEF InitFail, work, sleep
  <2>2. CASE ~InitFail(w)
    <3>1. TakeOwn(w) \/ TakeQueued(w) \/ Leave(w) \/ Doze(w)
            \/ (Nothing(w) /\ UNCHANGED work)
      BY <2>2 DEF Start, Finish, Wake, TimeOut, Loop, Roused
    <3> QED BY <1>0, <3>1 DEF TakeOwn, TakeQueued, Leave, Doze, Nothing, work
  <2> QED BY <2>1, <2>2
<1> QED BY <1>1, <1>2, <1>3 DEF WakeupOwed

LEMMA OwedStep == Types /\ OwnWaits /\ WakeupOwed /\ [Next]_vars => WakeupOwed'
<1> SUFFICES ASSUME Types, OwnWaits, WakeupOwed, [Next]_vars PROVE WakeupOwed'
  OBVIOUS
<1>0. /\ own \in [Workers -> Jobs \cup {NoJob}] /\ signalled \in [Workers -> BOOLEAN]
      /\ pc \in [Callers -> Places] /\ target \in [Callers -> Workers \cup {NoWorker}]
  BY DEF Types, TypeOK
<1>k. UNCHANGED <<own, signalled, pc, target>> => WakeupOwed'
  BY DEF WakeupOwed
<1>1. ASSUME NEW c \in Callers, Deliver(c) PROVE WakeupOwed'
  <2>1. PICK w \in idlers : /\ own' = [own EXCEPT ![w] = job[c]]
                            /\ target' = [target EXCEPT ![c] = w]
    BY <1>1 DEF Deliver
  <2>2. /\ pc[c] = "add" /\ pc' = [pc EXCEPT ![c] = "signal"] /\ signalled' = signalled
        /\ w \in Workers
    BY <1>1 DEF Deliver, Types, TypeOK
  <2>3. pc'[c] = "signal" /\ target'[c] = w
    BY <1>0, <2>1, <2>2
  <2>4. \A d \in Callers \ {c} : pc'[d] = pc[d] /\ target'[d] = target[d]
    BY <1>0, <2>1, <2>2
  <2>5. ASSUME NEW v \in Workers, own'[v] # NoJob
        PROVE  signalled'[v] \/ \E d \in Callers : pc'[d] = "signal" /\ target'[d] = v
    <3>1. CASE v = w
      BY <2>3, <3>1
    <3>2. CASE v # w
      <4>1. own[v] # NoJob
        BY <1>0, <2>1, <2>5, <3>2
      <4>2. signalled[v] \/ \E d \in Callers : pc[d] = "signal" /\ target[d] = v
        BY <4>1 DEF WakeupOwed
      <4>3. ASSUME NEW d \in Callers, pc[d] = "signal", target[d] = v
            PROVE  \E e \in Callers : pc'[e] = "signal" /\ target'[e] = v
        <5>1. d # c
          BY <2>2, <4>3
        <5> QED BY <2>4, <4>3, <5>1
      <4> QED BY <2>2, <4>2, <4>3
    <3> QED BY <3>1, <3>2
  <2> QED BY <2>5 DEF WakeupOwed
<1>2. ASSUME NEW c \in Callers, Signal(c) PROVE WakeupOwed'
  <2>1. /\ pc[c] = "signal" /\ own' = own
        /\ signalled' = IF state[target[c]] = "waiting"
                          THEN [signalled EXCEPT ![target[c]] = TRUE] ELSE signalled
        /\ target' = [target EXCEPT ![c] = NoWorker] /\ pc' = [pc EXCEPT ![c] = "out"]
    BY <1>2 DEF Signal, work
  <2>2. target[c] \in Workers
    BY <1>0, <2>1 DEF Types, CallsOK
  <2>3. \A d \in Callers \ {c} : pc'[d] = pc[d] /\ target'[d] = target[d]
    BY <1>0, <2>1
  <2>4. \A v \in Workers : signalled[v] => signalled'[v]
    BY <1>0, <2>1, <2>2
  <2>5. ASSUME NEW v \in Workers, own[v] # NoJob
        PROVE  signalled'[v] \/ \E d \in Callers : pc'[d] = "signal" /\ target'[d] = v
    <3>1. state[v] = "waiting"
      BY <2>5 DEF OwnWaits
    <3>2. target[c] = v => signalled'[v]
      BY <1>0, <2>1, <2>2, <3>1
    <3>3. signalled[v] \/ \E d \in Callers : pc[d] = "signal" /\ target[d] = v
      BY <2>5 DEF WakeupOwed
    <3> QED BY <2>3, <2>4, <3>2, <3>3
  <2> QED BY <2>1, <2>5 DEF WakeupOwed
<1>3. ASSUME NEW c \in Callers,
             Add(c) \/ Enqueue(c) \/ Stop(c) \/ StopWorkers(c) \/ StopWoken(c)
      PROVE  WakeupOwed'
  <2>1. own' = own /\ target' = target
    BY <1>3 DEF Add, Enqueue, Stop, StopWorkers, StopWoken, work
  <2>2. \A v \in Workers : signalled[v] => signalled'[v]
    <3>1. CASE StopWorkers(c)
      BY <1>0, <3>1 DEF StopWorkers
    <3>2. CASE ~StopWorkers(c)
      BY <1>3, <3>2 DEF Add, Enqueue, Stop, StopWoken, sleep
    <3> QED BY <3>1, <3>2
  <2>3. \A d \in Callers : pc[d] = "signal" => pc'[d] = "signal"
    BY <1>0, <1>3 DEF Add, Enqueue, Stop, StopWorkers, StopWoken, Return, Stopping, Waiting
  <2> QED BY <2>1, <2>2, <2>3 DEF WakeupOwed
<1> QED BY <1>k, <1>1, <1>2, <1>3, WorkerOwed DEF Next, vars, work, sleep, calls

\* Without threads nobody is listed.
LEMMA NobodyListed ==
  ASSUME AccountsInv, count = 0
  PROVE  /\ Live = {} /\ idlers = {}
         /\ \A w \in Workers : state[w] = "none"
<1>1. IsFiniteSet(Live)
  BY LiveFinite DEF Live
<1>2. Live = {}
  BY <1>1, FS_EmptySet DEF AccountsInv, CountExact
<1> QED BY <1>2 DEF Live, AccountsInv, IdleExact

LEMMA NobodySleepsStep == AccountsInv /\ NobodySleepsOnWork /\ [Next]_vars => NobodySleepsOnWork'
<1> SUFFICES ASSUME AccountsInv, NobodySleepsOnWork, [Next]_vars PROVE NobodySleepsOnWork'
  OBVIOUS
<1>0. /\ own \in [Workers -> Jobs \cup {NoJob}] /\ signalled \in [Workers -> BOOLEAN]
      /\ idlers \subseteq Workers /\ count \in Int /\ Limit \in Nat \ {0}
      /\ queue \in Seq(Jobs)
      /\ \A w \in idlers : state[w] = "waiting" /\ own[w] = NoJob
      /\ \A w \in Workers : state[w] = "waiting" /\ own[w] = NoJob => w \in idlers
  BY WorkersAssumption DEF AccountsInv, IdleExact, Types, TypeOK
<1>k. UNCHANGED <<queue, idlers, count, shorthanded, quit, signalled>> => NobodySleepsOnWork'
  BY DEF NobodySleepsOnWork
<1>1. ASSUME NEW c \in Callers, Deliver(c) PROVE NobodySleepsOnWork'
  BY <1>1 DEF Deliver, NobodySleepsOnWork, threads, pool
<1>2. ASSUME NEW c \in Callers, Enqueue(c) PROVE NobodySleepsOnWork'
  <2>1. idlers = {} /\ UNCHANGED <<idlers, quit, signalled>>
    BY <1>0, <1>2 DEF Enqueue, sleep, pool
  <2>2. count' > 0 \/ shorthanded'
    <3>1. count \in Nat
      <4>1. IsFiniteSet(Live)
        BY LiveFinite DEF Live
      <4> QED BY <4>1, FS_CardinalityType DEF AccountsInv, CountExact
    <3>2. \/ count' = count + 1
          \/ shorthanded' = TRUE
          \/ ~(count < Limit) /\ count' = count
      BY <1>2, EnqueueThreads, Zenon
    <3>3. count + 1 > 0 /\ (~(count < Limit) => count > 0)
      BY <1>0, <3>1
    <3> QED BY <3>2, <3>3, Zenon
  <2> QED BY <2>1, <2>2 DEF NobodySleepsOnWork
<1>3. ASSUME NEW w \in Workers, InitFail(w) PROVE NobodySleepsOnWork'
  BY <1>3 DEF InitFail, NobodySleepsOnWork, pool, sleep, work
<1>4. ASSUME NEW w \in Workers, Start(w) \/ Finish(w) \/ Wake(w) \/ TimeOut(w)
      PROVE  NobodySleepsOnWork'
  <2>0. UNCHANGED <<quit, shorthanded>>
    BY <1>4 DEF Start, Finish, Wake, TimeOut, pool
  <2>1. CASE TakeOwn(w)
    <3>1. own[w] # NoJob /\ queue' = queue /\ count' = count
      BY <2>1 DEF TakeOwn
    <3>2. idlers' = idlers
      BY <1>4, <3>1 DEF Start, Finish, Wake, TimeOut, Loop, Roused, TakeQueued, Leave, Doze,
                        Nothing, sleep
    <3>3. signalled' = signalled \/ signalled' = [signalled EXCEPT ![w] = FALSE]
      BY <1>4, <3>1 DEF Start, Finish, Wake, TimeOut, Loop, Doze, Nothing, sleep
    <3>4. w \notin idlers
      BY <1>0, <3>1
    <3> QED BY <1>0, <2>0, <3>1, <3>2, <3>3, <3>4 DEF NobodySleepsOnWork
  <2>2. CASE TakeQueued(w)
    <3>1. own[w] = NoJob /\ queue # <<>> /\ count' = count
      BY <2>2 DEF TakeQueued
    <3>2. idlers' \subseteq idlers
      BY <1>4, <3>1 DEF Start, Finish, Wake, TimeOut, Loop, Roused, Unlist, TakeOwn, Leave,
                        Doze, Nothing, sleep
    <3> QED BY <2>0, <3>1, <3>2 DEF NobodySleepsOnWork
  <2>3. CASE Leave(w)
    <3>1. queue = <<>> /\ queue' = queue /\ own[w] = NoJob
      BY <2>3 DEF Leave, Nothing
    <3>2. /\ idlers' \subseteq idlers
          /\ signalled' = signalled
             \/ (w \notin idlers' /\ signalled' = [signalled EXCEPT ![w] = FALSE])
             \/ ~quit
      <4>1. CASE Start(w) \/ Finish(w)
        BY <4>1, <2>3 DEF Start, Finish, Loop, Leave, Doze, TakeOwn, TakeQueued, Nothing, sleep
      <4>2. CASE Wake(w)
        BY <4>2, <2>3, <3>1 DEF Wake, Roused, Leave, Unlist, TakeOwn, TakeQueued, Nothing
      <4>3. CASE TimeOut(w)
        BY <4>3, <2>3, <3>1 DEF TimeOut, Roused, Leave, Unlist, TakeOwn, TakeQueued, Nothing
      <4> QED BY <1>4, <4>1, <4>2, <4>3
    <3> QED BY <1>0, <2>0, <3>1, <3>2 DEF NobodySleepsOnWork
  <2>4. CASE Doze(w)
    BY <2>0, <2>4 DEF Doze, Nothing, NobodySleepsOnWork
  <2>5. CASE /\ Nothing(w) /\ ~quit
             /\ UNCHANGED <<work, threads, bell, idlers, idle>>
    BY <2>0, <2>5 DEF Nothing, NobodySleepsOnWork, work, threads
  <2> QED BY <1>4, <2>1, <2>2, <2>3, <2>4, <2>5 DEF Start, Finish, Wake, TimeOut, Loop, Roused
<1>5. ASSUME NEW c \in Callers, StopWorkers(c) PROVE NobodySleepsOnWork'
  <2>1. UNCHANGED <<queue, idlers, count, shorthanded>>
    BY <1>5 DEF StopWorkers, work, threads
  <2>2. CASE count = 0
    BY <2>1, <2>2, NobodyListed DEF NobodySleepsOnWork
  <2>3. CASE count # 0
    <3>1. signalled' = [w \in Workers |-> signalled[w] \/ w \in idlers]
      BY <1>5, <2>3 DEF StopWorkers, Return
    <3> QED BY <1>0, <2>1, <3>1 DEF NobodySleepsOnWork
  <2> QED BY <2>2, <2>3
<1>6. ASSUME NEW c \in Callers, Signal(c) PROVE NobodySleepsOnWork'
  <2>1. /\ UNCHANGED <<queue, idlers, count, shorthanded, quit>>
        /\ \/ signalled' = signalled
           \/ signalled' = [signalled EXCEPT ![target[c]] = TRUE]
    BY <1>6 DEF Signal, work, threads, pool
  <2> QED BY <1>0, <2>1 DEF NobodySleepsOnWork
<1>7. ASSUME NEW c \in Callers, Add(c) \/ Stop(c) \/ StopWoken(c) PROVE NobodySleepsOnWork'
  BY <1>k, <1>7 DEF Add, Stop, StopWoken, pool, sleep, work, threads
<1> QED BY <1>k, <1>1, <1>2, <1>3, <1>4, <1>5, <1>6, <1>7
        DEF Next, vars, pool, sleep, work, threads

WakeInv == AccountsInv /\ OwnWaits /\ WakeupOwed /\ NobodySleepsOnWork

LEMMA WakeInit == Init => WakeInv
<1> SUFFICES ASSUME Init PROVE WakeInv
  OBVIOUS
<1>1. OwnWaits /\ WakeupOwed /\ NobodySleepsOnWork
  BY DEF Init, OwnWaits, WakeupOwed, NobodySleepsOnWork
<1> QED BY <1>1, AccountsInit DEF WakeInv

LEMMA WakeStep == WakeInv /\ [Next]_vars => WakeInv'
<1> SUFFICES ASSUME WakeInv, [Next]_vars PROVE WakeInv'
  OBVIOUS
<1>1. AccountsInv'
  BY AccountsStep DEF WakeInv
<1>2. OwnWaits' /\ WakeupOwed'
  BY OwnWaitsStep, OwedStep DEF WakeInv, AccountsInv
<1>3. NobodySleepsOnWork'
  BY NobodySleepsStep DEF WakeInv
<1> QED BY <1>1, <1>2, <1>3 DEF WakeInv

LEMMA WakeInvariant == Spec => []WakeInv
BY WakeInit, WakeStep, PTL DEF Spec

\* No wake-up is lost: a delivered job has its worker signalled or about to be,
\* no worker is listed while jobs are queued, and a quitting pool has roused
\* every sleeper.
THEOREM NoWakeupLost == Spec => []NoLostWakeup
BY WakeInvariant, PTL DEF WakeInv, NoLostWakeup

-----------------------------------------------------------------------------
(* stop and destroy *)

\* A caller of stop that comes back has seen the count at 0.
LEMMA StopReturnsAtZero ==
  ASSUME WakeInv, Next, NEW c \in Callers,
         pc[c] \in Stopping \cup Waiting, pc'[c] = "out"
  PROVE  count = 0 /\ UNCHANGED <<state, own, idlers, queue, shorthanded>>
<1>0. pc \in [Callers -> Places]
  BY DEF WakeInv, AccountsInv, Types, TypeOK
<1>1. ASSUME NEW d \in Callers, StopWorkers(d) \/ StopWoken(d)
      PROVE  count = 0 /\ UNCHANGED <<state, own, idlers, queue, shorthanded>>
  <2>1. UNCHANGED <<state, own, idlers, queue, shorthanded>>
    BY <1>1 DEF StopWorkers, StopWoken, sleep, work, threads
  <2>2. Return(d) \/ pc' = pc \/ (\E p \in Waiting : pc' = [pc EXCEPT ![d] = p])
    BY <1>1 DEF StopWorkers, StopWoken, Waiting
  <2>3. Return(d)
    BY <1>0, <2>2 DEF Stopping, Waiting
  <2> QED BY <2>1, <2>3 DEF Return
<1>2. ASSUME NEW d \in Callers, Add(d) \/ Deliver(d) \/ Signal(d) \/ Enqueue(d) \/ Stop(d)
      PROVE  FALSE
  <2>1. pc[d] \in {"out", "add", "signal"}
    BY <1>2 DEF Add, Deliver, Signal, Enqueue, Stop
  <2>2. \E p \in Places : pc' = [pc EXCEPT ![d] = p]
    BY <1>2 DEF Add, Deliver, Signal, Enqueue, Stop, Stopping, Places
  <2> QED BY <1>0, <2>1, <2>2 DEF Stopping, Waiting
<1>3. ASSUME NEW w \in Workers,
             Start(w) \/ InitFail(w) \/ Finish(w) \/ Wake(w) \/ TimeOut(w)
      PROVE  FALSE
  <2>1. pc' = pc
    BY <1>3 DEF Start, InitFail, Finish, Wake, TimeOut, calls
  <2> QED BY <2>1 DEF Stopping, Waiting
<1> QED BY <1>1, <1>2, <1>3 DEF Next

\* stop and destroy come back to a pool without threads, without a listed or
\* owed worker, and without a queued job unless a thread could not be had.
THEOREM StopHasDrained == Spec => StopDrains
<1>1. WakeInv /\ [Next]_vars =>
        [\A c \in Callers : pc[c] \in Stopping \cup Waiting /\ pc'[c] = "out" =>
           /\ \A w \in Workers : state'[w] = "none" /\ own'[w] = NoJob
           /\ idlers' = {} /\ (queue' = <<>> \/ shorthanded)]_vars
  <2> SUFFICES ASSUME WakeInv, Next, NEW c \in Callers,
                      pc[c] \in Stopping \cup Waiting, pc'[c] = "out"
               PROVE  /\ \A w \in Workers : state'[w] = "none" /\ own'[w] = NoJob
                      /\ idlers' = {} /\ (queue' = <<>> \/ shorthanded)
    OBVIOUS
  <2>1. count = 0 /\ UNCHANGED <<state, own, idlers, queue, shorthanded>>
    BY StopReturnsAtZero
  <2>2. idlers = {} /\ \A w \in Workers : state[w] = "none"
    BY <2>1, NobodyListed DEF WakeInv
  <2>3. \A w \in Workers : own[w] = NoJob
    BY <2>2 DEF WakeInv, OwnWaits
  <2>4. queue = <<>> \/ shorthanded
    BY <2>1 DEF WakeInv, NobodySleepsOnWork
  <2> QED BY <2>1, <2>2, <2>3, <2>4
<1> QED BY <1>1, WakeInvariant, PTL DEF Spec, StopDrains

-----------------------------------------------------------------------------
(* Every job once. A job is in one place: a caller's hands, the queue, one   *)
(* worker's hands, or the past.                                              *)

InHands == \A c \in Callers : job[c] # NoJob =>
             ~Added(job[c]) /\ \A d \in Callers \ {c} : job[d] # job[c]

QueuedOnce == \A i, k \in 1..Len(queue) : queue[i] = queue[k] => i = k

JobsInv == Types /\ StartedOnce /\ InHands

LEMMA AppendQueued ==
  ASSUME queue \in Seq(Jobs), QueuedOnce, NEW j \in Jobs, ~Queued(j),
         queue' = Append(queue, j)
  PROVE  QueuedOnce' /\ \A x : Queued(x)' => Queued(x) \/ x = j
<1>1. /\ Len(queue) \in Nat /\ Len(queue') = Len(queue) + 1
      /\ \A i \in 1..Len(queue) : queue'[i] = queue[i]
      /\ queue'[Len(queue) + 1] = j
  OBVIOUS
<1>2. \A x : Queued(x)' => Queued(x) \/ x = j
  BY <1>1 DEF Queued
<1>3. ASSUME NEW i \in 1..Len(queue'), NEW k \in 1..Len(queue'), queue'[i] = queue'[k]
      PROVE  i = k
  <2>1. \A m \in 1..Len(queue) : queue[m] # j
    BY DEF Queued
  <2>2. i \in 1..Len(queue) \/ i = Len(queue) + 1
    BY <1>1
  <2>3. k \in 1..Len(queue) \/ k = Len(queue) + 1
    BY <1>1
  <2> QED BY <1>1, <1>3, <2>1, <2>2, <2>3 DEF QueuedOnce
<1> QED BY <1>2, <1>3 DEF QueuedOnce

LEMMA TailQueued ==
  ASSUME queue \in Seq(Jobs), QueuedOnce, queue # <<>>, queue' = Tail(queue)
  PROVE  /\ QueuedOnce' /\ Head(queue) \in Jobs /\ Queued(Head(queue))
         /\ ~(\E i \in 1..Len(queue') : queue'[i] = Head(queue))
         /\ \A x : Queued(x)' => Queued(x)
<1>1. /\ Len(queue) \in Nat \ {0} /\ Len(queue') = Len(queue) - 1
      /\ \A i \in 1..Len(queue') : queue'[i] = queue[i + 1] /\ i + 1 \in 2..Len(queue)
      /\ Head(queue) = queue[1] /\ Head(queue) \in Jobs
  OBVIOUS
<1>2. \A x : Queued(x)' => Queued(x)
  BY <1>1 DEF Queued
<1>3. QueuedOnce'
  BY <1>1 DEF QueuedOnce
<1>4. ASSUME NEW i \in 1..Len(queue'), queue'[i] = Head(queue) PROVE FALSE
  BY <1>1, <1>4 DEF QueuedOnce
<1> QED BY <1>1, <1>2, <1>3, <1>4 DEF Queued

\* A worker that takes a job starts it for the first time.
LEMMA TakeOnce ==
  ASSUME JobsInv, NEW w \in Workers, TakeOwn(w) \/ TakeQueued(w), job' = job
  PROVE  StartedOnce' /\ InHands'
<1>0. /\ queue \in Seq(Jobs) /\ own \in [Workers -> Jobs \cup {NoJob}]
      /\ ran \in [Jobs -> Nat] /\ QueuedOnce /\ NoJob \notin Jobs
  BY JobsAssumption DEF JobsInv, Types, TypeOK, StartedOnce, QueuedOnce
<1>1. CASE TakeOwn(w)
  <2> DEFINE j == own[w]
  <2>1. /\ j \in Jobs /\ queue' = queue /\ own' = [own EXCEPT ![w] = NoJob]
        /\ ran' = [ran EXCEPT ![j] = @ + 1]
    BY <1>0, <1>1 DEF TakeOwn
  <2>2. ran[j] = 0 /\ ~Queued(j) /\ \A v \in Workers \ {w} : own[v] # j
    BY <1>0, <2>1 DEF JobsInv, StartedOnce
  <2>3. /\ \A x : Queued(x)' <=> Queued(x)
        /\ \A v \in Workers : own'[v] # NoJob => v # w /\ own'[v] = own[v]
        /\ ran'[j] = 1 /\ \A x \in Jobs \ {j} : ran'[x] = ran[x]
    BY <1>0, <2>1, <2>2 DEF Queued
  <2>4. StartedOnce'
    BY <1>0, <2>1, <2>2, <2>3 DEF JobsInv, StartedOnce, Queued
  <2>5. InHands'
    <3>1. \A c \in Callers : job[c] # NoJob => job[c] \in Jobs /\ job[c] # j
      BY <1>0, <2>1 DEF JobsInv, Types, TypeOK, InHands, Added
    <3>2. \A x \in Jobs \ {j} : Added(x)' => Added(x)
      BY <1>0, <2>1, <2>3 DEF Added
    <3> QED BY <3>1, <3>2 DEF JobsInv, InHands
  <2> QED BY <2>4, <2>5
<1>2. CASE TakeQueued(w)
  <2>0. /\ queue # <<>> /\ queue' = Tail(queue) /\ own' = own
        /\ ran' = [ran EXCEPT ![Head(queue)] = @ + 1]
    BY <1>2 DEF TakeQueued
  <2>h. /\ QueuedOnce' /\ Head(queue) \in Jobs /\ Queued(Head(queue))
        /\ ~(\E i \in 1..Len(queue') : queue'[i] = Head(queue))
        /\ \A x : Queued(x)' => Queued(x)
    BY <1>0, <2>0, TailQueued
  <2> PICK j \in Jobs : j = Head(queue)
    BY <2>h
  <2>1. queue' = Tail(queue) /\ own' = own /\ ran' = [ran EXCEPT ![j] = @ + 1]
    BY <2>0
  <2>2. /\ QueuedOnce' /\ Queued(j) /\ ~(\E i \in 1..Len(queue') : queue'[i] = j)
        /\ \A x : Queued(x)' => Queued(x)
    BY <2>h
  <2>3. ran[j] = 0 /\ \A v \in Workers : own[v] # j
    BY <1>0, <2>2 DEF JobsInv, StartedOnce
  <2>4. ran'[j] = 1 /\ \A x \in Jobs \ {j} : ran'[x] = ran[x]
    BY <1>0, <2>1, <2>2, <2>3
  <2>5. ~Queued(j)'
    BY <2>2 DEF Queued
  <2>6. StartedOnce'
    <3>1. ASSUME NEW x \in Jobs
          PROVE  ran'[x] <= 1 /\ (ran'[x] = 1 => ~Queued(x)' /\ \A v \in Workers : own'[v] # x)
      BY <2>1, <2>2, <2>3, <2>4, <2>5 DEF JobsInv, StartedOnce
    <3>2. ASSUME NEW v \in Workers, own'[v] # NoJob
          PROVE  ~Queued(own[v])' /\ \A u \in Workers \ {v} : own'[u] # own'[v]
      BY <2>1, <2>2, <3>2 DEF JobsInv, StartedOnce
    <3> QED BY <2>1, <2>2, <3>1, <3>2 DEF StartedOnce, QueuedOnce, Queued
  <2>7. InHands'
    <3>1. \A c \in Callers : job[c] # NoJob => job[c] \in Jobs /\ job[c] # j
      BY <1>0, <2>2 DEF JobsInv, Types, TypeOK, InHands, Added
    <3>2. \A x \in Jobs \ {j} : Added(x)' => Added(x)
      BY <2>1, <2>2, <2>4 DEF Added
    <3> QED BY <3>1, <3>2 DEF JobsInv, InHands
  <2> QED BY <2>6, <2>7
<1> QED BY <1>1, <1>2

LEMMA JobsStep == JobsInv /\ [Next]_vars => JobsInv'
<1> SUFFICES ASSUME JobsInv, [Next]_vars PROVE StartedOnce' /\ InHands'
  BY TypesStep DEF JobsInv
<1>0. /\ queue \in Seq(Jobs) /\ own \in [Workers -> Jobs \cup {NoJob}]
      /\ ran \in [Jobs -> Nat] /\ job \in [Callers -> Jobs \cup {NoJob}]
      /\ idlers \subseteq Workers /\ QueuedOnce /\ NoJob \notin Jobs
  BY JobsAssumption DEF JobsInv, Types, TypeOK, StartedOnce, QueuedOnce
<1>k. UNCHANGED <<queue, own, ran, job>> => StartedOnce' /\ InHands'
  BY DEF JobsInv, StartedOnce, InHands, Added, Queued
<1>1. ASSUME NEW c \in Callers, Add(c) PROVE StartedOnce' /\ InHands'
  <2>1. PICK j \in Jobs : /\ ~Added(j) /\ \A d \in Callers : job[d] # j
                          /\ job' = [job EXCEPT ![c] = j]
    BY <1>1 DEF Add
  <2>2. UNCHANGED <<queue, own, ran>>
    BY <1>1 DEF Add, work
  <2>3. StartedOnce'
    BY <2>2 DEF JobsInv, StartedOnce, Queued
  <2>4. \A x : Added(x)' <=> Added(x)
    BY <2>2 DEF Added, Queued
  <2>5. ASSUME NEW d \in Callers, job'[d] # NoJob
        PROVE  ~Added(job'[d]) /\ \A e \in Callers \ {d} : job'[e] # job'[d]
    BY <1>0, <2>1, <2>5 DEF JobsInv, InHands
  <2> QED BY <2>2, <2>3, <2>5 DEF InHands, Added, Queued
<1>2. ASSUME NEW c \in Callers, Deliver(c) PROVE StartedOnce' /\ InHands'
  <2>1. PICK w \in idlers : own[w] = NoJob /\ own' = [own EXCEPT ![w] = job[c]]
    BY <1>2 DEF Deliver
  <2>2. /\ job' = [job EXCEPT ![c] = NoJob] /\ queue' = queue /\ ran' = ran
        /\ job[c] \in Jobs /\ w \in Workers
    BY <1>0, <1>2 DEF Deliver, JobsInv, Types, CallsOK
  <2>3. ~Queued(job[c]) /\ ran[job[c]] = 0 /\ \A v \in Workers : own[v] # job[c]
    BY <1>0, <2>2 DEF JobsInv, InHands, Added
  <2>4. StartedOnce'
    BY <1>0, <2>1, <2>2, <2>3 DEF JobsInv, StartedOnce, Queued
  <2>5. InHands'
    <3>1. \A x : x # job[c] /\ Added(x)' => Added(x)
      BY <1>0, <2>1, <2>2 DEF Added, Queued
    <3>2. \A d \in Callers : job'[d] # NoJob => d # c /\ job'[d] = job[d] /\ job[d] # job[c]
      BY <1>0, <2>2 DEF JobsInv, InHands
    <3>3. ASSUME NEW d \in Callers, job'[d] # NoJob
          PROVE  ~Added(job[d])' /\ \A e \in Callers \ {d} : job'[e] # job'[d]
      <4>1. d # c /\ job'[d] = job[d] /\ job[d] # job[c] /\ job[d] # NoJob
        BY <3>2, <3>3
      <4>2. ~Added(job[d]) /\ \A e \in Callers \ {d} : job[e] # job[d]
        BY <4>1 DEF JobsInv, InHands
      <4>3. job'[d] = job[d] /\ job[d] \in Jobs
        BY <1>0, <4>1
      <4>4. \A e \in Callers \ {d} : job'[e] # job'[d]
        BY <1>0, <2>2, <4>1, <4>2, <4>3
      <4>5. ~(\/ \E i \in 1..Len(queue') : queue'[i] = job'[d]
              \/ (\E v \in Workers : own'[v] = job'[d]) \/ ran'[job'[d]] > 0)
        BY <1>0, <2>1, <2>2, <4>1, <4>2 DEF Added, Queued
      <4> QED BY <4>4, <4>5 DEF Added, Queued
    <3> QED BY <3>3 DEF InHands
  <2> QED BY <2>4, <2>5
<1>3. ASSUME NEW c \in Callers, Enqueue(c) PROVE StartedOnce' /\ InHands'
  <2>2. /\ job' = [job EXCEPT ![c] = NoJob] /\ queue' = Append(queue, job[c])
        /\ ran' = ran /\ own' = own /\ job[c] \in Jobs
    BY <1>0, <1>3 DEF Enqueue, JobsInv, Types, CallsOK
  <2>3. ~Queued(job[c]) /\ ran[job[c]] = 0 /\ \A v \in Workers : own[v] # job[c]
    BY <1>0, <2>2 DEF JobsInv, InHands, Added
  <2>4. QueuedOnce' /\ \A x : Queued(x)' => Queued(x) \/ x = job[c]
    BY <1>0, <2>2, <2>3, AppendQueued
  <2>5. StartedOnce'
    <3>1. ASSUME NEW x \in Jobs
          PROVE  ran'[x] <= 1 /\ (ran'[x] = 1 => ~Queued(x)' /\ \A v \in Workers : own'[v] # x)
      BY <2>2, <2>3, <2>4 DEF JobsInv, StartedOnce
    <3>2. ASSUME NEW v \in Workers, own'[v] # NoJob
          PROVE  ~Queued(own[v])' /\ \A u \in Workers \ {v} : own'[u] # own'[v]
      BY <2>2, <2>3, <2>4, <3>2 DEF JobsInv, StartedOnce
    <3> QED BY <2>2, <2>4, <3>1, <3>2 DEF StartedOnce, QueuedOnce, Queued
  <2>6. InHands'
    <3>1. \A x : x # job[c] /\ Added(x)' => Added(x)
      BY <2>2, <2>4 DEF Added
    <3>2. \A d \in Callers : job'[d] # NoJob => d # c /\ job'[d] = job[d] /\ job[d] # job[c]
      BY <1>0, <2>2 DEF JobsInv, InHands
    <3> QED BY <1>0, <2>2, <3>1, <3>2 DEF JobsInv, InHands
  <2> QED BY <2>5, <2>6
<1>4. ASSUME NEW w \in Workers,
             Start(w) \/ InitFail(w) \/ Finish(w) \/ Wake(w) \/ TimeOut(w)
      PROVE  StartedOnce' /\ InHands'
  <2>1. job' = job
    BY <1>4 DEF Start, InitFail, Finish, Wake, TimeOut, calls
  <2>2. TakeOwn(w) \/ TakeQueued(w) \/ UNCHANGED <<queue, own, ran>>
    BY <1>4 DEF Start, InitFail, Finish, Wake, TimeOut, Loop, Roused, Leave, Doze, work
  <2> QED BY <1>k, <2>1, <2>2, TakeOnce
<1>5. ASSUME NEW c \in Callers, Signal(c) \/ Stop(c) \/ StopWorkers(c) \/ StopWoken(c)
      PROVE  StartedOnce' /\ InHands'
  BY <1>k, <1>5 DEF Signal, Stop, StopWorkers, StopWoken, work
<1> QED BY <1>k, <1>1, <1>2, <1>3, <1>4, <1>5 DEF Next, vars, work, calls

\* A job is started once, however the adder, the signal, a time-out and stop
\* race for it.
THEOREM JobsStartedOnce == Spec => []StartedOnce
<1>1. Init => JobsInv
  <2> SUFFICES ASSUME Init PROVE StartedOnce /\ InHands
    BY TypesInit DEF JobsInv
  <2>1. Len(queue) = 0
    BY DEF Init
  <2> QED BY <2>1 DEF Init, StartedOnce, InHands, Queued
<1>2. JobsInv /\ [Next]_vars => JobsInv'
  BY JobsStep
<1> QED BY <1>1, <1>2, PTL DEF Spec, JobsInv
=============================================================================
