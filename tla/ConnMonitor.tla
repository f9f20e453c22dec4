---------------------------- MODULE ConnMonitor -----------------------------
(***************************************************************************)
(* acl::connect_monitor: the thread that checks whether the servers of the *)
(* pools answer, and tells the manager. connpool/connect_monitor.cpp, with *)
(* check_timer.cpp, check_client.cpp and check_rpc.cpp, and the service    *)
(* that runs a blocking check on a thread of its own and sends the end of  *)
(* it to the monitor's event loop (ipc/rpc.cpp, ipc/ipc_service.cpp).      *)
(*                                                                         *)
(* The monitor's thread runs one callback at a time, so a callback is an   *)
(* action. It takes the manager's lock for the list of the pools, and for  *)
(* each status it sets; in between only its own data are used. What        *)
(* interleaves with it: the callers of the pools and of the manager, the   *)
(* threads of the service, the servers, and the caller of stop.            *)
(***************************************************************************)
EXTENDS Integers, FiniteSets

CONSTANTS
  Addrs,      \* server addresses
  NoAddr,
  Checkers,   \* BOUND: the check_client objects there can be at a time
  NoChecker,
  Workers,    \* the threads of the service (BOUND, where it makes one per job)
  Modes       \* the services the monitor may have: see mode

ASSUME NoAddrAssumption == NoAddr \notin Addrs
ASSUME NoCheckerAssumption == NoChecker \notin Checkers
ASSUME FiniteAssumption == IsFiniteSet(Addrs) /\ IsFiniteSet(Checkers)
ASSUME ModesAssumption == Modes \subseteq {"none", "pool", "detached"}

VARIABLES
  pools,      \* the addresses of the manager's pools
  alive,      \* alive_ of the pool of each address
  up,         \* whether its server can be reached
  mode,       \* no service, one with a thread pool, one with a thread per job
  service,    \* rpc_service_: "none", "open", or deleted
  stop,       \* stop_
  graceful,   \* stop_graceful_
  asked,      \* the argument of stop, TRUE before the call
  pc,         \* where run is
  timer,      \* the timer is set
  addrs,      \* addrs_: how often an address was met since its check began;
              \* 2 stands for any number above 1
  of,         \* addr_ of each check_client, NoAddr when there is none
  phase,      \* what it is waiting for
  blocked,    \* blocked_
  aliving,    \* aliving_
  queued,     \* check_rpc requests no thread has taken
  told,       \* requests whose RPC_MSG is on its way to the monitor
  worker,     \* what each thread of the service does
  running,    \* the check it runs
  removed,    \* history: the addresses whose pool was removed
  dropped     \* history: a thread found no connection to the monitor

manager == <<pools, alive, up, removed>>
control == <<mode, service, stop, graceful, asked, pc>>
checks  == <<timer, addrs, of, phase, blocked, aliving>>
rpc     == <<queued, told, worker, running, dropped>>
vars    == <<manager, control, checks, rpc>>

Live == {k \in Checkers : of[k] # NoAddr}
Closing == {k \in Checkers : phase[k] = "closing"}

Init ==
  /\ pools \in SUBSET Addrs
  /\ alive = [a \in Addrs |-> TRUE] /\ up \in [Addrs -> BOOLEAN]
  /\ mode \in Modes
  /\ service = IF mode = "none" THEN "none" ELSE "open"
  /\ stop = FALSE /\ graceful = TRUE /\ asked = TRUE
  /\ pc = "events" /\ timer = TRUE
  /\ addrs = [a \in Addrs |-> 0]
  /\ of = [k \in Checkers |-> NoAddr] /\ phase = [k \in Checkers |-> "none"]
  /\ blocked = [k \in Checkers |-> TRUE] /\ aliving = [k \in Checkers |-> FALSE]
  /\ queued = {} /\ told = {} /\ dropped = FALSE
  /\ worker = [v \in Workers |-> "idle"] /\ running = [v \in Workers |-> NoChecker]
  /\ removed = {}

-----------------------------------------------------------------------------
(* The others: servers, callers of the manager and of the pools *)

Server(a) ==
  /\ up' = [up EXCEPT ![a] = ~@]
  /\ UNCHANGED <<pools, alive, removed, control, checks, rpc>>

Get(a) ==
  /\ a \notin pools
  /\ pools' = pools \cup {a} /\ alive' = [alive EXCEPT ![a] = TRUE]
  /\ UNCHANGED <<up, removed, control, checks, rpc>>

\* BOUND: an address loses its pool once.
Remove(a) ==
  /\ a \in pools \ removed
  /\ pools' = pools \ {a} /\ removed' = removed \cup {a}
  /\ UNCHANGED <<alive, up, control, checks, rpc>>

\* A caller's own connect fails, or a dead pool is tried again.
Callers(a) ==
  /\ a \in pools
  /\ alive' = [alive EXCEPT ![a] = ~@]
  /\ alive[a] => ~up[a]
  /\ UNCHANGED <<pools, up, removed, control, checks, rpc>>

\* connect_manager::set_pools_status, under the lock.
SetStatus(A, on) ==
  alive' = [a \in Addrs |-> IF a \in A \cap pools THEN on ELSE alive[a]]

-----------------------------------------------------------------------------
(* The monitor's callbacks *)

\* Mutant: the counts are not looked at.
DueAlways(met) == {a \in Addrs : met[a] > 0}

\* The addresses whose last check is over.
Due(met) == {a \in Addrs : met[a] = 1}

\* check_timer::timer_callback. A connection that cannot even be begun is a
\* verdict; for every other a check_client waits. One that is begun in the
\* last pass over the events has its own events in a pass that never comes.
Tick ==
  /\ pc \in {"events", "lastEvents"} /\ timer
  /\ LET met == [a \in Addrs |-> IF a \notin pools THEN addrs[a]
                                 ELSE IF addrs[a] = 0 THEN 1 ELSE 2]
         free == Checkers \ Live
     IN
       \E refused \in SUBSET {a \in Due(met) : ~up[a]} :
         LET opened == Due(met) \ refused IN
           /\ Cardinality(opened) <= Cardinality(free)
           /\ addrs' = [a \in Addrs |-> IF a \in refused THEN 0 ELSE met[a]]
           /\ SetStatus(refused, FALSE)
           /\ LET give == CHOOSE g \in [opened -> free] :
                            \A a, b \in opened : g[a] = g[b] => a = b
                  taken == {give[a] : a \in opened}
              IN
                /\ of' = [k \in Checkers |-> IF k \in taken
                            THEN CHOOSE a \in opened : give[a] = k ELSE of[k]]
                /\ phase' = [k \in Checkers |-> IF k \notin taken THEN phase[k]
                               ELSE IF pc = "lastEvents" THEN "late" ELSE "connecting"]
                /\ blocked' = [k \in Checkers |-> k \in taken \/ blocked[k]]
                /\ aliving' = [k \in Checkers |-> k \notin taken /\ aliving[k]]
  /\ UNCHANGED <<pools, up, removed, control, timer, rpc>>

\* check_client::open_callback and connect_monitor::on_open. rpc_service_ is
\* not NULL once it has been deleted.
Opened(k) ==
  /\ pc \in {"events", "lastEvents"} /\ phase[k] = "connecting" /\ up[of[k]]
  /\ aliving' = [aliving EXCEPT ![k] = TRUE]
  /\ IF service = "none"
       THEN /\ blocked' = [blocked EXCEPT ![k] = FALSE]
            /\ phase' = [phase EXCEPT ![k] = "checking"]
            /\ UNCHANGED queued
       ELSE /\ blocked' = [blocked EXCEPT ![k] = TRUE]
            /\ phase' = [phase EXCEPT ![k] = "rpc"]
            /\ queued' = queued \cup {k}
  /\ UNCHANGED <<manager, control, timer, addrs, of, told, worker, running, dropped>>

\* The connection is refused or takes too long: it is closed, aliving_ FALSE.
Refused(k) ==
  /\ pc \in {"events", "lastEvents"} /\ phase[k] = "connecting" /\ ~up[of[k]]
  /\ phase' = [phase EXCEPT ![k] = "closing"]
  /\ UNCHANGED <<manager, control, timer, addrs, of, blocked, aliving, rpc>>

\* nio_check, which a subclass may override to ask the server something, has
\* its answer, and closes.
NioCheck(k) ==
  /\ pc \in {"events", "lastEvents"} /\ phase[k] = "checking"
  /\ aliving' = [aliving EXCEPT ![k] = up[of[k]]]
  /\ phase' = [phase EXCEPT ![k] = "closing"]
  /\ UNCHANGED <<manager, control, timer, addrs, of, blocked, rpc>>

\* Mutant: the message is read, and the check stays as it was.
RpcOverIgnored(k) ==
  /\ pc \in {"events", "lastEvents"} /\ k \in told
  /\ told' = told \ {k}
  /\ UNCHANGED <<manager, control, checks, queued, worker, running, dropped>>

\* check_rpc::rpc_onover: the message of the thread has come.
RpcOver(k) ==
  /\ pc \in {"events", "lastEvents"} /\ k \in told
  /\ told' = told \ {k}
  /\ blocked' = [blocked EXCEPT ![k] = FALSE]
  /\ phase' = [phase EXCEPT ![k] = "closing"]
  /\ UNCHANGED <<manager, control, timer, addrs, of, aliving, queued, worker, running,
                 dropped>>

\* Mutant: the address keeps its entry.
ClosedKept(k) ==
  /\ pc \in {"close", "lastClose"} /\ phase[k] = "closing"
  /\ SetStatus({of[k]}, aliving[k])
  /\ of' = [of EXCEPT ![k] = NoAddr] /\ phase' = [phase EXCEPT ![k] = "none"]
  /\ blocked' = [blocked EXCEPT ![k] = TRUE]
  /\ aliving' = [aliving EXCEPT ![k] = FALSE]
  /\ UNCHANGED <<pools, up, removed, control, timer, addrs, rpc>>

\* The close of a stream is put off to the end of the pass over the events.
\* check_client::close_callback then sets the status, and removes the address
\* and the object.
Closed(k) ==
  /\ pc \in {"close", "lastClose"} /\ phase[k] = "closing"
  /\ SetStatus({of[k]}, aliving[k])
  /\ addrs' = [addrs EXCEPT ![of[k]] = 0]
  /\ of' = [of EXCEPT ![k] = NoAddr] /\ phase' = [phase EXCEPT ![k] = "none"]
  /\ blocked' = [blocked EXCEPT ![k] = TRUE]
  /\ aliving' = [aliving EXCEPT ![k] = FALSE]
  /\ UNCHANGED <<pools, up, removed, control, timer, rpc>>

\* aio_handle::check: the events, and then the streams that wait to be closed.
Pass ==
  \/ /\ pc \in {"events", "lastEvents"}
     /\ pc' = IF pc = "events" THEN "close" ELSE "lastClose"
     /\ UNCHANGED <<mode, service, stop, graceful, asked, manager, checks, rpc>>
  \/ /\ pc = "close" /\ Closing = {} /\ ~stop
     /\ pc' = "events"
     /\ UNCHANGED <<mode, service, stop, graceful, asked, manager, checks, rpc>>

-----------------------------------------------------------------------------
(* The threads of the service *)

\* A thread takes a request and a connection to the monitor's loop; without
\* one it forgets the request. A deleted service is not followed further.
PeekConn(v) ==
  /\ worker[v] = "idle" /\ service = "open"
  /\ \E k \in queued :
       /\ queued' = queued \ {k}
       /\ \/ /\ worker' = [worker EXCEPT ![v] = "check"]
             /\ running' = [running EXCEPT ![v] = k]
             /\ UNCHANGED dropped
          \/ dropped' = TRUE /\ UNCHANGED <<worker, running>>
  /\ UNCHANGED <<manager, control, checks, told>>

\* rpc_request::run: sio_check decides, and RPC_MSG is sent.
SioCheck(v) ==
  /\ worker[v] = "check"
  /\ LET k == running[v] IN
       /\ aliving' = [aliving EXCEPT ![k] = of[k] # NoAddr /\ up[of[k]]]
       /\ told' = told \cup {k}
  /\ worker' = [worker EXCEPT ![v] = "push"]
  /\ running' = [running EXCEPT ![v] = NoChecker]
  /\ UNCHANGED <<manager, control, timer, addrs, of, phase, blocked, queued, dropped>>

\* The connection goes back to the service.
PushConn(v) ==
  /\ worker[v] = "push" /\ service = "open"
  /\ worker' = [worker EXCEPT ![v] = "idle"]
  /\ UNCHANGED <<manager, control, checks, queued, told, running, dropped>>

-----------------------------------------------------------------------------
(* stop and the end of run *)

Stop ==
  /\ ~stop /\ stop' = TRUE
  /\ asked' \in BOOLEAN
  /\ UNCHANGED <<mode, service, graceful, pc, manager, checks, rpc>>

StopGraceful ==
  /\ stop /\ graceful # asked
  /\ graceful' = asked
  /\ UNCHANGED <<mode, service, stop, asked, pc, manager, checks, rpc>>

Idle == queued = {} /\ \A v \in Workers : worker[v] = "idle"

\* Mutant: the blocking checks are closed too.
FinishBlocked ==
  /\ pc = "close" /\ stop /\ Closing = {}
  /\ IF ~graceful \/ Live = {}
       THEN pc' = "delete" /\ UNCHANGED <<timer, phase>>
       ELSE /\ timer' = FALSE
            /\ phase' = [k \in Checkers |-> IF k \in Live THEN "closing" ELSE phase[k]]
            /\ pc' = "events"
  /\ UNCHANGED <<manager, mode, service, stop, graceful, asked, addrs, of, blocked, aliving,
                 rpc>>

\* check_timer::finish, between two passes over the events. It waits for the
\* checks: the timer is deleted, and what is not blocked is closed.
Finish ==
  /\ pc = "close" /\ stop /\ Closing = {}
  /\ IF ~graceful \/ Live = {}
       THEN pc' = "delete" /\ UNCHANGED <<timer, phase>>
       ELSE /\ timer' = FALSE
            /\ phase' = [k \in Checkers |-> IF k \in Live /\ ~blocked[k]
                                              THEN "closing" ELSE phase[k]]
            /\ pc' = "events"
  /\ UNCHANGED <<manager, mode, service, stop, graceful, asked, addrs, of, blocked, aliving,
                 rpc>>

\* Mutant: the threads of the service are not waited for.
DeleteServiceAtOnce ==
  /\ pc = "delete"
  /\ service' = IF mode = "none" THEN "none" ELSE "deleted"
  /\ pc' = "lastEvents"
  /\ UNCHANGED <<manager, mode, stop, graceful, asked, checks, rpc>>

\* delete rpc_service_. The destructor destroys the thread pool, which runs
\* what is queued and waits for the threads (ThreadPool.StopDrains); threads
\* of their own are detached.
DeleteService ==
  /\ pc = "delete"
  /\ mode = "pool" => Idle
  /\ service' = IF mode = "none" THEN "none" ELSE "deleted"
  /\ pc' = "lastEvents"
  /\ UNCHANGED <<manager, mode, stop, graceful, asked, checks, rpc>>

\* run makes one more pass over the events, and returns.
Over ==
  /\ pc = "lastClose" /\ Closing = {}
  /\ pc' = "over"
  /\ UNCHANGED <<manager, mode, service, stop, graceful, asked, checks, rpc>>

-----------------------------------------------------------------------------
Next ==
  \/ \E a \in Addrs : Server(a) \/ Get(a) \/ Remove(a) \/ Callers(a)
  \/ Tick \/ Pass \/ Stop \/ StopGraceful \/ Finish \/ DeleteService \/ Over
  \/ \E k \in Checkers : \/ Opened(k) \/ Refused(k) \/ NioCheck(k)
                         \/ RpcOver(k) \/ Closed(k)
  \/ \E v \in Workers : PeekConn(v) \/ SioCheck(v) \/ PushConn(v)

Spec == Init /\ [][Next]_vars

\* The monitor's thread and the service's are scheduled, a connect is answered
\* or times out, and a check ends. No pass over the events leaves out one that
\* stays ready for ever: that is SF. The servers, the callers and the caller
\* of stop need do nothing.
Fairness ==
  /\ SF_vars(Tick) /\ WF_vars(Pass)
  /\ WF_vars(StopGraceful) /\ WF_vars(Finish) /\ WF_vars(DeleteService) /\ WF_vars(Over)
  /\ \A k \in Checkers : /\ SF_vars(Opened(k) \/ Refused(k) \/ NioCheck(k) \/ RpcOver(k))
                         /\ WF_vars(Closed(k))
  /\ \A v \in Workers : WF_vars(PeekConn(v)) /\ WF_vars(SioCheck(v)) /\ WF_vars(PushConn(v))

FairSpec == Spec /\ Fairness

-----------------------------------------------------------------------------
(* Properties *)

TypeOK ==
  /\ pools \subseteq Addrs /\ removed \subseteq Addrs
  /\ alive \in [Addrs -> BOOLEAN] /\ up \in [Addrs -> BOOLEAN]
  /\ mode \in Modes /\ service \in {"none", "open", "deleted"}
  /\ {stop, graceful, asked, timer, dropped} \subseteq BOOLEAN
  /\ pc \in {"events", "close", "delete", "lastEvents", "lastClose", "over"}
  /\ addrs \in [Addrs -> 0..2]
  /\ of \in [Checkers -> Addrs \cup {NoAddr}]
  /\ phase \in [Checkers -> {"none", "connecting", "late", "checking", "rpc", "closing"}]
  /\ \A k \in Checkers : phase[k] = "none" <=> of[k] = NoAddr
  /\ blocked \in [Checkers -> BOOLEAN] /\ aliving \in [Checkers -> BOOLEAN]
  /\ queued \subseteq Checkers /\ told \subseteq Checkers
  /\ worker \in [Workers -> {"idle", "check", "push"}]
  /\ running \in [Workers -> Checkers \cup {NoChecker}]

\* A thread of the service, its request and its message hold a reference to
\* the check_client: until the message has come, neither a verdict nor stop
\* closes the check, and only one of the three has it.
CheckerKept ==
  /\ \A k \in queued \cup told : phase[k] = "rpc" /\ blocked[k]
  /\ \A v \in Workers : worker[v] = "check" =>
       /\ phase[running[v]] = "rpc" /\ blocked[running[v]]
       /\ running[v] \notin queued \cup told
       /\ \A u \in Workers \ {v} : running[u] # running[v]
  /\ queued \cap told = {}

\* After a graceful stop nobody uses the deleted service, the last pass over
\* the events included, but detached threads that give their connection back.
ServiceKept ==
  service = "deleted" /\ asked =>
    /\ queued = {}
    /\ \A v \in Workers : worker[v] = "idle" \/ (mode = "detached" /\ worker[v] = "push")

\* The variables have their types, and the counts of addrs_ keep the checks of
\* an address apart: one at a time, and none is forgotten, unless the address
\* lost its pool meanwhile.
OneCheckPerAddr ==
  /\ TypeOK
  /\ \A a \in Addrs \ removed :
       LET mine == {k \in Live : of[k] = a} IN
         Cardinality(mine) <= 1 /\ (addrs[a] > 0 <=> mine # {})

\* A graceful stop has waited for every check that had begun.
WaitedFor ==
  pc \in {"lastEvents", "lastClose", "over"} /\ asked =>
    \A k \in Live : phase[k] = "late"

\* A graceful stop leaves nothing behind that still uses what is deleted.
StopClean == ServiceKept /\ WaitedFor

\* A server that stays up, or down, is seen to be so again and again while its
\* pool is there, whatever the callers make of it and however the checks end.
Noticed ==
  \A a \in Addrs :
    /\ <>[](a \in pools /\ up[a] /\ ~stop /\ ~dropped) => []<>alive[a]
    /\ <>[](a \in pools /\ ~up[a] /\ ~stop /\ ~dropped) => []<>~alive[a]

\* run returns after stop, unless the request of a check was dropped.
StopReturns == stop ~> (pc = "over" \/ dropped)

\* check_timer.cpp:77 "a value above 1 says that the last check of the address is
\* not over", and then there is no new one. The timer counts only the pools that
\* are there: an address that lost its pool keeps its 1 and is checked once more.
OneCheckAtATime == \A a \in Addrs : Cardinality({k \in Live : of[k] = a}) <= 1

\* connect_monitor.hpp:55 says of stop that it stops the thread. A check whose
\* request the service dropped stays blocked, and nobody closes it.
StopEndsRun == stop ~> pc = "over"

\* connect_monitor.hpp says of stop(true) that the thread returns when all
\* the checks are closed. The timer is only deleted when there are some: the
\* last pass may begin new ones.
GracefulLeavesNothing == pc = "over" /\ asked => Live = {}
=============================================================================
