---------------------------- MODULE RedisCluster ----------------------------
(***************************************************************************)
(* A redis command in cluster mode: redis_command::run(cluster, ...) with  *)
(* peek_conn and redirect (aclredis/src/redis/redis_command.cpp), over the *)
(* slot table of redis_client_cluster and the pools of connect_manager.    *)
(*                                                                         *)
(* Several threads run commands on one cluster object. Every call of the   *)
(* cluster object or of a pool is a step of its own, so that other threads *)
(* come in between. The pools are those of ConnLease, the calls of the     *)
(* manager are atomic (ConnManager, with Asserts), and a run of a          *)
(* connection gives a reply, or leaves eof (RedisClient, NullMeansEof).    *)
(* The redis nodes (external) crash, restart, take a slot over and migrate *)
(* it. Requests are not empty: subscribers that only read are left out.    *)
(***************************************************************************)
EXTENDS Naturals, FiniteSets

CONSTANTS
  Threads, Nodes, NoNode, Slots,
  NoSlot,       \* slot_ = -1: a command without a key
  Configured,   \* nodes given to init or set
  RedirectMax,  \* redirect_max_
  MaxConns,     \* limit of each pool
  MaxEvents     \* BOUND: events in the redis cluster

ASSUME ClusterAssumption ==
  /\ IsFiniteSet(Threads) /\ IsFiniteSet(Nodes)
  /\ NoNode \notin Nodes /\ NoSlot \notin Slots
  /\ Configured \subseteq Nodes /\ Configured # {}
  /\ RedirectMax \in Nat \ {0} /\ MaxConns \in Nat \ {0} /\ MaxEvents \in Nat

VARIABLES
  slotAddrs,  \* slot_addrs_
  addrs,      \* addrs_ of the manager: the nodes it has a configuration for
  pools,      \* nodes that have a pool in the manager
  idle, lent, \* connections of each pool
  pc, slot,   \* each thread's place and slot_
  target,     \* the pool it turns to
  conn,       \* the node of the connection it holds
  moved,      \* last_moved
  asked,      \* the node has answered ASKING on this connection
  n,          \* rounds begun
  reply,      \* the reply to look at
  todo,       \* set_all_slot: what remains to be entered
  up, owner, importing, \* the redis cluster
  events,     \* events so far
  owned,      \* HISTORY: every owner a slot has had
  calm        \* HISTORY: nothing went wrong since the command began

table  == <<slotAddrs, addrs, pools>>
conns  == <<idle, lent>>
thread == <<pc, slot, target, conn, moved, asked, n, reply, todo>>
redis  == <<up, owner, importing, events, owned>>
vars   == <<table, conns, thread, redis, calm>>

Keys == Slots \cup {NoSlot}
Plain == {[kind |-> k, addr |-> NoNode] : k \in {"none", "ok", "error", "down"}}
Replies == Plain \cup [kind : {"MOVED", "ASK"}, addr : Nodes]
Reply(k) == [kind |-> k, addr |-> NoNode]

Init ==
  /\ slotAddrs = [s \in Slots |-> NoNode] /\ addrs = Configured /\ pools = {}
  /\ idle = [m \in Nodes |-> 0] /\ lent = [m \in Nodes |-> 0]
  /\ pc = [t \in Threads |-> "idle"] /\ slot = [t \in Threads |-> NoSlot]
  /\ target = [t \in Threads |-> NoNode] /\ conn = [t \in Threads |-> NoNode]
  /\ moved = [t \in Threads |-> FALSE] /\ asked = [t \in Threads |-> FALSE]
  /\ n = [t \in Threads |-> 0] /\ reply = [t \in Threads |-> Reply("none")]
  /\ todo = [t \in Threads |-> {}]
  /\ up = Nodes /\ owner \in [Slots -> Nodes]
  /\ importing = [s \in Slots |-> NoNode]
  /\ events = 0 /\ owned = [s \in Slots |-> {owner[s]}]
  /\ calm = [t \in Threads |-> FALSE]

Goto(t, place) == pc' = [pc EXCEPT ![t] = place]
Keep(t, place) == Goto(t, place) /\ UNCHANGED <<slot, target, conn, moved, asked, n, reply, todo>>

\* return: the result goes to the caller, what is left is reset by clear().
Finish(t) ==
  /\ Goto(t, "idle")
  /\ slot' = [slot EXCEPT ![t] = NoSlot] /\ target' = [target EXCEPT ![t] = NoNode]
  /\ moved' = [moved EXCEPT ![t] = FALSE] /\ asked' = [asked EXCEPT ![t] = FALSE]
  /\ n' = [n EXCEPT ![t] = 0] /\ reply' = [reply EXCEPT ![t] = Reply("none")]
  /\ calm' = [calm EXCEPT ![t] = FALSE]
  /\ UNCHANGED todo

\* hash_slot, then run.
Begin(t, s) ==
  /\ pc[t] = "idle"
  /\ Goto(t, "pick") /\ slot' = [slot EXCEPT ![t] = s]
  /\ calm' = [calm EXCEPT ![t] = up = Nodes]
  /\ UNCHANGED <<table, conns, target, conn, moved, asked, n, reply, todo, redis>>

-----------------------------------------------------------------------------
(* The slot table and the pools. *)

ClearSlot(s) == slotAddrs' = [k \in Slots |-> IF k = s THEN NoNode ELSE slotAddrs[k]]
SetSlot(s, m) == slotAddrs' = [slotAddrs EXCEPT ![s] = m]

\* peek_slot: the node of the slot, if it is known.
PeekSlot(s) == IF s = NoSlot THEN NoNode ELSE slotAddrs[s]

\* connect_pool::peek: an idle connection, or a new one within the limit.
CanGive(m) == idle[m] > 0 \/ (lent[m] < MaxConns /\ m \in up)
TakeFrom(m) ==
  /\ CanGive(m)
  /\ idle' = [idle EXCEPT ![m] = IF @ > 0 THEN @ - 1 ELSE 0]
  /\ lent' = [lent EXCEPT ![m] = @ + 1]

Put(t, keep) ==
  /\ lent' = [lent EXCEPT ![conn[t]] = @ - 1]
  /\ idle' = IF keep THEN [idle EXCEPT ![conn[t]] = @ + 1] ELSE idle
  /\ conn' = [conn EXCEPT ![t] = NoNode]

-----------------------------------------------------------------------------
(* peek_conn *)

\* The pool of the slot, or the next pool of peek(), which makes the pools of
\* all configured nodes when there is none. After CLUSTERDOWN the slot is -1.
PickSlot(t) ==
  /\ pc[t] = "pick" /\ PeekSlot(slot[t]) # NoNode
  /\ target' = [target EXCEPT ![t] = PeekSlot(slot[t])]
  /\ pools' = pools \cup {PeekSlot(slot[t])}
  /\ Goto(t, "take")
  /\ UNCHANGED <<slotAddrs, addrs, conns, slot, conn, moved, asked, n, reply, todo, redis, calm>>

PickAny(t) ==
  /\ pc[t] \in {"pick", "pickAny"}
  /\ pc[t] = "pick" => PeekSlot(slot[t]) = NoNode
  /\ pools' = IF pools = {} THEN addrs ELSE pools
  /\ \E m \in pools' : target' = [target EXCEPT ![t] = m]
  /\ Goto(t, IF pc[t] = "pick" THEN "take" ELSE "takeAny")
  /\ UNCHANGED <<slotAddrs, addrs, conns, slot, conn, moved, asked, n, reply, todo, redis, calm>>

StillFirst(t) == n[t]         \* mutant: a round is not counted
OneMore(t) == n[t] + 1

\* The next round, while there are rounds left.
Round(t) ==
  IF n[t] < RedirectMax
  THEN Goto(t, "run") /\ n' = [n EXCEPT ![t] = OneMore(t)]
  ELSE Goto(t, "tooMany") /\ UNCHANGED n

Take(t) ==
  /\ pc[t] \in {"take", "takeAny"}
  /\ TakeFrom(target[t])
  /\ conn' = [conn EXCEPT ![t] = target[t]]
  /\ Round(t)
  /\ UNCHANGED <<table, slot, target, moved, asked, reply, todo, redis, calm>>

\* No connection: peek() finds no live pool, or the pool is dead (others mark
\* it, and revive it), at its limit, or cannot connect. The slot whose pool gave
\* none is forgotten, and run returns.
TakeNothing(t) ==
  /\ \/ pc[t] \in {"pickAny", "take", "takeAny"}
     \/ pc[t] = "pick" /\ PeekSlot(slot[t]) = NoNode
  /\ Keep(t, IF pc[t] = "take" THEN "forget" ELSE "stop")
  /\ UNCHANGED <<table, conns, redis, calm>>

Forget(t) ==
  /\ pc[t] = "forget"
  /\ ClearSlot(slot[t])
  /\ Keep(t, "stop")
  /\ UNCHANGED <<addrs, pools, conns, redis, calm>>

\* Returns that hold no connection.
Stop(t) == pc[t] = "stop" /\ Finish(t) /\ UNCHANGED <<table, conns, conn, redis>>

-----------------------------------------------------------------------------
(* One round. *)

\* What the node answers to a command on its slot. "error" is every answer with
\* which run gives the connection back and returns: another error, a MOVED or an
\* ASK without an address, a result of no known type, none on an open connection.
Answers(t) ==
  LET m == conn[t]  s == slot[t] IN
  {Reply("error")} \cup
  IF s = NoSlot THEN {Reply("ok")}
  ELSE IF owner[s] = m
    THEN {Reply("ok")} \cup
         (IF importing[s] = NoNode THEN {} ELSE {[kind |-> "ASK", addr |-> importing[s]]})
    ELSE (IF asked[t] /\ importing[s] = m THEN {Reply("ok")}
          ELSE {[kind |-> "MOVED", addr |-> owner[s]]}) \cup
         (IF up = Nodes THEN {} ELSE {Reply("down")})

RunReply(t) ==
  /\ pc[t] = "run" /\ conn[t] \in up
  /\ \E r \in Answers(t) : reply' = [reply EXCEPT ![t] = r]
  /\ asked' = [asked EXCEPT ![t] = FALSE]
  /\ Goto(t, "reply")
  /\ UNCHANGED <<table, conns, slot, target, conn, moved, n, todo, redis, calm>>

\* The connection broke, also for the repetition.
RunEof(t) ==
  /\ pc[t] = "run"
  /\ calm' = [calm EXCEPT ![t] = FALSE]
  /\ asked' = [asked EXCEPT ![t] = FALSE]
  /\ Goto(t, "lost")
  /\ UNCHANGED <<table, conns, slot, target, conn, moved, n, reply, todo, redis>>

\* The slot is forgotten, the connection dropped, and another one peeked.
LostForget(t) ==
  /\ pc[t] = "lost"
  /\ ClearSlot(slot[t])
  /\ Keep(t, "drop")
  /\ UNCHANGED <<addrs, pools, conns, redis, calm>>

LostDrop(t) ==
  /\ pc[t] = "drop"
  /\ Put(t, FALSE)
  /\ moved' = [moved EXCEPT ![t] = TRUE]
  /\ Goto(t, "pick")
  /\ UNCHANGED <<table, slot, target, asked, n, reply, todo, redis, calm>>

Is(t, kind) == pc[t] = "reply" /\ reply[t].kind = kind

\* A success after a redirection is entered in the slot table.
Learns(t) == slot[t] # NoSlot /\ moved[t]

Learn(t) ==
  /\ Is(t, "ok") /\ Learns(t)
  /\ SetSlot(slot[t], conn[t])
  /\ Keep(t, "return")
  /\ UNCHANGED <<addrs, pools, conns, redis, calm>>

\* The connection goes back and run returns: a success, another error, or
\* more rounds than redirect_max.
Return(t) ==
  /\ \/ Is(t, "ok") /\ ~Learns(t)
     \/ Is(t, "error")
     \/ pc[t] \in {"return", "tooMany"}
  /\ Put(t, TRUE)
  /\ Finish(t)
  /\ UNCHANGED <<table, redis>>

\* MOVED and ASK: the connection goes back, redirect gets or makes the pool of
\* the address.
PutNothing(t) == conn' = [conn EXCEPT ![t] = NoNode] /\ UNCHANGED conns   \* mutant: leak
PutRedirected(t) == Put(t, TRUE)

ReplyRedirect(t) ==
  /\ Is(t, "MOVED") \/ Is(t, "ASK")
  /\ PutRedirected(t)
  /\ Goto(t, "redirect")
  /\ UNCHANGED <<table, slot, target, moved, asked, n, reply, todo, redis, calm>>

AddrAny(t) == CHOOSE m \in Nodes : TRUE      \* mutant: not the address of the reply
Addr(t) == reply[t].addr

Redirect(t) ==
  /\ pc[t] = "redirect"
  /\ target' = [target EXCEPT ![t] = Addr(t)]
  /\ addrs' = addrs \cup {Addr(t)} /\ pools' = pools \cup {Addr(t)}
  /\ Goto(t, "takeMoved")
  /\ UNCHANGED <<slotAddrs, conns, slot, conn, moved, asked, n, reply, todo, redis, calm>>

\* The loop of redirect() is left after its first pass, so that the pool that
\* cluster->peek() then gives is not used.
RedirectNothing(t) ==
  /\ pc[t] = "takeMoved"
  /\ Keep(t, "stop")
  /\ UNCHANGED <<table, conns, redis, calm>>

\* acl_doze in front of a later round changes nothing here: it waits only for a
\* pool whose address is not the target's, and redirect gives the target's pool.
RedirectMoved(t) ==
  /\ pc[t] = "takeMoved" /\ reply[t].kind = "MOVED"
  /\ TakeFrom(target[t])
  /\ conn' = [conn EXCEPT ![t] = target[t]]
  /\ moved' = [moved EXCEPT ![t] = TRUE]
  /\ Round(t)
  /\ UNCHANGED <<table, slot, target, asked, reply, todo, redis, calm>>

RedirectAsk(t) ==
  /\ pc[t] = "takeMoved" /\ reply[t].kind = "ASK"
  /\ TakeFrom(target[t])
  /\ conn' = [conn EXCEPT ![t] = target[t]]
  /\ Goto(t, "ask")
  /\ UNCHANGED <<table, slot, target, moved, asked, n, reply, todo, redis, calm>>

MovedAfterAskStill(t) == moved[t]       \* mutant: last_moved is not reset
MovedAfterAsk(t) == FALSE

AskingOk(t) ==
  /\ pc[t] = "ask" /\ conn[t] \in up
  /\ asked' = [asked EXCEPT ![t] = TRUE]
  /\ moved' = [moved EXCEPT ![t] = MovedAfterAsk(t)]
  /\ Round(t)
  /\ UNCHANGED <<table, conns, slot, target, conn, reply, todo, redis, calm>>

\* No reply, or another one than OK.
AskingFail(t, closed) ==
  /\ pc[t] = "ask"
  /\ Put(t, ~closed)
  /\ Finish(t)
  /\ UNCHANGED <<table, redis>>

\* CLUSTERDOWN: forget the slot, give the connection back, try any node.
DownForget(t) ==
  /\ Is(t, "down")
  /\ ClearSlot(slot[t])
  /\ Keep(t, "down")
  /\ UNCHANGED <<addrs, pools, conns, redis, calm>>

DownPut(t) ==
  /\ pc[t] = "down"
  /\ Put(t, TRUE)
  /\ Goto(t, "pickAny")
  /\ UNCHANGED <<table, slot, target, moved, asked, n, reply, todo, redis, calm>>

-----------------------------------------------------------------------------
(* set_all_slot: CLUSTER SLOTS of one node, then slot after slot. *)

Discover(t) ==
  /\ pc[t] = "idle"
  /\ todo' = [todo EXCEPT ![t] = {<<s, owner[s]>> : s \in Slots}]
  /\ Goto(t, "discover")
  /\ UNCHANGED <<table, conns, slot, target, conn, moved, asked, n, reply, redis, calm>>

DiscoverSet(t) ==
  /\ pc[t] = "discover"
  /\ \E e \in todo[t] :
       /\ SetSlot(e[1], e[2])
       /\ pools' = pools \cup ({e[2]} \cap addrs)
       /\ addrs' = addrs \cup {e[2]}
       /\ todo' = [todo EXCEPT ![t] = @ \ {e}]
  /\ Goto(t, IF todo'[t] = {} THEN "idle" ELSE "discover")
  /\ UNCHANGED <<conns, slot, target, conn, moved, asked, n, reply, redis, calm>>

-----------------------------------------------------------------------------
(* The redis cluster (external) *)

Event ==
  /\ events < MaxEvents
  /\ events' = events + 1
  /\ calm' = [t \in Threads |-> FALSE]
  /\ UNCHANGED <<table, conns, thread>>

Crash == Event /\ \E m \in up : up' = up \ {m} /\ UNCHANGED <<owner, importing, owned>>
Restart == Event /\ \E m \in Nodes \ up : up' = up \cup {m} /\ UNCHANGED <<owner, importing, owned>>
Migrate ==
  /\ Event
  /\ \E s \in Slots, m \in Nodes :
       /\ m # owner[s] /\ importing[s] = NoNode
       /\ importing' = [importing EXCEPT ![s] = m]
  /\ UNCHANGED <<up, owner, owned>>
\* The end of a migration, or a takeover after a failure.
NewOwner ==
  /\ Event
  /\ \E s \in Slots, m \in up :
       /\ importing[s] = m \/ owner[s] \notin up
       /\ owner' = [owner EXCEPT ![s] = m]
       /\ owned' = [owned EXCEPT ![s] = @ \cup {m}]
       /\ importing' = [importing EXCEPT ![s] = NoNode]
  /\ UNCHANGED up

-----------------------------------------------------------------------------
Step(t) ==
  \/ PickSlot(t) \/ PickAny(t) \/ Take(t) \/ TakeNothing(t) \/ Forget(t) \/ Stop(t)
  \/ RunReply(t) \/ RunEof(t) \/ LostForget(t) \/ LostDrop(t)
  \/ Learn(t) \/ Return(t) \/ ReplyRedirect(t) \/ Redirect(t)
  \/ RedirectNothing(t) \/ RedirectMoved(t) \/ RedirectAsk(t)
  \/ AskingOk(t) \/ (\E closed \in BOOLEAN : AskingFail(t, closed))
  \/ DownForget(t) \/ DownPut(t) \/ DiscoverSet(t)

Next ==
  \/ \E t \in Threads : Discover(t) \/ Step(t) \/ \E s \in Keys : Begin(t, s)
  \/ Crash \/ Restart \/ Migrate \/ NewOwner

Spec == Init /\ [][Next]_vars

-----------------------------------------------------------------------------
(* Properties *)

Places == {"idle", "pick", "pickAny", "take", "takeAny", "forget", "stop", "run", "lost",
           "drop", "reply", "return", "tooMany", "redirect", "takeMoved", "ask", "down",
           "discover"}
TypeOK ==
  /\ slotAddrs \in [Slots -> Nodes \cup {NoNode}]
  /\ addrs \subseteq Nodes /\ pools \subseteq addrs
  /\ idle \in [Nodes -> 0..MaxConns] /\ lent \in [Nodes -> 0..MaxConns]
  /\ pc \in [Threads -> Places] /\ slot \in [Threads -> Keys]
  /\ target \in [Threads -> Nodes \cup {NoNode}] /\ conn \in [Threads -> Nodes \cup {NoNode}]
  /\ moved \in [Threads -> BOOLEAN] /\ asked \in [Threads -> BOOLEAN]
  /\ n \in [Threads -> 0..RedirectMax] /\ reply \in [Threads -> Replies]
  /\ todo \in [Threads -> SUBSET (Slots \X Nodes)]
  /\ up \subseteq Nodes /\ owner \in [Slots -> Nodes]
  /\ importing \in [Slots -> Nodes \cup {NoNode}]
  /\ events \in 0..MaxEvents /\ owned \in [Slots -> SUBSET Nodes]
  /\ calm \in [Threads -> BOOLEAN]

\* The variables have their types (a pool never lends more than its limit), and
\* every connection taken from a pool is held by exactly one running command:
\* no path through the redirections, failures and returns loses one or gives
\* one back twice, and a command that has returned holds none.
LoansAccounted ==
  /\ TypeOK
  /\ \A m \in Nodes : lent[m] = Cardinality({t \in Threads : conn[t] = m})
  /\ \A t \in Threads : pc[t] = "idle" => conn[t] = NoNode

\* The slot table only holds addresses that once owned the slot: the target of
\* an ASK, which serves single keys of a slot, is not learned.
SlotLearnedFromOwner ==
  \A s \in Slots : slotAddrs[s] # NoNode => slotAddrs[s] \in owned[s]

\* In a cluster where all nodes are up, where nothing changes during the
\* command and no connection breaks, three rounds are enough: the node of a
\* stale slot entry, the owner (MOVED), and the importing node (ASK).
CalmRounds == \A t \in Threads : calm[t] => n[t] <= 3 /\ pc[t] # "tooMany"

\* A command returns, whatever the nodes and the other threads do: each of its
\* steps is nearer to the end of its round, and a round that begins is counted.
Stage(place) ==
  CASE place = "run" -> 8
    [] place \in {"reply", "lost"} -> 7
    [] place \in {"drop", "down"} -> 6
    [] place \in {"redirect", "pick", "pickAny"} -> 5
    [] place \in {"take", "takeAny", "takeMoved"} -> 4
    [] place = "ask" -> 3
    [] place = "forget" -> 2
    [] OTHER -> 1
ToGo(t) == 9 * (RedirectMax - n[t]) + Stage(pc[t])
StepsNearer ==
  [][\A t \in Threads :
       pc[t] \notin {"idle", "discover"} /\ pc'[t] # pc[t] =>
         pc'[t] = "idle" \/ ToGo(t)' < ToGo(t)]_vars
=============================================================================
