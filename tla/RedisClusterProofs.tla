------------------------- MODULE RedisClusterProofs -------------------------
(***************************************************************************)
(* Theorems about RedisCluster for any number of threads, nodes and slots, *)
(* any limits, and whatever the nodes do: the connections of the pools are *)
(* accounted for, the slot table learns owners only, and a calm cluster    *)
(* answers in three rounds.                                                *)
(***************************************************************************)
EXTENDS RedisCluster, FiniteSetTheorems, TLAPS

-----------------------------------------------------------------------------
(* The inductive invariant. *)

\* Where a command holds a connection.
Holding == {"run", "lost", "drop", "reply", "return", "tooMany", "ask", "down"}

\* The table, the manager's configuration and the cluster. Every address that
\* is in use is configured.
TableInv ==
  /\ slotAddrs \in [Slots -> Nodes \cup {NoNode}]
  /\ addrs \subseteq Nodes /\ pools \subseteq addrs
  /\ up \subseteq Nodes /\ owner \in [Slots -> Nodes]
  /\ importing \in [Slots -> Nodes \cup {NoNode}]
  /\ events \in 0..MaxEvents /\ owned \in [Slots -> SUBSET Nodes]
  /\ \A s \in Slots : slotAddrs[s] \in addrs \cup {NoNode}

\* The commands. A redirected one has the address that the reply named.
ThreadInv ==
  /\ pc \in [Threads -> Places] /\ slot \in [Threads -> Keys]
  /\ target \in [Threads -> addrs \cup {NoNode}] /\ conn \in [Threads -> addrs \cup {NoNode}]
  /\ moved \in [Threads -> BOOLEAN] /\ asked \in [Threads -> BOOLEAN]
  /\ n \in [Threads -> 0..RedirectMax] /\ reply \in [Threads -> Replies]
  /\ todo \in [Threads -> SUBSET (Slots \X Nodes)]
  /\ calm \in [Threads -> BOOLEAN]
  /\ \A t \in Threads :
       /\ conn[t] # NoNode <=> pc[t] \in Holding
       /\ pc[t] \in {"take", "takeAny", "takeMoved"} => target[t] # NoNode
       /\ pc[t] \in {"redirect", "takeMoved"} => reply[t].kind \in {"MOVED", "ASK"}

\* A pool has lent what its holders hold, and its limit holds for both.
Holders(m) == {t \in Threads : conn[t] = m}
LoanInv ==
  /\ idle \in [Nodes -> 0..MaxConns] /\ lent \in [Nodes -> 0..MaxConns]
  /\ \A m \in Nodes : lent[m] = Cardinality(Holders(m)) /\ idle[m] + lent[m] <= MaxConns

ClusterInv == TableInv /\ ThreadInv /\ LoanInv

-----------------------------------------------------------------------------
(* The table. *)

LEMMA ForgetTable ==
  ASSUME TableInv, NEW s, ClearSlot(s), UNCHANGED <<addrs, pools, redis>>
  PROVE  TableInv'
BY DEF TableInv, ClearSlot, redis

LEMMA LearnTable ==
  ASSUME TableInv, NEW s \in Slots, NEW m \in addrs', m \in Nodes, SetSlot(s, m),
         addrs \subseteq addrs', addrs' \subseteq Nodes, pools' \subseteq addrs',
         UNCHANGED redis
  PROVE  TableInv'
BY DEF TableInv, SetSlot, redis

LEMMA TableStep == ClusterInv /\ [Next]_vars => TableInv'
<1> SUFFICES ASSUME ClusterInv, [Next]_vars PROVE TableInv'
  OBVIOUS
<1> USE DEF table
<1>0. TableInv /\ ThreadInv
  BY DEF ClusterInv
<1>1. CASE UNCHANGED <<table, redis>>
  BY <1>0, <1>1 DEF TableInv, redis
<1>2. ASSUME NEW t \in Threads,
             Discover(t) \/ Take(t) \/ TakeNothing(t) \/ Stop(t) \/ RunReply(t) \/ RunEof(t)
               \/ LostDrop(t) \/ Return(t) \/ ReplyRedirect(t) \/ RedirectNothing(t)
               \/ RedirectMoved(t) \/ RedirectAsk(t) \/ AskingOk(t) \/ DownPut(t)
               \/ (\E closed \in BOOLEAN : AskingFail(t, closed)) \/ (\E s \in Keys : Begin(t, s))
      PROVE  TableInv'
  BY <1>1, <1>2
     DEF Discover, Take, TakeNothing, Stop, RunReply, RunEof, LostDrop, Return, ReplyRedirect,
         RedirectNothing, RedirectMoved, RedirectAsk, AskingOk, DownPut, AskingFail, Begin
<1>3. ASSUME NEW t \in Threads, Forget(t) \/ LostForget(t) \/ DownForget(t) PROVE TableInv'
  BY <1>0, <1>3, ForgetTable DEF Forget, LostForget, DownForget
<1>4. ASSUME NEW t \in Threads, PickSlot(t) PROVE TableInv'
  BY <1>0, <1>4 DEF PickSlot, PeekSlot, TableInv, ThreadInv, Keys, redis
<1>5. ASSUME NEW t \in Threads, PickAny(t) PROVE TableInv'
  BY <1>0, <1>5 DEF PickAny, TableInv, redis
<1>6. ASSUME NEW t \in Threads, Redirect(t) PROVE TableInv'
  <2>1. Addr(t) \in Nodes
    BY <1>0, <1>6 DEF Redirect, Addr, ThreadInv, Replies, Plain
  <2> QED BY <1>0, <1>6, <2>1 DEF Redirect, TableInv, redis
<1>7. ASSUME NEW t \in Threads, Learn(t) PROVE TableInv'
  <2>1. slot[t] \in Slots /\ conn[t] \in addrs
    BY <1>0, <1>7 DEF Learn, Learns, Is, ThreadInv, Keys, Holding
  <2>2. SetSlot(slot[t], conn[t]) /\ UNCHANGED <<addrs, pools, redis>>
    BY <1>7 DEF Learn
  <2> QED BY <1>0, <2>1, <2>2, LearnTable DEF TableInv
<1>8. ASSUME NEW t \in Threads, DiscoverSet(t) PROVE TableInv'
  <2>1. PICK e \in todo[t] : /\ SetSlot(e[1], e[2])
                             /\ pools' = pools \cup ({e[2]} \cap addrs)
                             /\ addrs' = addrs \cup {e[2]}
    BY <1>8 DEF DiscoverSet
  <2>2. e[1] \in Slots /\ e[2] \in Nodes
    BY <1>0 DEF ThreadInv
  <2>3. UNCHANGED redis
    BY <1>8 DEF DiscoverSet
  <2> QED BY <1>0, <2>1, <2>2, <2>3, LearnTable DEF TableInv
<1>9. CASE Crash \/ Restart \/ Migrate
  <2>1. events' \in 0..MaxEvents /\ UNCHANGED <<table, owner, owned>>
    BY <1>0, <1>9, ClusterAssumption DEF Crash, Restart, Migrate, Event, TableInv
  <2>2. up' \subseteq Nodes /\ importing' \in [Slots -> Nodes \cup {NoNode}]
    BY <1>0, <1>9 DEF Crash, Restart, Migrate, TableInv
  <2> QED BY <1>0, <2>1, <2>2 DEF TableInv
<1>10. CASE NewOwner
  <2>1. events' \in 0..MaxEvents /\ UNCHANGED <<table, up>>
    BY <1>0, <1>10, ClusterAssumption DEF NewOwner, Event, TableInv
  <2>2. PICK s \in Slots, m \in up : /\ owner' = [owner EXCEPT ![s] = m]
                                     /\ owned' = [owned EXCEPT ![s] = owned[s] \cup {m}]
                                     /\ importing' = [importing EXCEPT ![s] = NoNode]
    BY <1>10 DEF NewOwner
  <2> QED BY <1>0, <2>1, <2>2 DEF TableInv
<1>11. CASE UNCHANGED vars
  BY <1>1, <1>11 DEF vars
<1> QED BY <1>2, <1>3, <1>4, <1>5, <1>6, <1>7, <1>8, <1>9, <1>10, <1>11 DEF Next, Step

-----------------------------------------------------------------------------
(* The commands. *)

\* A round is begun, or one is too many; either way a connection is held.
LEMMA RoundThread ==
  ASSUME ThreadInv, NEW t \in Threads, Round(t), UNCHANGED <<slot, target, todo, reply, calm>>,
         addrs' = addrs, moved' \in [Threads -> BOOLEAN], asked' \in [Threads -> BOOLEAN],
         conn' \in [Threads -> addrs \cup {NoNode}], conn'[t] # NoNode,
         \A u \in Threads \ {t} : conn'[u] = conn[u]
  PROVE  ThreadInv'
<1>1. /\ pc' = [pc EXCEPT ![t] = "run"] \/ pc' = [pc EXCEPT ![t] = "tooMany"]
      /\ n' \in [Threads -> 0..RedirectMax]
  BY ClusterAssumption DEF ThreadInv, Round, Goto, OneMore
<1> QED BY <1>1 DEF ThreadInv, Places, Holding

\* The steps that only go somewhere else.
LEMMA KeepThread ==
  ASSUME ThreadInv, NEW t \in Threads, NEW p \in Places, Keep(t, p), UNCHANGED calm,
         addrs' = addrs, p \in Holding <=> pc[t] \in Holding,
         p \notin {"take", "takeAny", "takeMoved", "redirect"}
  PROVE  ThreadInv'
BY DEF ThreadInv, Keep, Goto

LEMMA FinishThread ==
  ASSUME ThreadInv, NEW t \in Threads, Finish(t), addrs' = addrs,
         conn' = [conn EXCEPT ![t] = NoNode]
  PROVE  ThreadInv'
<1>1. /\ 0 \in 0..RedirectMax /\ Reply("none") \in Replies
      /\ NoSlot \in Keys
  BY ClusterAssumption DEF Replies, Reply, Plain, Keys
<1> QED BY <1>1 DEF ThreadInv, Finish, Goto, Places, Holding

LEMMA ThreadStep == ClusterInv /\ [Next]_vars => ThreadInv'
<1> SUFFICES ASSUME ClusterInv, [Next]_vars PROVE ThreadInv'
  OBVIOUS
<1> USE DEF table, thread
<1>0. TableInv /\ ThreadInv
  BY DEF ClusterInv
<1>1. ASSUME NEW t \in Threads, NEW s \in Keys, Begin(t, s) PROVE ThreadInv'
  BY <1>0, <1>1 DEF Begin, Goto, ThreadInv, Places, Holding
<1>2. ASSUME NEW t \in Threads, PickSlot(t) PROVE ThreadInv'
  <2>1. PeekSlot(slot[t]) \in addrs
    BY <1>0, <1>2 DEF PickSlot, PeekSlot, ThreadInv, TableInv, Keys
  <2> QED BY <1>0, <1>2, <2>1 DEF PickSlot, Goto, ThreadInv, Places, Holding
<1>3. ASSUME NEW t \in Threads, PickAny(t) PROVE ThreadInv'
  <2>1. PICK m \in pools' : target' = [target EXCEPT ![t] = m]
    BY <1>3 DEF PickAny
  <2>2. m \in addrs /\ m # NoNode
    BY <1>0, <1>3, ClusterAssumption DEF PickAny, TableInv
  <2>3. /\ pc' = [pc EXCEPT ![t] = "take"] \/ pc' = [pc EXCEPT ![t] = "takeAny"]
        /\ pc[t] \in {"pick", "pickAny"}
        /\ UNCHANGED <<addrs, slot, conn, moved, asked, n, reply, todo, calm>>
    BY <1>3 DEF PickAny, Goto
  <2> QED BY <1>0, <2>1, <2>2, <2>3 DEF ThreadInv, Places, Holding
<1>4. ASSUME NEW t \in Threads, Take(t) \/ RedirectMoved(t) PROVE ThreadInv'
  <2>1. /\ conn' = [conn EXCEPT ![t] = target[t]] /\ Round(t) /\ target[t] # NoNode
        /\ UNCHANGED <<slot, target, todo, reply, calm, addrs, asked>>
        /\ moved' = moved \/ moved' = [moved EXCEPT ![t] = TRUE]
    BY <1>0, <1>4 DEF Take, RedirectMoved, ThreadInv
  <2>2. /\ conn' \in [Threads -> addrs \cup {NoNode}] /\ conn'[t] # NoNode
        /\ \A u \in Threads \ {t} : conn'[u] = conn[u]
        /\ moved' \in [Threads -> BOOLEAN] /\ asked' \in [Threads -> BOOLEAN]
    BY <1>0, <2>1 DEF ThreadInv
  <2> QED BY <1>0, <2>1, <2>2, RoundThread
<1>5. ASSUME NEW t \in Threads,
             TakeNothing(t) \/ Forget(t) \/ LostForget(t) \/ Learn(t) \/ RedirectNothing(t)
               \/ DownForget(t)
      PROVE  ThreadInv'
  <2>1. /\ UNCHANGED <<addrs, calm>>
        /\ \/ Keep(t, "forget") /\ pc[t] = "take"
           \/ Keep(t, "stop") /\ pc[t] \in {"pick", "pickAny", "take", "takeAny", "forget",
                                             "takeMoved"}
           \/ Keep(t, "drop") /\ pc[t] = "lost"
           \/ Keep(t, "return") /\ pc[t] = "reply"
           \/ Keep(t, "down") /\ pc[t] = "reply"
    BY <1>5 DEF TakeNothing, Forget, LostForget, Learn, RedirectNothing, DownForget, Is
  <2> QED BY <1>0, <2>1, KeepThread DEF Places, Holding
<1>6. ASSUME NEW t \in Threads, Stop(t) PROVE ThreadInv'
  <2>1. conn[t] = NoNode /\ conn' = conn /\ Finish(t) /\ addrs' = addrs
    BY <1>0, <1>6 DEF Stop, ThreadInv, Holding
  <2> QED BY <1>0, <2>1, FinishThread DEF ThreadInv
<1>7. ASSUME NEW t \in Threads, Return(t) \/ \E closed \in BOOLEAN : AskingFail(t, closed)
      PROVE  ThreadInv'
  BY <1>0, <1>7, FinishThread DEF Return, AskingFail, Put
<1>8. ASSUME NEW t \in Threads, RunReply(t) PROVE ThreadInv'
  <2>1. Answers(t) \subseteq Replies
    <3>1. conn[t] \in Nodes /\ slot[t] \in Slots \cup {NoSlot}
      BY <1>0, <1>8 DEF RunReply, ThreadInv, TableInv, Keys, Holding
    <3>2. \A k \in {"ok", "error", "down"} : Reply(k) \in Replies
      BY DEF Reply, Replies, Plain
    <3>3. \A m \in Nodes : /\ [kind |-> "ASK", addr |-> m] \in Replies
                           /\ [kind |-> "MOVED", addr |-> m] \in Replies
      BY DEF Replies
    <3> QED BY <1>0, <3>1, <3>2, <3>3 DEF Answers, TableInv
  <2>2. PICK r \in Replies : reply' = [reply EXCEPT ![t] = r]
    BY <1>8, <2>1 DEF RunReply
  <2> QED BY <1>0, <1>8, <2>2 DEF RunReply, Goto, ThreadInv, Places, Holding
<1>9. ASSUME NEW t \in Threads, RunEof(t) PROVE ThreadInv'
  BY <1>0, <1>9 DEF RunEof, Goto, ThreadInv, Places, Holding
<1>10. ASSUME NEW t \in Threads, LostDrop(t) \/ ReplyRedirect(t) \/ DownPut(t)
       PROVE  ThreadInv'
  <2>1. /\ \E p \in {"pick", "redirect", "pickAny"} :
             /\ pc' = [pc EXCEPT ![t] = p]
             /\ p = "redirect" => reply[t].kind \in {"MOVED", "ASK"}
        /\ conn' = [conn EXCEPT ![t] = NoNode]
        /\ moved' = moved \/ moved' = [moved EXCEPT ![t] = TRUE]
        /\ UNCHANGED <<addrs, slot, target, asked, n, reply, todo, calm>>
    BY <1>10 DEF LostDrop, ReplyRedirect, DownPut, PutRedirected, Put, Is, Goto
  <2>2. moved' \in [Threads -> BOOLEAN] /\ conn' \in [Threads -> addrs \cup {NoNode}]
    BY <1>0, <2>1 DEF ThreadInv
  <2>3. PICK p \in {"pick", "redirect", "pickAny"} :
          /\ pc' = [pc EXCEPT ![t] = p]
          /\ p = "redirect" => reply[t].kind \in {"MOVED", "ASK"}
    BY <2>1
  <2>4. p \in Places /\ p \notin Holding /\ p \notin {"take", "takeAny", "takeMoved"}
    BY DEF Places, Holding
  <2>5. ASSUME NEW u \in Threads
        PROVE  /\ conn'[u] # NoNode <=> pc'[u] \in Holding
               /\ pc'[u] \in {"take", "takeAny", "takeMoved"} => target'[u] # NoNode
               /\ pc'[u] \in {"redirect", "takeMoved"} => reply'[u].kind \in {"MOVED", "ASK"}
    <3>1. CASE u = t
      BY <1>0, <2>1, <2>3, <2>4, <3>1 DEF ThreadInv
    <3>2. CASE u # t
      BY <1>0, <2>1, <2>3, <3>2 DEF ThreadInv
    <3> QED BY <3>1, <3>2
  <2> QED BY <1>0, <2>1, <2>2, <2>3, <2>4, <2>5 DEF ThreadInv
<1>11. ASSUME NEW t \in Threads, Redirect(t) PROVE ThreadInv'
  <2>1. Addr(t) \in Nodes /\ Addr(t) # NoNode
    BY <1>0, <1>11, ClusterAssumption DEF Redirect, Addr, ThreadInv, Replies, Plain
  <2> QED BY <1>0, <1>11, <2>1 DEF Redirect, Goto, ThreadInv, Places, Holding
<1>12. ASSUME NEW t \in Threads, RedirectAsk(t) PROVE ThreadInv'
  BY <1>0, <1>12 DEF RedirectAsk, Goto, ThreadInv, Places, Holding
<1>13. ASSUME NEW t \in Threads, AskingOk(t) PROVE ThreadInv'
  <2>1. /\ conn' = conn /\ conn[t] # NoNode /\ Round(t)
        /\ UNCHANGED <<slot, target, todo, reply, calm, addrs>>
        /\ moved' \in [Threads -> BOOLEAN] /\ asked' \in [Threads -> BOOLEAN]
    BY <1>0, <1>13 DEF AskingOk, MovedAfterAsk, ThreadInv, Holding
  <2>2. conn' \in [Threads -> addrs \cup {NoNode}]
    BY <1>0, <2>1 DEF ThreadInv
  <2> QED BY <1>0, <2>1, <2>2, RoundThread
<1>14. ASSUME NEW t \in Threads, Discover(t) PROVE ThreadInv'
  <2>1. {<<s, owner[s]>> : s \in Slots} \in SUBSET (Slots \X Nodes)
    BY <1>0 DEF TableInv
  <2> QED BY <1>0, <1>14, <2>1 DEF Discover, Goto, ThreadInv, Places, Holding
<1>15. ASSUME NEW t \in Threads, DiscoverSet(t) PROVE ThreadInv'
  <2>1. /\ addrs \subseteq addrs' /\ pc[t] = "discover"
        /\ pc' = [pc EXCEPT ![t] = "idle"] \/ pc' = [pc EXCEPT ![t] = "discover"]
        /\ UNCHANGED <<slot, target, conn, moved, asked, n, reply, calm>>
    BY <1>15 DEF DiscoverSet, Goto
  <2>2. todo' \in [Threads -> SUBSET (Slots \X Nodes)]
    BY <1>0, <1>15 DEF DiscoverSet, ThreadInv
  <2> QED BY <1>0, <2>1, <2>2 DEF ThreadInv, Places, Holding
<1>16. CASE Crash \/ Restart \/ Migrate \/ NewOwner
  BY <1>0, <1>16 DEF Crash, Restart, Migrate, NewOwner, Event, ThreadInv
<1>17. CASE UNCHANGED vars
  BY <1>0, <1>17 DEF vars, ThreadInv
<1> QED BY <1>1, <1>2, <1>3, <1>4, <1>5, <1>6, <1>7, <1>8, <1>9, <1>10, <1>11, <1>12, <1>13,
           <1>14, <1>15, <1>16, <1>17
        DEF Next, Step

-----------------------------------------------------------------------------
(* The loans. *)

LEMMA HolderFacts ==
  ASSUME LoanInv, NEW m \in Nodes
  PROVE  /\ IsFiniteSet(Holders(m)) /\ lent[m] = Cardinality(Holders(m))
         /\ \A t \in Threads \ Holders(m) : Cardinality(Holders(m) \cup {t}) = lent[m] + 1
         /\ \A t \in Holders(m) : Cardinality(Holders(m) \ {t}) = lent[m] - 1 /\ lent[m] > 0
<1>1. IsFiniteSet(Holders(m)) /\ lent[m] = Cardinality(Holders(m)) /\ Cardinality(Holders(m)) \in Nat
  BY ClusterAssumption, FS_Subset, FS_CardinalityType DEF Holders, LoanInv
<1>2. ASSUME NEW t \in Holders(m) PROVE Cardinality(Holders(m)) # 0
  BY <1>1, FS_EmptySet
<1> QED BY <1>1, <1>2, FS_AddElement, FS_RemoveElement

\* What changes at one node.
LEMMA OneNodeLoans ==
  ASSUME LoanInv, NEW m \in Nodes, NEW i \in 0..MaxConns, NEW l \in 0..MaxConns,
         idle' = [idle EXCEPT ![m] = i], lent' = [lent EXCEPT ![m] = l], i + l <= MaxConns,
         l = Cardinality(Holders(m)'), \A k \in Nodes \ {m} : Holders(k)' = Holders(k)
  PROVE  LoanInv'
<1>1. idle' \in [Nodes -> 0..MaxConns] /\ lent' \in [Nodes -> 0..MaxConns]
  BY DEF LoanInv
<1>2. ASSUME NEW k \in Nodes
      PROVE  lent'[k] = Cardinality(Holders(k)') /\ idle'[k] + lent'[k] <= MaxConns
  <2>1. CASE k = m
    BY <2>1 DEF LoanInv
  <2>2. CASE k # m
    <3>1. idle'[k] = idle[k] /\ lent'[k] = lent[k] /\ Holders(k)' = Holders(k)
      BY <2>2 DEF LoanInv
    <3>2. lent[k] = Cardinality(Holders(k)) /\ idle[k] + lent[k] <= MaxConns
      BY DEF LoanInv
    <3> QED BY <3>1, <3>2
  <2> QED BY <2>1, <2>2
<1> QED BY <1>1, <1>2 DEF LoanInv

LEMMA TakeLoans ==
  ASSUME ClusterInv, NEW t \in Threads, conn[t] = NoNode, NEW m \in Nodes, TakeFrom(m),
         conn' = [conn EXCEPT ![t] = m]
  PROVE  LoanInv'
<1>0. /\ LoanInv /\ MaxConns \in Nat /\ m # NoNode /\ conn \in [Threads -> addrs \cup {NoNode}]
      /\ idle[m] \in 0..MaxConns /\ lent[m] \in 0..MaxConns /\ idle[m] + lent[m] <= MaxConns
  BY ClusterAssumption DEF ClusterInv, LoanInv, ThreadInv
<1> DEFINE i == IF idle[m] > 0 THEN idle[m] - 1 ELSE 0
           l == lent[m] + 1
<1>1. idle' = [idle EXCEPT ![m] = i] /\ lent' = [lent EXCEPT ![m] = l]
  BY DEF TakeFrom
<1>2. i \in 0..MaxConns /\ l \in 0..MaxConns /\ i + l <= MaxConns
  BY <1>0 DEF TakeFrom, CanGive
<1>3. Holders(m)' = Holders(m) \cup {t} /\ t \notin Holders(m)
  BY <1>0 DEF Holders
<1>4. \A k \in Nodes \ {m} : Holders(k)' = Holders(k)
  BY <1>0, ClusterAssumption DEF Holders
<1>5. l = Cardinality(Holders(m)')
  BY <1>0, <1>3, HolderFacts
<1> HIDE DEF i, l
<1> QED BY <1>0, <1>1, <1>2, <1>4, <1>5, OneNodeLoans

LEMMA PutLoans ==
  ASSUME ClusterInv, NEW t \in Threads, conn[t] # NoNode, NEW keep \in BOOLEAN, Put(t, keep)
  PROVE  LoanInv'
<1>m. PICK m \in Nodes : m = conn[t]
  BY DEF ClusterInv, ThreadInv, TableInv
<1> DEFINE i == IF keep THEN idle[m] + 1 ELSE idle[m]
           l == lent[m] - 1
<1>0. /\ LoanInv /\ MaxConns \in Nat /\ m # NoNode
      /\ conn \in [Threads -> addrs \cup {NoNode}] /\ idle \in [Nodes -> 0..MaxConns]
      /\ idle[m] \in 0..MaxConns /\ lent[m] \in 0..MaxConns /\ idle[m] + lent[m] <= MaxConns
  BY <1>m, ClusterAssumption DEF ClusterInv, LoanInv, ThreadInv, TableInv
<1>1. t \in Holders(m)
  BY <1>m DEF Holders
<1>2. Cardinality(Holders(m) \ {t}) = l /\ lent[m] > 0
  BY <1>0, <1>1, HolderFacts
<1>3. idle' = [idle EXCEPT ![m] = i] /\ lent' = [lent EXCEPT ![m] = l]
  BY <1>0, <1>m DEF Put
<1>4. i \in 0..MaxConns /\ l \in 0..MaxConns /\ i + l <= MaxConns
  BY <1>0, <1>2
<1>5. Holders(m)' = Holders(m) \ {t} /\ \A k \in Nodes \ {m} : Holders(k)' = Holders(k)
  BY <1>0, <1>m, ClusterAssumption DEF Put, Holders
<1>6. l = Cardinality(Holders(m)')
  BY <1>2, <1>5
<1> HIDE DEF i, l
<1> QED BY <1>0, <1>3, <1>4, <1>5, <1>6, OneNodeLoans

LEMMA LoanStep == ClusterInv /\ [Next]_vars => LoanInv'
<1> SUFFICES ASSUME ClusterInv, [Next]_vars PROVE LoanInv'
  OBVIOUS
<1> USE DEF conns, thread
<1>0. LoanInv /\ ThreadInv /\ addrs \subseteq Nodes
  BY DEF ClusterInv, TableInv
<1>1. CASE UNCHANGED <<conns, conn>>
  BY <1>0, <1>1 DEF LoanInv, Holders
<1>2. ASSUME NEW t \in Threads, Take(t) \/ RedirectMoved(t) \/ RedirectAsk(t) PROVE LoanInv'
  <2>1. conn[t] = NoNode /\ target[t] \in Nodes /\ TakeFrom(target[t])
        /\ conn' = [conn EXCEPT ![t] = target[t]]
    BY <1>0, <1>2 DEF Take, RedirectMoved, RedirectAsk, ThreadInv, Holding
  <2> QED BY <2>1, TakeLoans
<1>3. ASSUME NEW t \in Threads,
             LostDrop(t) \/ Return(t) \/ ReplyRedirect(t) \/ DownPut(t)
               \/ \E closed \in BOOLEAN : AskingFail(t, closed)
      PROVE  LoanInv'
  <2>1. conn[t] # NoNode
    BY <1>0, <1>3
       DEF LostDrop, Return, ReplyRedirect, DownPut, AskingFail, Is, ThreadInv, Holding
  <2>2. \E keep \in BOOLEAN : Put(t, keep)
    BY <1>3 DEF LostDrop, Return, ReplyRedirect, PutRedirected, DownPut, AskingFail
  <2> QED BY <2>1, <2>2, PutLoans
<1>4. ASSUME NEW t \in Threads,
             Discover(t) \/ PickSlot(t) \/ PickAny(t) \/ TakeNothing(t) \/ Forget(t) \/ Stop(t)
               \/ RunReply(t) \/ RunEof(t) \/ LostForget(t) \/ Learn(t) \/ Redirect(t)
               \/ RedirectNothing(t) \/ AskingOk(t) \/ DownForget(t) \/ DiscoverSet(t)
               \/ \E s \in Keys : Begin(t, s)
      PROVE  LoanInv'
  BY <1>1, <1>4
     DEF Discover, PickSlot, PickAny, TakeNothing, Forget, Stop, RunReply, RunEof, LostForget,
         Learn, Redirect, RedirectNothing, AskingOk, DownForget, DiscoverSet, Begin, Keep
<1>5. CASE Crash \/ Restart \/ Migrate \/ NewOwner
  BY <1>1, <1>5 DEF Crash, Restart, Migrate, NewOwner, Event
<1>6. CASE UNCHANGED vars
  BY <1>1, <1>6 DEF vars
<1> QED BY <1>2, <1>3, <1>4, <1>5, <1>6 DEF Next, Step

LEMMA InitCluster == Init => ClusterInv
<1> SUFFICES ASSUME Init PROVE ClusterInv
  OBVIOUS
<1>1. TableInv
  BY ClusterAssumption DEF Init, TableInv
<1>2. ThreadInv
  <2>1. 0 \in 0..RedirectMax /\ Reply("none") \in Replies /\ NoSlot \in Keys
    BY ClusterAssumption DEF Replies, Reply, Plain, Keys
  <2> QED BY <2>1 DEF Init, ThreadInv, Places, Holding
<1>3. LoanInv
  <2>1. \A m \in Nodes : Holders(m) = {}
    BY ClusterAssumption DEF Init, Holders
  <2>2. /\ 0 \in 0..MaxConns /\ MaxConns \in Nat /\ Cardinality({}) = 0
        /\ idle = [m \in Nodes |-> 0] /\ lent = [m \in Nodes |-> 0]
    BY ClusterAssumption, FS_EmptySet DEF Init
  <2> QED BY <2>1, <2>2 DEF LoanInv
<1> QED BY <1>1, <1>2, <1>3 DEF ClusterInv

LEMMA ClusterInvariant == Spec => []ClusterInv
<1>1. ClusterInv /\ [Next]_vars => ClusterInv'
  BY TableStep, ThreadStep, LoanStep DEF ClusterInv
<1> QED BY InitCluster, <1>1, PTL DEF Spec

\* No path of redis_command::run through the redirections, failures and returns
\* loses a connection or gives one back twice: each one that a pool has lent is
\* held by one running command.
THEOREM LoansKept == Spec => []LoansAccounted
<1>1. ClusterInv => LoansAccounted
  <2> SUFFICES ASSUME ClusterInv PROVE LoansAccounted
    OBVIOUS
  <2>1. TypeOK
    <3>1. addrs \subseteq Nodes
      BY DEF ClusterInv, TableInv
    <3> QED BY <3>1 DEF ClusterInv, TableInv, ThreadInv, LoanInv, TypeOK
  <2>2. \A t \in Threads : pc[t] = "idle" => conn[t] = NoNode
    BY DEF ClusterInv, ThreadInv, Holding
  <2> QED BY <2>1, <2>2 DEF LoansAccounted, ClusterInv, LoanInv, Holders
<1> QED BY <1>1, ClusterInvariant, PTL

-----------------------------------------------------------------------------
(* What the slot table learns. *)

OwnersKnown ==
  /\ \A s \in Slots : owner[s] \in owned[s] /\ (slotAddrs[s] # NoNode => slotAddrs[s] \in owned[s])
  /\ \A t \in Threads : \A e \in todo[t] : e[2] \in owned[e[1]]

\* ASKING counts for one command, and that one is not learned.
AskedOnce == \A t \in Threads : asked[t] => pc[t] \in {"run", "tooMany"} /\ ~moved[t]

\* A node that is not asked and has carried a command out owns the slot.
AnswerOfOwner ==
  \A t \in Threads :
    Is(t, "ok") /\ slot[t] # NoSlot /\ moved[t] => conn[t] \in owned[slot[t]]

LearnInv == OwnersKnown /\ AskedOnce /\ AnswerOfOwner

LEMMA OwnedGrows ==
  TableInv /\ [Next]_vars => \A s \in Slots : owned[s] \subseteq owned'[s]
<1> SUFFICES ASSUME TableInv, [Next]_vars PROVE \A s \in Slots : owned[s] \subseteq owned'[s]
  OBVIOUS
<1>1. CASE NewOwner
  BY <1>1 DEF NewOwner, TableInv
<1>2. ASSUME NEW t \in Threads,
             Discover(t) \/ PickSlot(t) \/ PickAny(t) \/ Take(t) \/ TakeNothing(t) \/ Forget(t)
               \/ Stop(t) \/ RunReply(t) \/ RunEof(t) \/ LostForget(t) \/ LostDrop(t)
               \/ \E s \in Keys : Begin(t, s)
      PROVE  UNCHANGED owned
  BY <1>2 DEF Begin, Discover, PickSlot, PickAny, Take, TakeNothing, Forget, Stop, RunReply,
              RunEof, LostForget, LostDrop, redis
<1>3. ASSUME NEW t \in Threads,
             Learn(t) \/ Return(t) \/ ReplyRedirect(t) \/ Redirect(t) \/ RedirectNothing(t)
               \/ RedirectMoved(t) \/ RedirectAsk(t) \/ AskingOk(t) \/ DownForget(t)
               \/ DownPut(t) \/ DiscoverSet(t) \/ \E closed \in BOOLEAN : AskingFail(t, closed)
      PROVE  UNCHANGED owned
  BY <1>3 DEF Learn, Return, ReplyRedirect, Redirect, RedirectNothing, RedirectMoved, RedirectAsk,
              AskingOk, AskingFail, DownForget, DownPut, DiscoverSet, redis
<1>4. CASE Crash \/ Restart \/ Migrate \/ UNCHANGED vars
  BY <1>4 DEF Crash, Restart, Migrate, redis, vars
<1> QED BY <1>1, <1>2, <1>3, <1>4 DEF Next, Step

LEMMA AskedStep ==
  ASSUME ThreadInv, AskedOnce, [Next]_vars
  PROVE  AskedOnce'
<1> USE DEF thread
<1>1. ASSUME NEW t \in Threads, UNCHANGED moved, UNCHANGED asked, pc[t] \notin {"run", "tooMany"},
             \A u \in Threads \ {t} : pc'[u] = pc[u]
      PROVE  AskedOnce'
  BY <1>1 DEF AskedOnce
<1>2. ASSUME NEW t \in Threads,
             \/ Discover(t) \/ PickSlot(t) \/ PickAny(t) \/ Take(t) \/ TakeNothing(t) \/ Forget(t)
             \/ LostForget(t) \/ ReplyRedirect(t) \/ Redirect(t) \/ RedirectNothing(t)
             \/ RedirectAsk(t) \/ DownForget(t) \/ DownPut(t) \/ DiscoverSet(t) \/ Learn(t)
             \/ \E s \in Keys : Begin(t, s)
      PROVE  AskedOnce'
  <2>1. UNCHANGED <<moved, asked>> /\ pc[t] \notin {"run", "tooMany"}
    BY <1>2 DEF Discover, PickSlot, PickAny, Take, TakeNothing, Forget, LostForget, Learn,
                ReplyRedirect, Redirect, RedirectNothing, RedirectAsk, DownForget, DownPut,
                DiscoverSet, Begin, Is, Keep
  <2>2. \E p : pc' = [pc EXCEPT ![t] = p]
    BY <1>2 DEF Discover, PickSlot, PickAny, Take, TakeNothing, Forget, LostForget, Learn,
                ReplyRedirect, Redirect, RedirectNothing, RedirectAsk, DownForget, DownPut,
                DiscoverSet, Begin, Keep, Goto, Round
  <2> QED BY <1>1, <2>1, <2>2 DEF ThreadInv
<1>3. ASSUME NEW t \in Threads, RunReply(t) \/ RunEof(t) PROVE AskedOnce'
  BY <1>3 DEF RunReply, RunEof, Goto, ThreadInv, AskedOnce
<1>4. ASSUME NEW t \in Threads, LostDrop(t) \/ RedirectMoved(t) PROVE AskedOnce'
  <2>1. /\ ~asked[t] /\ UNCHANGED asked /\ moved' = [moved EXCEPT ![t] = TRUE]
        /\ \E p : pc' = [pc EXCEPT ![t] = p]
    BY <1>4 DEF LostDrop, RedirectMoved, Round, Goto, AskedOnce
  <2> QED BY <2>1 DEF ThreadInv, AskedOnce
<1>5. ASSUME NEW t \in Threads, AskingOk(t) PROVE AskedOnce'
  <2>1. /\ asked' = [asked EXCEPT ![t] = TRUE] /\ moved' = [moved EXCEPT ![t] = FALSE]
        /\ \E p \in {"run", "tooMany"} : pc' = [pc EXCEPT ![t] = p]
    BY <1>5 DEF AskingOk, MovedAfterAsk, Round, Goto
  <2> QED BY <2>1 DEF ThreadInv, AskedOnce
<1>6. ASSUME NEW t \in Threads, Stop(t) \/ Return(t) \/ \E closed \in BOOLEAN : AskingFail(t, closed)
      PROVE  AskedOnce'
  <2>1. Finish(t)
    BY <1>6 DEF Stop, Return, AskingFail
  <2> QED BY <2>1 DEF Finish, Goto, ThreadInv, AskedOnce
<1>7. CASE Crash \/ Restart \/ Migrate \/ NewOwner \/ UNCHANGED vars
  BY <1>7 DEF Crash, Restart, Migrate, NewOwner, Event, vars, AskedOnce
<1> QED BY <1>2, <1>3, <1>4, <1>5, <1>6, <1>7 DEF Next, Step

LEMMA AnswerStep ==
  ASSUME TableInv, ThreadInv, LearnInv, [Next]_vars
  PROVE  AnswerOfOwner'
<1> USE DEF thread
<1>0. \A s \in Slots : owned[s] \subseteq owned'[s]
  BY OwnedGrows
<1>1. ASSUME \A u \in Threads : pc'[u] = "reply" =>
               pc[u] = "reply" /\ slot'[u] = slot[u] /\ reply'[u] = reply[u]
                 /\ conn'[u] = conn[u] /\ moved'[u] = moved[u]
      PROVE  AnswerOfOwner'
  BY <1>0, <1>1 DEF AnswerOfOwner, LearnInv, Is, ThreadInv, Keys
<1>2. ASSUME NEW t \in Threads, RunReply(t) PROVE AnswerOfOwner'
  <2>1. PICK r \in Answers(t) : reply' = [reply EXCEPT ![t] = r]
    BY <1>2 DEF RunReply
  <2>2. /\ pc' = [pc EXCEPT ![t] = "reply"] /\ pc[t] = "run"
        /\ UNCHANGED <<slot, conn, moved, owned>>
    BY <1>2 DEF RunReply, Goto, redis
  <2>3. ASSUME r.kind = "ok", slot[t] # NoSlot, moved[t] PROVE conn[t] \in owned[slot[t]]
    <3>1. ~asked[t] /\ slot[t] \in Slots
      BY <2>3 DEF LearnInv, AskedOnce, ThreadInv, Keys
    <3>2. owner[slot[t]] = conn[t]
      BY <2>3, <3>1 DEF Answers, Reply
    <3> QED BY <3>1, <3>2 DEF LearnInv, OwnersKnown
  <2>4. ASSUME NEW u \in Threads, Is(u, "ok")', slot'[u] # NoSlot, moved'[u]
        PROVE  conn'[u] \in owned'[slot'[u]]
    <3>1. CASE u = t
      BY <2>1, <2>2, <2>3, <2>4, <3>1 DEF Is, ThreadInv
    <3>2. CASE u # t
      BY <2>1, <2>2, <2>4, <3>2 DEF Is, ThreadInv, LearnInv, AnswerOfOwner
    <3> QED BY <3>1, <3>2
  <2> QED BY <2>4 DEF AnswerOfOwner
<1>3. ASSUME NEW t \in Threads,
             Discover(t) \/ PickSlot(t) \/ TakeNothing(t) \/ Forget(t) \/ RunEof(t)
               \/ LostForget(t) \/ LostDrop(t) \/ Learn(t) \/ ReplyRedirect(t) \/ Redirect(t)
               \/ RedirectNothing(t) \/ RedirectAsk(t) \/ DownForget(t) \/ DownPut(t)
               \/ \E s \in Keys : Begin(t, s)
      PROVE  AnswerOfOwner'
  BY <1>1, <1>3
     DEF Discover, PickSlot, TakeNothing, Forget, RunEof, LostForget, LostDrop, Learn,
         ReplyRedirect, PutRedirected, Redirect, RedirectNothing, RedirectAsk, DownForget, DownPut,
         Begin, Put, Keep, Goto, ThreadInv
<1>4. ASSUME NEW t \in Threads, Take(t) \/ RedirectMoved(t) \/ AskingOk(t) PROVE AnswerOfOwner'
  <2>1. /\ \E p \in {"run", "tooMany"} : pc' = [pc EXCEPT ![t] = p]
        /\ UNCHANGED <<slot, reply>>
        /\ conn' = conn \/ conn' = [conn EXCEPT ![t] = target[t]]
        /\ moved' = moved \/ \E b \in BOOLEAN : moved' = [moved EXCEPT ![t] = b]
    BY <1>4 DEF Take, RedirectMoved, AskingOk, MovedAfterAsk, Round, Goto
  <2> QED BY <1>1, <2>1 DEF ThreadInv
<1>5. ASSUME NEW t \in Threads, Stop(t) \/ Return(t) \/ \E closed \in BOOLEAN : AskingFail(t, closed)
      PROVE  AnswerOfOwner'
  <2>1. Finish(t) /\ (conn' = conn \/ conn' = [conn EXCEPT ![t] = NoNode])
    BY <1>5 DEF Stop, Return, AskingFail, Put
  <2> QED BY <1>1, <2>1 DEF Finish, Goto, ThreadInv
<1>6. ASSUME NEW t \in Threads, PickAny(t) \/ DiscoverSet(t) PROVE AnswerOfOwner'
  <2>1. /\ \E p \in {"take", "takeAny", "idle", "discover"} : pc' = [pc EXCEPT ![t] = p]
        /\ UNCHANGED <<slot, reply, conn, moved>>
    BY <1>6 DEF PickAny, DiscoverSet, Goto
  <2> QED BY <1>1, <2>1 DEF ThreadInv
<1>7. CASE Crash \/ Restart \/ Migrate \/ NewOwner \/ UNCHANGED vars
  BY <1>1, <1>7 DEF Crash, Restart, Migrate, NewOwner, Event, vars
<1> QED BY <1>2, <1>3, <1>4, <1>5, <1>6, <1>7 DEF Next, Step

LEMMA OwnersStep ==
  ASSUME TableInv, ThreadInv, LearnInv, [Next]_vars
  PROVE  OwnersKnown'
<1> USE DEF table, thread, redis
<1>0. OwnersKnown /\ \A s \in Slots : owned[s] \subseteq owned'[s]
  BY OwnedGrows DEF LearnInv
<1>1. ASSUME UNCHANGED <<owner, owned>>,
             \A s \in Slots : slotAddrs'[s] # NoNode => slotAddrs'[s] \in owned[s],
             \A t \in Threads : \A e \in todo'[t] : e[2] \in owned[e[1]]
      PROVE  OwnersKnown'
  BY <1>0, <1>1 DEF OwnersKnown
<1>2. CASE UNCHANGED <<slotAddrs, todo, owner, owned>>
  BY <1>0, <1>2 DEF OwnersKnown
<1>3. ASSUME NEW t \in Threads,
             PickSlot(t) \/ PickAny(t) \/ Take(t) \/ TakeNothing(t) \/ Stop(t) \/ RunReply(t)
               \/ RunEof(t) \/ LostDrop(t) \/ Return(t) \/ ReplyRedirect(t) \/ Redirect(t)
               \/ RedirectNothing(t) \/ RedirectMoved(t) \/ RedirectAsk(t) \/ AskingOk(t)
               \/ DownPut(t) \/ (\E closed \in BOOLEAN : AskingFail(t, closed))
               \/ (\E s \in Keys : Begin(t, s))
      PROVE  OwnersKnown'
  BY <1>2, <1>3
     DEF PickSlot, PickAny, Take, TakeNothing, Stop, RunReply, RunEof, LostDrop, Return,
         ReplyRedirect, Redirect, RedirectNothing, RedirectMoved, RedirectAsk, AskingOk, DownPut,
         AskingFail, Begin, Keep, Finish
<1>4. ASSUME NEW t \in Threads, Forget(t) \/ LostForget(t) \/ DownForget(t) PROVE OwnersKnown'
  <2>1. UNCHANGED <<todo, owner, owned>> /\ ClearSlot(slot[t])
    BY <1>4 DEF Forget, LostForget, DownForget, Keep
  <2> QED BY <1>0, <1>1, <2>1 DEF ClearSlot, OwnersKnown
<1>5. ASSUME NEW t \in Threads, Learn(t) PROVE OwnersKnown'
  <2>1. conn[t] \in owned[slot[t]] /\ slot[t] \in Slots
    BY <1>5 DEF Learn, Learns, ThreadInv, Keys, LearnInv, AnswerOfOwner
  <2>2. slotAddrs' = [slotAddrs EXCEPT ![slot[t]] = conn[t]] /\ UNCHANGED <<todo, owner, owned>>
    BY <1>5 DEF Learn, SetSlot, Keep
  <2> QED BY <1>0, <1>1, <2>1, <2>2 DEF OwnersKnown, TableInv
<1>6. ASSUME NEW t \in Threads, Discover(t) PROVE OwnersKnown'
  <2>1. /\ todo' = [todo EXCEPT ![t] = {<<s, owner[s]>> : s \in Slots}]
        /\ UNCHANGED <<slotAddrs, owner, owned>>
    BY <1>6 DEF Discover
  <2> QED BY <1>0, <1>1, <2>1 DEF OwnersKnown, ThreadInv
<1>7. ASSUME NEW t \in Threads, DiscoverSet(t) PROVE OwnersKnown'
  <2>1. PICK e \in todo[t] : SetSlot(e[1], e[2]) /\ todo' = [todo EXCEPT ![t] = todo[t] \ {e}]
    BY <1>7 DEF DiscoverSet
  <2>2. e[1] \in Slots /\ e[2] \in owned[e[1]] /\ UNCHANGED <<owner, owned>>
    BY <1>0, <1>7 DEF OwnersKnown, ThreadInv, DiscoverSet
  <2>3. \A s \in Slots : slotAddrs'[s] # NoNode => slotAddrs'[s] \in owned[s]
    BY <1>0, <2>1, <2>2 DEF SetSlot, OwnersKnown, TableInv
  <2>4. \A u \in Threads : todo'[u] \subseteq todo[u]
    BY <2>1 DEF ThreadInv
  <2> QED BY <1>0, <1>1, <2>2, <2>3, <2>4 DEF OwnersKnown
<1>8. CASE Crash \/ Restart \/ Migrate
  BY <1>2, <1>8 DEF Crash, Restart, Migrate, Event
<1>9. CASE NewOwner
  <2>1. PICK s \in Slots, m \in up : /\ owner' = [owner EXCEPT ![s] = m]
                                     /\ owned' = [owned EXCEPT ![s] = owned[s] \cup {m}]
    BY <1>9 DEF NewOwner
  <2>2. UNCHANGED <<slotAddrs, todo>>
    BY <1>9 DEF NewOwner, Event
  <2>3. \A k \in Slots : owner'[k] \in owned'[k]
    BY <1>0, <2>1 DEF OwnersKnown, TableInv
  <2>4. \A t \in Threads : \A e \in todo[t] : e[1] \in Slots
    BY DEF ThreadInv
  <2> QED BY <1>0, <2>2, <2>3, <2>4 DEF OwnersKnown
<1>10. CASE UNCHANGED vars
  BY <1>2, <1>10 DEF vars
<1> QED BY <1>3, <1>4, <1>5, <1>6, <1>7, <1>8, <1>9, <1>10 DEF Next, Step

\* The success that run enters in the table after a redirection comes from a node
\* that owned the slot, and never from one that only served an ASK; nor does
\* set_all_slot enter another, however late its entries are.
THEOREM OwnersLearned == Spec => []SlotLearnedFromOwner
<1>1. Init => LearnInv
  BY DEF Init, LearnInv, OwnersKnown, AskedOnce, AnswerOfOwner, Is
<1>2. ClusterInv /\ LearnInv /\ [Next]_vars => LearnInv'
  BY OwnersStep, AskedStep, AnswerStep DEF ClusterInv, LearnInv
<1>3. LearnInv => SlotLearnedFromOwner
  BY DEF LearnInv, OwnersKnown, SlotLearnedFromOwner
<1> QED BY <1>1, <1>2, <1>3, ClusterInvariant, PTL DEF Spec

-----------------------------------------------------------------------------
(* Three rounds are enough in a calm cluster. *)

Owner(t) == owner[slot[t]]
Importing(t) == importing[slot[t]]

\* What remains to be done after n rounds: the command has a key, and turns to
\* the owner after the first round at the latest, and to the importing node after
\* the second.
Sure(t, m, ask) ==
  \/ n[t] <= 1
  \/ slot[t] # NoSlot /\ n[t] = 2 /\ (m = Owner(t) \/ (ask /\ m = Importing(t)))
  \/ slot[t] # NoSlot /\ n[t] = 3 /\ ask /\ m = Importing(t)

\* The answer that redirects, and the node it names.
Redirected(t) ==
  /\ reply[t].kind = "MOVED" => slot[t] # NoSlot /\ n[t] <= 1 /\ reply[t].addr = Owner(t)
  /\ reply[t].kind = "ASK" => slot[t] # NoSlot /\ n[t] <= 2 /\ reply[t].addr = Importing(t)

\* Where a calm command can be, and how far it has come there.
Calm(t) ==
  /\ up = Nodes
  /\ pc[t] \notin {"lost", "drop", "down", "pickAny", "takeAny", "tooMany"}
  /\ pc[t] \in {"pick", "take"} => n[t] = 0
  /\ pc[t] = "run" => Sure(t, conn[t], asked[t])
  /\ pc[t] = "reply" => reply[t].kind # "down"
  /\ pc[t] \in {"reply", "redirect", "takeMoved"} => Redirected(t)
  /\ pc[t] = "takeMoved" => target[t] = reply[t].addr
  /\ pc[t] = "ask" => slot[t] # NoSlot /\ n[t] <= 2 /\ conn[t] = Importing(t)

CalmInv ==
  /\ RedirectMax >= 3
  /\ \A s \in Slots : importing[s] # owner[s]
  /\ \A t \in Threads : /\ pc[t] \in {"idle", "discover"} => n[t] = 0
                        /\ calm[t] => Calm(t) /\ n[t] <= 3

\* What the other threads' steps leave alone.
LEMMA CalmFrame ==
  ASSUME CalmInv, NEW t \in Threads, UNCHANGED <<up, owner, importing>>,
         \A u \in Threads \ {t} :
           /\ pc'[u] = pc[u] /\ slot'[u] = slot[u] /\ target'[u] = target[u]
           /\ conn'[u] = conn[u] /\ asked'[u] = asked[u] /\ n'[u] = n[u]
           /\ reply'[u] = reply[u] /\ calm'[u] = calm[u],
         pc'[t] \in {"idle", "discover"} => n'[t] = 0,
         calm'[t] => Calm(t)' /\ n'[t] <= 3
  PROVE  CalmInv'
<1>1. ASSUME NEW u \in Threads \ {t} PROVE calm'[u] => Calm(u)' /\ n'[u] <= 3
  BY DEF CalmInv, Calm, Sure, Redirected, Owner, Importing
<1> QED BY <1>1 DEF CalmInv

LEMMA CalmReply ==
  ASSUME ClusterInv, CalmInv, NEW t \in Threads, calm[t], RunReply(t)
  PROVE  Calm(t)' /\ n'[t] <= 3
<1> USE DEF thread, redis
<1>0. /\ ThreadInv /\ TableInv /\ Calm(t) /\ pc[t] = "run" /\ up = Nodes
      /\ n[t] \in Nat /\ n[t] <= 3 /\ Sure(t, conn[t], asked[t])
  BY DEF ClusterInv, CalmInv, Calm, RunReply, ThreadInv
<1>1. PICK r \in Answers(t) : reply' = [reply EXCEPT ![t] = r]
  BY DEF RunReply
<1>2. /\ pc' = [pc EXCEPT ![t] = "reply"] /\ UNCHANGED <<slot, n, up, owner, importing>>
      /\ pc'[t] = "reply" /\ reply'[t] = r
  BY <1>0, <1>1 DEF RunReply, Goto, ThreadInv
<1>3. r.kind # "down"
  BY <1>0, <1>1 DEF Answers, Reply
<1>4. ASSUME r.kind = "MOVED"
      PROVE  slot[t] # NoSlot /\ n[t] <= 1 /\ r.addr = Owner(t)
  <2>1. /\ slot[t] # NoSlot /\ Owner(t) # conn[t] /\ r.addr = Owner(t)
        /\ ~(asked[t] /\ Importing(t) = conn[t])
    BY <1>1, <1>4 DEF Answers, Reply, Owner, Importing
  <2> QED BY <1>0, <2>1 DEF Sure
<1>5. ASSUME r.kind = "ASK"
      PROVE  slot[t] # NoSlot /\ n[t] <= 2 /\ r.addr = Importing(t)
  <2>1. /\ slot[t] # NoSlot /\ Owner(t) = conn[t] /\ r.addr = Importing(t)
    BY <1>1, <1>5 DEF Answers, Reply, Owner, Importing
  <2>2. Importing(t) # Owner(t)
    BY <1>0, <2>1 DEF CalmInv, Importing, Owner, ThreadInv, Keys
  <2> QED BY <1>0, <2>1, <2>2 DEF Sure
<1>6. Redirected(t)'
  BY <1>2, <1>4, <1>5 DEF Redirected, Owner, Importing
<1> QED BY <1>0, <1>2, <1>3, <1>6 DEF Calm

LEMMA CalmStep ==
  ASSUME ClusterInv, CalmInv, [Next]_vars
  PROVE  CalmInv'
<1> USE DEF thread, redis
<1>0. ThreadInv /\ TableInv /\ RedirectMax >= 3 /\ RedirectMax \in Nat
  BY ClusterAssumption DEF ClusterInv, CalmInv
<1>1. \A t \in Threads : n[t] \in Nat
  BY <1>0 DEF ThreadInv
<1>2. ASSUME NEW t \in Threads, NEW s \in Keys, Begin(t, s) PROVE CalmInv'
  <2>1. pc'[t] = "pick" /\ n'[t] = 0 /\ (calm'[t] => up' = Nodes)
    BY <1>0, <1>2 DEF Begin, Goto, ThreadInv, CalmInv
  <2>2. calm'[t] => Calm(t)' /\ n'[t] <= 3
    BY <2>1 DEF Calm
  <2> QED BY <1>0, <1>2, <2>1, <2>2, CalmFrame DEF Begin, Goto, ThreadInv
<1>3. ASSUME NEW t \in Threads, Discover(t) PROVE CalmInv'
  <2>1. pc'[t] = "discover" /\ n'[t] = 0 /\ (calm'[t] => up' = Nodes)
    BY <1>0, <1>3 DEF Discover, Goto, ThreadInv, CalmInv, Calm
  <2>2. calm'[t] => Calm(t)' /\ n'[t] <= 3
    BY <2>1 DEF Calm
  <2> QED BY <1>0, <1>3, <2>1, <2>2, CalmFrame DEF Discover, Goto, ThreadInv
<1>4. ASSUME NEW t \in Threads, PickSlot(t) \/ PickAny(t) PROVE CalmInv'
  <2>1. /\ UNCHANGED <<slot, conn, asked, n, reply, calm, up, owner, importing>>
        /\ pc[t] \in {"pick", "pickAny"}
        /\ \E p \in {"take", "takeAny"} :
             pc' = [pc EXCEPT ![t] = p] /\ (p = "takeAny" => pc[t] = "pickAny")
        /\ \A u \in Threads \ {t} : target'[u] = target[u]
    BY <1>0, <1>4 DEF PickSlot, PickAny, Goto, ThreadInv
  <2>2. pc'[t] \notin {"idle", "discover"}
    BY <1>0, <2>1 DEF ThreadInv
  <2>3. ASSUME calm'[t] PROVE Calm(t)' /\ n'[t] <= 3
    <3>1. Calm(t) /\ pc[t] = "pick" /\ n'[t] = 0 /\ pc'[t] = "take" /\ up' = Nodes
      BY <1>0, <2>1, <2>3 DEF CalmInv, Calm, ThreadInv
    <3> QED BY <3>1 DEF Calm
  <2> QED BY <1>0, <2>1, <2>2, <2>3, CalmFrame DEF ThreadInv
<1>5. ASSUME NEW t \in Threads, Take(t) PROVE CalmInv'
  <2>1. /\ UNCHANGED <<slot, asked, reply, calm, target, up, owner, importing>>
        /\ pc[t] \in {"take", "takeAny"} /\ Round(t)
        /\ \A u \in Threads \ {t} : conn'[u] = conn[u]
    BY <1>0, <1>5 DEF Take, ThreadInv
  <2>2. /\ pc'[t] \notin {"idle", "discover"}
        /\ \A u \in Threads \ {t} : pc'[u] = pc[u] /\ n'[u] = n[u]
    BY <1>0, <2>1 DEF Round, Goto, ThreadInv
  <2>3. ASSUME calm'[t] PROVE Calm(t)' /\ n'[t] <= 3
    <3>1. up' = Nodes /\ n[t] = 0
      BY <2>1, <2>3 DEF CalmInv, Calm
    <3>2. pc'[t] = "run" /\ n'[t] = 1
      BY <1>0, <2>1, <3>1 DEF Round, Goto, OneMore, ThreadInv
    <3> QED BY <3>1, <3>2 DEF Calm, Sure
  <2> QED BY <2>1, <2>2, <2>3, CalmFrame
<1>6. ASSUME NEW t \in Threads, NEW p, Keep(t, p), UNCHANGED <<calm, redis>>,
             p \in {"forget", "stop", "return"} \/ (p \in {"drop", "down"} /\ ~calm[t])
      PROVE  CalmInv'
  <2>1. pc'[t] = p
    BY <1>0, <1>6 DEF Keep, Goto, ThreadInv
  <2>2. calm'[t] => Calm(t)' /\ n'[t] <= 3
    BY <1>6, <2>1 DEF Keep, CalmInv, Calm
  <2> QED BY <1>0, <1>6, <2>1, <2>2, CalmFrame DEF Keep, Goto, ThreadInv
<1>7. ASSUME NEW t \in Threads,
             TakeNothing(t) \/ Forget(t) \/ LostForget(t) \/ Learn(t) \/ RedirectNothing(t)
               \/ DownForget(t)
      PROVE  CalmInv'
  <2>1. /\ UNCHANGED <<calm, redis>>
        /\ \/ \E p \in {"forget", "stop", "return"} : Keep(t, p)
           \/ Keep(t, "drop") /\ pc[t] = "lost"
           \/ Keep(t, "down") /\ Is(t, "down")
    BY <1>7 DEF TakeNothing, Forget, LostForget, Learn, RedirectNothing, DownForget
  <2>2. pc[t] = "lost" \/ Is(t, "down") => ~calm[t]
    BY DEF CalmInv, Calm, Is
  <2> QED BY <1>6, <2>1, <2>2
<1>8. ASSUME NEW t \in Threads, Stop(t) \/ Return(t) \/ \E closed \in BOOLEAN : AskingFail(t, closed)
      PROVE  CalmInv'
  <2>1. Finish(t) /\ (conn' = conn \/ conn' = [conn EXCEPT ![t] = NoNode])
        /\ UNCHANGED <<up, owner, importing>>
    BY <1>8 DEF Stop, Return, AskingFail, Put
  <2>2. n'[t] = 0 /\ ~calm'[t]
    BY <1>0, <2>1 DEF Finish, ThreadInv
  <2> QED BY <1>0, <2>1, <2>2, CalmFrame DEF Finish, Goto, ThreadInv
<1>9. ASSUME NEW t \in Threads, RunReply(t) PROVE CalmInv'
  <2>1. pc'[t] = "reply" /\ (calm'[t] => Calm(t)' /\ n'[t] <= 3)
    BY <1>0, <1>9, CalmReply DEF RunReply, Goto, ThreadInv
  <2> QED BY <1>0, <1>9, <2>1, CalmFrame DEF RunReply, Goto, ThreadInv
<1>10. ASSUME NEW t \in Threads, RunEof(t) PROVE CalmInv'
  <2>1. pc'[t] = "lost" /\ ~calm'[t]
    BY <1>0, <1>10 DEF RunEof, Goto, ThreadInv
  <2> QED BY <1>0, <1>10, <2>1, CalmFrame DEF RunEof, Goto, ThreadInv
<1>11. ASSUME NEW t \in Threads, LostDrop(t) \/ DownPut(t) PROVE CalmInv'
  <2>1. ~calm[t] /\ calm' = calm
    BY <1>11 DEF LostDrop, DownPut, CalmInv, Calm
  <2>2. pc'[t] \notin {"idle", "discover"}
    BY <1>0, <1>11 DEF LostDrop, DownPut, Goto, ThreadInv
  <2> QED BY <1>0, <1>11, <2>1, <2>2, CalmFrame DEF LostDrop, DownPut, Put, Goto, ThreadInv
<1>12. ASSUME NEW t \in Threads, ReplyRedirect(t) \/ Redirect(t) PROVE CalmInv'
  <2>1. /\ UNCHANGED <<slot, asked, n, reply, calm, up, owner, importing>>
        /\ \E p : pc' = [pc EXCEPT ![t] = p]
        /\ \A u \in Threads \ {t} : conn'[u] = conn[u] /\ target'[u] = target[u]
        /\ pc[t] \in {"reply", "redirect"} /\ pc'[t] \in {"redirect", "takeMoved"}
        /\ pc'[t] = "takeMoved" => target'[t] = reply[t].addr
    BY <1>0, <1>12 DEF ReplyRedirect, PutRedirected, Redirect, Put, Addr, Is, Goto, ThreadInv
  <2>2. ASSUME calm'[t] PROVE Calm(t)' /\ n'[t] <= 3
    <3>1. up = Nodes /\ Redirected(t) /\ n[t] <= 3
      BY <2>1, <2>2 DEF CalmInv, Calm
    <3>2. Redirected(t)'
      BY <2>1, <3>1 DEF Redirected, Owner, Importing
    <3> QED BY <2>1, <3>1, <3>2 DEF Calm
  <2> QED BY <1>0, <2>1, <2>2, CalmFrame DEF ThreadInv
<1>13. ASSUME NEW t \in Threads, RedirectMoved(t) PROVE CalmInv'
  <2>1. /\ UNCHANGED <<slot, asked, reply, calm, target, up, owner, importing>>
        /\ pc[t] = "takeMoved" /\ reply[t].kind = "MOVED" /\ Round(t)
        /\ conn'[t] = target[t] /\ \A u \in Threads \ {t} : conn'[u] = conn[u]
    BY <1>0, <1>13 DEF RedirectMoved, ThreadInv
  <2>2. /\ pc'[t] \notin {"idle", "discover"}
        /\ \A u \in Threads \ {t} : pc'[u] = pc[u] /\ n'[u] = n[u]
    BY <1>0, <2>1 DEF Round, Goto, ThreadInv
  <2>3. ASSUME calm'[t] PROVE Calm(t)' /\ n'[t] <= 3
    <3>1. up' = Nodes /\ slot[t] # NoSlot /\ n[t] <= 1 /\ target[t] = Owner(t)
      BY <2>1, <2>3 DEF CalmInv, Calm, Redirected
    <3>2. pc'[t] = "run" /\ n'[t] \in 1..2
      BY <1>0, <1>1, <2>1, <3>1 DEF Round, Goto, OneMore, ThreadInv
    <3>3. Sure(t, conn[t], asked[t])'
      BY <2>1, <3>1, <3>2 DEF Sure, Owner, Importing
    <3> QED BY <3>1, <3>2, <3>3 DEF Calm
  <2> QED BY <2>1, <2>2, <2>3, CalmFrame
<1>14. ASSUME NEW t \in Threads, RedirectAsk(t) PROVE CalmInv'
  <2>1. /\ UNCHANGED <<slot, asked, n, reply, calm, target, up, owner, importing>>
        /\ pc[t] = "takeMoved" /\ reply[t].kind = "ASK"
        /\ pc' = [pc EXCEPT ![t] = "ask"] /\ pc'[t] = "ask"
        /\ conn'[t] = target[t] /\ \A u \in Threads \ {t} : conn'[u] = conn[u]
    BY <1>0, <1>14 DEF RedirectAsk, Goto, ThreadInv
  <2>2. ASSUME calm'[t] PROVE Calm(t)' /\ n'[t] <= 3
    <3>1. up' = Nodes /\ slot[t] # NoSlot /\ n[t] <= 2 /\ target[t] = Importing(t)
      BY <2>1, <2>2 DEF CalmInv, Calm, Redirected
    <3> QED BY <1>1, <2>1, <3>1 DEF Calm, Importing
  <2> QED BY <1>0, <2>1, <2>2, CalmFrame DEF ThreadInv
<1>15. ASSUME NEW t \in Threads, AskingOk(t) PROVE CalmInv'
  <2>1. /\ UNCHANGED <<slot, conn, reply, calm, target, up, owner, importing>>
        /\ pc[t] = "ask" /\ Round(t)
        /\ asked'[t] /\ \A u \in Threads \ {t} : asked'[u] = asked[u]
    BY <1>0, <1>15 DEF AskingOk, ThreadInv
  <2>2. /\ pc'[t] \notin {"idle", "discover"}
        /\ \A u \in Threads \ {t} : pc'[u] = pc[u] /\ n'[u] = n[u]
    BY <1>0, <2>1 DEF Round, Goto, ThreadInv
  <2>3. ASSUME calm'[t] PROVE Calm(t)' /\ n'[t] <= 3
    <3>1. up' = Nodes /\ slot[t] # NoSlot /\ n[t] <= 2 /\ conn[t] = Importing(t)
      BY <2>1, <2>3 DEF CalmInv, Calm
    <3>2. pc'[t] = "run" /\ n'[t] \in 1..3
      BY <1>0, <1>1, <2>1, <3>1 DEF Round, Goto, OneMore, ThreadInv
    <3>3. Sure(t, conn[t], asked[t])'
      BY <2>1, <3>1, <3>2 DEF Sure, Owner, Importing
    <3> QED BY <3>1, <3>2, <3>3 DEF Calm
  <2> QED BY <2>1, <2>2, <2>3, CalmFrame
<1>16. ASSUME NEW t \in Threads, DiscoverSet(t) PROVE CalmInv'
  <2>1. /\ UNCHANGED <<slot, conn, asked, n, reply, calm, target, up, owner, importing>>
        /\ pc[t] = "discover" /\ \E p \in {"idle", "discover"} : pc' = [pc EXCEPT ![t] = p]
    BY <1>16 DEF DiscoverSet, Goto
  <2>2. n'[t] = 0 /\ pc'[t] \in {"idle", "discover"} /\ (calm'[t] => up' = Nodes)
    BY <1>0, <2>1 DEF CalmInv, Calm, ThreadInv
  <2>3. calm'[t] => Calm(t)' /\ n'[t] <= 3
    BY <2>2 DEF Calm
  <2> QED BY <1>0, <2>1, <2>2, <2>3, CalmFrame DEF ThreadInv
<1>17. CASE Crash \/ Restart \/ Migrate \/ NewOwner
  <2>1. UNCHANGED <<pc, n>> /\ \A t \in Threads : ~calm'[t]
    BY <1>17 DEF Crash, Restart, Migrate, NewOwner, Event
  <2>2. \A s \in Slots : importing'[s] # owner'[s]
    BY <1>0, <1>17, ClusterAssumption
       DEF Crash, Restart, Migrate, NewOwner, CalmInv, TableInv
  <2> QED BY <2>1, <2>2 DEF CalmInv
<1>18. CASE UNCHANGED vars
  BY <1>18 DEF vars, CalmInv, Calm, Sure, Redirected, Owner, Importing
<1> QED BY <1>2, <1>3, <1>4, <1>5, <1>7, <1>8, <1>9, <1>10, <1>11, <1>12, <1>13, <1>14, <1>15,
           <1>16, <1>17, <1>18
        DEF Next, Step

\* While all nodes are up and nothing changes, a command needs at most three
\* rounds, for any cluster and whatever the slot table says: redirect_max_ of
\* three or more never turns it away.
THEOREM CalmThreeRounds == ASSUME RedirectMax >= 3 PROVE Spec => []CalmRounds
<1>1. Init => CalmInv
  BY ClusterAssumption DEF Init, CalmInv
<1>2. ClusterInv /\ CalmInv /\ [Next]_vars => CalmInv'
  BY CalmStep
<1>3. CalmInv => CalmRounds
  BY DEF CalmInv, Calm, CalmRounds
<1> QED BY <1>1, <1>2, <1>3, ClusterInvariant, PTL DEF Spec

-----------------------------------------------------------------------------
(* The end of a command. *)

\* The steps inside a round.
LEMMA GoNearer ==
  ASSUME ThreadInv, NEW t \in Threads, NEW p \in Places, Goto(t, p), UNCHANGED n,
         Stage(p) < Stage(pc[t])
  PROVE  ToGo(t)' < ToGo(t)
<1>1. pc'[t] = p /\ n'[t] = n[t]
  BY DEF ThreadInv, Goto
<1>2. /\ RedirectMax \in Nat /\ n[t] \in Nat
      /\ Stage(p) \in Nat /\ Stage(pc[t]) \in Nat
  BY ClusterAssumption DEF ThreadInv, Stage
<1>3. ToGo(t)' = 9 * (RedirectMax - n[t]) + Stage(p)
  BY <1>1 DEF ToGo
<1> QED BY <1>2, <1>3 DEF ToGo

\* The next round counts for more than all the stages of one.
LEMMA RoundNearer ==
  ASSUME ThreadInv, NEW t \in Threads, Round(t),
         pc[t] \in {"take", "takeAny", "takeMoved", "ask"}
  PROVE  ToGo(t)' < ToGo(t)
<1>1. RedirectMax \in Nat /\ n[t] \in 0..RedirectMax /\ Stage(pc[t]) \in {3, 4}
  BY ClusterAssumption DEF ThreadInv, Stage
<1>2. CASE n[t] < RedirectMax
  <2>1. pc'[t] = "run" /\ n'[t] = n[t] + 1
    BY <1>2 DEF ThreadInv, Round, Goto, OneMore
  <2>2. ToGo(t)' = 9 * (RedirectMax - (n[t] + 1)) + 8
    BY <2>1 DEF ToGo, Stage
  <2> QED BY <1>1, <2>2 DEF ToGo
<1>3. CASE ~(n[t] < RedirectMax)
  <2>1. Goto(t, "tooMany") /\ UNCHANGED n
    BY <1>3 DEF Round
  <2>2. Stage("tooMany") < Stage(pc[t]) /\ "tooMany" \in Places
    BY <1>1 DEF Stage, Places
  <2> QED BY <2>1, <2>2, GoNearer
<1> QED BY <1>2, <1>3

\* A step of a command ends it or brings it nearer to its end.
LEMMA NearerStep ==
  ASSUME ThreadInv, NEW t \in Threads, Step(t), pc[t] # "discover"
  PROVE  pc'[t] = "idle" \/ ToGo(t)' < ToGo(t)
<1>1. CASE Stop(t) \/ Return(t) \/ \E closed \in BOOLEAN : AskingFail(t, closed)
  BY <1>1 DEF Stop, Return, AskingFail, Finish, Goto, ThreadInv
<1>2. CASE Take(t) \/ RedirectMoved(t) \/ AskingOk(t)
  BY <1>2, RoundNearer DEF Take, RedirectMoved, AskingOk
<1>3. CASE PickSlot(t) \/ PickAny(t) \/ TakeNothing(t) \/ Forget(t)
  <2>1. PICK p \in {"take", "takeAny", "forget", "stop"} :
          Goto(t, p) /\ UNCHANGED n /\ Stage(p) < Stage(pc[t])
    BY <1>3 DEF PickSlot, PickAny, TakeNothing, Forget, Keep, Stage
  <2> QED BY <2>1, GoNearer DEF Places
<1>4. CASE RunReply(t)
  <2>1. Goto(t, "reply") /\ UNCHANGED n /\ Stage("reply") < Stage(pc[t]) /\ "reply" \in Places
    BY <1>4 DEF RunReply, Stage, Places
  <2> QED BY <2>1, GoNearer
<1>5. CASE RunEof(t)
  <2>1. Goto(t, "lost") /\ UNCHANGED n /\ Stage("lost") < Stage(pc[t]) /\ "lost" \in Places
    BY <1>5 DEF RunEof, Stage, Places
  <2> QED BY <2>1, GoNearer
<1>6. CASE LostForget(t)
  <2>1. Goto(t, "drop") /\ UNCHANGED n /\ Stage("drop") < Stage(pc[t]) /\ "drop" \in Places
    BY <1>6 DEF LostForget, Keep, Stage, Places
  <2> QED BY <2>1, GoNearer
<1>7. CASE LostDrop(t)
  <2>1. Goto(t, "pick") /\ UNCHANGED n /\ Stage("pick") < Stage(pc[t]) /\ "pick" \in Places
    BY <1>7 DEF LostDrop, Stage, Places
  <2> QED BY <2>1, GoNearer
<1>8. CASE Learn(t)
  <2>1. Goto(t, "return") /\ UNCHANGED n /\ Stage("return") < Stage(pc[t]) /\ "return" \in Places
    BY <1>8 DEF Learn, Keep, Is, Stage, Places
  <2> QED BY <2>1, GoNearer
<1>9. CASE ReplyRedirect(t)
  <2>1. Goto(t, "redirect") /\ UNCHANGED n /\ Stage("redirect") < Stage(pc[t]) /\ "redirect" \in Places
    BY <1>9 DEF ReplyRedirect, Is, Stage, Places
  <2> QED BY <2>1, GoNearer
<1>10. CASE Redirect(t)
  <2>1. Goto(t, "takeMoved") /\ UNCHANGED n /\ Stage("takeMoved") < Stage(pc[t]) /\ "takeMoved" \in Places
    BY <1>10 DEF Redirect, Stage, Places
  <2> QED BY <2>1, GoNearer
<1>11. CASE RedirectNothing(t)
  <2>1. Goto(t, "stop") /\ UNCHANGED n /\ Stage("stop") < Stage(pc[t]) /\ "stop" \in Places
    BY <1>11 DEF RedirectNothing, Keep, Stage, Places
  <2> QED BY <2>1, GoNearer
<1>12. CASE RedirectAsk(t)
  <2>1. Goto(t, "ask") /\ UNCHANGED n /\ Stage("ask") < Stage(pc[t]) /\ "ask" \in Places
    BY <1>12 DEF RedirectAsk, Stage, Places
  <2> QED BY <2>1, GoNearer
<1>13. CASE DownForget(t)
  <2>1. Goto(t, "down") /\ UNCHANGED n /\ Stage("down") < Stage(pc[t]) /\ "down" \in Places
    BY <1>13 DEF DownForget, Keep, Is, Stage, Places
  <2> QED BY <2>1, GoNearer
<1>14. CASE DownPut(t)
  <2>1. Goto(t, "pickAny") /\ UNCHANGED n /\ Stage("pickAny") < Stage(pc[t]) /\ "pickAny" \in Places
    BY <1>14 DEF DownPut, Stage, Places
  <2> QED BY <2>1, GoNearer
<1> QED BY <1>1, <1>2, <1>3, <1>4, <1>5, <1>6, <1>7, <1>8, <1>9,
           <1>10, <1>11, <1>12, <1>13, <1>14
        DEF Step, DiscoverSet

\* What the others do, and the nodes, leaves a command where it is.
LEMMA OwnSteps ==
  ASSUME ThreadInv, [Next]_vars, NEW t \in Threads,
         pc[t] \notin {"idle", "discover"}, pc'[t] # pc[t]
  PROVE  Step(t)
<1>1. ASSUME NEW u \in Threads \ {t}, NEW p, Goto(u, p) PROVE FALSE
  BY <1>1 DEF ThreadInv, Goto
<1>2. ASSUME NEW u \in Threads \ {t}, Discover(u) \/ \E s \in Keys : Begin(u, s) PROVE FALSE
  BY <1>1, <1>2 DEF Discover, Begin
<1>3. ASSUME NEW u \in Threads \ {t}, Step(u) PROVE FALSE
  <2>1. CASE PickSlot(u) \/ PickAny(u) \/ TakeNothing(u) \/ Forget(u) \/ Stop(u)
    BY <1>1, <2>1 DEF PickSlot, PickAny, TakeNothing, Forget, Stop, Keep, Finish
  <2>2. CASE RunReply(u) \/ RunEof(u) \/ LostForget(u) \/ LostDrop(u) \/ Learn(u)
    BY <1>1, <2>2 DEF RunReply, RunEof, LostForget, LostDrop, Learn, Keep
  <2>3. CASE Return(u) \/ ReplyRedirect(u) \/ Redirect(u) \/ RedirectNothing(u) \/ RedirectAsk(u)
    BY <1>1, <2>3 DEF Return, ReplyRedirect, Redirect, RedirectNothing, RedirectAsk, Keep, Finish
  <2>4. CASE Take(u) \/ RedirectMoved(u) \/ AskingOk(u)
    BY <1>1, <2>4 DEF Take, RedirectMoved, AskingOk, Round
  <2>5. CASE (\E closed \in BOOLEAN : AskingFail(u, closed)) \/ DownForget(u) \/ DownPut(u)
               \/ DiscoverSet(u)
    BY <1>1, <2>5 DEF AskingFail, DownForget, DownPut, DiscoverSet, Keep, Finish
  <2> QED BY <1>3, <2>1, <2>2, <2>3, <2>4, <2>5 DEF Step
<1>4. CASE Crash \/ Restart \/ Migrate \/ NewOwner \/ UNCHANGED vars
  BY <1>4 DEF Crash, Restart, Migrate, NewOwner, Event, thread, vars
<1>5. ~Discover(t) /\ ~\E s \in Keys : Begin(t, s)
  BY DEF Discover, Begin
<1> QED BY <1>2, <1>3, <1>4, <1>5 DEF Next

\* Whatever the nodes answer and the other threads do, redis_command::run has
\* a bounded number of steps: no path of its loop begins a round that it does not
\* count against redirect_max_.
THEOREM CommandsEnd == Spec => StepsNearer
<1>1. ClusterInv /\ [Next]_vars =>
        [\A t \in Threads :
           pc[t] \notin {"idle", "discover"} /\ pc'[t] # pc[t] =>
             pc'[t] = "idle" \/ ToGo(t)' < ToGo(t)]_vars
  BY OwnSteps, NearerStep DEF ClusterInv
<1> QED BY <1>1, ClusterInvariant, PTL DEF Spec, StepsNearer
=============================================================================
