----------------------------- MODULE SliceTopics ----------------------------
(***************************************************************************)
(* MWRedisRedisImpl::get_slicelist (aclredis/include/mw/mwredisimpl.cpp):  *)
(* the sliced list of a topic is made by the first caller and shared by    *)
(* all. The map is looked at twice: without the mutex, and again under it. *)
(*                                                                         *)
(* The first look may race with an insertion, which is undefined behaviour *)
(* of the unordered_map. Of what the build can produce, modelled are: the  *)
(* key is found although its pointer is not assigned yet (operator[] links *)
(* the node first), and no key at all is found while the table is rehashed.*)
(***************************************************************************)
EXTENDS Naturals, FiniteSets, Sequences

CONSTANTS
  Callers, NoCaller, Topics,
  SliceNums,  \* the slice counts callers ask for
  MaxAsked    \* BOUND: calls of get_slicelist

ASSUME TopicsAssumption ==
  /\ IsFiniteSet(Callers) /\ NoCaller \notin Callers /\ IsFiniteSet(Topics)
  /\ SliceNums \subseteq Nat \ {0} /\ MaxAsked \in Nat

VARIABLES
  keys,       \* the topics m_sliceTopicMap has a node for
  list,       \* the list its pointer names, 0 is nullptr
  topicLists, \* [topic, slices] of every list made, by number
  owner,      \* the thread that holds m_sliceMutex
  where,
  request,    \* [topic, slices]: the parameters of the thread's call
  given,      \* the list its last call returned
  asked

topicVars == <<keys, list, topicLists, owner, where, request, given, asked>>

Request == [topic : Topics, slices : SliceNums]

TopicsInit ==
  /\ keys = {} /\ list = [o \in Topics |-> 0] /\ topicLists = <<>>
  /\ owner = NoCaller /\ where = [t \in Callers |-> "idle"]
  /\ request \in {[t \in Callers |-> r] : r \in Request}
  /\ given = [t \in Callers |-> 0] /\ asked = 0

GoOn(t, place) == where' = [where EXCEPT ![t] = place]

Call(t, r) ==
  /\ where[t] \in {"idle", "returned"} /\ asked < MaxAsked
  /\ asked' = asked + 1
  /\ request' = [request EXCEPT ![t] = r] /\ given' = [given EXCEPT ![t] = 0]
  /\ GoOn(t, "look")
  /\ UNCHANGED <<keys, list, topicLists, owner>>

\* return std::make_pair(0, l)
Answer(t, l) == given' = [given EXCEPT ![t] = l] /\ GoOn(t, "returned")

Found(t) == request[t].topic \in keys

\* Another thread is inside operator[].
Racing(t) == \E u \in Callers \ {t} : where[u] = "insert"

\* The first look, without the mutex.
LookFound(t) ==
  /\ where[t] = "look" /\ Found(t)
  /\ Answer(t, list[request[t].topic])
  /\ UNCHANGED <<keys, list, topicLists, owner, request, asked>>

LookNone(t) ==
  /\ where[t] = "look" /\ (~Found(t) \/ Racing(t))
  /\ GoOn(t, "lock")
  /\ UNCHANGED <<keys, list, topicLists, owner, request, given, asked>>

Lock(t) ==
  /\ where[t] = "lock" /\ owner = NoCaller
  /\ owner' = t
  /\ GoOn(t, "locked")
  /\ UNCHANGED <<keys, list, topicLists, request, given, asked>>

\* The second look, under the mutex.
KnownNever(t) == FALSE          \* mutant: no second look
Known(t) == Found(t)

LookAgain(t) ==
  /\ where[t] = "locked" /\ Known(t)
  /\ owner' = NoCaller
  /\ Answer(t, list[request[t].topic])
  /\ UNCHANGED <<keys, list, topicLists, request, asked>>

\* make_shared and listinit with the slice count of this caller.
Make(t) ==
  /\ where[t] = "locked" /\ ~Known(t)
  /\ topicLists' = Append(topicLists, request[t])
  /\ GoOn(t, "insert")
  /\ UNCHANGED <<keys, list, owner, request, given, asked>>

\* m_sliceTopicMap[topic]: the node comes first, then its pointer.
InsertKey(t) ==
  /\ where[t] = "insert" /\ ~Found(t)
  /\ keys' = keys \cup {request[t].topic}
  /\ UNCHANGED <<list, topicLists, owner, where, request, given, asked>>

AssignPointer(t) ==
  /\ where[t] = "insert" /\ Found(t)
  /\ list' = [list EXCEPT ![request[t].topic] = Len(topicLists)]
  /\ owner' = NoCaller
  /\ Answer(t, Len(topicLists))
  /\ UNCHANGED <<keys, topicLists, request, asked>>

TopicsNext ==
  \/ \E t \in Callers :
       \/ \E r \in Request : Call(t, r)
       \/ LookFound(t) \/ LookNone(t) \/ Lock(t)
       \/ LookAgain(t) \/ Make(t) \/ InsertKey(t) \/ AssignPointer(t)
  \/ asked = MaxAsked /\ (\A t \in Callers : where[t] \in {"idle", "returned"})
     /\ UNCHANGED topicVars

TopicsSpec == TopicsInit /\ [][TopicsNext]_topicVars

-----------------------------------------------------------------------------
(* Properties *)

\* Types; no more lists than topics are ever made, and only the thread inside
\* the mutex is past it.
TopicsTypeOK ==
  /\ keys \subseteq Topics /\ topicLists \in Seq(Request)
  /\ Len(topicLists) <= Cardinality(Topics)
  /\ list \in [Topics -> 0..Len(topicLists)] /\ given \in [Callers -> 0..Len(topicLists)]
  /\ where \in [Callers -> {"idle", "look", "lock", "locked", "insert", "returned"}]
  /\ request \in [Callers -> Request] /\ asked \in 0..MaxAsked
  /\ owner \in Callers \cup {NoCaller}
  /\ \A t \in Callers : where[t] \in {"locked", "insert"} <=> owner = t

\* The variables have their types, and all callers of a topic share one list,
\* and with it one pair of cursors: otherwise pushes and pops would not go
\* round the same slices.
OneListPerTopic ==
  /\ TopicsTypeOK
  /\ \A t, u \in Callers :
       /\ given[t] # 0 => topicLists[given[t]].topic = request[t].topic
       /\ given[t] # 0 /\ given[u] # 0 /\ request[t].topic = request[u].topic =>
            given[t] = given[u]
=============================================================================
