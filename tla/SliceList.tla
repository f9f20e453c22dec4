------------------------------ MODULE SliceList -----------------------------
(***************************************************************************)
(* MWRedisSliceList (aclredis/include/mw/mwredisslicelist.cpp): a list cut *)
(* into slices, each a redis list of its own. Producers push to the slices *)
(* in turn, consumers look for the next slice that has data.               *)
(*                                                                         *)
(* Threads share the two atomic turn counters; everything else is on the   *)
(* redis servers (external): one redis command is one step. A command may  *)
(* fail there: its reply is lost, after which redis_client may have sent   *)
(* it again (RedisClient, AtMostTwice). Elements are numbers.              *)
(***************************************************************************)
EXTENDS Integers, FiniteSets, SequencesExt

CONSTANTS
  Threads,
  SliceNum,    \* m_list_slicenum
  EmptyElems,  \* whether the vector form of listrpush is given empty strings
  MaxElems,    \* BOUND: elements pushed
  MaxCalls,    \* BOUND: pops, lengths and ranges asked for
  MaxFaults    \* BOUND: commands that fail

ASSUME SliceAssumption ==
  /\ IsFiniteSet(Threads)
  /\ SliceNum \in Nat \ {0} /\ EmptyElems \in BOOLEAN
  /\ MaxElems \in Nat /\ MaxCalls \in Nat /\ MaxFaults \in Nat

VARIABLES
  lists,      \* the redis lists topic:0, topic:1, ...
  pushIndex, popIndex,  \* m_last_push_index, m_last_pop_index (modulo SliceNum)
  made,       \* elements numbered so far
  empties,    \* the elements that are empty strings
  calls, faults,
  pc,         \* what each thread is in
  elem,       \* the element it pushes
  at, start,  \* index and start_index of its call
  total,      \* totallen so far
  result,     \* what its last call returned
  got,        \* HISTORY: elements returned as popped
  old,        \* HISTORY: elements in the lists since a thread's call began
  seen        \* HISTORY: elements in the lists at some time during the call

call   == <<pc, elem, at, start, total, result>>
counts == <<pushIndex, popIndex, made, empties, calls, faults>>
vars   == <<lists, counts, call, got, old, seen>>

Slices == 0..(SliceNum - 1)
Stored == UNION {ToSet(lists[k]) : k \in Slices}
Nothing == [ret |-> 0, elems |-> <<>>]
Result(ret, elems) == [ret |-> ret, elems |-> elems]

Init ==
  /\ lists = [k \in Slices |-> <<>>]
  /\ pushIndex = 0 /\ popIndex = 0 /\ made = 0 /\ empties = {}
  /\ calls = 0 /\ faults = 0
  /\ pc = [t \in Threads |-> "idle"]
  /\ elem = [t \in Threads |-> 0] /\ total = [t \in Threads |-> 0]
  /\ at = [t \in Threads |-> 0] /\ start = [t \in Threads |-> 0]
  /\ result = [t \in Threads |-> Nothing]
  /\ got = <<>>
  /\ old = [t \in Threads |-> {}] /\ seen = [t \in Threads |-> {}]

Goto(t, place, index) ==
  /\ pc' = [pc EXCEPT ![t] = place]
  /\ at' = [at EXCEPT ![t] = index]
Return(t, r) ==
  /\ Goto(t, "idle", 0)
  /\ result' = [result EXCEPT ![t] = r]
  /\ elem' = [elem EXCEPT ![t] = 0] /\ start' = [start EXCEPT ![t] = 0]
  /\ total' = [total EXCEPT ![t] = 0]
Turn(counter) == (counter + 1) % SliceNum
Fault == faults < MaxFaults /\ faults' = faults + 1

-----------------------------------------------------------------------------
(* listrpush takes the next slice in turn, list_rpush_by_index a given one.  *)

Push(t, empty, slice) ==
  /\ pc[t] = "idle" /\ made < MaxElems
  /\ empty => EmptyElems
  /\ made' = made + 1
  /\ elem' = [elem EXCEPT ![t] = made + 1]
  /\ empties' = IF empty THEN empties \cup {made + 1} ELSE empties
  /\ IF slice \in Slices
       THEN Goto(t, "rpush", slice) /\ UNCHANGED pushIndex
       ELSE Goto(t, "rpush", pushIndex) /\ pushIndex' = Turn(pushIndex)
  /\ UNCHANGED <<lists, popIndex, calls, faults, start, total, result, got, old, seen>>

\* RPUSH: the element is stored once. With a fault it is stored not at all,
\* once, or twice, and the caller may get an error.
Store(t, copies, ok) ==
  /\ pc[t] = "rpush"
  /\ lists' = [lists EXCEPT ![at[t]] = @ \o [i \in 1..copies |-> elem[t]]]
  /\ seen' = [u \in Threads |-> IF copies > 0 THEN seen[u] \cup {elem[t]} ELSE seen[u]]
  /\ Return(t, Result(IF ok THEN Len(lists'[at[t]]) ELSE -1, <<>>))
  /\ UNCHANGED <<pushIndex, popIndex, made, empties, calls, got, old>>

RPush(t) == Store(t, 1, TRUE) /\ UNCHANGED faults
RPushFault(t) ==
  \E copies \in 0..2, ok \in BOOLEAN : (ok => copies > 0) /\ Fault /\ Store(t, copies, ok)

-----------------------------------------------------------------------------
(* listlpop is "scan", listbatchlpop is "batch"; list_robin_lpop and         *)
(* list_lpop_by_index are "one".                                             *)

Begin(t) ==
  /\ pc[t] = "idle" /\ calls < MaxCalls
  /\ calls' = calls + 1
  /\ old' = [old EXCEPT ![t] = Stored] /\ seen' = [seen EXCEPT ![t] = Stored]
  /\ UNCHANGED <<lists, pushIndex, made, empties, faults, elem, total, result, got>>

Pop(t, kind) ==
  /\ Begin(t)
  /\ popIndex' = Turn(popIndex)
  /\ start' = [start EXCEPT ![t] = popIndex]
  /\ Goto(t, kind, popIndex)

PopByIndex(t, slice) ==
  /\ Begin(t)
  /\ Goto(t, "one", slice)
  /\ UNCHANGED <<popIndex, start>>

Popping(t) == pc[t] \in {"scan", "batch", "one"}
NextSlice(t) == IF pc[t] = "one" THEN at[t] ELSE (at[t] + 1) % SliceNum

AllSeenEarly(t) == (NextSlice(t) + 1) % SliceNum = start[t]   \* mutant: one slice less
AllSeenNever(t) == NextSlice(t) = SliceNum                    \* mutant: no slice is the last
AllSeen(t) == NextSlice(t) = start[t]

\* m elements leave the head of slice k.
TakeOffLess(k, m) == UNCHANGED <<lists, old>>     \* mutant: the script only reads
TakeOff(k, m) ==
  /\ lists' = [lists EXCEPT ![k] = SubSeq(@, m + 1, Len(@))]
  /\ old' = [u \in Threads |-> old[u] \ ToSet(SubSeq(lists[k], 1, m))]

\* One LPOP, or the script of zlpop_list, which takes up to batch elements. lpop
\* returns the length of the element: an empty string looks like no element.
PopStep(t, batch) ==
  /\ Popping(t)
  /\ pc[t] = "batch" \/ batch = 1
  /\ LET k == NextSlice(t)
         m == IF Len(lists[k]) < batch THEN Len(lists[k]) ELSE batch
         elems == SubSeq(lists[k], 1, m)
         found == elems # <<>> /\ (pc[t] = "batch" \/ elems[1] \notin empties)
     IN
     /\ TakeOff(k, m)
     /\ IF found THEN Return(t, Result(1, elems)) /\ got' = got \o elems
        ELSE /\ UNCHANGED got
             /\ IF pc[t] = "one" \/ AllSeen(t) THEN Return(t, Result(0, elems))
                ELSE Goto(t, pc[t], k) /\ UNCHANGED <<elem, start, total, result>>
  /\ UNCHANGED <<counts, seen>>

\* The reply is lost, and with it what the command took: the call returns an
\* error, or the command is repeated on what is left. Or nothing was done.
PopFault(t) ==
  /\ Popping(t)
  /\ Fault
  /\ \E m \in 0..2 :
       /\ m <= Len(lists[NextSlice(t)]) /\ (pc[t] # "batch" => m <= 1)
       /\ TakeOff(NextSlice(t), m)
  /\ Return(t, Result(-1, <<>>)) \/ UNCHANGED call
  /\ UNCHANGED <<pushIndex, popIndex, made, empties, calls, got, seen>>

\* A command that changes nothing fails: its call returns the error.
ReadFault(t) ==
  /\ pc[t] = "empty" \/ (pc[t] = "len" /\ at[t] < SliceNum)
  /\ Fault
  /\ Return(t, Result(-1, <<>>))
  /\ UNCHANGED <<lists, pushIndex, popIndex, made, empties, calls, got, old, seen>>

-----------------------------------------------------------------------------
(* list_totallen asks one slice after the other. *)

TotalLen(t) == Begin(t) /\ Goto(t, "len", 0) /\ UNCHANGED <<popIndex, start>>

LengthOfFirst(t) == Len(lists[0])     \* mutant: always the same key
LengthOf(t) == Len(lists[at[t]])

LLen(t) ==
  /\ pc[t] = "len" /\ at[t] < SliceNum
  /\ total' = [total EXCEPT ![t] = @ + LengthOf(t)]
  /\ Goto(t, "len", at[t] + 1)
  /\ UNCHANGED <<lists, counts, elem, start, result, got, old, seen>>

TotalLenEnd(t) ==
  /\ pc[t] = "len" /\ at[t] = SliceNum
  /\ Return(t, Result(total[t], <<>>))
  /\ UNCHANGED <<lists, counts, got, old, seen>>

(* list_lrange refuses first <= last; LRANGE of another range is empty on    *)
(* every slice.                                                              *)
LRange(t, first, last) ==
  /\ Begin(t)
  /\ Goto(t, IF first <= last THEN "refused" ELSE "empty", 0)
  /\ UNCHANGED <<popIndex, start>>
LRangeEnd(t) ==
  /\ pc[t] \in {"refused", "empty"}
  /\ Return(t, Result(IF pc[t] = "refused" THEN -1 ELSE 0, <<>>))
  /\ UNCHANGED <<lists, counts, got, old, seen>>

-----------------------------------------------------------------------------
Step(t) ==
  \/ RPush(t) \/ RPushFault(t) \/ PopFault(t) \/ ReadFault(t)
  \/ LLen(t) \/ TotalLenEnd(t) \/ LRangeEnd(t)
  \/ \E batch \in 1..2 : PopStep(t, batch)

Start(t) ==
  \/ \E empty \in BOOLEAN, slice \in Slices \cup {SliceNum} : Push(t, empty, slice)
  \/ \E kind \in {"scan", "batch", "one"} : Pop(t, kind)
  \/ \E slice \in Slices : PopByIndex(t, slice)
  \/ TotalLen(t)
  \/ \E first, last \in 0..1 : LRange(t, first, last)

\* The program ends when the bounds are reached.
Finished ==
  /\ calls = MaxCalls /\ made = MaxElems /\ \A t \in Threads : pc[t] = "idle"
  /\ UNCHANGED vars

Next == (\E t \in Threads : Start(t) \/ Step(t)) \/ Finished

Spec == Init /\ [][Next]_vars

\* A thread inside a call runs on.
FairSpec == Spec /\ \A t \in Threads : WF_vars(Step(t))

-----------------------------------------------------------------------------
(* Properties *)

Elems == 1..MaxElems
TypeOK ==
  /\ lists \in [Slices -> Seq(Elems)]
  /\ pushIndex \in Slices /\ popIndex \in Slices
  /\ made \in 0..MaxElems /\ empties \subseteq Elems
  /\ calls \in 0..MaxCalls /\ faults \in 0..MaxFaults
  /\ pc \in [Threads -> {"idle", "rpush", "scan", "batch", "one", "len", "refused", "empty"}]
  /\ elem \in [Threads -> 0..MaxElems] /\ total \in [Threads -> Nat]
  /\ at \in [Threads -> 0..SliceNum] /\ start \in [Threads -> Slices]
  /\ result \in [Threads -> [ret : Int, elems : Seq(Elems)]]
  /\ got \in Seq(Elems)
  /\ old \in [Threads -> SUBSET Elems] /\ seen \in [Threads -> SUBSET Elems]

\* listlpop and listbatchlpop say "no data" only after they have looked at every
\* slice: each element that was there when the call began has been taken since.
NoDataMeansTaken ==
  [][\A t \in Threads : pc[t] \in {"scan", "batch"} /\ pc'[t] = "idle" /\ result'[t].ret = 0
       => old'[t] = {}]_vars

\* list_totallen adds lengths read at different times. The sum still counts
\* every element that stays during the call, and, when no command is repeated,
\* none that is not there at some time during it.
LengthPlausible ==
  [][\A t \in Threads : TotalLenEnd(t) =>
       /\ total[t] >= Cardinality(old[t])
       /\ faults = 0 => total[t] <= Cardinality(seen[t])]_vars

\* The variables have their types (the cursors stay within the slices), and
\* consumers that pop at once never get the same element, nor is a popped one
\* still stored; only a repeated command may give one out again.
DeliveredOnce ==
  /\ TypeOK
  /\ faults = 0 => IsInjective(got) /\ ToSet(got) \cap Stored = {}

\* The search of a consumer over the slices ends, also while others push and pop.
CallEnds == \A t \in Threads : pc[t] # "idle" ~> pc[t] = "idle"

\* mwredisslicelist.h:85: an element that listlpop takes off a slice is
\* returned, with a value above zero.
TakenIsReturned ==
  [][\A t \in Threads :
       pc[t] = "scan" /\ PopStep(t, 1) /\ lists' # lists => result'[t].ret > 0]_vars
=============================================================================
