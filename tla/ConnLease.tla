----------------------------- MODULE ConnLease ------------------------------
(***************************************************************************)
(* What a connection pool promises its callers, whatever its lists, counts *)
(* and clocks do: a connection is absent, idle or lent to one thread; at   *)
(* most Limit of the pool's own connections exist; and the pool ends only  *)
(* in the step that takes back its last loan, after which it lends no more.*)
(***************************************************************************)
EXTENDS Naturals, FiniteSets

CONSTANTS Threads, Conns, Foreign, Limit

VARIABLES
  place,  \* where each connection is: "absent", "idle" or a thread
  ended   \* the pool is gone

lvars == <<place, ended>>

Live == {c \in Conns : place[c] # "absent"}
Lent(t) == {c \in Conns : place[c] = t}
Lendings == {c \in Conns : place[c] \in Threads}

Init == place = [c \in Conns |-> "absent"] /\ ended = FALSE

\* A new connection of the pool goes to the thread that asked for it.
Open(t, c) ==
  /\ ~ended /\ Lent(t) = {} /\ place[c] = "absent"
  /\ c \notin Foreign
  /\ Limit > 0 => Cardinality(Live \ Foreign) < Limit
  /\ place' = [place EXCEPT ![c] = t]
  /\ UNCHANGED ended

\* A thread brings a connection of its own.
Bring(t, c) ==
  /\ ~ended /\ Lent(t) = {} /\ place[c] = "absent"
  /\ c \in Foreign
  /\ place' = [place EXCEPT ![c] = t]
  /\ UNCHANGED ended

Lend(t, c) ==
  /\ ~ended /\ Lent(t) = {} /\ place[c] = "idle"
  /\ place' = [place EXCEPT ![c] = t]
  /\ UNCHANGED ended

\* Connections are closed: idle ones, never one that a thread has.
Close(S) ==
  /\ ~ended /\ \A c \in S : place[c] = "idle"
  /\ place' = [c \in Conns |-> IF c \in S THEN "absent" ELSE place[c]]
  /\ UNCHANGED ended

\* A thread gives its connection back; it and idle ones may be closed.
Return(t, c, S) ==
  /\ ~ended /\ place[c] = t
  /\ \A d \in S : d = c \/ place[d] = "idle"
  /\ place' = [d \in Conns |-> IF d \in S THEN "absent"
                               ELSE IF d = c THEN "idle" ELSE place[d]]
  /\ UNCHANGED ended

End(t, c) ==
  /\ ~ended /\ place[c] = t /\ Lendings = {c}
  /\ place' = [d \in Conns |-> "absent"]
  /\ ended' = TRUE

Next ==
  \/ \E t \in Threads, c \in Conns :
       \/ Open(t, c) \/ Bring(t, c) \/ Lend(t, c) \/ End(t, c)
       \/ \E S \in SUBSET Conns : Return(t, c, S)
  \/ \E S \in SUBSET Conns : Close(S)

Spec == Init /\ [][Next]_lvars
=============================================================================
