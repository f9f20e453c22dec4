--------------------------- MODULE SliceListProofs ---------------------------
(***************************************************************************)
(* Theorems about SliceList for any number of threads, slices, elements    *)
(* and calls: what a consumer gets it gets once, a search that finds       *)
(* nothing has overlooked nothing, and a length is a plausible one; and    *)
(* about SliceTopics, for any topics: they share their lists.              *)
(***************************************************************************)
EXTENDS SliceList, SliceTopics, SequenceTheorems, FiniteSetTheorems, TLAPS

-----------------------------------------------------------------------------
(* Sequences and the sets of their elements. *)

LEMMA SetOfSeq ==
  ASSUME NEW S, NEW s \in Seq(S)
  PROVE  /\ Len(s) \in Nat /\ DOMAIN s = 1..Len(s) /\ ToSet(s) \subseteq S
         /\ \A e : e \in ToSet(s) <=> \E i \in 1..Len(s) : s[i] = e
         /\ IsInjective(s) <=> \A i, j \in 1..Len(s) : s[i] = s[j] => i = j
         /\ \A T : ToSet(s) \subseteq T => s \in Seq(T)
<1>1. Len(s) \in Nat /\ DOMAIN s = 1..Len(s) /\ s \in [1..Len(s) -> S]
  BY LenProperties
<1>2. \A e : e \in ToSet(s) <=> \E i \in 1..Len(s) : s[i] = e
  BY <1>1 DEF ToSet
<1>3. ASSUME NEW T, ToSet(s) \subseteq T PROVE s \in Seq(T)
  <2>1. \A i \in 1..Len(s) : s[i] \in T
    BY <1>2, <1>3
  <2>2. s \in [1..Len(s) -> T]
    BY <1>1, <2>1
  <2> QED BY <1>1, <2>2, SeqDef
<1> QED BY <1>1, <1>2, <1>3 DEF IsInjective

LEMMA SetOfEmpty == ToSet(<<>>) = {} /\ IsInjective(<<>>)
BY DEF ToSet, IsInjective

LEMMA SetOfConcat ==
  ASSUME NEW S, NEW s \in Seq(S), NEW r \in Seq(S)
  PROVE  /\ s \o r \in Seq(S) /\ ToSet(s \o r) = ToSet(s) \cup ToSet(r)
         /\ IsInjective(s) /\ IsInjective(r) /\ ToSet(s) \cap ToSet(r) = {}
              => IsInjective(s \o r)
<1> DEFINE q == s \o r
<1>1. /\ q \in Seq(S) /\ Len(q) = Len(s) + Len(r) /\ Len(s) \in Nat /\ Len(r) \in Nat
      /\ \A i \in 1..(Len(s) + Len(r)) : q[i] = IF i <= Len(s) THEN s[i] ELSE r[i - Len(s)]
  BY ConcatProperties, LenProperties
<1> HIDE DEF q
<1>2. ToSet(q) \subseteq ToSet(s) \cup ToSet(r)
  <2> SUFFICES ASSUME NEW i \in 1..Len(q) PROVE q[i] \in ToSet(s) \cup ToSet(r)
    BY <1>1, SetOfSeq
  <2>1. CASE i <= Len(s)
    <3>1. i \in 1..Len(s) /\ q[i] = s[i]
      BY <1>1, <2>1
    <3> QED BY <3>1, SetOfSeq
  <2>2. CASE i > Len(s)
    <3>1. i - Len(s) \in 1..Len(r) /\ q[i] = r[i - Len(s)]
      BY <1>1, <2>2
    <3> QED BY <3>1, SetOfSeq
  <2> QED BY <1>1, <2>1, <2>2
<1>3. ToSet(s) \subseteq ToSet(q)
  <2> SUFFICES ASSUME NEW i \in 1..Len(s) PROVE s[i] \in ToSet(q)
    BY SetOfSeq
  <2>1. i \in 1..Len(q) /\ q[i] = s[i]
    BY <1>1
  <2> QED BY <1>1, <2>1, SetOfSeq
<1>4. ToSet(r) \subseteq ToSet(q)
  <2> SUFFICES ASSUME NEW i \in 1..Len(r) PROVE r[i] \in ToSet(q)
    BY SetOfSeq
  <2>1. i + Len(s) \in 1..Len(q) /\ q[i + Len(s)] = r[i]
    <3>1. /\ i + Len(s) \in 1..(Len(s) + Len(r)) /\ ~(i + Len(s) <= Len(s))
          /\ (i + Len(s)) - Len(s) = i
      BY <1>1
    <3> QED BY <1>1, <3>1
  <2>2. \A j \in 1..Len(q) : q[j] \in ToSet(q)
    BY <1>1, SetOfSeq
  <2> QED BY <2>1, <2>2
<1>5. ASSUME IsInjective(s), IsInjective(r), ToSet(s) \cap ToSet(r) = {}
      PROVE  IsInjective(q)
  <2>1. /\ \A i, j \in 1..Len(s) : s[i] = s[j] => i = j
        /\ \A i, j \in 1..Len(r) : r[i] = r[j] => i = j
        /\ \A i \in 1..Len(s), j \in 1..Len(r) : s[i] # r[j]
    <3>1. /\ \A i, j \in 1..Len(s) : s[i] = s[j] => i = j
          /\ \A i \in 1..Len(s) : s[i] \in ToSet(s)
      BY <1>5, SetOfSeq
    <3>2. /\ \A i, j \in 1..Len(r) : r[i] = r[j] => i = j
          /\ \A i \in 1..Len(r) : r[i] \in ToSet(r)
      BY <1>5, SetOfSeq
    <3> QED BY <1>5, <3>1, <3>2
  <2>2. ASSUME NEW i \in 1..Len(q), NEW j \in 1..Len(q), q[i] = q[j], i <= j
        PROVE  i = j
    <3>1. CASE j <= Len(s)
      <4>1. q[i] = s[i] /\ q[j] = s[j] /\ i \in 1..Len(s) /\ j \in 1..Len(s)
        BY <1>1, <2>2, <3>1
      <4> QED BY <2>1, <2>2, <4>1
    <3>2. CASE i <= Len(s) /\ j > Len(s)
      <4>1. q[i] = s[i] /\ q[j] = r[j - Len(s)] /\ i \in 1..Len(s) /\ j - Len(s) \in 1..Len(r)
        BY <1>1, <3>2
      <4> QED BY <2>1, <2>2, <4>1
    <3>3. CASE i > Len(s)
      <4>1. /\ q[i] = r[i - Len(s)] /\ q[j] = r[j - Len(s)]
            /\ i - Len(s) \in 1..Len(r) /\ j - Len(s) \in 1..Len(r)
        BY <1>1, <2>2, <3>3
      <4>2. i - Len(s) = j - Len(s)
        BY <2>1, <2>2, <4>1
      <4> QED BY <1>1, <4>2
    <3> QED BY <1>1, <2>2, <3>1, <3>2, <3>3
  <2>3. \A i, j \in 1..Len(q) : q[i] = q[j] => i = j
    BY <1>1, <2>2
  <2> QED BY <1>1, <2>3, SetOfSeq
<1> QED BY <1>1, <1>2, <1>3, <1>4, <1>5 DEF q

\* A sequence is cut in two.
LEMMA SetOfParts ==
  ASSUME NEW S, NEW s \in Seq(S), NEW m \in 0..Len(s)
  PROVE  LET head == SubSeq(s, 1, m)
             tail == SubSeq(s, m + 1, Len(s))
         IN  /\ head \in Seq(S) /\ tail \in Seq(S) /\ Len(head) = m
             /\ ToSet(s) = ToSet(head) \cup ToSet(tail)
             /\ IsInjective(s) => /\ IsInjective(head) /\ IsInjective(tail)
                                  /\ ToSet(head) \cap ToSet(tail) = {}
<1> DEFINE head == SubSeq(s, 1, m)
           tail == SubSeq(s, m + 1, Len(s))
<1>1. Len(s) \in Nat /\ m \in Nat /\ m <= Len(s) /\ \A i \in 1..Len(s) : s[i] \in S
  BY LenProperties, ElementOfSeq
<1>2. head \in Seq(S) /\ Len(head) = m /\ \A i \in 1..m : head[i] = s[i]
  <2>1. \A i \in 1..m : s[i] \in S
    BY <1>1
  <2>2. /\ head \in Seq(S) /\ Len(head) = IF 1 <= m THEN m - 1 + 1 ELSE 0
        /\ \A i \in 1..(m - 1 + 1) : head[i] = s[1 + i - 1]
    BY <1>1, <2>1, SubSeqProperties
  <2> HIDE DEF head
  <2> QED BY <1>1, <2>2
<1>3. tail \in Seq(S) /\ Len(tail) = Len(s) - m /\ \A i \in 1..(Len(s) - m) : tail[i] = s[m + i]
  <2>1. \A i \in (m + 1)..Len(s) : s[i] \in S
    BY <1>1
  <2>2. /\ tail \in Seq(S)
        /\ Len(tail) = IF m + 1 <= Len(s) THEN Len(s) - (m + 1) + 1 ELSE 0
        /\ \A i \in 1..(Len(s) - (m + 1) + 1) : tail[i] = s[(m + 1) + i - 1]
    BY <1>1, <2>1, SubSeqProperties
  <2> HIDE DEF tail
  <2> QED BY <1>1, <2>2
<1> HIDE DEF head, tail
<1>4. ToSet(s) \subseteq ToSet(head) \cup ToSet(tail)
  <2> SUFFICES ASSUME NEW i \in 1..Len(s) PROVE s[i] \in ToSet(head) \cup ToSet(tail)
    BY SetOfSeq
  <2>1. CASE i <= m
    BY <1>1, <1>2, <2>1, SetOfSeq
  <2>2. CASE i > m
    <3>1. i - m \in 1..Len(tail) /\ tail[i - m] = s[i]
      BY <1>1, <1>3, <2>2
    <3> QED BY <1>3, <3>1, SetOfSeq
  <2> QED BY <1>1, <2>1, <2>2
<1>5. ToSet(head) \subseteq ToSet(s)
  <2> SUFFICES ASSUME NEW i \in 1..Len(head) PROVE head[i] \in ToSet(s)
    BY <1>2, SetOfSeq
  <2>1. i \in 1..Len(s) /\ head[i] = s[i]
    BY <1>1, <1>2
  <2> QED BY <2>1, SetOfSeq
<1>6. ToSet(tail) \subseteq ToSet(s)
  <2> SUFFICES ASSUME NEW i \in 1..Len(tail) PROVE tail[i] \in ToSet(s)
    BY <1>3, SetOfSeq
  <2>1. m + i \in 1..Len(s) /\ tail[i] = s[m + i]
    BY <1>1, <1>3
  <2> QED BY <2>1, SetOfSeq
<1>7. ASSUME IsInjective(s)
      PROVE  IsInjective(head) /\ IsInjective(tail) /\ ToSet(head) \cap ToSet(tail) = {}
  <2>1. \A i, j \in 1..Len(s) : s[i] = s[j] => i = j
    BY <1>7, SetOfSeq
  <2>2. \A i, j \in 1..Len(head) : head[i] = head[j] => i = j
    BY <1>1, <1>2, <2>1
  <2>3. ASSUME NEW i \in 1..Len(tail), NEW j \in 1..Len(tail), tail[i] = tail[j]
        PROVE  i = j
    <3>1. /\ m + i \in 1..Len(s) /\ m + j \in 1..Len(s)
          /\ s[m + i] = s[m + j]
      BY <1>1, <1>3, <2>3
    <3> QED BY <1>1, <2>1, <3>1
  <2>4. ASSUME NEW i \in 1..Len(head), NEW j \in 1..Len(tail) PROVE head[i] # tail[j]
    <3>1. /\ i \in 1..Len(s) /\ m + j \in 1..Len(s) /\ i # m + j
          /\ head[i] = s[i] /\ tail[j] = s[m + j]
      BY <1>1, <1>2, <1>3
    <3> QED BY <2>1, <3>1
  <2>5. IsInjective(head)
    BY <1>2, <2>2, SetOfSeq
  <2>6. IsInjective(tail)
    BY <1>3, <2>3, SetOfSeq
  <2>7. ASSUME NEW e \in ToSet(head), e \in ToSet(tail) PROVE FALSE
    <3>1. \E i \in 1..Len(head) : head[i] = e
      BY <1>2, SetOfSeq
    <3>2. \E j \in 1..Len(tail) : tail[j] = e
      BY <1>3, <2>7, SetOfSeq
    <3> QED BY <2>4, <3>1, <3>2
  <2> QED BY <2>5, <2>6, <2>7
<1>8. ToSet(s) = ToSet(head) \cup ToSet(tail)
  BY <1>4, <1>5, <1>6
<1> QED BY <1>2, <1>3, <1>7, <1>8 DEF head, tail

LEMMA CardOfSeq ==
  ASSUME NEW S, NEW s \in Seq(S)
  PROVE  /\ IsFiniteSet(ToSet(s)) /\ Cardinality(ToSet(s)) <= Len(s)
         /\ IsInjective(s) => Cardinality(ToSet(s)) = Len(s)
<1>1. Len(s) \in Nat /\ s \in [1..Len(s) -> S] /\ DOMAIN s = 1..Len(s)
  BY LenProperties
<1>2. IsFiniteSet(1..Len(s)) /\ Cardinality(1..Len(s)) = Len(s)
  BY <1>1, FS_Interval
<1>3. s \in Surjection(1..Len(s), ToSet(s))
  BY <1>1, SetOfSeq DEF Surjection
<1>4. IsInjective(s) => s \in Injection(1..Len(s), ToSet(s))
  <2>1. \A i \in 1..Len(s) : s[i] \in ToSet(s)
    BY SetOfSeq
  <2>2. s \in [1..Len(s) -> ToSet(s)]
    BY <1>1, <2>1
  <2> QED BY <2>2 DEF Injection
<1> HIDE DEF ToSet
<1> QED BY <1>2, <1>3, <1>4, FS_Surjection

-----------------------------------------------------------------------------
(* Types, and where the cursors of a call and the numbers of its elements are. *)

Made == 1..made
Places == {"idle", "rpush", "scan", "batch", "one", "len", "refused", "empty"}
Walking == {"scan", "batch", "one", "rpush"}
Results == [ret : Int, elems : Seq(Elems)]

CallInv ==
  /\ pc \in [Threads -> Places]
  /\ elem \in [Threads -> 0..MaxElems] /\ total \in [Threads -> Nat]
  /\ at \in [Threads -> 0..SliceNum] /\ start \in [Threads -> Slices]
  /\ result \in [Threads -> Results]
  /\ \A t \in Threads : /\ pc[t] \in Walking => at[t] \in Slices
                        /\ pc[t] = "rpush" => elem[t] \in Made

DataInv ==
  /\ lists \in [Slices -> Seq(Elems)] /\ \A k \in Slices : ToSet(lists[k]) \subseteq Made
  /\ pushIndex \in Slices /\ popIndex \in Slices
  /\ made \in 0..MaxElems /\ empties \subseteq Made /\ (~EmptyElems => empties = {})
  /\ calls \in 0..MaxCalls /\ faults \in 0..MaxFaults
  /\ got \in Seq(Elems) /\ ToSet(got) \subseteq Made
  /\ old \in [Threads -> SUBSET Elems] /\ seen \in [Threads -> SUBSET Elems]

Types == CallInv /\ DataInv

LEMMA SliceFacts ==
  /\ SliceNum \in Nat /\ SliceNum >= 1 /\ 0 \in Slices
  /\ \A k \in Slices : k \in 0..SliceNum /\ k \in Int
  /\ \A k \in Slices : (k + 1) % SliceNum = IF k + 1 = SliceNum THEN 0 ELSE k + 1
  /\ \A k \in Slices : (k + 1) % SliceNum \in Slices
<1>1. SliceNum \in Nat /\ SliceNum >= 1
  BY SliceAssumption
<1>2. ASSUME NEW k \in Slices
      PROVE  (k + 1) % SliceNum = IF k + 1 = SliceNum THEN 0 ELSE k + 1
  <2>1. k \in Nat /\ k + 1 <= SliceNum
    BY <1>1 DEF Slices
  <2>2. CASE k + 1 = SliceNum
    BY <1>1, <2>1, <2>2
  <2>3. CASE k + 1 < SliceNum
    BY <1>1, <2>1, <2>3
  <2> QED BY <1>1, <2>1, <2>2, <2>3
<1> QED BY <1>1, <1>2 DEF Slices

\* Copies of an element enter a slice.
Copies(c, e) == [i \in 1..c |-> e]
LEMMA Stores ==
  ASSUME Types, NEW k \in Slices, NEW c \in 0..2, NEW e \in Made,
         lists' = [lists EXCEPT ![k] = @ \o Copies(c, e)]
  PROVE  /\ lists' \in [Slices -> Seq(Elems)]
         /\ \A l \in Slices : ToSet(lists'[l]) =
              IF l = k /\ c > 0 THEN ToSet(lists[l]) \cup {e} ELSE ToSet(lists[l])
         /\ \A l \in Slices : l # k => lists'[l] = lists[l]
         /\ c <= 1 /\ IsInjective(lists[k]) /\ e \notin ToSet(lists[k]) => IsInjective(lists'[k])
<1>1. /\ lists \in [Slices -> Seq(Elems)] /\ e \in Elems
      /\ \A l \in Slices : lists[l] \in Seq(Elems)
  BY SliceAssumption DEF Types, DataInv, Made, Elems
<1>2. /\ Copies(c, e) \in Seq(Elems) /\ Len(Copies(c, e)) = c
      /\ \A i \in 1..c : Copies(c, e)[i] = e
  <2>1. Copies(c, e) \in [1..c -> Elems]
    BY <1>1 DEF Copies
  <2> QED BY <2>1, SeqDef, LenProperties DEF Copies
<1>3. ToSet(Copies(c, e)) = IF c > 0 THEN {e} ELSE {}
  BY <1>2, SetOfSeq
<1>4. c <= 1 => IsInjective(Copies(c, e))
  BY <1>2, SetOfSeq
<1>5. /\ lists[k] \o Copies(c, e) \in Seq(Elems)
      /\ ToSet(lists[k] \o Copies(c, e)) = ToSet(lists[k]) \cup ToSet(Copies(c, e))
      /\ IsInjective(lists[k]) /\ IsInjective(Copies(c, e))
           /\ ToSet(lists[k]) \cap ToSet(Copies(c, e)) = {}
           => IsInjective(lists[k] \o Copies(c, e))
  BY <1>1, <1>2, SetOfConcat
<1>6. /\ lists' \in [Slices -> Seq(Elems)] /\ lists'[k] = lists[k] \o Copies(c, e)
      /\ \A l \in Slices : l # k => lists'[l] = lists[l]
  BY <1>1, <1>5
<1> HIDE DEF Copies
<1> QED BY <1>3, <1>4, <1>5, <1>6

\* The first elements leave a slice, and the calls' histories.
Heads(k, m) == SubSeq(lists[k], 1, m)
LEMMA Takes ==
  ASSUME Types, NEW k \in Slices, NEW m \in 0..Len(lists[k]), TakeOff(k, m)
  PROVE  /\ lists' \in [Slices -> Seq(Elems)]
         /\ Heads(k, m) \in Seq(Elems) /\ Len(Heads(k, m)) = m
         /\ ToSet(lists[k]) = ToSet(Heads(k, m)) \cup ToSet(lists'[k])
         /\ \A l \in Slices : l # k => lists'[l] = lists[l]
         /\ IsInjective(lists[k]) =>
              /\ IsInjective(Heads(k, m)) /\ IsInjective(lists'[k])
              /\ ToSet(Heads(k, m)) \cap ToSet(lists'[k]) = {}
         /\ old' = [u \in Threads |-> old[u] \ ToSet(Heads(k, m))]
<1>1. lists \in [Slices -> Seq(Elems)] /\ lists[k] \in Seq(Elems)
  BY DEF Types, DataInv
<1> DEFINE tail == SubSeq(lists[k], m + 1, Len(lists[k]))
<1>2. /\ Heads(k, m) \in Seq(Elems) /\ tail \in Seq(Elems) /\ Len(Heads(k, m)) = m
      /\ ToSet(lists[k]) = ToSet(Heads(k, m)) \cup ToSet(tail)
      /\ IsInjective(lists[k]) => /\ IsInjective(Heads(k, m)) /\ IsInjective(tail)
                                  /\ ToSet(Heads(k, m)) \cap ToSet(tail) = {}
  BY <1>1, SetOfParts DEF Heads
<1>3. lists' = [lists EXCEPT ![k] = tail]
  BY DEF TakeOff
<1> HIDE DEF tail
<1>4. /\ lists' \in [Slices -> Seq(Elems)] /\ lists'[k] = tail
      /\ \A l \in Slices : l # k => lists'[l] = lists[l]
  BY <1>1, <1>2, <1>3
<1>5. old' = [u \in Threads |-> old[u] \ ToSet(Heads(k, m))]
  BY DEF TakeOff, Heads
<1> QED BY <1>2, <1>4, <1>5

LEMMA CallMove ==
  ASSUME CallInv, NEW t \in Threads, NEW place \in Places, NEW index \in 0..SliceNum,
         Goto(t, place, index), Made \subseteq Made',
         elem' \in [Threads -> 0..MaxElems], total' \in [Threads -> Nat],
         start' \in [Threads -> Slices], result' \in [Threads -> Results],
         \A u \in Threads : u # t => elem'[u] = elem[u],
         place \in Walking => index \in Slices,
         place = "rpush" => elem'[t] \in Made'
  PROVE  CallInv'
<1>1. /\ pc' \in [Threads -> Places] /\ at' \in [Threads -> 0..SliceNum]
      /\ pc'[t] = place /\ at'[t] = index
      /\ \A u \in Threads : u # t => pc'[u] = pc[u] /\ at'[u] = at[u]
  BY DEF CallInv, Goto
<1>2. \A u \in Threads : /\ pc'[u] \in Walking => at'[u] \in Slices
                         /\ pc'[u] = "rpush" => elem'[u] \in Made'
  BY <1>1 DEF CallInv
<1> QED BY <1>1, <1>2 DEF CallInv

LEMMA CallReturn ==
  ASSUME CallInv, NEW t \in Threads, NEW r \in Results, Return(t, r), Made \subseteq Made'
  PROVE  CallInv' /\ pc'[t] = "idle" /\ result'[t] = r
<1>1. /\ Goto(t, "idle", 0)
      /\ elem' \in [Threads -> 0..MaxElems] /\ total' \in [Threads -> Nat]
      /\ start' \in [Threads -> Slices] /\ result' \in [Threads -> Results]
      /\ \A u \in Threads : u # t => elem'[u] = elem[u]
      /\ result'[t] = r /\ 0 \in 0..SliceNum
  BY SliceAssumption, SliceFacts DEF CallInv, Return
<1>2. pc'[t] = "idle"
  BY <1>1 DEF CallInv, Goto
<1>3. "idle" \in Places /\ "idle" \notin Walking
  BY DEF Places, Walking
<1> QED BY <1>1, <1>2, <1>3, CallMove

LEMMA StoredFacts ==
  ASSUME DataInv
  PROVE  /\ \A e : e \in Stored <=> \E k \in Slices : e \in ToSet(lists[k])
         /\ Stored \subseteq Made /\ Made \subseteq Elems /\ IsFiniteSet(Elems)
<1>1. Made \subseteq Elems
  BY SliceAssumption DEF DataInv, Made, Elems
<1>2. IsFiniteSet(Elems)
  BY SliceAssumption, FS_Interval DEF Elems
<1> HIDE DEF ToSet
<1>3. \A e : e \in Stored <=> \E k \in Slices : e \in ToSet(lists[k])
  BY DEF Stored
<1> QED BY <1>1, <1>2, <1>3 DEF DataInv

LEMMA BeginTypes ==
  ASSUME Types, NEW t \in Threads, Begin(t), popIndex' \in Slices
  PROVE  /\ DataInv' /\ Made' = Made /\ lists' = lists
         /\ pc[t] = "idle"
         /\ old'[t] = Stored /\ seen'[t] = Stored
         /\ \A u \in Threads : u # t => old'[u] = old[u] /\ seen'[u] = seen[u]
<1>1. Stored \subseteq Elems
  BY StoredFacts DEF Types
<1>2. /\ old' \in [Threads -> SUBSET Elems] /\ seen' \in [Threads -> SUBSET Elems]
      /\ old'[t] = Stored /\ seen'[t] = Stored
      /\ \A u \in Threads : u # t => old'[u] = old[u] /\ seen'[u] = seen[u]
  BY <1>1 DEF Types, DataInv, Begin
<1>3. /\ UNCHANGED <<lists, pushIndex, made, empties, faults, got>>
      /\ calls' \in 0..MaxCalls /\ pc[t] = "idle"
  BY SliceAssumption DEF Types, DataInv, Begin
<1>4. Made' = Made /\ DataInv'
  BY <1>2, <1>3 DEF Types, DataInv, Made
<1> QED BY <1>2, <1>3, <1>4

LEMMA PushTypes ==
  ASSUME Types, NEW t \in Threads, NEW empty \in BOOLEAN, NEW slice \in Slices \cup {SliceNum},
         Push(t, empty, slice)
  PROVE  Types'
<1>1. /\ made \in Nat /\ made' = made + 1 /\ made' \in 0..MaxElems /\ made + 1 \in Made'
      /\ Made \subseteq Made'
  BY SliceAssumption DEF Types, DataInv, Push, Made
<1>2. /\ UNCHANGED <<lists, popIndex, calls, faults, start, total, result, got, old, seen>>
      /\ elem' \in [Threads -> 0..MaxElems] /\ elem'[t] = made + 1
      /\ \A u \in Threads : u # t => elem'[u] = elem[u]
  BY <1>1 DEF Types, CallInv, Push
<1>3. PICK index \in Slices : Goto(t, "rpush", index) /\ pushIndex' \in Slices
  <2>1. pushIndex \in Slices /\ Turn(pushIndex) \in Slices
    BY SliceFacts DEF Types, DataInv, Turn
  <2> QED BY <2>1 DEF Push
<1>4. CallInv'
  <2>1. "rpush" \in Places /\ index \in 0..SliceNum
    BY SliceFacts DEF Places
  <2>2. /\ total' \in [Threads -> Nat] /\ start' \in [Threads -> Slices]
        /\ result' \in [Threads -> Results] /\ CallInv
    BY <1>2 DEF Types, CallInv
  <2> QED BY <1>1, <1>2, <1>3, <2>1, <2>2, CallMove
<1>5. empties' \subseteq Made' /\ (~EmptyElems => empties' = {})
  BY <1>1 DEF Types, DataInv, Push
<1>6. DataInv'
  BY <1>1, <1>2, <1>3, <1>5 DEF Types, DataInv
<1> QED BY <1>4, <1>6 DEF Types

LEMMA StoreTypes ==
  ASSUME Types, NEW t \in Threads, NEW copies \in 0..2, NEW ok \in BOOLEAN,
         Store(t, copies, ok), faults' \in 0..MaxFaults
  PROVE  Types'
<1>1. /\ pc[t] = "rpush" /\ at[t] \in Slices /\ elem[t] \in Made
      /\ lists' = [lists EXCEPT ![at[t]] = @ \o Copies(copies, elem[t])]
      /\ UNCHANGED <<pushIndex, popIndex, made, empties, calls, got, old>>
  BY DEF Store, Types, CallInv, Walking, Copies
<1>2. /\ lists' \in [Slices -> Seq(Elems)]
      /\ \A l \in Slices : ToSet(lists'[l]) =
           IF l = at[t] /\ copies > 0 THEN ToSet(lists[l]) \cup {elem[t]} ELSE ToSet(lists[l])
  BY <1>1, Stores
<1>3. Made' = Made
  BY <1>1 DEF Made
<1>4. seen' \in [Threads -> SUBSET Elems]
  <2>1. elem[t] \in Elems
    BY <1>1, StoredFacts DEF Types
  <2> QED BY <2>1 DEF Types, DataInv, Store
<1>5. \A l \in Slices : ToSet(lists'[l]) \subseteq Made
  BY <1>1, <1>2 DEF Types, DataInv
<1>6. DataInv'
  BY <1>1, <1>2, <1>3, <1>4, <1>5 DEF Types, DataInv
<1>7. CallInv'
  <2> DEFINE r == Result(IF ok THEN Len(lists'[at[t]]) ELSE -1, <<>>)
  <2>1. Len(lists'[at[t]]) \in Nat /\ <<>> \in Seq(Elems)
    BY <1>1, <1>2, LenProperties, EmptySeq
  <2>2. r \in Results
    BY <2>1 DEF Results, Result
  <2>3. Return(t, r)
    BY DEF Store
  <2> HIDE DEF r
  <2> QED BY <1>3, <2>2, <2>3, CallReturn DEF Types
<1> QED BY <1>6, <1>7 DEF Types

\* Elements are taken off a slice; a call may get them.
LEMMA TakeTypes ==
  ASSUME Types, NEW k \in Slices, NEW m \in 0..Len(lists[k]), TakeOff(k, m),
         got' = got \/ got' = got \o Heads(k, m), faults' \in 0..MaxFaults,
         UNCHANGED <<pushIndex, popIndex, made, empties, calls, seen>>
  PROVE  DataInv' /\ Made' = Made
<1>1. /\ lists' \in [Slices -> Seq(Elems)]
      /\ Heads(k, m) \in Seq(Elems)
      /\ ToSet(lists[k]) = ToSet(Heads(k, m)) \cup ToSet(lists'[k])
      /\ \A l \in Slices : l # k => lists'[l] = lists[l]
      /\ old' = [u \in Threads |-> old[u] \ ToSet(Heads(k, m))]
  BY Takes
<1>2. Made' = Made
  BY DEF Made
<1>3. got' \in Seq(Elems) /\ ToSet(got') \subseteq Made
  <2>1. got \in Seq(Elems) /\ ToSet(got) \subseteq Made /\ ToSet(Heads(k, m)) \subseteq Made
    BY <1>1 DEF Types, DataInv
  <2>2. /\ got \o Heads(k, m) \in Seq(Elems)
        /\ ToSet(got \o Heads(k, m)) = ToSet(got) \cup ToSet(Heads(k, m))
    BY <1>1, <2>1, SetOfConcat
  <2> QED BY <2>1, <2>2
<1>4. \A l \in Slices : ToSet(lists'[l]) \subseteq Made
  BY <1>1 DEF Types, DataInv
<1>5. old' \in [Threads -> SUBSET Elems]
  BY <1>1 DEF Types, DataInv
<1> QED BY <1>1, <1>2, <1>3, <1>4, <1>5 DEF Types, DataInv

\* What a step of a search does: it takes the first elements of the next slice,
\* and gets them, or ends with nothing, or goes on.
Gets(t, k, m) == Return(t, Result(1, Heads(k, m))) /\ got' = got \o Heads(k, m)
Ends(t, k, m) ==
  Return(t, Result(0, Heads(k, m))) /\ UNCHANGED got /\ (pc[t] = "one" \/ AllSeen(t))
GoesOn(t, k) ==
  /\ pc[t] # "one" /\ ~AllSeen(t)
  /\ Goto(t, pc[t], k) /\ UNCHANGED <<elem, start, total, result, got>>

LEMMA PopOutcome ==
  ASSUME Types, NEW t \in Threads, NEW batch \in 1..2, PopStep(t, batch)
  PROVE  /\ NextSlice(t) \in Slices /\ Popping(t) /\ UNCHANGED <<counts, seen>>
         /\ \E m \in 0..Len(lists[NextSlice(t)]) :
              /\ TakeOff(NextSlice(t), m)
              /\ \/ Gets(t, NextSlice(t), m)
                 \/ /\ ~EmptyElems => m = 0 /\ Len(lists[NextSlice(t)]) = 0
                    /\ Ends(t, NextSlice(t), m) \/ GoesOn(t, NextSlice(t))
<1> DEFINE k == NextSlice(t)
           m == IF Len(lists[k]) < batch THEN Len(lists[k]) ELSE batch
<1>1. k \in Slices
  BY SliceFacts DEF Types, CallInv, Walking, PopStep, Popping, NextSlice
<1>2. lists[k] \in Seq(Elems) /\ Len(lists[k]) \in Nat
  BY <1>1, LenProperties DEF Types, DataInv
<1>3. /\ Popping(t) /\ UNCHANGED <<counts, seen>> /\ TakeOff(k, m)
      /\ \/ Gets(t, k, m)
         \/ /\ Heads(k, m) = <<>> \/ Heads(k, m)[1] \in empties
            /\ Ends(t, k, m) \/ GoesOn(t, k)
  BY DEF PopStep, Gets, Ends, GoesOn, Heads
<1> HIDE DEF k
<1>4. m \in 0..Len(lists[k]) /\ (m = 0 => Len(lists[k]) = 0)
  BY <1>2
<1> HIDE DEF m
<1>5. Len(Heads(k, m)) = m
  BY <1>1, <1>3, <1>4, Takes
<1>6. (Heads(k, m) = <<>> \/ Heads(k, m)[1] \in empties) /\ ~EmptyElems => m = 0
  BY <1>5, EmptySeq DEF Types, DataInv
<1> QED BY <1>1, <1>3, <1>4, <1>6 DEF k

LEMMA PopTypes ==
  ASSUME Types, NEW t \in Threads, NEW batch \in 1..2, PopStep(t, batch)
  PROVE  Types'
<1> DEFINE k == NextSlice(t)
<1>1. k \in Slices /\ Popping(t) /\ UNCHANGED <<counts, seen>>
  BY PopOutcome
<1>2. PICK m \in 0..Len(lists[k]) :
        /\ TakeOff(k, m)
        /\ Gets(t, k, m) \/ Ends(t, k, m) \/ GoesOn(t, k)
  BY PopOutcome
<1> HIDE DEF k
<1>3. faults' \in 0..MaxFaults /\ UNCHANGED <<pushIndex, popIndex, made, empties, calls, seen>>
  BY <1>1 DEF Types, DataInv, counts
<1>4. got' = got \/ got' = got \o Heads(k, m)
  BY <1>2 DEF Gets, Ends, GoesOn
<1>5. DataInv' /\ Made' = Made
  BY <1>1, <1>2, <1>3, <1>4, TakeTypes
<1>6. Heads(k, m) \in Seq(Elems)
  BY <1>1, <1>2, Takes
<1>7. CASE Gets(t, k, m) \/ Ends(t, k, m)
  <2>1. PICK n \in {0, 1} : Return(t, Result(n, Heads(k, m)))
    BY <1>7 DEF Gets, Ends
  <2>2. Result(n, Heads(k, m)) \in Results
    BY <1>6 DEF Result, Results
  <2> QED BY <1>5, <2>1, <2>2, CallReturn DEF Types
<1>8. CASE GoesOn(t, k)
  <2>1. /\ pc[t] \in Places /\ pc[t] # "rpush" /\ k \in 0..SliceNum
        /\ Goto(t, pc[t], k) /\ UNCHANGED <<elem, start, total, result>>
    BY <1>1, <1>8, SliceFacts DEF GoesOn, Popping, Places
  <2>2. /\ elem' \in [Threads -> 0..MaxElems] /\ total' \in [Threads -> Nat]
        /\ start' \in [Threads -> Slices] /\ result' \in [Threads -> Results]
        /\ \A u \in Threads : u # t => elem'[u] = elem[u]
    BY <2>1 DEF Types, CallInv
  <2> QED BY <1>1, <1>5, <2>1, <2>2, CallMove DEF Types
<1> QED BY <1>2, <1>5, <1>7, <1>8 DEF Types

LEMMA PopFaultFacts ==
  ASSUME Types, NEW t \in Threads, PopFault(t)
  PROVE  /\ NextSlice(t) \in Slices /\ Popping(t) /\ faults' = faults + 1
         /\ faults' \in 0..MaxFaults
         /\ UNCHANGED <<pushIndex, popIndex, made, empties, calls, got, seen>>
         /\ Return(t, Result(-1, <<>>)) \/ UNCHANGED call
         /\ \E m \in 0..Len(lists[NextSlice(t)]) : TakeOff(NextSlice(t), m)
<1>1. NextSlice(t) \in Slices
  BY SliceFacts DEF Types, CallInv, Walking, PopFault, Popping, NextSlice
<1>2. Len(lists[NextSlice(t)]) \in Nat
  BY <1>1, LenProperties DEF Types, DataInv
<1>3. faults' = faults + 1 /\ faults' \in 0..MaxFaults
  BY SliceAssumption DEF PopFault, Fault, Types, DataInv
<1>4. \E m \in 0..2 : m <= Len(lists[NextSlice(t)]) /\ TakeOff(NextSlice(t), m)
  BY DEF PopFault
<1>5. \E m \in 0..Len(lists[NextSlice(t)]) : TakeOff(NextSlice(t), m)
  BY <1>2, <1>4
<1> QED BY <1>1, <1>3, <1>5 DEF PopFault

LEMMA PopFaultTypes ==
  ASSUME Types, NEW t \in Threads, PopFault(t)
  PROVE  Types'
<1> DEFINE k == NextSlice(t)
<1>1. /\ k \in Slices /\ Popping(t) /\ faults' \in 0..MaxFaults
      /\ UNCHANGED <<pushIndex, popIndex, made, empties, calls, got, seen>>
      /\ Return(t, Result(-1, <<>>)) \/ UNCHANGED call
  BY PopFaultFacts
<1>2. PICK m \in 0..Len(lists[k]) : TakeOff(k, m)
  BY PopFaultFacts
<1> HIDE DEF k
<1>3. DataInv' /\ Made' = Made
  BY <1>1, <1>2, TakeTypes
<1>4. Result(-1, <<>>) \in Results
  BY EmptySeq DEF Result, Results
<1>5. CallInv'
  <2>1. CASE Return(t, Result(-1, <<>>))
    BY <1>3, <1>4, <2>1, CallReturn DEF Types
  <2>2. CASE UNCHANGED call
    BY <1>3, <2>2 DEF Types, CallInv, call
  <2> QED BY <1>1, <2>1, <2>2
<1> QED BY <1>3, <1>5 DEF Types

\* The other steps change a call, or begin one.
Quiet(t) == LLen(t) \/ TotalLenEnd(t) \/ LRangeEnd(t) \/ ReadFault(t)
LEMMA QuietTypes ==
  ASSUME Types, NEW t \in Threads, Quiet(t)
  PROVE  Types' /\ Made' = Made
<1>1. /\ UNCHANGED <<lists, pushIndex, popIndex, made, empties, calls, got, old, seen>>
      /\ faults' = faults \/ faults' \in 0..MaxFaults
  BY SliceAssumption DEF Quiet, LLen, TotalLenEnd, LRangeEnd, ReadFault, counts, Fault, Types, DataInv
<1>2. DataInv' /\ Made' = Made
  BY <1>1 DEF Types, DataInv, Made
<1>3. \A n \in Int : Result(n, <<>>) \in Results
  BY EmptySeq DEF Result, Results
<1>4. CASE LLen(t)
  <2>1. /\ at[t] \in Slices /\ LengthOf(t) \in Nat
    BY <1>4, SliceAssumption, LenProperties DEF LLen, Types, CallInv, DataInv, LengthOf, Slices
  <2>2. /\ Goto(t, "len", at[t] + 1) /\ UNCHANGED <<elem, start, result>>
        /\ total' \in [Threads -> Nat]
    BY <1>4, <2>1 DEF LLen, Types, CallInv
  <2>3. /\ "len" \in Places /\ "len" \notin Walking /\ at[t] + 1 \in 0..SliceNum
        /\ elem' \in [Threads -> 0..MaxElems]
        /\ start' \in [Threads -> Slices] /\ result' \in [Threads -> Results]
        /\ \A u \in Threads : u # t => elem'[u] = elem[u]
    BY <2>1, <2>2, SliceFacts DEF Places, Walking, Types, CallInv, Slices
  <2>4. CallInv'
    BY <1>2, <2>2, <2>3, CallMove DEF Types, Walking
  <2> QED BY <1>2, <2>4 DEF Types
<1>5. CASE TotalLenEnd(t) \/ LRangeEnd(t) \/ ReadFault(t)
  <2>1. PICK n \in Int : Return(t, Result(n, <<>>))
    BY <1>5 DEF TotalLenEnd, LRangeEnd, ReadFault, Types, CallInv
  <2> QED BY <1>2, <1>3, <2>1, CallReturn DEF Types
<1> QED BY <1>4, <1>5 DEF Quiet

\* A call begins: a search at its first slice, a length at slice 0.
Begins(t) ==
  \/ \E kind \in {"scan", "batch", "one"} : Pop(t, kind)
  \/ \E slice \in Slices : PopByIndex(t, slice)
  \/ TotalLen(t)
  \/ \E first, last \in 0..1 : LRange(t, first, last)

Entered(t, place, index) ==
  /\ Goto(t, place, index)
  /\ place \in Walking => index \in Slices
  /\ place \in {"scan", "batch"} => start'[t] = index
  /\ place = "len" => index = 0

LEMMA BeginsFacts ==
  ASSUME Types, NEW t \in Threads, Begins(t)
  PROVE  /\ Begin(t) /\ popIndex' \in Slices /\ start' \in [Threads -> Slices]
         /\ \A u \in Threads : u # t => start'[u] = start[u]
         /\ \E place \in Places \ {"idle", "rpush"}, index \in 0..SliceNum :
              Entered(t, place, index)
<1>0. popIndex \in Slices /\ start \in [Threads -> Slices] /\ Turn(popIndex) \in Slices
  BY SliceFacts DEF Types, CallInv, DataInv, Turn
<1>1. CASE \E kind \in {"scan", "batch", "one"} : Pop(t, kind)
  <2>1. PICK kind \in {"scan", "batch", "one"} : Pop(t, kind)
    BY <1>1
  <2>2. /\ Begin(t) /\ popIndex' \in Slices /\ start' \in [Threads -> Slices]
        /\ start'[t] = popIndex /\ \A u \in Threads : u # t => start'[u] = start[u]
        /\ Goto(t, kind, popIndex)
    BY <1>0, <2>1 DEF Pop
  <2>3. kind \in Places \ {"idle", "rpush"} /\ popIndex \in 0..SliceNum /\ kind # "len"
    BY <1>0, SliceFacts DEF Places
  <2>4. Entered(t, kind, popIndex)
    BY <1>0, <2>2, <2>3 DEF Entered
  <2> QED BY <2>2, <2>3, <2>4
<1>2. CASE \E slice \in Slices : PopByIndex(t, slice)
  <2>1. PICK slice \in Slices : PopByIndex(t, slice)
    BY <1>2
  <2>2. "one" \in Places \ {"idle", "rpush"} /\ slice \in 0..SliceNum
    BY SliceFacts DEF Places
  <2>3. Entered(t, "one", slice)
    BY <2>1 DEF Entered, PopByIndex
  <2> QED BY <1>0, <2>1, <2>2, <2>3 DEF PopByIndex
<1>3. CASE TotalLen(t) \/ \E first, last \in 0..1 : LRange(t, first, last)
  <2>1. PICK place \in {"len", "refused", "empty"} : Goto(t, place, 0)
    BY <1>3 DEF TotalLen, LRange
  <2>2. Begin(t) /\ UNCHANGED <<popIndex, start>>
    BY <1>3 DEF TotalLen, LRange
  <2>3. place \in Places \ {"idle", "rpush"} /\ 0 \in 0..SliceNum /\ place \notin Walking
    BY SliceFacts DEF Places, Walking
  <2>4. Entered(t, place, 0)
    BY <2>1, <2>3 DEF Entered, Walking
  <2> QED BY <1>0, <2>2, <2>3, <2>4
<1> QED BY <1>1, <1>2, <1>3 DEF Begins

LEMMA BeginsTypes ==
  ASSUME Types, NEW t \in Threads, Begins(t)
  PROVE  Types'
<1>1. /\ Begin(t) /\ popIndex' \in Slices /\ start' \in [Threads -> Slices]
  BY BeginsFacts
<1>2. PICK place \in Places \ {"idle", "rpush"}, index \in 0..SliceNum : Entered(t, place, index)
  BY BeginsFacts
<1>3. DataInv' /\ Made' = Made
  BY <1>1, BeginTypes
<1>4. /\ Goto(t, place, index) /\ place \in Places /\ place # "rpush"
      /\ place \in Walking => index \in Slices
  BY <1>2 DEF Entered
<1>5. /\ elem' \in [Threads -> 0..MaxElems] /\ total' \in [Threads -> Nat]
      /\ result' \in [Threads -> Results]
      /\ \A u \in Threads : u # t => elem'[u] = elem[u]
  BY <1>1 DEF Begin, Types, CallInv
<1>6. CallInv'
  BY <1>1, <1>3, <1>4, <1>5, CallMove DEF Types
<1> QED BY <1>3, <1>6 DEF Types

LEMMA StepCases ==
  ASSUME Next
  PROVE  \/ \E t \in Threads :
              \/ \E empty \in BOOLEAN, slice \in Slices \cup {SliceNum} : Push(t, empty, slice)
              \/ \E copies \in 0..2, ok \in BOOLEAN :
                   /\ Store(t, copies, ok)
                   /\ (copies = 1 /\ UNCHANGED faults) \/ Fault
              \/ \E batch \in 1..2 : PopStep(t, batch)
              \/ PopFault(t) \/ Quiet(t) \/ Begins(t)
         \/ UNCHANGED vars
<1>1. CASE Finished
  BY <1>1 DEF Finished
<1>2. ASSUME NEW t \in Threads, Start(t)
      PROVE  \/ \E empty \in BOOLEAN, slice \in Slices \cup {SliceNum} : Push(t, empty, slice)
             \/ Begins(t)
  BY <1>2 DEF Start, Begins
<1>3. ASSUME NEW t \in Threads, Step(t)
      PROVE  \/ \E copies \in 0..2, ok \in BOOLEAN :
                  /\ Store(t, copies, ok)
                  /\ (copies = 1 /\ UNCHANGED faults) \/ Fault
             \/ \E batch \in 1..2 : PopStep(t, batch)
             \/ PopFault(t) \/ Quiet(t)
  <2>1. CASE RPush(t)
    <3>1. Store(t, 1, TRUE) /\ UNCHANGED faults
      BY <2>1 DEF RPush
    <3>2. \E ok \in BOOLEAN : Store(t, 1, ok) /\ UNCHANGED faults
      BY <3>1
    <3> QED BY <3>2
  <2>2. CASE RPushFault(t)
    BY <2>2 DEF RPushFault
  <2>3. CASE PopFault(t) \/ ReadFault(t) \/ LLen(t) \/ TotalLenEnd(t) \/ LRangeEnd(t)
    BY <2>3 DEF Quiet
  <2> QED BY <1>3, <2>1, <2>2, <2>3 DEF Step
<1>4. CASE \E t \in Threads : Start(t) \/ Step(t)
  BY <1>2, <1>3, <1>4
<1> QED BY <1>1, <1>4 DEF Next

LEMMA FaultCount ==
  ASSUME Types, UNCHANGED faults \/ Fault
  PROVE  faults' \in 0..MaxFaults /\ (faults' = 0 => faults = 0)
BY SliceAssumption DEF Types, DataInv, Fault

LEMMA TypesStep == Types /\ [Next]_vars => Types'
<1> SUFFICES ASSUME Types, [Next]_vars PROVE Types'
  OBVIOUS
<1>1. CASE UNCHANGED vars
  BY <1>1 DEF vars, counts, call, Types, CallInv, DataInv, Made
<1>2. ASSUME NEW t \in Threads, NEW copies \in 0..2, NEW ok \in BOOLEAN, Store(t, copies, ok),
             UNCHANGED faults \/ Fault
      PROVE  Types'
  BY <1>2, FaultCount, StoreTypes
<1> QED BY <1>1, <1>2, StepCases, PushTypes, PopTypes, PopFaultTypes, QuietTypes, BeginsTypes

LEMMA InitTypes == Init => Types
<1> SUFFICES ASSUME Init PROVE Types
  OBVIOUS
<1>1. CallInv
  <2>1. Nothing \in Results
    BY EmptySeq DEF Nothing, Results
  <2>2. \A t \in Threads : pc[t] = "idle" /\ "idle" \notin Walking /\ "idle" \in Places
    BY DEF Init, Walking, Places
  <2>3. 0 \in 0..SliceNum /\ 0 \in 0..MaxElems /\ 0 \in Slices
    BY SliceAssumption, SliceFacts
  <2> QED BY <2>1, <2>2, <2>3 DEF Init, CallInv
<1>2. DataInv
  <2>1. <<>> \in Seq(Elems) /\ ToSet(<<>>) = {}
    BY EmptySeq, SetOfEmpty
  <2>2. /\ lists \in [Slices -> Seq(Elems)] /\ \A k \in Slices : ToSet(lists[k]) = {}
        /\ got \in Seq(Elems) /\ ToSet(got) = {}
    BY <2>1 DEF Init
  <2>3. 0 \in Slices /\ 0 \in 0..MaxElems /\ 0 \in 0..MaxCalls /\ 0 \in 0..MaxFaults
    BY SliceAssumption, SliceFacts
  <2> QED BY <2>2, <2>3 DEF Init, DataInv
<1> QED BY <1>1, <1>2 DEF Types

-----------------------------------------------------------------------------
(* An element is in one place. *)

\* It is stored in one slice at most, and in none before it is pushed.
HomeInv ==
  /\ \A k, l \in Slices : \A e \in ToSet(lists[k]) : e \in ToSet(lists[l]) => k = l
  /\ \A t \in Threads : pc[t] = "rpush" =>
       /\ elem[t] \notin ToSet(got) /\ \A k \in Slices : elem[t] \notin ToSet(lists[k])
       /\ \A u \in Threads : pc[u] = "rpush" /\ elem[u] = elem[t] => u = t
  /\ \A t \in Threads : \A e \in old[t] : \E k \in Slices : e \in ToSet(lists[k])

\* Unless a command was repeated it is there once, and popped once.
OnceInv ==
  faults = 0 =>
    /\ IsInjective(got)
    /\ \A k \in Slices : IsInjective(lists[k]) /\ \A e \in ToSet(lists[k]) : e \notin ToSet(got)

\* No call begins to push.
NoPush ==
  /\ Made' = Made
  /\ \A u \in Threads : pc'[u] = "rpush" => pc[u] = "rpush" /\ elem'[u] = elem[u]

LEMMA ReturnNoPush ==
  ASSUME CallInv, NEW t \in Threads, NEW r, Return(t, r), Made' = Made
  PROVE  NoPush
BY DEF CallInv, Return, Goto, NoPush

LEMMA GotoNoPush ==
  ASSUME CallInv, NEW t \in Threads, NEW place, NEW index, Goto(t, place, index),
         place # "rpush", UNCHANGED elem, Made' = Made
  PROVE  NoPush
BY DEF CallInv, Goto, NoPush

\* The lists and what was popped stay.
LEMMA HomeKeep ==
  ASSUME HomeInv, OnceInv, NoPush, UNCHANGED <<lists, got>>, faults' = 0 => faults = 0,
         \A u \in Threads : \A e \in old'[u] : e \in old[u] \/ \E k \in Slices : e \in ToSet(lists[k])
  PROVE  HomeInv' /\ OnceInv'
BY DEF HomeInv, OnceInv, NoPush

LEMMA HomePush ==
  ASSUME Types, HomeInv, OnceInv, NEW t \in Threads, NEW empty \in BOOLEAN,
         NEW slice \in Slices \cup {SliceNum}, Push(t, empty, slice)
  PROVE  HomeInv' /\ OnceInv'
<1>1. /\ UNCHANGED <<lists, got, old, faults>>
      /\ made \in Nat /\ elem'[t] = made + 1 /\ made + 1 \notin Made
      /\ \A u \in Threads : u # t => elem'[u] = elem[u] /\ pc'[u] = pc[u]
  BY SliceAssumption DEF Types, CallInv, DataInv, Push, Goto, Made
<1>2. /\ ToSet(got) \subseteq Made /\ \A k \in Slices : ToSet(lists[k]) \subseteq Made
      /\ \A u \in Threads : pc[u] = "rpush" => elem[u] \in Made
  BY DEF Types, CallInv, DataInv
<1> HIDE DEF ToSet
<1>3. ASSUME NEW u \in Threads, pc'[u] = "rpush"
      PROVE  /\ elem'[u] \notin ToSet(got) /\ \A k \in Slices : elem'[u] \notin ToSet(lists[k])
             /\ \A v \in Threads : pc'[v] = "rpush" /\ elem'[v] = elem'[u] => v = u
  BY <1>1, <1>2, <1>3 DEF HomeInv
<1>4. HomeInv'
  BY <1>1, <1>3 DEF HomeInv
<1>5. OnceInv'
  BY <1>1 DEF OnceInv
<1> QED BY <1>4, <1>5

LEMMA HomeStore ==
  ASSUME Types, HomeInv, OnceInv, NEW t \in Threads, NEW copies \in 0..2, NEW ok \in BOOLEAN,
         Store(t, copies, ok), faults' = 0 => faults = 0 /\ copies = 1
  PROVE  /\ HomeInv' /\ OnceInv' /\ NoPush
         /\ \A k \in Slices : \A e : e \in ToSet(lists'[k]) <=>
              e \in ToSet(lists[k]) \/ (k = at[t] /\ copies > 0 /\ e = elem[t])
<1>1. /\ pc[t] = "rpush" /\ at[t] \in Slices /\ elem[t] \in Made
      /\ lists' = [lists EXCEPT ![at[t]] = @ \o Copies(copies, elem[t])]
      /\ UNCHANGED <<made, got, old>>
  BY DEF Store, Types, CallInv, Walking, Copies
<1>2. /\ \A l \in Slices : ToSet(lists'[l]) =
           IF l = at[t] /\ copies > 0 THEN ToSet(lists[l]) \cup {elem[t]} ELSE ToSet(lists[l])
      /\ \A l \in Slices : l # at[t] => lists'[l] = lists[l]
      /\ copies <= 1 /\ IsInjective(lists[at[t]]) /\ elem[t] \notin ToSet(lists[at[t]])
           => IsInjective(lists'[at[t]])
  BY <1>1, Stores
<1>3. /\ pc'[t] = "idle" /\ \A u \in Threads : u # t => pc'[u] = pc[u] /\ elem'[u] = elem[u]
      /\ NoPush
  <2>1. Made' = Made
    BY <1>1 DEF Made
  <2>2. PICK r : Return(t, r)
    BY DEF Store
  <2>3. /\ pc'[t] = "idle" /\ \A u \in Threads : u # t => pc'[u] = pc[u] /\ elem'[u] = elem[u]
    BY <2>2 DEF Return, Goto, Types, CallInv
  <2> QED BY <2>1, <2>2, <2>3, ReturnNoPush DEF Types
<1>4. /\ elem[t] \notin ToSet(got) /\ \A k \in Slices : elem[t] \notin ToSet(lists[k])
  BY <1>1 DEF HomeInv
<1> HIDE DEF ToSet
<1>a. \A l \in Slices : \A e : e \in ToSet(lists'[l]) <=>
        e \in ToSet(lists[l]) \/ (l = at[t] /\ copies > 0 /\ e = elem[t])
  BY <1>2
<1>5. \A k, l \in Slices : \A e \in ToSet(lists'[k]) : e \in ToSet(lists'[l]) => k = l
  BY <1>a, <1>4 DEF HomeInv
<1>6. ASSUME NEW u \in Threads, pc'[u] = "rpush"
      PROVE  /\ elem'[u] \notin ToSet(got) /\ \A k \in Slices : elem'[u] \notin ToSet(lists'[k])
             /\ \A v \in Threads : pc'[v] = "rpush" /\ elem'[v] = elem'[u] => v = u
  <2>1. u # t /\ pc[u] = "rpush" /\ elem'[u] = elem[u] /\ elem[u] # elem[t]
    BY <1>1, <1>3, <1>6 DEF HomeInv
  <2>2. elem[u] \notin ToSet(got) /\ \A k \in Slices : elem[u] \notin ToSet(lists'[k])
    BY <1>a, <2>1 DEF HomeInv
  <2>3. \A v \in Threads : pc'[v] = "rpush" => pc[v] = "rpush" /\ elem'[v] = elem[v]
    BY <1>3
  <2> QED BY <2>1, <2>2, <2>3 DEF HomeInv
<1>7. ASSUME NEW u \in Threads, NEW e \in old'[u] PROVE \E k \in Slices : e \in ToSet(lists'[k])
  <2>1. PICK k \in Slices : e \in ToSet(lists[k])
    BY <1>1, <1>7 DEF HomeInv
  <2> QED BY <1>a, <2>1
<1>8. HomeInv'
  BY <1>1, <1>5, <1>6, <1>7 DEF HomeInv
<1>9. OnceInv'
  <2>1. \A k \in Slices : faults' = 0 => IsInjective(lists'[k])
    BY <1>1, <1>2, <1>4 DEF OnceInv
  <2>2. \A k \in Slices : faults' = 0 => \A e \in ToSet(lists'[k]) : e \notin ToSet(got)
    BY <1>1, <1>a, <1>4 DEF OnceInv
  <2> QED BY <1>1, <2>1, <2>2 DEF OnceInv
<1> QED BY <1>a, <1>3, <1>8, <1>9

LEMMA HomeTake ==
  ASSUME Types, HomeInv, OnceInv, NoPush, NEW k \in Slices, NEW m \in 0..Len(lists[k]),
         TakeOff(k, m), got' = got \/ got' = got \o Heads(k, m), faults' = 0 => faults = 0
  PROVE  HomeInv' /\ OnceInv'
<1>1. /\ Heads(k, m) \in Seq(Elems)
      /\ ToSet(lists[k]) = ToSet(Heads(k, m)) \cup ToSet(lists'[k])
      /\ \A l \in Slices : l # k => lists'[l] = lists[l]
      /\ IsInjective(lists[k]) =>
           /\ IsInjective(Heads(k, m)) /\ IsInjective(lists'[k])
           /\ ToSet(Heads(k, m)) \cap ToSet(lists'[k]) = {}
      /\ old' = [u \in Threads |-> old[u] \ ToSet(Heads(k, m))]
  BY Takes
<1>2. got \in Seq(Elems)
  BY DEF Types, DataInv
<1>3. /\ ToSet(got) \subseteq ToSet(got') /\ ToSet(got') \subseteq ToSet(got) \cup ToSet(Heads(k, m))
      /\ IsInjective(got) /\ IsInjective(Heads(k, m)) /\ ToSet(got) \cap ToSet(Heads(k, m)) = {}
           => IsInjective(got')
  <2>1. /\ ToSet(got \o Heads(k, m)) = ToSet(got) \cup ToSet(Heads(k, m))
        /\ IsInjective(got) /\ IsInjective(Heads(k, m)) /\ ToSet(got) \cap ToSet(Heads(k, m)) = {}
             => IsInjective(got \o Heads(k, m))
    BY <1>1, <1>2, SetOfConcat
  <2>2. CASE got' = got
    BY <2>2
  <2>3. CASE got' = got \o Heads(k, m)
    BY <2>1, <2>3
  <2> QED BY <2>2, <2>3
<1> HIDE DEF ToSet
<1>4. \A l \in Slices : ToSet(lists'[l]) \subseteq ToSet(lists[l])
  BY <1>1
<1>5. \A u \in Threads : \A e \in old'[u] : \E l \in Slices : e \in ToSet(lists'[l])
  <2> SUFFICES ASSUME NEW u \in Threads, NEW e \in old'[u]
               PROVE  \E l \in Slices : e \in ToSet(lists'[l])
    OBVIOUS
  <2>1. e \in old[u] /\ e \notin ToSet(Heads(k, m))
    BY <1>1
  <2>2. PICK l \in Slices : e \in ToSet(lists[l])
    BY <2>1 DEF HomeInv
  <2> QED BY <1>1, <2>1, <2>2
<1>6. \A t \in Threads : pc'[t] = "rpush" =>
        /\ elem'[t] \notin ToSet(got') /\ \A l \in Slices : elem'[t] \notin ToSet(lists'[l])
        /\ \A u \in Threads : pc'[u] = "rpush" /\ elem'[u] = elem'[t] => u = t
  <2> SUFFICES ASSUME NEW t \in Threads, pc'[t] = "rpush"
               PROVE  /\ elem'[t] \notin ToSet(got')
                      /\ \A l \in Slices : elem'[t] \notin ToSet(lists'[l])
                      /\ \A u \in Threads : pc'[u] = "rpush" /\ elem'[u] = elem'[t] => u = t
    OBVIOUS
  <2>1. pc[t] = "rpush" /\ elem'[t] = elem[t]
    BY DEF NoPush
  <2>2. elem[t] \notin ToSet(got) /\ \A l \in Slices : elem[t] \notin ToSet(lists[l])
    BY <2>1 DEF HomeInv
  <2>3. elem[t] \notin ToSet(got')
    BY <1>1, <1>3, <2>2
  <2>4. \A u \in Threads : pc'[u] = "rpush" /\ elem'[u] = elem'[t] => u = t
    BY <2>1 DEF HomeInv, NoPush
  <2> QED BY <1>4, <2>1, <2>2, <2>3, <2>4
<1>7. \A i, j \in Slices : \A e \in ToSet(lists'[i]) : e \in ToSet(lists'[j]) => i = j
  BY <1>4 DEF HomeInv
<1>8. HomeInv'
  BY <1>5, <1>6, <1>7 DEF HomeInv
<1>9. OnceInv'
  <2> SUFFICES ASSUME faults = 0
               PROVE  /\ IsInjective(got')
                      /\ \A l \in Slices : /\ IsInjective(lists'[l])
                                           /\ \A e \in ToSet(lists'[l]) : e \notin ToSet(got')
    BY DEF OnceInv
  <2>1. /\ IsInjective(got)
        /\ \A l \in Slices : IsInjective(lists[l]) /\ \A e \in ToSet(lists[l]) : e \notin ToSet(got)
    BY DEF OnceInv
  <2>2. IsInjective(got')
    BY <1>1, <1>3, <2>1
  <2>3. \A l \in Slices : IsInjective(lists'[l])
    BY <1>1, <2>1
  <2>4. ASSUME NEW l \in Slices PROVE \A e \in ToSet(lists'[l]) : e \notin ToSet(got')
    <3>1. CASE l = k
      BY <1>1, <1>3, <2>1, <3>1
    <3>2. CASE l # k
      <4>1. \A e \in ToSet(lists[l]) : e \notin ToSet(Heads(k, m))
        BY <1>1, <3>2 DEF HomeInv
      <4> QED BY <1>3, <1>4, <2>1, <4>1
    <3> QED BY <3>1, <3>2
  <2> QED BY <2>2, <2>3, <2>4
<1> QED BY <1>8, <1>9

LEMMA PopNoPush ==
  ASSUME Types, NEW t \in Threads, PopFault(t) \/ \E batch \in 1..2 : PopStep(t, batch)
  PROVE  NoPush
<1>1. Popping(t) /\ made' = made
  BY DEF PopStep, PopFault, counts
<1>2. Made' = Made /\ CallInv /\ pc[t] # "rpush"
  BY <1>1 DEF Made, Types, Popping
<1>3. \/ \E r : Return(t, r)
      \/ \E k : Goto(t, pc[t], k) /\ UNCHANGED elem
      \/ UNCHANGED call
  BY DEF PopStep, PopFault
<1>4. CASE UNCHANGED call
  BY <1>2, <1>4 DEF NoPush, call
<1> QED BY <1>2, <1>3, <1>4, ReturnNoPush, GotoNoPush

LEMMA QuietNoPush ==
  ASSUME Types, NEW t \in Threads, Quiet(t)
  PROVE  NoPush
<1>1. Made' = Made /\ CallInv
  BY QuietTypes DEF Types
<1>2. \/ \E r : Return(t, r)
      \/ Goto(t, "len", at[t] + 1) /\ UNCHANGED elem
  BY DEF Quiet, LLen, TotalLenEnd, LRangeEnd, ReadFault
<1> QED BY <1>1, <1>2, ReturnNoPush, GotoNoPush

LEMMA BeginsNoPush ==
  ASSUME Types, NEW t \in Threads, Begins(t)
  PROVE  NoPush
<1>1. Made' = Made /\ UNCHANGED elem /\ CallInv
  BY BeginsFacts DEF Begin, Made, Types
<1>2. PICK place \in Places \ {"idle", "rpush"}, index \in 0..SliceNum : Entered(t, place, index)
  BY BeginsFacts
<1> QED BY <1>1, <1>2, GotoNoPush DEF Entered

LEMMA HomeStep ==
  Types /\ HomeInv /\ OnceInv /\ [Next]_vars => HomeInv' /\ OnceInv'
<1> SUFFICES ASSUME Types, HomeInv, OnceInv, [Next]_vars PROVE HomeInv' /\ OnceInv'
  OBVIOUS
<1>1. CASE UNCHANGED vars
  BY <1>1 DEF vars, counts, call, HomeInv, OnceInv
<1>2. ASSUME NEW t \in Threads, NEW copies \in 0..2, NEW ok \in BOOLEAN, Store(t, copies, ok),
             (copies = 1 /\ UNCHANGED faults) \/ Fault
      PROVE  HomeInv' /\ OnceInv'
  <2>1. faults' = 0 => faults = 0 /\ copies = 1
    BY <1>2, SliceAssumption DEF Fault, Types, DataInv
  <2> QED BY <1>2, <2>1, HomeStore
<1>3. ASSUME NEW t \in Threads, NEW batch \in 1..2, PopStep(t, batch)
      PROVE  HomeInv' /\ OnceInv'
  <2>1. NextSlice(t) \in Slices /\ UNCHANGED counts /\ NoPush
    BY <1>3, PopOutcome, PopNoPush
  <2>2. PICK m \in 0..Len(lists[NextSlice(t)]) :
          /\ TakeOff(NextSlice(t), m)
          /\ got' = got \/ got' = got \o Heads(NextSlice(t), m)
    BY <1>3, PopOutcome DEF Gets, Ends, GoesOn
  <2>3. faults' = 0 => faults = 0
    BY <2>1 DEF counts
  <2> QED BY <2>1, <2>2, <2>3, HomeTake
<1>4. ASSUME NEW t \in Threads, PopFault(t)
      PROVE  HomeInv' /\ OnceInv'
  <2>1. /\ NextSlice(t) \in Slices /\ faults' = faults + 1 /\ got' = got /\ NoPush
    BY <1>4, PopFaultFacts, PopNoPush
  <2>2. PICK m \in 0..Len(lists[NextSlice(t)]) : TakeOff(NextSlice(t), m)
    BY <1>4, PopFaultFacts
  <2>3. faults' # 0
    BY <2>1 DEF Types, DataInv
  <2> QED BY <2>1, <2>2, <2>3, HomeTake
<1>5. ASSUME NEW t \in Threads, Quiet(t)
      PROVE  HomeInv' /\ OnceInv'
  <2>1. /\ UNCHANGED <<lists, got, old>> /\ NoPush
        /\ UNCHANGED faults \/ Fault
    BY <1>5, QuietNoPush DEF Quiet, LLen, TotalLenEnd, LRangeEnd, ReadFault, counts
  <2>2. faults' = 0 => faults = 0
    BY <2>1, FaultCount
  <2> QED BY <2>1, <2>2, HomeKeep
<1>6. ASSUME NEW t \in Threads, Begins(t)
      PROVE  HomeInv' /\ OnceInv'
  <2>1. Begin(t) /\ popIndex' \in Slices /\ NoPush
    BY <1>6, BeginsFacts, BeginsNoPush
  <2>2. UNCHANGED <<lists, got, faults>>
    BY <2>1 DEF Begin
  <2>3. \A e \in Stored : \E k \in Slices : e \in ToSet(lists[k])
    BY StoredFacts DEF Types
  <2>4. \A u \in Threads : \A e \in old'[u] : e \in old[u] \/ e \in Stored
    BY <2>1, BeginTypes
  <2> QED BY <2>1, <2>2, <2>3, <2>4, HomeKeep
<1> QED BY <1>1, <1>2, <1>3, <1>4, <1>5, <1>6, StepCases, HomePush

-----------------------------------------------------------------------------
(* What the searches and the lengths have seen. *)

\* The slices that a search which began at s and is at a has yet to look at.
AheadOf(a, s, k) == IF a < s THEN a < k /\ k <= s ELSE a < k \/ k <= s

LEMMA NextAhead ==
  ASSUME NEW a \in Slices, NEW s \in Slices, NEW k \in Slices, AheadOf(a, s, k)
  PROVE  LET b == (a + 1) % SliceNum
         IN  IF b = s THEN k = b ELSE k # b => AheadOf(b, s, k)
<1>1. /\ SliceNum \in Nat /\ a \in Nat /\ s \in Nat /\ k \in Nat
      /\ a < SliceNum /\ s < SliceNum /\ k < SliceNum
      /\ (a + 1) % SliceNum = IF a + 1 = SliceNum THEN 0 ELSE a + 1
  BY SliceFacts DEF Slices
<1> QED BY <1>1 DEF AheadOf

\* Each element that was there when the search began, and is still there, is
\* in a slice that it has yet to look at. (An empty string is taken off and looks
\* like the end of its slice.)
ScanInv(t) ==
  ~EmptyElems /\ pc[t] \in {"scan", "batch"} =>
    \A e \in old[t] : \E k \in Slices : e \in ToSet(lists[k]) /\ AheadOf(at[t], start[t], k)

\* A length counts every element that stays, and none twice.
Counted(t) == {e \in old[t] : \E k \in Slices : k < at[t] /\ e \in ToSet(lists[k])}
CountedOnce(t) ==
  \E C \in SUBSET (seen[t] \cap Made) :
    /\ Cardinality(C) = total[t]
    /\ \A e \in C : /\ \A k \in Slices : k >= at[t] => e \notin ToSet(lists[k])
                    /\ \A u \in Threads : pc[u] = "rpush" => elem[u] # e
LenInv(t) ==
  /\ pc[t] # "len" => total[t] = 0
  /\ pc[t] = "len" =>
       /\ Cardinality(Counted(t)) <= total[t]
       /\ \A k \in Slices : ToSet(lists[k]) \subseteq seen[t]
       /\ faults = 0 => CountedOnce(t)

\* The steps of the others, as a call sees them.
SameCall(u) ==
  pc'[u] = pc[u] /\ at'[u] = at[u] /\ start'[u] = start[u] /\ total'[u] = total[u]
Undisturbed(u) ==
  /\ \A e \in old'[u] : e \in old[u] /\ \A k \in Slices : e \in ToSet(lists'[k]) <=> e \in ToSet(lists[k])
  /\ seen[u] \subseteq seen'[u] /\ \A k \in Slices : ToSet(lists'[k]) \subseteq ToSet(lists[k]) \cup seen'[u]
Pushers == {v \in Threads : pc[v] = "rpush"}
Stepped ==
  /\ faults' = 0 => faults = 0
  /\ Made \subseteq Made'
  /\ \A k \in Slices : \A e \in ToSet(lists'[k]) : e \in ToSet(lists[k]) \/ \E v \in Pushers : elem[v] = e
  /\ \A v \in Threads : pc'[v] = "rpush" =>
       (pc[v] = "rpush" /\ elem'[v] = elem[v]) \/ elem'[v] \notin Made

LEMMA OthersKeep ==
  ASSUME Types, NEW u \in Threads, SameCall(u), Undisturbed(u), Stepped, ScanInv(u), LenInv(u)
  PROVE  ScanInv(u)' /\ LenInv(u)'
<1>1. ScanInv(u)'
  BY DEF ScanInv, SameCall, Undisturbed
<1>2. ASSUME pc[u] = "len"
      PROVE  Cardinality(Counted(u)') <= total[u]
  <2>1. Counted(u)' \subseteq Counted(u)
    BY DEF Counted, SameCall, Undisturbed
  <2>2. IsFiniteSet(Counted(u))
    <3>1. Counted(u) \subseteq Elems /\ IsFiniteSet(Elems)
      BY StoredFacts DEF Counted, Types, DataInv
    <3> QED BY <3>1, FS_Subset
  <2>3. /\ Cardinality(Counted(u)') \in Nat /\ Cardinality(Counted(u)) \in Nat
        /\ Cardinality(Counted(u)') <= Cardinality(Counted(u))
    BY <2>1, <2>2, FS_Subset, FS_CardinalityType
  <2>4. Cardinality(Counted(u)) <= total[u] /\ total[u] \in Nat
    BY <1>2 DEF LenInv, Types, CallInv
  <2> QED BY <2>3, <2>4
<1>3. ASSUME pc[u] = "len", NEW k \in Slices PROVE ToSet(lists'[k]) \subseteq seen'[u]
  BY <1>3 DEF LenInv, Undisturbed
<1>4. ASSUME pc[u] = "len", faults' = 0 PROVE CountedOnce(u)'
  <2>1. PICK C \in SUBSET (seen[u] \cap Made) :
          /\ Cardinality(C) = total[u]
          /\ \A e \in C : /\ \A k \in Slices : k >= at[u] => e \notin ToSet(lists[k])
                          /\ \A v \in Threads : pc[v] = "rpush" => elem[v] # e
    BY <1>4 DEF LenInv, CountedOnce, Stepped
  <2>2. C \in SUBSET (seen'[u] \cap Made') /\ total'[u] = total[u] /\ at'[u] = at[u]
    BY DEF Undisturbed, Stepped, SameCall
  <2>3. ASSUME NEW e \in C, NEW k \in Slices, k >= at[u] PROVE e \notin ToSet(lists'[k])
    BY <2>1, <2>3 DEF Stepped, Pushers
  <2>4. ASSUME NEW e \in C, NEW v \in Threads, pc'[v] = "rpush" PROVE elem'[v] # e
    BY <2>1, <2>4 DEF Stepped
  <2> QED BY <2>1, <2>2, <2>3, <2>4 DEF CountedOnce
<1> QED BY <1>1, <1>2, <1>3, <1>4 DEF LenInv, SameCall

SeenInv == \A t \in Threads : ScanInv(t) /\ LenInv(t)

\* A call that is over has nothing to say.
LEMMA ReturnSeen ==
  ASSUME CallInv, NEW t \in Threads, NEW r, Return(t, r)
  PROVE  /\ ScanInv(t)' /\ LenInv(t)'
         /\ \A u \in Threads \ {t} : SameCall(u)
<1>1. /\ pc'[t] = "idle" /\ total'[t] = 0
      /\ \A u \in Threads \ {t} : SameCall(u)
  BY DEF CallInv, Return, Goto, SameCall
<1> QED BY <1>1 DEF ScanInv, LenInv

LEMMA TakeUndisturbed ==
  ASSUME Types, NoPush, NEW k \in Slices, NEW m \in 0..Len(lists[k]), TakeOff(k, m),
         UNCHANGED seen, faults' = 0 => faults = 0
  PROVE  Stepped /\ \A u \in Threads : Undisturbed(u)
<1>1. /\ ToSet(lists[k]) = ToSet(Heads(k, m)) \cup ToSet(lists'[k])
      /\ \A l \in Slices : l # k => lists'[l] = lists[l]
      /\ old' = [u \in Threads |-> old[u] \ ToSet(Heads(k, m))]
  BY Takes
<1>2. \A l \in Slices : \A e \in ToSet(lists'[l]) : e \in ToSet(lists[l])
  BY <1>1
<1>3. \A l \in Slices : \A e \in ToSet(lists[l]) :
        e \notin ToSet(Heads(k, m)) => e \in ToSet(lists'[l])
  BY <1>1
<1>4. \A u \in Threads : \A e \in old'[u] : e \in old[u] /\ e \notin ToSet(Heads(k, m))
  BY <1>1
<1> QED BY <1>2, <1>3, <1>4 DEF Stepped, Undisturbed, NoPush

LEMMA StillUndisturbed ==
  ASSUME NoPush, UNCHANGED lists, faults' = 0 => faults = 0
  PROVE  /\ Stepped
         /\ \A u \in Threads : old'[u] = old[u] /\ seen'[u] = seen[u] => Undisturbed(u)
BY DEF Stepped, Undisturbed, NoPush

LEMMA PushSeen ==
  ASSUME Types, SeenInv, NEW t \in Threads, NEW empty \in BOOLEAN,
         NEW slice \in Slices \cup {SliceNum}, Push(t, empty, slice)
  PROVE  SeenInv'
<1>1. /\ UNCHANGED <<lists, faults, start, total, old, seen>> /\ Made \subseteq Made'
      /\ pc[t] = "idle" /\ pc'[t] = "rpush" /\ elem'[t] \notin Made
      /\ \A u \in Threads : u # t => pc'[u] = pc[u] /\ at'[u] = at[u] /\ elem'[u] = elem[u]
  BY SliceAssumption DEF Types, CallInv, DataInv, Push, Goto, Made
<1>2. Stepped /\ \A u \in Threads : Undisturbed(u)
  BY <1>1 DEF Stepped, Undisturbed
<1>3. \A u \in Threads \ {t} : SameCall(u)
  BY <1>1 DEF SameCall
<1>4. ScanInv(t)' /\ LenInv(t)'
  BY <1>1 DEF ScanInv, LenInv, SeenInv
<1> QED BY <1>2, <1>3, <1>4, OthersKeep DEF SeenInv

LEMMA StoreSeen ==
  ASSUME Types, HomeInv, OnceInv, SeenInv, NEW t \in Threads, NEW copies \in 0..2,
         NEW ok \in BOOLEAN, Store(t, copies, ok), faults' = 0 => faults = 0 /\ copies = 1
  PROVE  SeenInv'
<1>1. /\ NoPush
      /\ \A k \in Slices : \A e : e \in ToSet(lists'[k]) <=>
           e \in ToSet(lists[k]) \/ (k = at[t] /\ copies > 0 /\ e = elem[t])
  BY HomeStore
<1>2. /\ pc[t] = "rpush" /\ UNCHANGED old
      /\ seen' = [u \in Threads |-> IF copies > 0 THEN seen[u] \cup {elem[t]} ELSE seen[u]]
  BY DEF Store
<1>3. \A u \in Threads : \A e \in old[u] : e # elem[t]
  BY <1>2 DEF HomeInv
<1>4. Stepped
  BY <1>1, <1>2 DEF Stepped, NoPush, Pushers
<1>5. \A u \in Threads : Undisturbed(u)
  BY <1>1, <1>2, <1>3 DEF Undisturbed
<1>6. PICK r : Return(t, r)
  BY DEF Store
<1>7. ScanInv(t)' /\ LenInv(t)' /\ \A u \in Threads \ {t} : SameCall(u)
  BY <1>6, ReturnSeen DEF Types
<1> QED BY <1>4, <1>5, <1>7, OthersKeep DEF SeenInv

\* A search goes on over a slice that had nothing.
LEMMA GoesOnSeen ==
  ASSUME Types, SeenInv, NEW t \in Threads, Popping(t), NextSlice(t) \in Slices,
         GoesOn(t, NextSlice(t)), Undisturbed(t), ~EmptyElems => Len(lists[NextSlice(t)]) = 0
  PROVE  ScanInv(t)' /\ LenInv(t)' /\ \A u \in Threads \ {t} : SameCall(u)
<1> DEFINE k == NextSlice(t)
<1>1. /\ pc[t] \in {"scan", "batch"} /\ k = (at[t] + 1) % SliceNum /\ k # start[t]
      /\ Goto(t, pc[t], k) /\ UNCHANGED <<start, total>>
  BY DEF GoesOn, Popping, AllSeen, NextSlice
<1>2. /\ pc'[t] = pc[t] /\ at'[t] = k /\ at[t] \in Slices /\ start[t] \in Slices
      /\ \A u \in Threads \ {t} : SameCall(u)
  BY <1>1 DEF Types, CallInv, Goto, SameCall, Walking
<1>3. ASSUME ~EmptyElems, NEW e \in old'[t]
      PROVE  \E l \in Slices : e \in ToSet(lists'[l]) /\ AheadOf(k, start[t], l)
  <2>1. e \in old[t] /\ \A l \in Slices : e \in ToSet(lists'[l]) <=> e \in ToSet(lists[l])
    BY <1>3 DEF Undisturbed
  <2>2. PICK l \in Slices : e \in ToSet(lists[l]) /\ AheadOf(at[t], start[t], l)
    BY <1>1, <1>3, <2>1 DEF SeenInv, ScanInv
  <2>3. lists[k] \in Seq(Elems) /\ Len(lists[k]) = 0
    BY <1>3 DEF Types, DataInv
  <2>4. l # k
    BY <2>2, <2>3, SetOfSeq
  <2>5. AheadOf(k, start[t], l)
    BY <1>1, <1>2, <2>2, <2>4, NextAhead
  <2> QED BY <2>1, <2>2, <2>5
<1>4. ScanInv(t)'
  BY <1>1, <1>2, <1>3 DEF ScanInv
<1>5. LenInv(t)'
  BY <1>1, <1>2 DEF LenInv, SeenInv
<1> QED BY <1>2, <1>4, <1>5

LEMMA PopSeen ==
  ASSUME Types, SeenInv, NEW t \in Threads, NEW batch \in 1..2, PopStep(t, batch)
  PROVE  SeenInv'
<1> DEFINE k == NextSlice(t)
<1>1. k \in Slices /\ Popping(t) /\ UNCHANGED <<counts, seen>> /\ NoPush
  BY PopOutcome, PopNoPush
<1>2. PICK m \in 0..Len(lists[k]) :
        /\ TakeOff(k, m)
        /\ \/ Gets(t, k, m)
           \/ /\ ~EmptyElems => m = 0 /\ Len(lists[k]) = 0
              /\ Ends(t, k, m) \/ GoesOn(t, k)
  BY PopOutcome
<1>3. faults' = 0 => faults = 0
  BY <1>1 DEF counts
<1>4. Stepped /\ \A u \in Threads : Undisturbed(u)
  BY <1>1, <1>2, <1>3, TakeUndisturbed
<1>5. ScanInv(t)' /\ LenInv(t)' /\ \A u \in Threads \ {t} : SameCall(u)
  <2>1. CASE Gets(t, k, m) \/ Ends(t, k, m)
    <3>1. PICK r : Return(t, r)
      BY <2>1 DEF Gets, Ends
    <3> QED BY <3>1, ReturnSeen DEF Types
  <2>2. CASE GoesOn(t, k) /\ (~EmptyElems => Len(lists[k]) = 0)
    BY <1>1, <1>4, <2>2, GoesOnSeen
  <2> QED BY <1>2, <2>1, <2>2
<1> QED BY <1>4, <1>5, OthersKeep DEF SeenInv

LEMMA PopFaultSeen ==
  ASSUME Types, SeenInv, NEW t \in Threads, PopFault(t)
  PROVE  SeenInv'
<1>1. /\ NextSlice(t) \in Slices /\ faults' = faults + 1 /\ UNCHANGED seen /\ NoPush
      /\ Return(t, Result(-1, <<>>)) \/ UNCHANGED call
  BY PopFaultFacts, PopNoPush
<1>2. PICK m \in 0..Len(lists[NextSlice(t)]) : TakeOff(NextSlice(t), m)
  BY PopFaultFacts
<1>3. faults' # 0
  BY <1>1 DEF Types, DataInv
<1>4. Stepped /\ \A u \in Threads : Undisturbed(u)
  BY <1>1, <1>2, <1>3, TakeUndisturbed
<1>5. CASE UNCHANGED call
  <2>1. \A u \in Threads : SameCall(u)
    BY <1>5 DEF call, SameCall
  <2> QED BY <1>4, <2>1, OthersKeep DEF SeenInv
<1>6. CASE Return(t, Result(-1, <<>>))
  <2>1. ScanInv(t)' /\ LenInv(t)' /\ \A u \in Threads \ {t} : SameCall(u)
    BY <1>6, ReturnSeen DEF Types
  <2> QED BY <1>4, <2>1, OthersKeep DEF SeenInv
<1> QED BY <1>1, <1>5, <1>6

\* One slice more is counted: its elements are in no other.
LEMMA LLenSeen ==
  ASSUME Types, HomeInv, OnceInv, SeenInv, NEW t \in Threads, LLen(t)
  PROVE  ScanInv(t)' /\ LenInv(t)' /\ \A u \in Threads \ {t} : SameCall(u)
<1> DEFINE a == at[t]
           mine == ToSet(lists[a])
<1>1. /\ pc[t] = "len" /\ a \in Slices /\ a \in Nat /\ LengthOf(t) = Len(lists[a])
      /\ UNCHANGED <<lists, counts, elem, start, old, seen>>
      /\ total[t] \in Nat
  BY SliceAssumption DEF LLen, Types, CallInv, LengthOf, Slices
<1>2. /\ pc' = pc /\ at'[t] = a + 1 /\ total'[t] = total[t] + Len(lists[a])
      /\ \A u \in Threads \ {t} : SameCall(u)
  BY <1>1 DEF LLen, Goto, Types, CallInv, SameCall
<1>3. lists[a] \in Seq(Elems) /\ Len(lists[a]) \in Nat
  BY <1>1, LenProperties DEF Types, DataInv
<1>4. /\ IsFiniteSet(mine) /\ Cardinality(mine) \in Nat /\ Cardinality(mine) <= Len(lists[a])
      /\ IsInjective(lists[a]) => Cardinality(mine) = Len(lists[a])
  BY <1>3, CardOfSeq, FS_CardinalityType
<1>5. mine \subseteq seen[t] /\ mine \subseteq Made
  BY <1>1 DEF SeenInv, LenInv, Types, DataInv
<1> HIDE DEF mine
<1>6. Cardinality(Counted(t)') <= total'[t]
  <2>1. Counted(t) \subseteq Elems /\ IsFiniteSet(Elems)
    BY StoredFacts DEF Counted, Types, DataInv
  <2>2. /\ IsFiniteSet(Counted(t)) /\ Cardinality(Counted(t)) \in Nat
        /\ Cardinality(Counted(t)) <= total[t]
    BY <1>1, <2>1, FS_Subset, FS_CardinalityType DEF SeenInv, LenInv
  <2>3. ASSUME NEW e \in Counted(t)' PROVE e \in Counted(t) \cup mine
    <3>1. PICK l \in Slices : l < a + 1 /\ e \in ToSet(lists[l]) /\ e \in old[t]
      BY <1>1, <1>2 DEF Counted
    <3>2. CASE l = a
      BY <3>1, <3>2 DEF mine
    <3>3. CASE l # a
      <4>1. l < a
        BY <1>1, <3>1, <3>3, SliceFacts DEF Slices
      <4> QED BY <3>1, <4>1 DEF Counted
    <3> QED BY <3>2, <3>3
  <2>4. /\ IsFiniteSet(Counted(t) \cup mine)
        /\ Cardinality(Counted(t) \cup mine) =
             Cardinality(Counted(t)) + Cardinality(mine) - Cardinality(Counted(t) \cap mine)
    BY <1>4, <2>2, FS_Union
  <2>5. Cardinality(Counted(t) \cap mine) \in Nat
    BY <1>4, FS_Subset, FS_CardinalityType
  <2>6. /\ Cardinality(Counted(t)') \in Nat
        /\ Cardinality(Counted(t)') <= Cardinality(Counted(t) \cup mine)
    BY <2>3, <2>4, FS_Subset, FS_CardinalityType
  <2> QED BY <1>1, <1>2, <1>3, <1>4, <2>2, <2>4, <2>5, <2>6
<1>7. ASSUME faults' = 0 PROVE CountedOnce(t)'
  <2>1. faults = 0 /\ Made' = Made
    BY <1>1, <1>7 DEF counts, Made
  <2>2. PICK C \in SUBSET (seen[t] \cap Made) :
          /\ Cardinality(C) = total[t]
          /\ \A e \in C : /\ \A k \in Slices : k >= a => e \notin ToSet(lists[k])
                          /\ \A u \in Threads : pc[u] = "rpush" => elem[u] # e
    BY <1>1, <2>1 DEF SeenInv, LenInv, CountedOnce
  <2>3. IsFiniteSet(C)
    <3>1. C \subseteq Elems /\ IsFiniteSet(Elems)
      BY StoredFacts DEF Types
    <3> QED BY <3>1, FS_Subset
  <2>4. Cardinality(mine) = Len(lists[a])
    BY <1>1, <1>4, <2>1 DEF OnceInv
  <2>5. C \cap mine = {}
    BY <1>1, <2>2 DEF mine
  <2>6. Cardinality(C \cup mine) = total'[t]
    <3>1. Cardinality(C \cup mine) =
            Cardinality(C) + Cardinality(mine) - Cardinality(C \cap mine)
      BY <1>4, <2>3, FS_Union
    <3>2. Cardinality(C \cap mine) = 0
      BY <2>5, FS_EmptySet
    <3> QED BY <1>1, <1>2, <1>3, <2>2, <2>4, <3>1, <3>2
  <2>7. ASSUME NEW e \in C \cup mine, NEW k \in Slices, k >= a + 1
        PROVE  e \notin ToSet(lists[k])
    <3>1. k >= a /\ k # a
      BY <1>1, <2>7, SliceFacts DEF Slices
    <3>2. CASE e \in C
      BY <2>2, <3>1, <3>2
    <3>3. CASE e \in mine
      BY <1>1, <3>1, <3>3 DEF mine, HomeInv
    <3> QED BY <3>2, <3>3
  <2>8. ASSUME NEW e \in C \cup mine, NEW u \in Threads, pc[u] = "rpush" PROVE elem[u] # e
    BY <1>1, <2>2, <2>8 DEF mine, HomeInv
  <2>9. C \cup mine \in SUBSET (seen'[t] \cap Made')
    BY <1>1, <1>5, <2>1
  <2> QED BY <1>1, <1>2, <2>6, <2>7, <2>8, <2>9 DEF CountedOnce
<1>8. \A k \in Slices : ToSet(lists'[k]) \subseteq seen'[t]
  BY <1>1 DEF SeenInv, LenInv
<1>9. ScanInv(t)' /\ LenInv(t)'
  BY <1>1, <1>2, <1>6, <1>7, <1>8 DEF ScanInv, LenInv
<1> QED BY <1>2, <1>9

LEMMA QuietSeen ==
  ASSUME Types, HomeInv, OnceInv, SeenInv, NEW t \in Threads, Quiet(t)
  PROVE  SeenInv'
<1>1. UNCHANGED <<lists, old, seen>> /\ NoPush /\ (UNCHANGED faults \/ Fault)
  BY QuietNoPush DEF Quiet, LLen, TotalLenEnd, LRangeEnd, ReadFault, counts
<1>2. faults' = 0 => faults = 0
  BY <1>1, FaultCount
<1>3. Stepped /\ \A u \in Threads : Undisturbed(u)
  BY <1>1, <1>2, StillUndisturbed
<1>4. ScanInv(t)' /\ LenInv(t)' /\ \A u \in Threads \ {t} : SameCall(u)
  <2>1. CASE LLen(t)
    BY <2>1, LLenSeen
  <2>2. CASE TotalLenEnd(t) \/ LRangeEnd(t) \/ ReadFault(t)
    <3>1. PICK r : Return(t, r)
      BY <2>2 DEF TotalLenEnd, LRangeEnd, ReadFault
    <3> QED BY <3>1, ReturnSeen DEF Types
  <2> QED BY <2>1, <2>2 DEF Quiet
<1> QED BY <1>3, <1>4, OthersKeep DEF SeenInv

LEMMA BeginsSeen ==
  ASSUME Types, SeenInv, NEW t \in Threads, Begins(t)
  PROVE  SeenInv'
<1>1. /\ Begin(t) /\ popIndex' \in Slices
      /\ \A u \in Threads : u # t => start'[u] = start[u]
      /\ NoPush
  BY BeginsFacts, BeginsNoPush
<1>2. PICK place \in Places \ {"idle", "rpush"}, index \in 0..SliceNum : Entered(t, place, index)
  BY BeginsFacts
<1>3. /\ lists' = lists /\ UNCHANGED <<faults, total>> /\ pc[t] = "idle"
      /\ old'[t] = Stored /\ seen'[t] = Stored
      /\ \A u \in Threads : u # t => old'[u] = old[u] /\ seen'[u] = seen[u]
  BY <1>1, BeginTypes DEF Begin
<1>4. /\ pc'[t] = place /\ at'[t] = index
      /\ \A u \in Threads \ {t} : SameCall(u)
  BY <1>1, <1>2, <1>3 DEF Entered, Goto, Types, CallInv, SameCall
<1>5. Stepped /\ \A u \in Threads \ {t} : Undisturbed(u)
  BY <1>1, <1>3, StillUndisturbed
<1>6. \A e : e \in Stored <=> \E k \in Slices : e \in ToSet(lists[k])
  BY StoredFacts DEF Types
<1>7. total[t] = 0
  BY <1>3 DEF SeenInv, LenInv
<1>8. ScanInv(t)'
  <2>1. CASE place \in {"scan", "batch"}
    <3>1. start'[t] = index /\ index \in Slices
      BY <1>2, <2>1 DEF Entered, Walking
    <3>2. \A k \in Slices : AheadOf(index, index, k)
      BY <3>1, SliceFacts DEF AheadOf
    <3> QED BY <1>3, <1>4, <1>6, <3>1, <3>2 DEF ScanInv
  <2>2. CASE place \notin {"scan", "batch"}
    BY <1>4, <2>2 DEF ScanInv
  <2> QED BY <2>1, <2>2
<1>9. LenInv(t)'
  <2>1. CASE place = "len"
    <3>1. at'[t] = 0 /\ total'[t] = 0
      BY <1>2, <1>3, <1>4, <1>7, <2>1 DEF Entered
    <3>2. \A k \in Slices : ~(k < 0)
      BY SliceFacts DEF Slices
    <3>3. Counted(t)' = {} /\ Cardinality({}) = 0
      BY <3>1, <3>2, FS_EmptySet DEF Counted
    <3>4. CountedOnce(t)'
      BY <3>1, FS_EmptySet DEF CountedOnce
    <3>5. \A k \in Slices : ToSet(lists'[k]) \subseteq seen'[t]
      BY <1>3, <1>6
    <3> QED BY <1>4, <2>1, <3>1, <3>3, <3>4, <3>5 DEF LenInv
  <2>2. CASE place # "len"
    BY <1>3, <1>4, <1>7, <2>2 DEF LenInv
  <2> QED BY <2>1, <2>2
<1> QED BY <1>4, <1>5, <1>8, <1>9, OthersKeep DEF SeenInv

LEMMA SeenStep ==
  Types /\ HomeInv /\ OnceInv /\ SeenInv /\ [Next]_vars => SeenInv'
<1> SUFFICES ASSUME Types, HomeInv, OnceInv, SeenInv, [Next]_vars PROVE SeenInv'
  OBVIOUS
<1>1. CASE UNCHANGED vars
  BY <1>1 DEF vars, counts, call, SeenInv, ScanInv, LenInv, Counted, CountedOnce, Made
<1>2. ASSUME NEW t \in Threads, NEW copies \in 0..2, NEW ok \in BOOLEAN, Store(t, copies, ok),
             (copies = 1 /\ UNCHANGED faults) \/ Fault
      PROVE  SeenInv'
  <2>1. faults' = 0 => faults = 0 /\ copies = 1
    BY <1>2, SliceAssumption DEF Fault, Types, DataInv
  <2> QED BY <1>2, <2>1, StoreSeen
<1> QED BY <1>1, <1>2, StepCases, PushSeen, PopSeen, PopFaultSeen, QuietSeen, BeginsSeen

-----------------------------------------------------------------------------
(* Theorems *)

ListInv == Types /\ HomeInv /\ OnceInv /\ SeenInv

LEMMA ListSafe == Spec => []ListInv
<1>1. Init => ListInv
  <2> SUFFICES ASSUME Init PROVE ListInv
    OBVIOUS
  <2>1. Types
    BY InitTypes
  <2>2. /\ got = <<>> /\ \A k \in Slices : lists[k] = <<>>
        /\ \A t \in Threads : pc[t] = "idle" /\ old[t] = {} /\ total[t] = 0
    BY DEF Init
  <2>3. HomeInv /\ OnceInv
    BY <2>2, SetOfEmpty DEF HomeInv, OnceInv
  <2>4. SeenInv
    BY <2>2 DEF SeenInv, ScanInv, LenInv
  <2> QED BY <2>1, <2>3, <2>4 DEF ListInv
<1>2. ListInv /\ [Next]_vars => ListInv'
  BY TypesStep, HomeStep, SeenStep DEF ListInv
<1> QED BY <1>1, <1>2, PTL DEF Spec

\* Consumers that pop at once never get the same element, nor is a popped one
\* still stored, when no command was repeated.
THEOREM PoppedOnce == Spec => []DeliveredOnce
<1>1. ListInv => DeliveredOnce
  <2> SUFFICES ASSUME ListInv PROVE DeliveredOnce
    OBVIOUS
  <2>1. TypeOK
    <3>1. empties \subseteq Elems
      BY StoredFacts DEF ListInv, Types, DataInv
    <3> QED BY <3>1 DEF ListInv, Types, CallInv, DataInv, TypeOK, Places, Results
  <2>2. faults = 0 => IsInjective(got) /\ ToSet(got) \cap Stored = {}
    <3>1. \A e : e \in Stored <=> \E k \in Slices : e \in ToSet(lists[k])
      BY StoredFacts DEF ListInv, Types
    <3> QED BY <3>1 DEF ListInv, OnceInv
  <2> QED BY <2>1, <2>2 DEF DeliveredOnce
<1> QED BY <1>1, ListSafe, PTL

\* A search that ends with "no data" has looked at every slice: whatever was
\* there when it began has been taken since, whatever others push and pop.
THEOREM NothingOverlooked == ASSUME ~EmptyElems PROVE Spec => NoDataMeansTaken
<1> DEFINE A == \A t \in Threads :
                  pc[t] \in {"scan", "batch"} /\ pc'[t] = "idle" /\ result'[t].ret = 0
                    => old'[t] = {}
<1>1. ListInv /\ [Next]_vars => [A]_vars
  <2> SUFFICES ASSUME ListInv, Next, NEW t \in Threads, pc[t] \in {"scan", "batch"},
                      pc'[t] = "idle", result'[t].ret = 0
               PROVE  old'[t] = {} \/ UNCHANGED vars
    OBVIOUS
  <2> USE DEF ListInv, Types
  <2>1. ASSUME NEW u \in Threads, NEW place, NEW index, Goto(u, place, index) PROVE u = t
    BY <2>1 DEF CallInv, Goto
  <2>2. ASSUME NEW u \in Threads, NEW r, Return(u, r) PROVE u = t /\ result'[t] = r
    BY <2>1, <2>2 DEF CallInv, Return
  <2>3. ASSUME NEW u \in Threads, NEW empty \in BOOLEAN, NEW slice \in Slices \cup {SliceNum},
               Push(u, empty, slice)
        PROVE  FALSE
    BY <2>1, <2>3 DEF Push
  <2>4. ASSUME NEW u \in Threads, NEW copies \in 0..2, NEW ok \in BOOLEAN, Store(u, copies, ok)
        PROVE  FALSE
    BY <2>2, <2>4 DEF Store
  <2>5. ASSUME NEW u \in Threads, Quiet(u) PROVE FALSE
    BY <2>1, <2>2, <2>5 DEF Quiet, LLen, TotalLenEnd, LRangeEnd, ReadFault
  <2>6. ASSUME NEW u \in Threads, Begins(u) PROVE FALSE
    <3>1. pc[u] = "idle" /\ \E place, index : Goto(u, place, index)
      BY <2>6, BeginsFacts DEF Begin, Entered
    <3> QED BY <2>1, <3>1
  <2>7. ASSUME NEW u \in Threads, PopFault(u) PROVE FALSE
    <3>1. Return(u, Result(-1, <<>>)) \/ UNCHANGED call
      BY <2>7, PopFaultFacts
    <3>2. CASE UNCHANGED call
      BY <3>2 DEF call
    <3> QED BY <2>2, <3>1, <3>2 DEF Result
  <2>8. ASSUME NEW u \in Threads, NEW batch \in 1..2, PopStep(u, batch) PROVE old'[t] = {}
    <3> DEFINE k == NextSlice(u)
    <3>1. k \in Slices
      BY <2>8, PopOutcome
    <3>2. PICK m \in 0..Len(lists[k]) :
            /\ TakeOff(k, m)
            /\ \/ Gets(u, k, m)
               \/ /\ ~EmptyElems => m = 0 /\ Len(lists[k]) = 0
                  /\ Ends(u, k, m) \/ GoesOn(u, k)
      BY <2>8, PopOutcome
    <3>3. ~Gets(u, k, m)
      BY <2>2 DEF Gets, Result
    <3>4. ~GoesOn(u, k)
      BY <2>1 DEF GoesOn, Goto, CallInv
    <3>5. Ends(u, k, m) /\ Len(lists[k]) = 0
      BY <3>2, <3>3, <3>4
    <3>6. u = t /\ AllSeen(t)
      BY <2>2, <3>5 DEF Ends
    <3>7. k = (at[t] + 1) % SliceNum /\ k = start[t] /\ at[t] \in Slices /\ start[t] \in Slices
      BY <3>6 DEF AllSeen, NextSlice, CallInv, Walking
    <3>8. ASSUME NEW e \in old[t] PROVE FALSE
      <4>1. PICK l \in Slices : e \in ToSet(lists[l]) /\ AheadOf(at[t], start[t], l)
        BY <3>8 DEF SeenInv, ScanInv
      <4>2. l = k
        BY <3>7, <4>1, NextAhead
      <4>3. lists[k] \in Seq(Elems)
        BY <3>1 DEF DataInv
      <4> QED BY <3>5, <4>1, <4>2, <4>3, SetOfSeq
    <3>9. old'[t] \subseteq old[t]
      BY <3>1, <3>2, Takes
    <3> QED BY <3>8, <3>9
  <2> QED BY <2>3, <2>4, <2>5, <2>6, <2>7, <2>8, StepCases
<1> QED BY <1>1, ListSafe, PTL DEF Spec, NoDataMeansTaken

\* A length counts every element that stays during the call, and, when no
\* command was repeated, none that is not there at some time during it.
THEOREM LengthsPlausible == Spec => LengthPlausible
<1> DEFINE A == \A t \in Threads : TotalLenEnd(t) =>
                  /\ total[t] >= Cardinality(old[t])
                  /\ faults = 0 => total[t] <= Cardinality(seen[t])
<1>1. ListInv => A
  <2> SUFFICES ASSUME ListInv, NEW t \in Threads, TotalLenEnd(t)
               PROVE  /\ total[t] >= Cardinality(old[t])
                      /\ faults = 0 => total[t] <= Cardinality(seen[t])
    OBVIOUS
  <2> USE DEF ListInv
  <2>1. pc[t] = "len" /\ at[t] = SliceNum /\ total[t] \in Nat
    BY DEF TotalLenEnd, Types, CallInv
  <2>2. /\ old[t] \subseteq Elems /\ seen[t] \subseteq Elems
        /\ IsFiniteSet(Elems)
    BY StoredFacts DEF Types, DataInv
  <2>3. /\ IsFiniteSet(old[t]) /\ IsFiniteSet(seen[t])
        /\ Cardinality(old[t]) \in Nat /\ Cardinality(seen[t]) \in Nat
    BY <2>2, FS_Subset, FS_CardinalityType
  <2>4. Counted(t) = old[t]
    <3>1. \A k \in Slices : k < at[t]
      BY <2>1, SliceFacts DEF Slices
    <3> QED BY <3>1 DEF Counted, HomeInv
  <2>5. Cardinality(old[t]) <= total[t]
    BY <2>1, <2>4 DEF SeenInv, LenInv
  <2>6. ASSUME faults = 0 PROVE total[t] <= Cardinality(seen[t])
    <3>1. PICK C \in SUBSET seen[t] : Cardinality(C) = total[t]
      BY <2>1, <2>6 DEF SeenInv, LenInv, CountedOnce
    <3> QED BY <2>3, <3>1, FS_Subset
  <2> QED BY <2>1, <2>3, <2>5, <2>6
<1>2. ListInv /\ [Next]_vars => [A]_vars
  BY <1>1
<1> QED BY <1>2, ListSafe, PTL DEF Spec, LengthPlausible

-----------------------------------------------------------------------------
(* The sliced lists of the topics: SliceTopics, for any number of callers,    *)
(* topics and calls.                                                         *)

TopicPlaces == {"idle", "look", "lock", "locked", "insert", "returned"}

\* TopicsTypeOK without the bound on the lists, which follows from Distinct.
TopicTypes ==
  /\ keys \subseteq Topics /\ topicLists \in Seq(Request)
  /\ list \in [Topics -> 0..Len(topicLists)] /\ given \in [Callers -> 0..Len(topicLists)]
  /\ where \in [Callers -> TopicPlaces]
  /\ request \in [Callers -> Request] /\ asked \in 0..MaxAsked
  /\ owner \in Callers \cup {NoCaller}
  /\ \A t \in Callers : where[t] \in {"locked", "insert"} <=> owner = t

\* No two lists are of one topic.
Distinct == \A i, j \in 1..Len(topicLists) : topicLists[i].topic = topicLists[j].topic => i = j

\* The pointer of a topic names a list of that topic.
Named == \A o \in Topics : list[o] # 0 => o \in keys /\ topicLists[list[o]].topic = o

\* A list that has no pointer yet is the last one made, of the thread inside.
Pointed ==
  \A i \in 1..Len(topicLists) :
    \/ list[topicLists[i].topic] = i
    \/ \E t \in Callers : where[t] = "insert" /\ request[t].topic = topicLists[i].topic

\* The thread that inserts has made the last list, for a topic without one.
Inserting ==
  \A t \in Callers : where[t] = "insert" =>
    /\ Len(topicLists) > 0 /\ topicLists[Len(topicLists)].topic = request[t].topic
    /\ list[request[t].topic] = 0

\* What a caller was handed is what the pointer of its topic names.
Shared == \A t \in Callers : given[t] # 0 => list[request[t].topic] = given[t]

TopicsInv == TopicTypes /\ Distinct /\ Named /\ Pointed /\ Inserting /\ Shared

LEMMA TopicsBegin == TopicsInit => TopicsInv
<1> SUFFICES ASSUME TopicsInit PROVE TopicsInv
  OBVIOUS
<1>1. topicLists = <<>> /\ Len(topicLists) = 0 /\ topicLists \in Seq(Request)
  BY EmptySeq DEF TopicsInit
<1> QED BY <1>1, TopicsAssumption DEF
            TopicsInit, TopicsInv, TopicTypes, TopicPlaces, Distinct, Named, Pointed, Inserting, Shared

\* The list made under the mutex is of a topic that has none.
LEMMA MakeStep ==
  ASSUME TopicsInv, NEW t \in Callers, Make(t)
  PROVE  TopicsInv'
<1>0. /\ topicLists \in Seq(Request) /\ Len(topicLists) \in Nat /\ request[t] \in Request
      /\ where \in [Callers -> TopicPlaces] /\ where[t] = "locked" /\ owner = t
      /\ where' = [where EXCEPT ![t] = "insert"] /\ topicLists' = Append(topicLists, request[t])
      /\ UNCHANGED <<keys, list, owner, request, given, asked>>
      /\ request[t].topic \notin keys
  BY LenProperties DEF TopicsInv, TopicTypes, Make, Known, Found, GoOn
<1>1. /\ topicLists' \in Seq(Request) /\ Len(topicLists') = Len(topicLists) + 1
      /\ \A i \in 1..Len(topicLists) : topicLists'[i] = topicLists[i]
      /\ topicLists'[Len(topicLists')] = request[t]
  BY <1>0, AppendProperties
<1>2. \A u \in Callers : where[u] # "insert"
  BY <1>0 DEF TopicsInv, TopicTypes
<1>3. \A i \in 1..Len(topicLists) : topicLists[i].topic \in Topics /\ topicLists[i].topic # request[t].topic
  <2> SUFFICES ASSUME NEW i \in 1..Len(topicLists)
               PROVE  topicLists[i].topic \in Topics /\ topicLists[i].topic # request[t].topic
    OBVIOUS
  <2>1. topicLists[i] \in Request
    BY <1>0, ElementOfSeq
  <2>2. topicLists[i].topic \in Topics /\ list[topicLists[i].topic] = i /\ i # 0
    BY <1>0, <1>2, <2>1 DEF TopicsInv, Pointed, Request
  <2> QED BY <1>0, <2>2 DEF TopicsInv, Named
<1>4. list[request[t].topic] = 0
  BY <1>0 DEF TopicsInv, TopicTypes, Named, Request
<1>5. \A i \in 1..Len(topicLists') : i \in 1..Len(topicLists) \/ i = Len(topicLists')
  BY <1>0, <1>1
<1>6. TopicTypes'
  BY <1>0, <1>1 DEF TopicsInv, TopicTypes, TopicPlaces
<1>7. Distinct'
  BY <1>0, <1>1, <1>3, <1>5 DEF TopicsInv, Distinct
<1>8. Named'
  BY <1>0, <1>1 DEF TopicsInv, TopicTypes, Named
<1>9. Pointed'
  <2> SUFFICES ASSUME NEW i \in 1..Len(topicLists')
               PROVE  \/ list[topicLists'[i].topic] = i
                      \/ where'[t] = "insert" /\ request[t].topic = topicLists'[i].topic
    BY <1>0 DEF Pointed
  <2> QED BY <1>0, <1>1, <1>2, <1>5 DEF TopicsInv, Pointed
<1>10. Inserting'
  BY <1>0, <1>1, <1>2, <1>4 DEF TopicsInv, Inserting
<1>11. Shared'
  BY <1>0 DEF TopicsInv, Shared
<1> QED BY <1>6, <1>7, <1>8, <1>9, <1>10, <1>11 DEF TopicsInv

LEMMA AssignStep ==
  ASSUME TopicsInv, NEW t \in Callers, AssignPointer(t)
  PROVE  TopicsInv'
<1> DEFINE n == Len(topicLists)
           o == request[t].topic
<1>0. /\ topicLists \in Seq(Request) /\ n \in Nat /\ n > 0 /\ o \in Topics /\ o \in keys
      /\ where \in [Callers -> TopicPlaces] /\ where[t] = "insert" /\ owner = t
      /\ where' = [where EXCEPT ![t] = "returned"] /\ list' = [list EXCEPT ![o] = n]
      /\ given' = [given EXCEPT ![t] = n] /\ owner' = NoCaller
      /\ UNCHANGED <<keys, topicLists, request, asked>>
      /\ list[o] = 0 /\ topicLists[n].topic = o
      /\ list \in [Topics -> 0..n] /\ given \in [Callers -> 0..n]
  BY LenProperties
     DEF TopicsInv, TopicTypes, AssignPointer, Found, Answer, GoOn, Inserting, Request
<1>1. \A u \in Callers : u # t => where[u] \notin {"locked", "insert"}
  BY <1>0 DEF TopicsInv, TopicTypes
<1>2. TopicTypes'
  BY <1>0, <1>1, TopicsAssumption DEF TopicsInv, TopicTypes, TopicPlaces
<1>3. Distinct'
  BY <1>0 DEF TopicsInv, Distinct
<1>4. Named'
  BY <1>0 DEF TopicsInv, Named
<1>5. Pointed'
  <2> SUFFICES ASSUME NEW i \in 1..n PROVE list'[topicLists[i].topic] = i
    BY <1>0 DEF Pointed
  <2>0. topicLists[i] \in Request
    BY <1>0, ElementOfSeq
  <2>1. topicLists[i].topic \in Topics
    BY <2>0 DEF Request
  <2>2. CASE topicLists[i].topic = o
    BY <1>0, <2>2 DEF TopicsInv, Distinct
  <2>3. CASE topicLists[i].topic # o
    BY <1>0, <1>1, <2>1, <2>3 DEF TopicsInv, Pointed
  <2> QED BY <2>2, <2>3
<1>6. Inserting'
  BY <1>0, <1>1 DEF TopicsInv, Inserting
<1>7. Shared'
  BY <1>0 DEF TopicsInv, TopicTypes, Shared, Request
<1> QED BY <1>2, <1>3, <1>4, <1>5, <1>6, <1>7 DEF TopicsInv

LEMMA TopicsStep == TopicsInv /\ [TopicsNext]_topicVars => TopicsInv'
<1> SUFFICES ASSUME TopicsInv, [TopicsNext]_topicVars PROVE TopicsInv'
  OBVIOUS
<1>0. /\ where \in [Callers -> TopicPlaces] /\ asked \in 0..MaxAsked /\ MaxAsked \in Nat
      /\ request \in [Callers -> Request] /\ given \in [Callers -> 0..Len(topicLists)]
      /\ list \in [Topics -> 0..Len(topicLists)] /\ Len(topicLists) \in Nat
  BY TopicsAssumption, LenProperties DEF TopicsInv, TopicTypes
<1>1. ASSUME NEW t \in Callers, NEW r \in Request, Call(t, r) PROVE TopicsInv'
  BY <1>0, <1>1
     DEF Call, GoOn, TopicsInv, TopicTypes, TopicPlaces, Distinct, Named, Pointed, Inserting, Shared
<1>2. ASSUME NEW t \in Callers, LookFound(t) \/ LookAgain(t) PROVE TopicsInv'
  <2>1. request[t].topic \in Topics
    BY <1>0 DEF Request
  <2>2. /\ where[t] \in {"look", "locked"} /\ where' = [where EXCEPT ![t] = "returned"]
        /\ given' = [given EXCEPT ![t] = list[request[t].topic]]
        /\ owner' = (IF owner = t THEN NoCaller ELSE owner)
        /\ UNCHANGED <<keys, list, topicLists, request, asked>>
    BY <1>2 DEF LookFound, LookAgain, Answer, GoOn, TopicsInv, TopicTypes
  <2>3. TopicTypes'
    BY <1>0, <2>1, <2>2, TopicsAssumption DEF TopicsInv, TopicTypes, TopicPlaces
  <2>4. Distinct' /\ Named' /\ Pointed' /\ Inserting'
    BY <1>0, <2>2 DEF TopicsInv, Distinct, Named, Pointed, Inserting
  <2>5. Shared'
    BY <1>0, <2>2 DEF TopicsInv, Shared
  <2> QED BY <2>3, <2>4, <2>5 DEF TopicsInv
<1>3. ASSUME NEW t \in Callers, LookNone(t) \/ Lock(t) PROVE TopicsInv'
  <2>1. /\ where[t] \notin {"locked", "insert"} /\ UNCHANGED <<keys, list, topicLists, request, given, asked>>
        /\ \/ where' = [where EXCEPT ![t] = "lock"] /\ owner' = owner
           \/ where' = [where EXCEPT ![t] = "locked"] /\ owner = NoCaller /\ owner' = t
    BY <1>3 DEF LookNone, Lock, GoOn
  <2>2. TopicTypes'
    BY <1>0, <2>1, TopicsAssumption DEF TopicsInv, TopicTypes, TopicPlaces
  <2>3. Distinct' /\ Named' /\ Pointed' /\ Inserting' /\ Shared'
    BY <1>0, <2>1 DEF TopicsInv, Distinct, Named, Pointed, Inserting, Shared
  <2> QED BY <2>2, <2>3 DEF TopicsInv
<1>4. ASSUME NEW t \in Callers, Make(t) PROVE TopicsInv'
  BY <1>4, MakeStep
<1>5. ASSUME NEW t \in Callers, InsertKey(t) PROVE TopicsInv'
  BY <1>0, <1>5
     DEF InsertKey, Request, TopicsInv, TopicTypes, TopicPlaces, Distinct, Named, Pointed, Inserting,
         Shared
<1>6. ASSUME NEW t \in Callers, AssignPointer(t) PROVE TopicsInv'
  BY <1>6, AssignStep
<1>7. CASE UNCHANGED topicVars
  BY <1>7 DEF topicVars, TopicsInv, TopicTypes, TopicPlaces, Distinct, Named, Pointed, Inserting, Shared
<1> QED BY <1>1, <1>2, <1>3, <1>4, <1>5, <1>6, <1>7 DEF TopicsNext

\* Lists of different topics are at most as many as the topics.
LEMMA ListsBound == TopicsInv => Len(topicLists) <= Cardinality(Topics)
<1> SUFFICES ASSUME TopicsInv PROVE Len(topicLists) <= Cardinality(Topics)
  OBVIOUS
<1> DEFINE f == [i \in 1..Len(topicLists) |-> topicLists[i].topic]
<1>1. topicLists \in Seq(Request) /\ Len(topicLists) \in Nat
  BY LenProperties DEF TopicsInv, TopicTypes
<1>2. \A i \in 1..Len(topicLists) : topicLists[i].topic \in Topics
  <2>1. \A i \in 1..Len(topicLists) : topicLists[i] \in Request
    BY <1>1, ElementOfSeq
  <2> QED BY <2>1 DEF Request
<1>3. f \in Injection(1..Len(topicLists), Topics)
  BY <1>2 DEF TopicsInv, Distinct, Injection, IsInjective
<1>4. Cardinality(1..Len(topicLists)) = Len(topicLists)
  <2>1. Cardinality(1..Len(topicLists)) = IF 1 > Len(topicLists) THEN 0 ELSE Len(topicLists) - 1 + 1
    BY <1>1, FS_Interval
  <2> QED BY <1>1, <2>1
<1> QED BY <1>3, <1>4, TopicsAssumption, FS_Injection

\* All callers of a topic share one list, whatever the look without the mutex
\* finds while another thread inserts.
THEOREM ListsShared == TopicsSpec => []OneListPerTopic
<1>1. TopicsInv => OneListPerTopic
  <2> SUFFICES ASSUME TopicsInv PROVE OneListPerTopic
    OBVIOUS
  <2>1. TopicsTypeOK
    BY ListsBound DEF TopicsInv, TopicTypes, TopicsTypeOK, TopicPlaces
  <2>2. ASSUME NEW t \in Callers, given[t] # 0
        PROVE  list[request[t].topic] = given[t] /\ topicLists[given[t]].topic = request[t].topic
    BY <2>2 DEF TopicsInv, TopicTypes, Request, Named, Shared
  <2> QED BY <2>1, <2>2 DEF OneListPerTopic
<1> QED BY <1>1, TopicsBegin, TopicsStep, PTL DEF TopicsSpec
=============================================================================
