-------------------------- MODULE ConnMonitorProofs --------------------------
(***************************************************************************)
(* Theorems about ConnMonitor for any addresses, checks and threads of the *)
(* service, and in every mode of it.                                       *)
(***************************************************************************)
EXTENDS ConnMonitor, FiniteSetTheorems, TLAPS

-----------------------------------------------------------------------------
(* Tick gives every check that it opens an object of its own. *)

\* A finite set fits into one that is not smaller.
LEMMA Fits ==
  ASSUME NEW S, NEW T, IsFiniteSet(S), IsFiniteSet(T), Cardinality(S) <= Cardinality(T)
  PROVE  \E g \in [S -> T] : \A a, b \in S : g[a] = g[b] => a = b
<1> DEFINE m == Cardinality(S)
           n == Cardinality(T)
<1>1. m \in Nat /\ n \in Nat /\ m <= n
  BY FS_CardinalityType
<1>2. PICK f \in Bijection(1..m, S) : TRUE
  BY FS_CardinalityType DEF ExistsBijection
<1>3. PICK h \in Bijection(1..n, T) : TRUE
  BY FS_CardinalityType DEF ExistsBijection
<1>4. /\ \A a \in S : \E i \in 1..m : f[i] = a
      /\ h \in [1..n -> T] /\ \A i, j \in 1..n : h[i] = h[j] => i = j
  BY <1>2, <1>3 DEF Bijection, Injection, IsInjective, Surjection
<1> DEFINE at == [a \in S |-> CHOOSE i \in 1..m : f[i] = a]
           g == [a \in S |-> h[at[a]]]
<1>5. \A a \in S : at[a] \in 1..m /\ f[at[a]] = a
  BY <1>4
<1>6. \A a \in S : at[a] \in 1..n
  BY <1>1, <1>5
<1> HIDE DEF at, m, n
<1>7. g \in [S -> T]
  BY <1>4, <1>6
<1>8. \A a, b \in S : g[a] = g[b] => a = b
  BY <1>4, <1>5, <1>6
<1> QED BY <1>7, <1>8

Met == [a \in Addrs |-> IF a \notin pools THEN addrs[a] ELSE IF addrs[a] = 0 THEN 1 ELSE 2]

\* What Tick does, with the objects it gives: each opened address gets one that
\* was free, and nothing else changes hands.
TickGives(refused, opened, g) ==
  /\ opened = Due(Met) \ refused
  /\ refused \subseteq Due(Met)
  /\ g \in [opened -> Checkers \ Live]
  /\ \A a, b \in opened : g[a] = g[b] => a = b
  /\ addrs' = [a \in Addrs |-> IF a \in refused THEN 0 ELSE Met[a]]
  /\ of' \in [Checkers -> Addrs \cup {NoAddr}]
  /\ \A a \in opened : of'[g[a]] = a
  /\ \A k \in Checkers : (\A a \in opened : g[a] # k) => of'[k] = of[k]
  /\ phase' \in [Checkers -> {"none", "connecting", "late", "checking", "rpc", "closing"}]
  /\ \A a \in opened : phase'[g[a]] = IF pc = "lastEvents" THEN "late" ELSE "connecting"
  /\ \A k \in Checkers : (\A a \in opened : g[a] # k) => phase'[k] = phase[k]
  /\ blocked' \in [Checkers -> BOOLEAN] /\ aliving' \in [Checkers -> BOOLEAN]
  /\ \A k \in Checkers : blocked[k] => blocked'[k]
  /\ alive' \in [Addrs -> BOOLEAN]
  /\ UNCHANGED <<pools, up, removed, control, timer, rpc>>

LEMMA TickFacts ==
  ASSUME TypeOK, Tick
  PROVE  \E refused, opened, g : TickGives(refused, opened, g)
<1>1. PICK refused \in SUBSET {a \in Due(Met) : ~up[a]} :
        LET opened == Due(Met) \ refused
            free == Checkers \ Live
            give == CHOOSE g \in [opened -> free] : \A a, b \in opened : g[a] = g[b] => a = b
            taken == {give[a] : a \in opened}
        IN  /\ Cardinality(opened) <= Cardinality(free)
            /\ addrs' = [a \in Addrs |-> IF a \in refused THEN 0 ELSE Met[a]]
            /\ SetStatus(refused, FALSE)
            /\ of' = [k \in Checkers |-> IF k \in taken
                        THEN CHOOSE a \in opened : give[a] = k ELSE of[k]]
            /\ phase' = [k \in Checkers |-> IF k \notin taken THEN phase[k]
                           ELSE IF pc = "lastEvents" THEN "late" ELSE "connecting"]
            /\ blocked' = [k \in Checkers |-> k \in taken \/ blocked[k]]
            /\ aliving' = [k \in Checkers |-> k \notin taken /\ aliving[k]]
  BY DEF Tick, Met
<1> DEFINE opened == Due(Met) \ refused
           free == Checkers \ Live
           give == CHOOSE g \in [opened -> free] : \A a, b \in opened : g[a] = g[b] => a = b
           taken == {give[a] : a \in opened}
<1>2. opened \subseteq Addrs /\ IsFiniteSet(opened) /\ IsFiniteSet(free)
  <2>1. opened \subseteq Addrs /\ free \subseteq Checkers
    BY DEF Due
  <2> HIDE DEF opened, free
  <2> QED BY <2>1, FiniteAssumption, FS_Subset
<1>3. give \in [opened -> free] /\ \A a, b \in opened : give[a] = give[b] => a = b
  <2>1. Cardinality(opened) <= Cardinality(free)
    BY <1>1
  <2>2. \E g \in [opened -> free] : \A a, b \in opened : g[a] = g[b] => a = b
    <3> HIDE DEF opened, free
    <3> QED BY <1>2, <2>1, Fits
  <2> HIDE DEF opened, free
  <2> QED BY <2>2
<1>4. /\ addrs' = [a \in Addrs |-> IF a \in refused THEN 0 ELSE Met[a]]
      /\ SetStatus(refused, FALSE)
      /\ of' = [k \in Checkers |-> IF k \in taken
                  THEN CHOOSE a \in opened : give[a] = k ELSE of[k]]
      /\ phase' = [k \in Checkers |-> IF k \notin taken THEN phase[k]
                     ELSE IF pc = "lastEvents" THEN "late" ELSE "connecting"]
      /\ blocked' = [k \in Checkers |-> k \in taken \/ blocked[k]]
      /\ aliving' = [k \in Checkers |-> k \notin taken /\ aliving[k]]
  BY <1>1
<1>5. refused \subseteq Due(Met)
  OBVIOUS
<1>6. UNCHANGED <<pools, up, removed, control, timer, rpc>>
  BY DEF Tick
<1>7. opened = Due(Met) \ refused
  OBVIOUS
<1>8. free = Checkers \ Live
  OBVIOUS
<1> HIDE DEF opened, free, give
<1>9. \A k \in taken : \E a \in opened : give[a] = k
  OBVIOUS
<1>10. \A a \in opened : give[a] \in taken /\ give[a] \in Checkers
  BY <1>3, <1>8
<1>11. \A k \in Checkers : (\A a \in opened : give[a] # k) => k \notin taken
  BY <1>9
<1> HIDE DEF taken
<1>12. of' \in [Checkers -> Addrs \cup {NoAddr}] /\ \A a \in opened : of'[give[a]] = a
  <2>1. \A k \in taken : (CHOOSE a \in opened : give[a] = k) \in opened
    BY <1>9
  <2>2. \A a \in opened : (CHOOSE b \in opened : give[b] = give[a]) = a
    BY <1>3
  <2> QED BY <1>2, <1>4, <1>10, <2>1, <2>2 DEF TypeOK
<1>13. alive' \in [Addrs -> BOOLEAN]
  BY <1>4 DEF SetStatus, TypeOK
<1>14. phase' \in [Checkers -> {"none", "connecting", "late", "checking", "rpc", "closing"}]
  BY <1>4 DEF TypeOK
<1>15. \A k \in Checkers : (\A a \in opened : give[a] # k) => of'[k] = of[k] /\ phase'[k] = phase[k]
  BY <1>4, <1>11
<1>16. \A a \in opened : phase'[give[a]] = IF pc = "lastEvents" THEN "late" ELSE "connecting"
  BY <1>4, <1>10
<1>17. /\ blocked' \in [Checkers -> BOOLEAN] /\ aliving' \in [Checkers -> BOOLEAN]
       /\ \A k \in Checkers : blocked[k] => blocked'[k]
  BY <1>4 DEF TypeOK
<1>18. TickGives(refused, opened, give)
  BY <1>3, <1>4, <1>5, <1>6, <1>7, <1>8, <1>12, <1>13, <1>14, <1>15, <1>16, <1>17 DEF TickGives
<1> QED BY <1>18

-----------------------------------------------------------------------------
(* Types, and a check with the service *)

\* A thread has a check exactly while it runs it.
ThreadsRun == \A v \in Workers : worker[v] = "check" <=> running[v] # NoChecker

CheckerInv == TypeOK /\ ThreadsRun /\ CheckerKept

LEMMA TypeStep == CheckerInv /\ [Next]_vars => TypeOK'
<1> SUFFICES ASSUME CheckerInv, [Next]_vars PROVE TypeOK'
  OBVIOUS
<1>0. TypeOK /\ ThreadsRun /\ CheckerKept
  BY DEF CheckerInv
<1> USE <1>0, NoAddrAssumption, NoCheckerAssumption DEF manager, control, checks, rpc
<1>1. ASSUME NEW a \in Addrs, Server(a) \/ Get(a) \/ Remove(a) \/ Callers(a) PROVE TypeOK'
  BY <1>1 DEF TypeOK, Server, Get, Remove, Callers
<1>2. CASE Tick
  <2>1. PICK refused, opened, g : TickGives(refused, opened, g)
    BY <1>2, TickFacts
  <2>2. addrs' \in [Addrs -> 0..2]
    BY <2>1 DEF TickGives, Met, TypeOK
  <2>3. \A k \in Checkers : phase'[k] = "none" <=> of'[k] = NoAddr
    <3> SUFFICES ASSUME NEW k \in Checkers PROVE phase'[k] = "none" <=> of'[k] = NoAddr
      OBVIOUS
    <3>1. CASE \A a \in opened : g[a] # k
      BY <2>1, <3>1 DEF TickGives, TypeOK
    <3>2. ASSUME NEW a \in opened, g[a] = k PROVE phase'[k] = "none" <=> of'[k] = NoAddr
      <4>1. a \in Addrs
        BY <2>1 DEF TickGives, Due
      <4> QED BY <2>1, <3>2, <4>1 DEF TickGives
    <3> QED BY <3>1, <3>2
  <2> QED BY <2>1, <2>2, <2>3 DEF TickGives, TypeOK
<1>3. ASSUME NEW k \in Checkers, Opened(k) PROVE TypeOK'
  <2>1. /\ phase' \in [Checkers -> {"none", "connecting", "late", "checking", "rpc", "closing"}]
        /\ \A j \in Checkers : phase'[j] = "none" <=> of[j] = NoAddr
        /\ queued' \subseteq Checkers
    <3>1. /\ phase[k] = "connecting" /\ queued' \in {queued, queued \cup {k}}
          /\ \/ phase' = [phase EXCEPT ![k] = "checking"]
             \/ phase' = [phase EXCEPT ![k] = "rpc"]
      BY <1>3 DEF Opened
    <3> QED BY <3>1 DEF TypeOK
  <2>2. blocked' \in [Checkers -> BOOLEAN] /\ aliving' \in [Checkers -> BOOLEAN]
    <3>1. /\ \E b \in BOOLEAN : blocked' = [blocked EXCEPT ![k] = b]
          /\ \E b \in BOOLEAN : aliving' = [aliving EXCEPT ![k] = b]
      BY <1>3 DEF Opened
    <3> QED BY <3>1 DEF TypeOK
  <2> QED BY <1>3, <2>1, <2>2 DEF TypeOK, Opened
<1>4. ASSUME NEW k \in Checkers, Refused(k) \/ NioCheck(k) \/ RpcOver(k) PROVE TypeOK'
  <2>1. /\ phase' \in [Checkers -> {"none", "connecting", "late", "checking", "rpc", "closing"}]
        /\ \A j \in Checkers : phase'[j] = "none" <=> of[j] = NoAddr
        /\ told' \subseteq Checkers /\ queued' = queued
    <3>1. phase[k] # "none" /\ phase' = [phase EXCEPT ![k] = "closing"]
      BY <1>0, <1>4 DEF CheckerKept, Refused, NioCheck, RpcOver
    <3> QED BY <1>4, <3>1 DEF TypeOK, Refused, NioCheck, RpcOver
  <2>2. blocked' \in [Checkers -> BOOLEAN]
    BY <1>4 DEF TypeOK, Refused, NioCheck, RpcOver
  <2>3. aliving' \in [Checkers -> BOOLEAN]
    <3>1. phase[k] = "checking" => up[of[k]] \in BOOLEAN
      BY DEF TypeOK
    <3> QED BY <1>4, <3>1 DEF TypeOK, Refused, NioCheck, RpcOver
  <2> QED BY <1>4, <2>1, <2>2, <2>3 DEF TypeOK, Refused, NioCheck, RpcOver
<1>5. ASSUME NEW k \in Checkers, Closed(k) PROVE TypeOK'
  BY <1>5 DEF TypeOK, Closed, SetStatus
<1>6. CASE Pass \/ Stop \/ StopGraceful \/ DeleteService \/ Over
  BY <1>6 DEF TypeOK, Pass, Stop, StopGraceful, DeleteService, Over
<1>7. CASE Finish
  BY <1>7 DEF TypeOK, Finish, Live
<1>8. ASSUME NEW v \in Workers, PeekConn(v) \/ SioCheck(v) \/ PushConn(v) PROVE TypeOK'
  <2>1. CASE PeekConn(v) \/ PushConn(v)
    BY <2>1 DEF TypeOK, PeekConn, PushConn
  <2>2. CASE SioCheck(v)
    <3> DEFINE k == running[v]
    <3>1. (of[k] # NoAddr /\ up[of[k]]) \in BOOLEAN /\ k \in Checkers
      BY <2>2 DEF SioCheck, ThreadsRun, TypeOK
    <3>2. aliving' \in [Checkers -> BOOLEAN] /\ told' \subseteq Checkers
      BY <2>2, <3>1 DEF SioCheck, TypeOK
    <3>3. worker' \in [Workers -> {"idle", "check", "push"}]
      BY <2>2 DEF SioCheck, TypeOK
    <3>4. running' \in [Workers -> Checkers \cup {NoChecker}]
      BY <2>2 DEF SioCheck, TypeOK
    <3> QED BY <2>2, <3>2, <3>3, <3>4 DEF SioCheck, TypeOK
  <2> QED BY <1>8, <2>1, <2>2
<1>9. CASE UNCHANGED vars
  BY <1>9 DEF TypeOK, vars
<1> QED BY <1>1, <1>2, <1>3, <1>4, <1>5, <1>6, <1>7, <1>8, <1>9 DEF Next

LEMMA CheckerStep == CheckerInv /\ [Next]_vars => CheckerInv'
<1> SUFFICES ASSUME CheckerInv, [Next]_vars PROVE ThreadsRun' /\ CheckerKept'
  BY TypeStep DEF CheckerInv
<1>0. /\ TypeOK /\ ThreadsRun /\ CheckerKept
      /\ \A v \in Workers : worker[v] = "check" => running[v] \in Checkers
      /\ \A k \in Checkers : phase[k] = "rpc" => k \in Live
  BY NoCheckerAssumption DEF CheckerInv, ThreadsRun, TypeOK, Live
<1> USE NoCheckerAssumption DEF manager, control, checks, rpc
\* Whatever leaves the service alone and keeps its checks as they are.
<1>1. ASSUME UNCHANGED <<queued, told, worker, running>>,
             \A k \in Checkers : phase[k] = "rpc" /\ blocked[k] => phase'[k] = "rpc" /\ blocked'[k]
      PROVE  ThreadsRun' /\ CheckerKept'
  BY <1>0, <1>1 DEF CheckerKept, ThreadsRun, TypeOK
<1>2. CASE \E a \in Addrs : Server(a) \/ Get(a) \/ Remove(a) \/ Callers(a)
  BY <1>1, <1>2 DEF Server, Get, Remove, Callers
<1>3. CASE Tick
  <2>1. PICK refused, opened, g : TickGives(refused, opened, g)
    BY <1>0, <1>3, TickFacts
  <2>2. \A k \in Live : \A a \in opened : g[a] # k
    BY <2>1 DEF TickGives
  <2> QED BY <1>0, <1>1, <2>1, <2>2 DEF TickGives
<1>4. ASSUME NEW k \in Checkers, Opened(k) PROVE ThreadsRun' /\ CheckerKept'
  BY <1>0, <1>1, <1>4 DEF Opened, CheckerKept, ThreadsRun, TypeOK
<1>5. ASSUME NEW k \in Checkers, Refused(k) \/ NioCheck(k) PROVE ThreadsRun' /\ CheckerKept'
  BY <1>0, <1>1, <1>5 DEF Refused, NioCheck, TypeOK
<1>6. ASSUME NEW k \in Checkers, RpcOver(k) PROVE ThreadsRun' /\ CheckerKept'
  BY <1>0, <1>6 DEF RpcOver, CheckerKept, ThreadsRun, TypeOK
<1>7. ASSUME NEW k \in Checkers, Closed(k) PROVE ThreadsRun' /\ CheckerKept'
  BY <1>0, <1>1, <1>7 DEF Closed, TypeOK
<1>8. CASE Pass \/ Stop \/ StopGraceful \/ DeleteService \/ Over
  BY <1>1, <1>8 DEF Pass, Stop, StopGraceful, DeleteService, Over
<1>9. CASE Finish
  BY <1>0, <1>1, <1>9 DEF Finish, TypeOK
<1>10. ASSUME NEW v \in Workers, PeekConn(v) PROVE ThreadsRun' /\ CheckerKept'
  <2>1. PICK k \in queued :
          /\ queued' = queued \ {k}
          /\ \/ worker' = [worker EXCEPT ![v] = "check"] /\ running' = [running EXCEPT ![v] = k]
             \/ UNCHANGED <<worker, running>>
    BY <1>10 DEF PeekConn
  <2>2. worker[v] = "idle" /\ UNCHANGED <<phase, blocked, told>> /\ k \in Checkers
    BY <1>0, <1>10 DEF PeekConn, TypeOK
  <2> QED BY <1>0, <2>1, <2>2 DEF CheckerKept, ThreadsRun, TypeOK
<1>11. ASSUME NEW v \in Workers, SioCheck(v) PROVE ThreadsRun' /\ CheckerKept'
  BY <1>0, <1>11 DEF SioCheck, CheckerKept, ThreadsRun, TypeOK
<1>12. ASSUME NEW v \in Workers, PushConn(v) PROVE ThreadsRun' /\ CheckerKept'
  BY <1>0, <1>12 DEF PushConn, CheckerKept, ThreadsRun, TypeOK
<1>13. CASE UNCHANGED vars
  BY <1>1, <1>13 DEF vars
<1> QED BY <1>2, <1>3, <1>4, <1>5, <1>6, <1>7, <1>8, <1>9, <1>10, <1>11, <1>12, <1>13 DEF Next

LEMMA CheckerInit == Init => CheckerInv
<1> SUFFICES ASSUME Init PROVE CheckerInv
  OBVIOUS
<1>1. {stop, graceful, asked, timer, dropped} \subseteq BOOLEAN
  BY DEF Init
<1>2. alive \in [Addrs -> BOOLEAN] /\ blocked \in [Checkers -> BOOLEAN]
      /\ aliving \in [Checkers -> BOOLEAN]
  BY DEF Init
<1>3. TypeOK
  BY <1>1, <1>2, NoAddrAssumption DEF Init, TypeOK
<1> QED BY <1>3 DEF Init, CheckerInv, ThreadsRun, CheckerKept

LEMMA CheckerInvariant == Spec => []CheckerInv
BY CheckerInit, CheckerStep, PTL DEF Spec

\* A check stays open while its request, a thread or a message has it, and only
\* one of the three does, in whatever order verdicts and stop come.
THEOREM ChecksAreKept == Spec => []CheckerKept
<1>1. CheckerInv => CheckerKept
  BY DEF CheckerInv
<1> QED BY <1>1, CheckerInvariant, PTL

-----------------------------------------------------------------------------
(* The counts of addrs_ *)

\* addrs_ has the addresses under check, an address under check is one of a
\* pool, and only one object checks it; but for addresses that lost their pool.
CountsKept ==
  \A a \in Addrs \ removed :
    /\ addrs[a] > 0 => a \in pools
    /\ addrs[a] > 0 <=> \E k \in Checkers : of[k] = a
    /\ \A j, k \in Checkers : of[j] = a /\ of[k] = a => j = k

LEMMA CountsStep == CheckerInv /\ CountsKept /\ [Next]_vars => CountsKept'
<1> SUFFICES ASSUME CheckerInv, CountsKept, [Next]_vars, NEW a \in Addrs, a \notin removed'
             PROVE  /\ addrs'[a] > 0 => a \in pools'
                    /\ addrs'[a] > 0 <=> \E k \in Checkers : of'[k] = a
                    /\ \A j, k \in Checkers : of'[j] = a /\ of'[k] = a => j = k
  BY DEF CountsKept
<1> DEFINE Good == /\ addrs'[a] > 0 => a \in pools'
                   /\ addrs'[a] > 0 <=> \E k \in Checkers : of'[k] = a
                   /\ \A j, k \in Checkers : of'[j] = a /\ of'[k] = a => j = k
<1> SUFFICES Good
  OBVIOUS
<1> USE DEF manager, control, checks, rpc
<1>10. TypeOK
  BY DEF CheckerInv
<1>0. /\ a \notin removed => /\ addrs[a] > 0 => a \in pools
                             /\ addrs[a] > 0 <=> \E k \in Checkers : of[k] = a
                             /\ \A j, k \in Checkers : of[j] = a /\ of[k] = a => j = k
      /\ addrs[a] \in 0..2 /\ a # NoAddr
  BY <1>10, NoAddrAssumption DEF CountsKept, TypeOK
<1>1. ASSUME UNCHANGED <<addrs, of>>, removed \subseteq removed', a \in pools => a \in pools'
      PROVE  Good
  BY <1>0, <1>1
<1>2. ASSUME NEW b \in Addrs, Server(b) \/ Get(b) \/ Callers(b) PROVE Good
  BY <1>1, <1>2 DEF Server, Get, Callers
<1>3. ASSUME NEW b \in Addrs, Remove(b) PROVE Good
  BY <1>1, <1>3 DEF Remove
<1>4. CASE Tick
  <2>1. PICK refused, opened, g : TickGives(refused, opened, g)
    BY <1>10, <1>4, TickFacts
  <2>2. /\ opened = Due(Met) \ refused /\ refused \subseteq Due(Met)
        /\ \A b \in opened : g[b] \in Checkers /\ of'[g[b]] = b /\ of[g[b]] = NoAddr
        /\ \A k \in Checkers : (\A b \in opened : g[b] # k) => of'[k] = of[k]
        /\ addrs'[a] = (IF a \in refused THEN 0 ELSE Met[a])
        /\ UNCHANGED <<pools, removed>>
    BY <2>1 DEF TickGives, Live
  <2>3. \A k \in Checkers : of'[k] = a <=> of[k] = a \/ (a \in opened /\ g[a] = k)
    <3> SUFFICES ASSUME NEW k \in Checkers
                 PROVE  of'[k] = a <=> of[k] = a \/ (a \in opened /\ g[a] = k)
      OBVIOUS
    <3>1. CASE \E b \in opened : g[b] = k
      BY <1>0, <2>2, <3>1
    <3>2. CASE \A b \in opened : g[b] # k
      BY <2>2, <3>2
    <3> QED BY <3>1, <3>2
  <2>4. Met[a] = (IF a \notin pools THEN addrs[a] ELSE IF addrs[a] = 0 THEN 1 ELSE 2)
    BY DEF Met
  <2>5. a \in Due(Met) <=> Met[a] = 1
    BY DEF Due
  <2>6. a \in Due(Met) <=> a \in pools /\ addrs[a] = 0
    BY <1>0, <2>2, <2>4, <2>5
  <2>7. CASE a \in Due(Met)
    BY <1>0, <2>2, <2>3, <2>4, <2>6, <2>7
  <2>8. CASE a \notin Due(Met)
    BY <1>0, <2>2, <2>3, <2>4, <2>6, <2>8
  <2> QED BY <2>7, <2>8
<1>5. ASSUME NEW k \in Checkers, Opened(k) \/ Refused(k) \/ NioCheck(k) \/ RpcOver(k) PROVE Good
  BY <1>1, <1>5 DEF Opened, Refused, NioCheck, RpcOver
<1>6. ASSUME NEW k \in Checkers, Closed(k) PROVE Good
  BY <1>10, <1>0, <1>6, NoAddrAssumption DEF Closed, TypeOK
<1>7. CASE Pass \/ Stop \/ StopGraceful \/ DeleteService \/ Over \/ Finish
  BY <1>1, <1>7 DEF Pass, Stop, StopGraceful, DeleteService, Over, Finish
<1>8. ASSUME NEW v \in Workers, PeekConn(v) \/ SioCheck(v) \/ PushConn(v) PROVE Good
  BY <1>1, <1>8 DEF PeekConn, SioCheck, PushConn
<1>9. CASE UNCHANGED vars
  BY <1>1, <1>9 DEF vars
<1> QED BY <1>2, <1>3, <1>4, <1>5, <1>6, <1>7, <1>8, <1>9 DEF Next

\* The timer, the verdicts and the removals of pools never give an address a
\* second check, and leave none of its checks or counts behind.
THEOREM ChecksApart == Spec => []OneCheckPerAddr
<1>1. Init => CountsKept
  BY NoAddrAssumption DEF Init, CountsKept
<1>2. TypeOK /\ CountsKept => OneCheckPerAddr
  <2> SUFFICES ASSUME TypeOK, CountsKept, NEW a \in Addrs \ removed
               PROVE  LET mine == {k \in Live : of[k] = a} IN
                        Cardinality(mine) <= 1 /\ (addrs[a] > 0 <=> mine # {})
    BY DEF OneCheckPerAddr
  <2> DEFINE mine == {k \in Live : of[k] = a}
  <2>1. mine = {k \in Checkers : of[k] = a}
    BY NoAddrAssumption DEF Live
  <2>2. addrs[a] > 0 <=> mine # {}
    BY <2>1 DEF CountsKept
  <2>3. Cardinality(mine) <= 1
    <3>1. CASE mine = {}
      BY <3>1, FS_EmptySet
    <3>2. ASSUME NEW k \in mine PROVE Cardinality(mine) <= 1
      <4>1. mine = {k}
        BY <2>1, <3>2 DEF CountsKept
      <4>2. Cardinality({k}) = 1
        BY FS_Singleton
      <4> QED BY <4>1, <4>2
    <3> QED BY <3>1, <3>2
  <2> QED BY <2>2, <2>3
<1>3. CheckerInv => TypeOK
  BY DEF CheckerInv
<1> QED BY <1>1, <1>2, <1>3, CountsStep, CheckerInvariant, PTL DEF Spec

-----------------------------------------------------------------------------
(* stop *)

\* stop_graceful_ is what was asked for, or not yet; rpc_service_ is deleted
\* after the last check was waited for, and in between no other begins.
StopInv ==
  /\ asked => graceful
  /\ ~stop => asked
  /\ pc \in {"delete", "lastEvents", "lastClose", "over"} => stop
  /\ service = "deleted" => pc \in {"lastEvents", "lastClose", "over"}
  /\ mode = "none" <=> service = "none"
  /\ pc = "delete" /\ asked => Live = {}
  /\ StopClean

LEMMA StopStep == CheckerInv /\ StopInv /\ [Next]_vars => StopInv'
<1> SUFFICES ASSUME CheckerInv, StopInv, [Next]_vars PROVE StopInv'
  OBVIOUS
<1> USE DEF manager, control, checks, rpc
<1>0. /\ TypeOK /\ ThreadsRun /\ CheckerKept
      /\ \A v \in Workers : worker[v] = "check" => running[v] \in Live /\ phase[running[v]] = "rpc"
      /\ \A k \in queued \cup told : k \in Live /\ phase[k] = "rpc"
  BY NoCheckerAssumption DEF CheckerInv, ThreadsRun, CheckerKept, TypeOK, Live
\* Nothing of the stop, and nothing of the checks that it waits for.
<1>1. ASSUME UNCHANGED <<control, queued, worker>>,
             pc = "delete" => Live' \subseteq Live,
             pc \in {"lastEvents", "lastClose", "over"} =>
               \A k \in Live' : (k \in Live /\ phase'[k] = phase[k]) \/ phase'[k] = "late"
      PROVE  StopInv'
  BY <1>1 DEF StopInv, StopClean, ServiceKept, WaitedFor
<1>2. CASE \E a \in Addrs : Server(a) \/ Get(a) \/ Remove(a) \/ Callers(a)
  BY <1>1, <1>2 DEF Server, Get, Remove, Callers, Live
<1>3. CASE Tick
  <2>1. PICK refused, opened, g : TickGives(refused, opened, g)
    BY <1>0, <1>3, TickFacts
  <2>2. pc \in {"events", "lastEvents"}
    BY <1>3 DEF Tick
  <2>3. pc = "lastEvents" => \A k \in Live' : (k \in Live /\ phase'[k] = phase[k]) \/ phase'[k] = "late"
    BY <2>1 DEF TickGives, Live
  <2>4. UNCHANGED <<control, queued, worker>>
    BY <2>1 DEF TickGives
  <2> QED BY <1>1, <2>2, <2>3, <2>4
<1>4. ASSUME NEW k \in Checkers, Opened(k) \/ Refused(k) \/ NioCheck(k) \/ RpcOver(k) PROVE StopInv'
  <2>1. /\ pc \in {"events", "lastEvents"} /\ k \in Live /\ phase[k] # "late"
        /\ Live' = Live /\ UNCHANGED <<control, worker>>
    BY <1>0, <1>4 DEF Opened, Refused, NioCheck, RpcOver, Live, TypeOK
  <2>2. CASE pc = "events"
    BY <2>1, <2>2 DEF StopInv, StopClean, ServiceKept, WaitedFor
  <2>3. CASE pc = "lastEvents"
    BY <2>1, <2>3 DEF StopInv, StopClean, ServiceKept, WaitedFor
  <2> QED BY <2>1, <2>2, <2>3
<1>5. ASSUME NEW k \in Checkers, Closed(k) PROVE StopInv'
  <2>1. /\ pc \in {"close", "lastClose"} /\ UNCHANGED <<control, queued, worker>>
        /\ \A j \in Live' : j \in Live /\ phase'[j] = phase[j]
    BY <1>0, <1>5 DEF Closed, Live, TypeOK
  <2> QED BY <1>1, <2>1
<1>6. CASE Pass
  BY <1>6 DEF Pass, StopInv, StopClean, ServiceKept, WaitedFor, Live
<1>7. CASE Stop
  BY <1>7 DEF Stop, StopInv, StopClean, ServiceKept, WaitedFor, Live
<1>8. CASE StopGraceful
  BY <1>0, <1>8 DEF StopGraceful, StopInv, StopClean, ServiceKept, WaitedFor, Live, TypeOK
<1>9. CASE Finish
  <2>1. pc = "close" /\ stop /\ UNCHANGED <<mode, service, stop, graceful, asked, of, queued, worker>>
    BY <1>9 DEF Finish
  <2>2. pc' = "events" \/ (pc' = "delete" /\ (~graceful \/ Live = {}))
    BY <1>9 DEF Finish
  <2> QED BY <2>1, <2>2 DEF StopInv, StopClean, ServiceKept, WaitedFor, Live
<1>10. CASE DeleteService
  <2>1. /\ pc = "delete" /\ pc' = "lastEvents" /\ (mode = "pool" => Idle)
        /\ service' = (IF mode = "none" THEN "none" ELSE "deleted")
        /\ UNCHANGED <<mode, stop, graceful, asked, phase, of, queued, worker, told>>
    BY <1>10 DEF DeleteService
  <2>2. asked => Live = {} /\ queued = {} /\ \A v \in Workers : worker[v] # "check"
    BY <1>0, <2>1 DEF StopInv
  <2>3. worker \in [Workers -> {"idle", "check", "push"}] /\ (mode # "none" => mode \in {"pool", "detached"})
    BY <1>0, ModesAssumption DEF TypeOK
  <2> QED BY <2>1, <2>2, <2>3 DEF StopInv, StopClean, ServiceKept, WaitedFor, Live, Idle
<1>11. CASE Over
  BY <1>11 DEF Over, StopInv, StopClean, ServiceKept, WaitedFor, Live
<1>12. ASSUME NEW v \in Workers, PeekConn(v) PROVE StopInv'
  BY <1>0, <1>12 DEF PeekConn, TypeOK, StopInv, StopClean, ServiceKept, WaitedFor, Live
<1>13. ASSUME NEW v \in Workers, SioCheck(v) PROVE StopInv'
  BY <1>0, <1>13 DEF SioCheck, TypeOK, StopInv, StopClean, ServiceKept, WaitedFor, Live
<1>14. ASSUME NEW v \in Workers, PushConn(v) PROVE StopInv'
  BY <1>0, <1>14 DEF PushConn, TypeOK, StopInv, StopClean, ServiceKept, WaitedFor, Live
<1>15. CASE UNCHANGED vars
  BY <1>15 DEF vars, StopInv, StopClean, ServiceKept, WaitedFor, Live
<1> QED BY <1>2, <1>3, <1>4, <1>5, <1>6, <1>7, <1>8, <1>9, <1>10, <1>11, <1>12, <1>13, <1>14, <1>15
        DEF Next

\* A graceful stop has waited for the checks that had begun, and nobody uses
\* the deleted service after it but a detached thread giving back its
\* connection, whatever the last pass over the events begins.
THEOREM GracefulStopClean == Spec => []StopClean
<1>1. Init => StopInv
  BY ModesAssumption DEF Init, StopInv, StopClean, ServiceKept, WaitedFor
<1>2. StopInv => StopClean
  BY DEF StopInv
<1> QED BY <1>1, <1>2, StopStep, CheckerInvariant, PTL DEF Spec
=============================================================================
