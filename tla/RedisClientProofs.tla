------------------------- MODULE RedisClientProofs --------------------------
(***************************************************************************)
(* Theorems about RedisClient for any number of calls, any depth of nested *)
(* set-up commands, with and without password, database and retry, and     *)
(* whatever the server and the network do.                                 *)
(***************************************************************************)
EXTENDS RedisClient, SequenceTheorems, WellFoundedInduction, TLAPS

-----------------------------------------------------------------------------
(* The call stack. *)

Setup == {"auth", "select"}
FramePlaces == {"open", "auth", "select", "check", "write", "read"}
Frames == [req : Requests, at : FramePlaces, retried : BOOLEAN]

\* The root call is the caller's; every other one is a set-up command of the
\* call below it, which waits for it at the place of that name.
StackInv ==
  /\ stack \in Seq(Frames)
  /\ \A i \in 1..Depth :
       /\ stack[i].retried => Retry
       /\ i = 1 => stack[i].req \in Roots
       /\ i > 1 => stack[i].req \in Setup /\ stack[i - 1].at = stack[i].req

LEMMA StackFacts ==
  ASSUME StackInv
  PROVE  /\ Depth \in Nat
         /\ stack # <<>> => /\ Depth >= 1 /\ Top \in Frames /\ stack[1] \in Frames
                            /\ stack[1].req \in Roots
         /\ \A i \in 1..Depth : stack[i] \in Frames
<1>1. Depth \in Nat /\ \A i \in 1..Depth : stack[i] \in Frames
  BY ClientAssumption, LenProperties, ElementOfSeq DEF StackInv, Depth
<1>2. stack # <<>> => Depth >= 1
  BY <1>1, EmptySeq DEF StackInv, Depth
<1> QED BY <1>1, <1>2 DEF Top, StackInv

\* The top frame is changed.
LEMMA TopStack ==
  ASSUME StackInv, stack # <<>>, NEW f \in Frames, stack' = [stack EXCEPT ![Depth] = f],
         f.req = Top.req, f.retried => Retry
  PROVE  /\ StackInv' /\ Depth' = Depth /\ Top' = f /\ stack' # <<>>
         /\ stack'[1] = IF Depth = 1 THEN f ELSE stack[1]
<1>0. Depth \in Nat /\ Depth >= 1 /\ stack \in Seq(Frames) /\ Depth = Len(stack)
  BY StackFacts DEF StackInv, Depth
<1>1. /\ stack' \in Seq(Frames) /\ Len(stack') = Len(stack)
      /\ \A i \in 1..Depth : stack'[i] = IF i = Depth THEN f ELSE stack[i]
  BY <1>0, ExceptSeq
<1>2. Depth' = Depth /\ Top' = f
  BY <1>0, <1>1 DEF Depth, Top
<1>3. ASSUME NEW i \in 1..Depth
      PROVE  /\ stack'[i].retried => Retry
             /\ i = 1 => stack'[i].req \in Roots
             /\ i > 1 => stack'[i].req \in Setup /\ stack'[i - 1].at = stack'[i].req
  <2>1. stack'[i].req = stack[i].req
    BY <1>0, <1>1 DEF Top
  <2>2. i > 1 => stack'[i - 1] = stack[i - 1]
    BY <1>0, <1>1
  <2>3. CASE i = Depth
    BY <1>1, <2>1, <2>2, <2>3 DEF StackInv
  <2>4. CASE i # Depth
    BY <1>1, <2>1, <2>2, <2>4 DEF StackInv
  <2> QED BY <2>3, <2>4
<1>4. stack' # <<>> /\ stack'[1] = IF Depth = 1 THEN f ELSE stack[1]
  BY <1>0, <1>1, <1>2, EmptySeq DEF Depth
<1>5. StackInv'
  BY <1>1, <1>2, <1>3 DEF StackInv
<1> QED BY <1>2, <1>4, <1>5

\* What the steps of the top call do to the root call.
Root == stack[1]
SameRoot(place) ==
  /\ Root'.req = Root.req /\ Root'.retried = Root.retried
  /\ Root'.at = IF Depth = 1 THEN place ELSE Root.at

LEMMA GotoStack ==
  ASSUME StackInv, stack # <<>>, NEW place \in FramePlaces, stack' = Goto(place)
  PROVE  /\ StackInv' /\ stack' # <<>> /\ Depth' = Depth
         /\ Top'.at = place /\ Top'.req = Top.req /\ SameRoot(place)
<1> DEFINE f == [Top EXCEPT !.at = place]
<1>1. Top \in Frames /\ Depth \in Nat /\ Depth >= 1 /\ stack \in Seq(Frames)
  BY StackFacts DEF StackInv
<1>2. f \in Frames /\ f.req = Top.req /\ f.at = place /\ f.retried = Top.retried
  BY <1>1 DEF Frames
<1>3. stack' = [stack EXCEPT ![Depth] = f]
  BY DEF Goto, Top
<1>4. f.retried => Retry
  BY <1>1, <1>2 DEF StackInv, Top
<1> HIDE DEF f
<1>5. /\ StackInv' /\ Depth' = Depth /\ Top' = f /\ stack' # <<>>
      /\ stack'[1] = IF Depth = 1 THEN f ELSE stack[1]
  BY <1>2, <1>3, <1>4, TopStack
<1> QED BY <1>2, <1>5 DEF SameRoot, Root, Top

\* The call is repeated once.
LEMMA RetryStack ==
  ASSUME StackInv, stack # <<>>, Retry,
         stack' = [stack EXCEPT ![Depth].at = "open", ![Depth].retried = TRUE]
  PROVE  /\ StackInv' /\ stack' # <<>> /\ Depth' = Depth
         /\ Top'.at = "open" /\ Top'.req = Top.req
         /\ Root'.req = Root.req
         /\ Depth = 1 => Root'.retried /\ Root'.at = "open"
         /\ Depth > 1 => Root'.retried = Root.retried /\ Root'.at = Root.at
<1> DEFINE f == [Top EXCEPT !.at = "open", !.retried = TRUE]
<1>1. Top \in Frames /\ Depth \in Nat /\ Depth >= 1 /\ stack \in Seq(Frames)
  BY StackFacts DEF StackInv
<1>2. f \in Frames /\ f.req = Top.req /\ f.at = "open" /\ f.retried
  BY <1>1 DEF Frames, FramePlaces
<1>3. stack' = [stack EXCEPT ![Depth] = f]
  BY <1>1 DEF Top, StackInv, Depth
<1> HIDE DEF f
<1>4. /\ StackInv' /\ Depth' = Depth /\ Top' = f /\ stack' # <<>>
      /\ stack'[1] = IF Depth = 1 THEN f ELSE stack[1]
  BY <1>2, <1>3, TopStack DEF Setup
<1>5. Top'.at = "open" /\ Top'.req = Top.req
  BY <1>2, <1>4
<1>6. CASE Depth = 1
  <2>1. Root' = f /\ Root = Top
    BY <1>4, <1>6 DEF Root, Top
  <2> QED BY <1>2, <1>4, <1>5, <1>6, <2>1
<1>7. CASE Depth > 1
  <2>1. Root' = Root
    BY <1>1, <1>4, <1>7 DEF Root
  <2> QED BY <1>1, <1>4, <1>5, <1>7, <2>1
<1> QED BY <1>1, <1>6, <1>7

LEMMA BeginStack ==
  ASSUME StackInv, stack # <<>>, NEW req \in Setup,
         stack' = Append(Goto(req), Frame(req))
  PROVE  /\ StackInv' /\ stack' # <<>> /\ Depth' = Depth + 1
         /\ Top'.at = "open" /\ Top'.req = req /\ SameRoot(req)
<1> DEFINE f == [Top EXCEPT !.at = req]
           s == [stack EXCEPT ![Depth] = f]
<1>1. Top \in Frames /\ Depth \in Nat /\ Depth >= 1 /\ stack \in Seq(Frames) /\ Depth = Len(stack)
  BY StackFacts DEF StackInv, Depth
<1>2. f \in Frames /\ f.req = Top.req /\ f.at = req /\ f.retried = Top.retried
  BY <1>1 DEF Frames, FramePlaces, Setup
<1>3. Goto(req) = s
  BY DEF Goto, Top
<1>4. Frame(req) \in Frames /\ Frame(req).req = req /\ Frame(req).at = "open" /\ ~Frame(req).retried
  BY DEF Frame, Frames, FramePlaces, Requests, Setup
<1> HIDE DEF f
<1>5. /\ s \in Seq(Frames) /\ Len(s) = Depth
      /\ \A i \in 1..Depth : s[i] = IF i = Depth THEN f ELSE stack[i]
  BY <1>1, <1>2, ExceptSeq
<1> HIDE DEF s
<1>6. /\ stack' \in Seq(Frames) /\ Len(stack') = Depth + 1
      /\ \A i \in 1..Depth : stack'[i] = s[i]
      /\ stack'[Depth + 1] = Frame(req)
  BY <1>3, <1>4, <1>5, AppendProperties
<1>7. Depth' = Depth + 1 /\ Top' = Frame(req) /\ stack' # <<>>
  BY <1>1, <1>6, EmptySeq DEF Depth, Top
<1>8. ASSUME NEW i \in 1..(Depth + 1)
      PROVE  /\ stack'[i].retried => Retry
             /\ i = 1 => stack'[i].req \in Roots
             /\ i > 1 => stack'[i].req \in Setup /\ stack'[i - 1].at = stack'[i].req
  <2>1. CASE i = Depth + 1
    <3>1. stack'[i - 1].at = req /\ i > 1
      BY <1>1, <1>2, <1>5, <1>6, <2>1
    <3> QED BY <1>1, <1>4, <1>6, <2>1, <3>1 DEF Setup
  <2>2. CASE i # Depth + 1
    <3>1. i \in 1..Depth /\ stack'[i] = s[i]
      BY <1>1, <1>6, <2>2
    <3>2. stack'[i].req = stack[i].req /\ stack'[i].retried = stack[i].retried
      <4>1. CASE i = Depth
        <5>1. stack'[i] = f /\ stack[i] = Top
          BY <1>5, <3>1, <4>1 DEF Top
        <5> QED BY <1>2, <5>1
      <4>2. CASE i # Depth
        BY <1>5, <3>1, <4>2
      <4> QED BY <4>1, <4>2
    <3>3. ASSUME i > 1 PROVE stack'[i - 1] = stack[i - 1]
      <4>1. PICK j \in 1..Depth : j = i - 1 /\ j # Depth
        BY <1>1, <3>1, <3>3
      <4>2. stack'[j] = s[j] /\ s[j] = stack[j]
        BY <1>5, <1>6, <4>1
      <4> QED BY <4>1, <4>2
    <3> QED BY <3>1, <3>2, <3>3 DEF StackInv
  <2> QED BY <2>1, <2>2
<1>9. StackInv'
  BY <1>1, <1>6, <1>7, <1>8, StackFacts DEF StackInv
<1>10. stack'[1] = IF Depth = 1 THEN f ELSE stack[1]
  BY <1>1, <1>5, <1>6
<1> QED BY <1>2, <1>4, <1>7, <1>9, <1>10 DEF SameRoot, Root, Top

LEMMA ReturnStack ==
  ASSUME StackInv, stack # <<>>, stack' = SubSeq(stack, 1, Depth - 1)
  PROVE  /\ StackInv'
         /\ Depth = 1 => stack' = <<>> /\ Top = Root
         /\ Depth > 1 => /\ stack' # <<>> /\ Top.req \in Setup /\ Top'.at = Top.req
                         /\ Root' = Root
<1>1. Depth \in Nat /\ Depth >= 1 /\ stack \in Seq(Frames) /\ Depth = Len(stack)
  BY StackFacts DEF StackInv, Depth
<1>2. /\ stack' \in Seq(Frames) /\ Len(stack') = Depth - 1
      /\ \A i \in 1..(Depth - 1) : stack'[i] = stack[i]
  <2>1. \A i \in 1..(Depth - 1) : stack[i] \in Frames
    BY <1>1, ElementOfSeq
  <2>2. /\ stack' \in Seq(Frames)
        /\ Len(stack') = IF 1 <= Depth - 1 THEN (Depth - 1) - 1 + 1 ELSE 0
        /\ \A i \in 1..((Depth - 1) - 1 + 1) : stack'[i] = stack[1 + i - 1]
    BY <1>1, <2>1, SubSeqProperties
  <2> QED BY <1>1, <2>2
<1>3. StackInv'
  <2>1. ASSUME NEW i \in 1..(Depth - 1)
        PROVE  /\ stack'[i].retried => Retry
               /\ i = 1 => stack'[i].req \in Roots
               /\ i > 1 => stack'[i].req \in Setup /\ stack'[i - 1].at = stack'[i].req
    <3>1. i \in 1..Depth /\ stack'[i] = stack[i] /\ (i > 1 => stack'[i - 1] = stack[i - 1])
      BY <1>1, <1>2
    <3> QED BY <3>1 DEF StackInv
  <2> QED BY <1>1, <1>2, <2>1, StackFacts DEF StackInv, Depth
<1>4. Depth = 1 => stack' = <<>> /\ Top = Root
  BY <1>1, <1>2, EmptySeq DEF Top, Root
<1>5. ASSUME Depth > 1
      PROVE  stack' # <<>> /\ Top.req \in Setup /\ Top'.at = Top.req /\ Root' = Root
  <2>1. Depth' = Depth - 1 /\ Depth \in 1..Depth /\ 1 \in 1..(Depth - 1) /\ Depth - 1 \in 1..(Depth - 1)
    BY <1>1, <1>2, <1>5 DEF Depth
  <2>2. stack[Depth - 1].at = stack[Depth].req /\ stack[Depth].req \in Setup
    BY <1>5, <2>1 DEF StackInv
  <2>3. stack'[Depth - 1] = stack[Depth - 1] /\ stack'[1] = stack[1]
    BY <1>2, <2>1
  <2>4. Top' = stack[Depth - 1]
    BY <2>1, <2>3 DEF Top
  <2>5. Root' = Root
    BY <2>3 DEF Root
  <2>6. Len(stack') # 0
    BY <1>1, <1>2, <1>5
  <2>7. stack' # <<>>
    BY <2>6
  <2> QED BY <2>2, <2>4, <2>5, <2>7 DEF Top
<1> QED BY <1>1, <1>3, <1>4, <1>5

LEMMA TopRoot ==
  ASSUME StackInv, stack # <<>>
  PROVE  /\ Depth \in Nat /\ Depth >= 1 /\ Top \in Frames /\ Root \in Frames
         /\ Root.req \in Roots /\ (Root.retried => Retry) /\ (Top.retried => Retry)
         /\ Depth = 1 => Top = Root
         /\ Depth > 1 => Top.req \in Setup
<1>1. /\ Depth \in Nat /\ Depth >= 1 /\ Top \in Frames /\ Root \in Frames
      /\ Root.req \in Roots
  BY StackFacts DEF Root
<1>2. Depth \in 1..Depth /\ 1 \in 1..Depth
  BY <1>1
<1>3. /\ (Root.retried => Retry) /\ (Top.retried => Retry)
      /\ Depth > 1 => Top.req \in Setup
  BY <1>1, <1>2 DEF StackInv, Top, Root
<1>4. Depth = 1 => Top = Root
  BY DEF Top, Root
<1> QED BY <1>1, <1>3, <1>4

-----------------------------------------------------------------------------
(* The invariant. *)

\* TypeOK but for the stack.
Typed ==
  /\ opened \in BOOLEAN /\ checkAddr \in BOOLEAN
  /\ ret \in {"none", "ok", "error", "null"}
  /\ cmd \in 0..MaxCmds /\ sent \in Nat /\ value \in Values \cup {NoValue}
  /\ link \in {"none", "up", "cut"} /\ (link = "none") = ~opened
  /\ authed \in BOOLEAN /\ db \in {0, Db}

Granted(req) == (req = "auth" => authed) /\ (req = "select" => db = Db)

\* At most one request or reply is under way, that of the top call.
WireInv ==
  /\ wire # NoRequest =>
       /\ link = "up" /\ pending = <<>> /\ At("read") /\ Top.req # "listen"
       /\ wire = [req |-> Top.req, cmd |-> cmd]
  /\ pending # <<>> =>
       /\ At("read")
       /\ \E ok \in BOOLEAN :
            /\ pending = <<[req |-> Top.req, cmd |-> cmd, ok |-> ok]>>
            /\ ok => Granted(Top.req)

\* The session is set up before anybody but its set-up commands uses it.
Ready == (Password => authed) /\ db = Db
Need(req) == (req \in Roots => Ready) /\ (req = "select" => (Password => authed))
Using == {"check", "write", "read"}
SessionInv ==
  /\ stack = <<>> /\ opened => Ready
  /\ stack # <<>> =>
       /\ Top.at \in Using \cup {"open"} /\ opened => Need(Top.req)
       /\ Top.at \in Using => opened
       /\ Top.at = "auth" /\ ret = "ok" => opened /\ authed
       /\ Top.at = "select" /\ ret = "ok" => opened /\ Ready

\* Once before the repetition and once after it.
SentInv ==
  /\ sent <= IF Retry THEN 2 ELSE 1
  /\ stack # <<>> =>
       sent <= IF Root.req = "cmd" THEN (IF Root.retried THEN 1 ELSE 0)
                                      + (IF Root.at = "read" THEN 1 ELSE 0)
               ELSE 0

ClientInv == Typed /\ StackInv /\ WireInv /\ SessionInv /\ SentInv /\ NullMeansEof

\* Where nobody reads, nothing is under way.
LEMMA NothingUnderWay ==
  ASSUME WireInv, ~At("read")
  PROVE  wire = NoRequest /\ pending = <<>>
BY DEF WireInv

\* What a step needs that leaves the data of the calls alone.
Same == cmd' = cmd /\ sent' = sent /\ value' = value
Idle == wire' = NoRequest /\ pending' = <<>>

-----------------------------------------------------------------------------
(* The steps of a call. *)

LEMMA GotoStep ==
  ASSUME ClientInv, stack # <<>>, Top.at # "read", NEW place \in {"check", "write"},
         stack' = Goto(place), Typed', Same, Idle, opened',
         Top.req \in Roots => (Password => authed') /\ db' = Db,
         Top.req = "select" => (Password => authed')
  PROVE  ClientInv'
<1>1. /\ StackInv' /\ stack' # <<>> /\ Top'.at = place /\ Top'.req = Top.req
      /\ SameRoot(place)
  BY GotoStack DEF ClientInv, FramePlaces, Setup
<1>2. WireInv' /\ NullMeansEof'
  BY <1>1 DEF Idle, WireInv, NoRequest, NullMeansEof
<1>3. SessionInv'
  BY <1>1 DEF SessionInv, Need, Ready, Using
<1>4. SentInv'
  <2>1. Depth = 1 => Top = Root
    BY TopRoot DEF ClientInv
  <2> QED BY <1>1, <2>1 DEF ClientInv, SentInv, Same, SameRoot, Typed
<1> QED BY <1>1, <1>2, <1>3, <1>4 DEF ClientInv

LEMMA BeginStep ==
  ASSUME ClientInv, stack # <<>>, Top.at # "read", NEW req \in Setup,
         stack' = Append(Goto(req), Frame(req)), Typed', Same, Idle,
         req = "select" => (Password => authed')
  PROVE  ClientInv'
<1>1. /\ StackInv' /\ stack' # <<>> /\ Top'.at = "open" /\ Top'.req = req /\ SameRoot(req)
  BY BeginStack DEF ClientInv
<1>2. WireInv' /\ NullMeansEof'
  BY <1>1 DEF Idle, WireInv, NoRequest, NullMeansEof
<1>3. SessionInv'
  BY <1>1 DEF SessionInv, Need, Ready, Using, Setup, Roots
<1>4. SentInv'
  <2>1. Depth = 1 => Top = Root
    BY TopRoot DEF ClientInv
  <2> QED BY <1>1, <2>1 DEF ClientInv, SentInv, Same, SameRoot, Typed, Setup
<1> QED BY <1>1, <1>2, <1>3, <1>4 DEF ClientInv

LEMMA ReturnStep ==
  ASSUME ClientInv, stack # <<>>, NEW v \in {"ok", "error", "null"}, Return(v),
         Typed', cmd' = cmd, sent' = sent, Idle,
         v = "null" => ~opened',
         Top.req \in Roots /\ opened' => (Password => authed') /\ db' = Db,
         v = "ok" => opened' /\ (Top.req = "auth" => authed')
                             /\ (Top.req = "select" => (Password => authed') /\ db' = Db)
  PROVE  ClientInv'
<1>1. /\ StackInv'
      /\ Depth = 1 => stack' = <<>> /\ Top = Root
      /\ Depth > 1 => /\ stack' # <<>> /\ Top.req \in Setup /\ Top'.at = Top.req
                      /\ Root' = Root
  BY ReturnStack DEF Return, ClientInv
<1>2. /\ Depth \in Nat /\ Depth >= 1 /\ (Root.retried => Retry) /\ Root.retried \in BOOLEAN
      /\ Root.req \in Roots
  BY TopRoot DEF ClientInv, Frames
<1>3. ret' = v
  BY DEF Return
<1>4. WireInv'
  BY DEF Idle, WireInv, NoRequest
<1>5. NullMeansEof' /\ SessionInv'
  <2>1. CASE Depth = 1
    BY <1>1, <1>2, <1>3, <2>1 DEF NullMeansEof, eof, SessionInv, Ready
  <2>2. CASE Depth > 1
    <3>1. Top'.at \in Setup /\ Top'.at = Top.req /\ stack' # <<>>
      BY <1>1, <2>2
    <3> QED BY <1>3, <3>1 DEF NullMeansEof, SessionInv, Ready, Setup, Using
  <2> QED BY <1>2, <2>1, <2>2
<1>6. SentInv'
  <2>1. sent' = sent /\ SentInv
    BY DEF ClientInv
  <2>2. CASE Depth = 1
    BY <1>1, <2>1, <2>2 DEF SentInv
  <2>3. CASE Depth > 1
    BY <1>1, <2>1, <2>3 DEF SentInv
  <2> QED BY <1>2, <2>2, <2>3
<1> QED BY <1>1, <1>4, <1>5, <1>6 DEF ClientInv

\* The session is ready for the call whose open() ends here.
LEMMA OpenedStep ==
  ASSUME ClientInv, stack # <<>>, Top.at # "read", Opened, Typed', Same, Idle, opened',
         Top.req \in Roots => (Password => authed') /\ db' = Db,
         Top.req = "select" => (Password => authed')
  PROVE  ClientInv'
<1>1. CASE Top.req = "connect"
  <2>1. Return("ok") /\ Top.req \in Roots /\ Top.req \notin Setup
    BY <1>1 DEF Opened, Roots, Setup
  <2>2. cmd' = cmd /\ sent' = sent
    BY DEF Same
  <2> QED BY <1>1, <2>1, <2>2, ReturnStep DEF Setup
<1>2. CASE Top.req # "connect"
  BY <1>2, GotoStep DEF Opened
<1> QED BY <1>1, <1>2

\* run() gives up, with the connection closed.
LEMMA GiveUpStep ==
  ASSUME ClientInv, stack # <<>>, Return("null"), Typed', cmd' = cmd, sent' = sent, Idle,
         ~opened'
  PROVE  ClientInv'
BY ReturnStep

LEMMA CloseTyped ==
  ASSUME Typed, Close, ret' \in {"none", "ok", "error", "null"},
         UNCHANGED <<checkAddr, cmd, sent, value>>
  PROVE  Typed' /\ Idle /\ ~opened'
BY DEF Typed, Close, Idle

LEMMA BrokenStep ==
  ASSUME ClientInv, stack # <<>>, Top.at \in {"write", "read"}, Broken
  PROVE  ClientInv'
<1>1. Close /\ UNCHANGED <<checkAddr, cmd, sent, value>> /\ Typed
  BY DEF Broken, ClientInv
<1>2. CASE MayRetry
  <2>1. /\ stack' = [stack EXCEPT ![Depth].at = "open", ![Depth].retried = TRUE]
        /\ ret' = ret /\ Retry /\ ~Top.retried
    BY <1>2 DEF Broken, MayRetry
  <2>2. Typed' /\ Idle /\ ~opened'
    BY <1>1, <2>1, CloseTyped DEF Typed
  <2>3. /\ StackInv' /\ stack' # <<>>
        /\ Top'.at = "open" /\ Top'.req = Top.req
        /\ Root'.req = Root.req
        /\ Depth = 1 => Root'.retried /\ Root'.at = "open"
        /\ Depth > 1 => Root'.retried = Root.retried /\ Root'.at = Root.at
    BY <2>1, RetryStack DEF ClientInv
  <2>4. WireInv' /\ NullMeansEof' /\ SessionInv'
    BY <2>2, <2>3 DEF Idle, WireInv, NoRequest, NullMeansEof, SessionInv, Using
  <2>5. SentInv'
    <3>1. Depth \in Nat /\ Depth >= 1 /\ (Depth = 1 => Top = Root)
      BY TopRoot DEF ClientInv
    <3>2. sent' = sent /\ SentInv /\ sent \in Nat
      BY <1>1 DEF ClientInv, Typed
    <3>3. CASE Depth = 1
      BY <2>1, <2>3, <3>1, <3>2, <3>3 DEF SentInv
    <3>4. CASE Depth > 1
      BY <2>3, <3>2, <3>4 DEF SentInv
    <3> QED BY <3>1, <3>3, <3>4
  <2> QED BY <2>2, <2>3, <2>4, <2>5 DEF ClientInv
<1>3. CASE ~MayRetry
  <2>1. Return("null") /\ ret' = "null"
    BY <1>3 DEF Broken, Return
  <2> QED BY <1>1, <2>1, CloseTyped, GiveUpStep
<1> QED BY <1>2, <1>3

\* The set-up goes on with SELECT, when a database is configured.
LEMMA ThenSelectStep ==
  ASSUME ClientInv, stack # <<>>, Top.at # "read", ThenSelect,
         opened', link' \in {"up", "cut"}, authed' \in BOOLEAN, db' \in {0, Db},
         Same, Idle, Password => authed'
  PROVE  ClientInv'
<1>1. ret' \in {"none", "ok", "error", "null"} /\ checkAddr' \in BOOLEAN
  BY DEF ThenSelect, Begin, ThenCheck, Opened, Return, ClientInv, Typed
<1>2. Typed'
  BY <1>1 DEF ClientInv, Typed, Same
<1>3. CASE Db > 0
  <2>1. stack' = Append(Goto("select"), Frame("select"))
    BY <1>3 DEF ThenSelect, Begin
  <2> QED BY <1>2, <2>1, BeginStep DEF Setup
<1>4. CASE ~(Db > 0)
  <2>1. Opened /\ db' = Db
    BY <1>4, ClientAssumption DEF ThenSelect, ThenCheck
  <2> QED BY <1>2, <2>1, OpenedStep
<1> QED BY <1>3, <1>4

-----------------------------------------------------------------------------
(* The actions. *)

LEMMA InitInv == Init => ClientInv
<1> SUFFICES ASSUME Init PROVE ClientInv
  OBVIOUS
<1>1. Typed
  <2>1. (link = "none") = ~opened
    BY DEF Init
  <2>2. opened \in BOOLEAN /\ checkAddr \in BOOLEAN /\ authed \in BOOLEAN
    BY DEF Init
  <2>3. cmd \in 0..MaxCmds /\ sent \in Nat
    BY ClientAssumption DEF Init
  <2>4. /\ ret \in {"none", "ok", "error", "null"} /\ link \in {"none", "up", "cut"}
        /\ value \in Values \cup {NoValue} /\ db \in {0, Db}
    BY DEF Init
  <2> QED BY <2>1, <2>2, <2>3, <2>4 DEF Typed
<1>2. Depth = 0 /\ StackInv
  BY ClientAssumption, EmptySeq DEF Init, Depth, StackInv
<1>3. WireInv /\ SessionInv /\ SentInv /\ NullMeansEof
  BY DEF Init, WireInv, SessionInv, SentInv, NullMeansEof, At
<1> QED BY <1>1, <1>2, <1>3 DEF ClientInv

LEMMA CallInv ==
  ASSUME ClientInv, NEW op \in Roots, Call(op)
  PROVE  ClientInv'
<1>1. /\ stack = <<>> /\ stack' = <<Frame(op)>> /\ cmd < MaxCmds
      /\ cmd' = cmd + 1 /\ sent' = 0 /\ ret' = "none" /\ value' = NoValue
      /\ checkAddr' \in BOOLEAN /\ UNCHANGED conn
  BY ClientAssumption DEF Call, ClientInv, Typed
<1>2. Typed'
  BY <1>1, ClientAssumption DEF ClientInv, Typed, conn
<1>3. Frame(op) \in Frames /\ Frame(op) = [req |-> op, at |-> "open", retried |-> FALSE]
  BY DEF Frame, Frames, FramePlaces, Requests
<1>4. /\ stack' \in Seq(Frames) /\ Len(stack') = 1 /\ stack'[1] = Frame(op) /\ stack' # <<>>
      /\ Depth' = 1 /\ Top' = Frame(op) /\ Root' = Frame(op)
  BY <1>1, <1>3 DEF Depth, Top, Root
<1>5. StackInv'
  BY <1>3, <1>4, ClientAssumption DEF StackInv, Setup
<1>6. wire = NoRequest /\ pending = <<>>
  BY <1>1, NothingUnderWay DEF At, ClientInv
<1>7. WireInv'
  BY <1>1, <1>6 DEF WireInv, conn, NoRequest
<1>8. SessionInv'
  BY <1>1, <1>3, <1>4 DEF SessionInv, ClientInv, Need, Ready, Using, conn, Roots
<1>9. SentInv' /\ NullMeansEof'
  BY <1>1, <1>3, <1>4 DEF SentInv, NullMeansEof
<1> QED BY <1>2, <1>5, <1>7, <1>8, <1>9 DEF ClientInv

LEMMA OpenAlreadyInv ==
  ASSUME ClientInv, OpenAlready
  PROVE  ClientInv'
<1>1. /\ stack # <<>> /\ Top.at = "open" /\ opened /\ Opened
      /\ UNCHANGED <<conn, checkAddr, cmd, sent, value>>
  BY DEF OpenAlready, At
<1>2. Need(Top.req) /\ wire = NoRequest /\ pending = <<>>
  BY <1>1, NothingUnderWay DEF ClientInv, SessionInv, At
<1>3. Same /\ Idle /\ opened'
  BY <1>1, <1>2 DEF Same, Idle, conn
<1>4. ret' \in {"none", "ok", "error", "null"}
  BY <1>1 DEF Opened, Return, ClientInv, Typed
<1>5. Typed'
  BY <1>1, <1>4 DEF ClientInv, Typed, conn
<1> QED BY <1>1, <1>2, <1>3, <1>5, OpenedStep DEF Need, Ready, conn

LEMMA OpenFailInv ==
  ASSUME ClientInv, OpenFail
  PROVE  ClientInv'
<1>1. /\ stack # <<>> /\ Top.at = "open" /\ ~opened /\ Return("null") /\ ret' = "null"
      /\ UNCHANGED <<conn, checkAddr, cmd, sent, value>>
  BY DEF OpenFail, At, Return
<1>2. wire = NoRequest /\ pending = <<>>
  BY <1>1, NothingUnderWay DEF ClientInv, At
<1>3. Typed' /\ Idle /\ ~opened'
  BY <1>1, <1>2 DEF ClientInv, Typed, conn, Idle
<1> QED BY <1>1, <1>3, GiveUpStep

LEMMA OpenConnectInv ==
  ASSUME ClientInv, OpenConnect
  PROVE  ClientInv'
<1>1. /\ stack # <<>> /\ Top.at = "open" /\ ~opened
      /\ opened' /\ link' = "up" /\ authed' = FALSE /\ db' = 0 /\ Same /\ Idle
  BY DEF OpenConnect, At, Same, Idle
<1>2. CASE Password
  <2>1. Begin("auth", "auth")
    BY <1>1, <1>2 DEF OpenConnect
  <2>2. stack' = Append(Goto("auth"), Frame("auth")) /\ checkAddr' = FALSE /\ ret' = "none"
    BY <2>1 DEF Begin
  <2>3. Typed'
    BY <1>1, <2>2 DEF ClientInv, Typed, Same
  <2> QED BY <1>1, <2>1, <2>2, <2>3, BeginStep DEF Setup
<1>3. CASE ~Password
  <2>1. ThenSelect
    BY <1>3 DEF OpenConnect
  <2> QED BY <1>1, <1>3, <2>1, ThenSelectStep
<1> QED BY <1>2, <1>3

LEMMA AuthOkInv ==
  ASSUME ClientInv, AuthOk
  PROVE  ClientInv'
<1>1. /\ stack # <<>> /\ Top.at = "auth" /\ ret = "ok" /\ ThenSelect
      /\ UNCHANGED <<conn, cmd, sent, value>>
  BY DEF AuthOk, At
<1>2. opened /\ authed /\ wire = NoRequest /\ pending = <<>>
  BY <1>1, NothingUnderWay, TopRoot DEF ClientInv, SessionInv, At, Setup
<1>3. /\ Same /\ Idle /\ opened' /\ authed' /\ link' \in {"up", "cut"}
      /\ authed' \in BOOLEAN /\ db' \in {0, Db}
  BY <1>1, <1>2 DEF Same, Idle, conn, ClientInv, Typed
<1> QED BY <1>1, <1>2, <1>3, ThenSelectStep

LEMMA SelectOkInv ==
  ASSUME ClientInv, SelectOk
  PROVE  ClientInv'
<1>1. /\ stack # <<>> /\ Top.at = "select" /\ ret = "ok" /\ Opened
      /\ UNCHANGED <<conn, checkAddr, cmd, sent, value>>
  BY DEF SelectOk, At, ThenCheck
<1>2. opened /\ Ready /\ wire = NoRequest /\ pending = <<>>
  BY <1>1, NothingUnderWay DEF ClientInv, SessionInv, At
<1>3. Same /\ Idle /\ opened'
  BY <1>1, <1>2 DEF Same, Idle, conn
<1>4. ret' \in {"none", "ok", "error", "null"}
  BY <1>1 DEF Opened, Return, ClientInv, Typed
<1>5. Typed'
  BY <1>1, <1>4 DEF ClientInv, Typed, conn
<1> QED BY <1>1, <1>2, <1>3, <1>5, OpenedStep DEF Ready, conn

LEMMA SetupFailedInv ==
  ASSUME ClientInv, SetupFailed
  PROVE  ClientInv'
<1>1. stack # <<>> /\ Close /\ Return("null") /\ ret' = "null"
      /\ UNCHANGED <<checkAddr, cmd, sent, value>>
  BY DEF SetupFailed, At, Return
<1>2. Typed' /\ Idle /\ ~opened'
  BY <1>1, CloseTyped DEF ClientInv
<1> QED BY <1>1, <1>2, GiveUpStep

LEMMA CheckInv ==
  ASSUME ClientInv, Check
  PROVE  ClientInv'
<1>1. stack # <<>> /\ Top.at = "check" /\ UNCHANGED <<checkAddr, cmd, sent, value>>
  BY DEF Check, At
<1>2. CASE stack' = Goto("write") /\ UNCHANGED <<conn, ret>>
  <2>1. opened /\ Need(Top.req) /\ wire = NoRequest /\ pending = <<>>
    BY <1>1, NothingUnderWay DEF ClientInv, SessionInv, At, Using
  <2>2. Typed' /\ Same /\ Idle /\ opened'
    BY <1>1, <1>2, <2>1 DEF ClientInv, Typed, conn, Same, Idle
  <2> QED BY <1>1, <1>2, <2>1, <2>2, GotoStep DEF Need, Ready, conn
<1>3. CASE Close /\ Return("null")
  <2>1. Typed' /\ Idle /\ ~opened'
    BY <1>1, <1>3, CloseTyped DEF ClientInv, Return
  <2> QED BY <1>1, <1>3, <2>1, GiveUpStep
<1> QED BY <1>2, <1>3 DEF Check

LEMMA WriteInv ==
  ASSUME ClientInv, Write
  PROVE  ClientInv'
<1>1. /\ stack # <<>> /\ Top.at = "write" /\ stack' = Goto("read")
      /\ UNCHANGED <<opened, link, authed, db, pending, checkAddr, ret, cmd, value>>
      /\ sent' = IF Top.req = "cmd" THEN sent + 1 ELSE sent
  BY DEF Write, At
<1>2. wire = NoRequest /\ pending = <<>>
  BY <1>1, NothingUnderWay DEF ClientInv, At
<1>3. opened /\ Need(Top.req)
  BY <1>1 DEF ClientInv, SessionInv, Using
<1>4. Typed'
  BY <1>1 DEF ClientInv, Typed
<1>5. /\ StackInv' /\ stack' # <<>> /\ Top'.at = "read" /\ Top'.req = Top.req
      /\ SameRoot("read")
  BY <1>1, GotoStack DEF ClientInv, FramePlaces, Setup
<1>6. wire' # NoRequest => link = "up" /\ Top.req # "listen" /\ wire' = [req |-> Top.req, cmd |-> cmd]
  BY <1>2 DEF Write
<1>7. WireInv'
  BY <1>1, <1>2, <1>5, <1>6 DEF WireInv, At
<1>8. SessionInv'
  BY <1>1, <1>3, <1>5 DEF SessionInv, Need, Ready, Using
<1>9. SentInv'
  <2>1. /\ Depth \in Nat /\ Depth >= 1 /\ (Depth = 1 => Top = Root)
        /\ Depth > 1 => Top.req \in Setup
        /\ Root.retried => Retry
    BY <1>1, TopRoot DEF ClientInv
  <2>2. Top.req = "cmd" => Depth = 1 /\ Top = Root
    BY <2>1 DEF Setup
  <2>3. SentInv /\ sent \in Nat
    BY DEF ClientInv, Typed
  <2>4. CASE Top.req = "cmd"
    BY <1>1, <1>5, <2>1, <2>2, <2>3, <2>4 DEF SentInv, SameRoot
  <2>5. CASE Top.req # "cmd"
    BY <1>1, <1>5, <2>1, <2>3, <2>5 DEF SentInv, SameRoot
  <2> QED BY <2>4, <2>5
<1>10. NullMeansEof'
  BY <1>5 DEF NullMeansEof
<1> QED BY <1>4, <1>5, <1>7, <1>8, <1>9, <1>10 DEF ClientInv

LEMMA ReadReplyInv ==
  ASSUME ClientInv, ReadReply
  PROVE  ClientInv'
<1>1. /\ stack # <<>> /\ Top.at = "read" /\ pending # <<>> /\ pending' = Tail(pending)
      /\ UNCHANGED <<opened, link, authed, db, wire, checkAddr, cmd, sent>>
      /\ value' \in Values \cup {NoValue}
  BY DEF ReadReply, At
<1>2. PICK ok \in BOOLEAN :
        /\ pending = <<[req |-> Top.req, cmd |-> cmd, ok |-> ok]>>
        /\ ok => Granted(Top.req)
  BY <1>1 DEF ClientInv, WireInv
<1>3. pending' = <<>> /\ Head(pending).ok = ok
  BY <1>1, <1>2
<1>4. Return(IF ok THEN "ok" ELSE "error")
  BY <1>3 DEF ReadReply
<1>5. wire = NoRequest
  BY <1>1 DEF ClientInv, WireInv
<1>6. Typed' /\ Idle
  BY <1>1, <1>3, <1>4, <1>5 DEF ClientInv, Typed, Idle, Return
<1>7. opened /\ Need(Top.req)
  BY <1>1 DEF ClientInv, SessionInv, Using
<1>8. CASE ok
  BY <1>1, <1>2, <1>4, <1>6, <1>7, <1>8, ReturnStep DEF Need, Ready, Granted
<1>9. CASE ~ok
  BY <1>1, <1>4, <1>6, <1>7, <1>9, ReturnStep DEF Need, Ready
<1> QED BY <1>8, <1>9

\* A step of the server or of the network leaves the calls alone.
LEMMA ServerStep ==
  ASSUME ClientInv, Typed', WireInv', stack # <<>> => Top.at = "read",
         UNCHANGED <<opened, checkAddr, stack, ret, cmd, sent, value>>,
         stack = <<>> => UNCHANGED <<authed, db>>,
         Ready => Ready',
         Password /\ authed => Password /\ authed'
  PROVE  ClientInv'
<1>1. StackInv' /\ Top' = Top /\ Root' = Root /\ NullMeansEof'
  BY DEF ClientInv, StackInv, Depth, Top, Root, NullMeansEof, eof
<1>2. SentInv'
  BY <1>1 DEF ClientInv, SentInv
<1>3. SessionInv'
  <2>1. SessionInv
    BY DEF ClientInv
  <2>2. Need(Top.req) => Need(Top.req)'
    BY <1>1 DEF Need, Ready
  <2>3. CASE stack = <<>>
    BY <2>1, <2>3 DEF SessionInv, Ready
  <2>4. CASE stack # <<>>
    BY <1>1, <2>1, <2>2, <2>4 DEF SessionInv, Using
  <2> QED BY <2>3, <2>4
<1> QED BY <1>1, <1>2, <1>3 DEF ClientInv

LEMMA ServeInv ==
  ASSUME ClientInv, NEW ok \in BOOLEAN, Serve(ok)
  PROVE  ClientInv'
<1>1. /\ stack # <<>> /\ Top.at = "read" /\ pending = <<>>
      /\ wire = [req |-> Top.req, cmd |-> cmd] /\ link = "up"
  BY DEF Serve, ClientInv, WireInv, At
<1>2. /\ UNCHANGED <<opened, link, checkAddr, stack, ret, cmd, sent, value>>
      /\ wire' = NoRequest
      /\ pending' = <<[req |-> Top.req, cmd |-> cmd, ok |-> ok]>>
      /\ authed' = (authed \/ (Top.req = "auth" /\ ok))
      /\ db' = IF Top.req = "select" /\ ok THEN Db ELSE db
  BY <1>1 DEF Serve
<1>3. Typed'
  BY <1>2 DEF ClientInv, Typed
<1>4. Top' = Top
  BY <1>2 DEF Top, Depth
<1>5. WireInv'
  <2>1. ok => Granted(Top.req)'
    BY <1>2, <1>4 DEF Granted
  <2> QED BY <1>1, <1>2, <1>4, <2>1 DEF WireInv, At
<1>6. Ready => Ready'
  BY <1>2 DEF Ready
<1> QED BY <1>1, <1>2, <1>3, <1>5, <1>6, ServerStep

LEMMA PushInv ==
  ASSUME ClientInv, Push
  PROVE  ClientInv'
<1>1. /\ stack # <<>> /\ Top.at = "read" /\ Top.req = "listen" /\ pending = <<>>
      /\ pending' = <<[req |-> "listen", cmd |-> cmd, ok |-> TRUE]>>
      /\ UNCHANGED <<opened, link, authed, db, wire, checkAddr, stack, ret, cmd, sent, value>>
  BY DEF Push, At
<1>2. Typed' /\ Top' = Top
  BY <1>1 DEF ClientInv, Typed, Top, Depth
<1>3. wire = NoRequest
  BY <1>1 DEF ClientInv, WireInv
<1>4. WireInv'
  BY <1>1, <1>2, <1>3 DEF WireInv, At, Granted, NoRequest
<1> QED BY <1>1, <1>2, <1>4, ServerStep DEF Ready

LEMMA CutInv ==
  ASSUME ClientInv, Cut
  PROVE  ClientInv'
<1>1. /\ link = "up" /\ link' = "cut" /\ wire' = NoRequest /\ pending' \in {pending, <<>>}
      /\ UNCHANGED <<opened, authed, db, checkAddr, stack, ret, cmd, sent, value>>
  BY DEF Cut
<1>2. Typed' /\ StackInv' /\ Top' = Top /\ Root' = Root
  BY <1>1 DEF ClientInv, Typed, StackInv, Top, Root, Depth
<1>3. WireInv'
  BY <1>1, <1>2 DEF ClientInv, WireInv, At, Granted
<1>4. SessionInv' /\ SentInv' /\ NullMeansEof'
  BY <1>1, <1>2 DEF ClientInv, SessionInv, Need, Ready, SentInv, NullMeansEof, eof
<1> QED BY <1>2, <1>3, <1>4 DEF ClientInv

LEMMA NextInv == ClientInv /\ [Next]_vars => ClientInv'
<1> SUFFICES ASSUME ClientInv, [Next]_vars PROVE ClientInv'
  OBVIOUS
<1>1. CASE \E op \in Roots : Call(op)
  BY <1>1, CallInv
<1>2. CASE Run
  <2>1. CASE OpenAlready
    BY <2>1, OpenAlreadyInv
  <2>2. CASE OpenFail
    BY <2>2, OpenFailInv
  <2>3. CASE OpenConnect
    BY <2>3, OpenConnectInv
  <2>4. CASE AuthOk
    BY <2>4, AuthOkInv
  <2>5. CASE SelectOk
    BY <2>5, SelectOkInv
  <2>6. CASE SetupFailed
    BY <2>6, SetupFailedInv
  <2>7. CASE Check
    BY <2>7, CheckInv
  <2>8. CASE Write
    BY <2>8, WriteInv
  <2>9. CASE WriteFail \/ ReadFail
    <3>1. stack # <<>> /\ Top.at \in {"write", "read"} /\ Broken
      BY <2>9 DEF WriteFail, ReadFail, At
    <3> QED BY <3>1, BrokenStep
  <2>10. CASE ReadReply
    BY <2>10, ReadReplyInv
  <2> QED BY <1>2, <2>1, <2>2, <2>3, <2>4, <2>5, <2>6, <2>7, <2>8, <2>9, <2>10 DEF Run
<1>3. CASE Server
  BY <1>3, PushInv, CutInv, ServeInv DEF Server
<1>4. CASE UNCHANGED vars
  BY <1>4 DEF vars, conn, ClientInv, Typed, StackInv, WireInv, At, Granted, SessionInv, Need, Ready,
              SentInv, NullMeansEof, eof, Depth, Top, Root
<1> QED BY <1>1, <1>2, <1>3, <1>4 DEF Next, Finished

LEMMA ClientSafe == Spec => []ClientInv
BY InitInv, NextInv, PTL DEF Spec

-----------------------------------------------------------------------------
(* The pieces of a reply. *)

\* Induction over the numbers, in the form that needs no operator.
LEMMA EveryNumber ==
  ASSUME NEW S \in SUBSET Nat, 0 \in S, \A i \in S : i + 1 \in S
  PROVE  S = Nat
<1> DEFINE T == Nat \ S
<1> SUFFICES ASSUME T # {} PROVE FALSE
  OBVIOUS
<1>0. T \subseteq Nat /\ T # {}
  OBVIOUS
<1>1. PICK x \in T : \A y \in T : ~(<<y, x>> \in OpToRel(<, Nat))
  BY <1>0, WFMin, NatLessThanWellFounded
<1>2. \A y \in T : ~(y < x)
  BY <1>1 DEF OpToRel
<1>3. x # 0 /\ x - 1 \in Nat /\ x - 1 < x
  <2>1. x \in Nat /\ x \notin S
    OBVIOUS
  <2>2. x # 0
    BY <2>1
  <2> QED BY <2>1, <2>2
<1>4. x - 1 \in S
  BY <1>2, <1>3
<1>5. (x - 1) + 1 \in S /\ (x - 1) + 1 = x
  BY <1>3, <1>4
<1> QED BY <1>5

\* r is the course of the loop that reads a value of len bytes.
Reading(r, m, len, slice) ==
  r[0] = Unread(len) /\ \A i \in 1..m : r[i] = ReadPiece(r[i - 1], i, len, slice)

\* The loop has a course of any length, so Pieces is the end of one.
LEMMA PiecesRead ==
  ASSUME NEW len \in Nat, NEW slice
  PROVE  \E r : Reading(r, len + 1, len, slice) /\ Pieces(len, slice) = r[len + 1].pieces
<1> DEFINE S == {m \in Nat : \E r : Reading(r, m, len, slice)}
<1>1. 0 \in S
  <2>1. Reading([i \in {0} |-> Unread(len)], 0, len, slice)
    BY DEF Reading
  <2> QED BY <2>1
<1>2. ASSUME NEW m \in S PROVE m + 1 \in S
  <2>1. PICK r : Reading(r, m, len, slice)
    OBVIOUS
  <2>2. PICK q : q = [i \in 0..(m + 1) |-> IF i <= m THEN r[i] ELSE ReadPiece(r[m], m + 1, len, slice)]
    OBVIOUS
  <2>3. m \in Nat /\ q[0] = Unread(len)
    BY <2>1, <2>2 DEF Reading
  <2>4. ASSUME NEW i \in 1..(m + 1) PROVE q[i] = ReadPiece(q[i - 1], i, len, slice)
    <3>1. i - 1 \in 0..(m + 1) /\ i \in 0..(m + 1) /\ i - 1 <= m
      BY <2>3
    <3>2. q[i - 1] = r[i - 1]
      BY <2>2, <3>1
    <3>3. CASE i = m + 1
      BY <2>2, <2>3, <3>1, <3>2, <3>3
    <3>4. CASE i # m + 1
      <4>1. i \in 1..m /\ q[i] = r[i]
        BY <2>2, <2>3, <3>1, <3>4
      <4> QED BY <2>1, <3>2, <4>1 DEF Reading
    <3> QED BY <3>3, <3>4
  <2>5. Reading(q, m + 1, len, slice)
    BY <2>3, <2>4 DEF Reading
  <2> QED BY <2>3, <2>5
<1>3. S = Nat
  <2>1. S \in SUBSET Nat
    OBVIOUS
  <2> HIDE DEF S
  <2> QED BY <1>1, <1>2, <2>1, EveryNumber
<1>4. PICK r : Reading(r, len + 1, len, slice)
  BY <1>3
<1> DEFINE read == CHOOSE f : f = [i \in 0..(len + 1) |->
                     IF i = 0 THEN Unread(len) ELSE ReadPiece(f[i - 1], i, len, slice)]
<1>5. \E f : f = [i \in 0..(len + 1) |->
                   IF i = 0 THEN Unread(len) ELSE ReadPiece(f[i - 1], i, len, slice)]
  <2>1. PICK f : f = [i \in 0..(len + 1) |-> r[i]]
    OBVIOUS
  <2>2. ASSUME NEW i \in 0..(len + 1)
        PROVE  f[i] = IF i = 0 THEN Unread(len) ELSE ReadPiece(f[i - 1], i, len, slice)
    <3>1. CASE i = 0
      BY <1>4, <2>1, <3>1 DEF Reading
    <3>2. CASE i # 0
      <4>1. i \in 1..(len + 1) /\ i - 1 \in 0..(len + 1)
        BY <3>2
      <4> QED BY <1>4, <2>1, <3>2, <4>1 DEF Reading
    <3> QED BY <3>1, <3>2
  <2>3. f = [i \in 0..(len + 1) |->
              IF i = 0 THEN Unread(len) ELSE ReadPiece(f[i - 1], i, len, slice)]
    BY <2>1, <2>2
  <2> QED BY <2>3
<1>6. read = [i \in 0..(len + 1) |->
               IF i = 0 THEN Unread(len) ELSE ReadPiece(read[i - 1], i, len, slice)]
  BY <1>5
<1>7. Pieces(len, slice) = read[len + 1].pieces
  BY DEF Pieces
<1> HIDE DEF read
<1>8. Reading(read, len + 1, len, slice)
  <2>1. 0 \in 0..(len + 1)
    OBVIOUS
  <2>2. read[0] = Unread(len)
    BY <1>6, <2>1
  <2>3. ASSUME NEW i \in 1..(len + 1) PROVE read[i] = ReadPiece(read[i - 1], i, len, slice)
    <3>1. i \in 0..(len + 1) /\ i # 0
      OBVIOUS
    <3> QED BY <1>6, <3>1
  <2> QED BY <2>2, <2>3 DEF Reading
<1> QED BY <1>7, <1>8

\* A whole value is one piece.
LEMMA WholeKept ==
  ASSUME NEW len \in Nat, NEW slice \in BOOLEAN, ~slice
  PROVE  PiecesJoin(slice, Pieces(len, slice)) /\ KeptTo(Pieces(len, slice)) = len
<1> DEFINE whole == [left |-> 0, pieces |-> <<[from |-> 0, to |-> len]>>]
<1>1. PICK r : Reading(r, len + 1, len, slice) /\ Pieces(len, slice) = r[len + 1].pieces
  BY PiecesRead
<1>2. ReadPiece(Unread(len), 1, len, slice) = whole
  <2>1. Unread(len).left = len /\ Unread(len).pieces = <<>>
    BY DEF Unread
  <2>2. PieceLen(len, slice) = len /\ len - len = 0 /\ 0 + len = len /\ ~(1 > 1)
    BY DEF PieceLen
  <2>3. Stored(<<>>, Places(len, slice), [from |-> 0, to |-> len]) = <<[from |-> 0, to |-> len]>>
    BY DEF Stored, Places
  <2> QED BY <2>1, <2>2, <2>3 DEF ReadPiece
<1>3. ASSUME NEW i \in Nat, i > 1 PROVE ReadPiece(whole, i, len, slice) = whole
  BY <1>3 DEF ReadPiece
<1> HIDE DEF whole
<1> DEFINE S == {m \in Nat : m <= len => r[m + 1] = whole}
<1>4. 0 \in S
  <2>1. r[0] = Unread(len) /\ r[1] = ReadPiece(r[1 - 1], 1, len, slice) /\ 1 - 1 = 0
    BY <1>1 DEF Reading
  <2> QED BY <1>2, <2>1
<1>5. ASSUME NEW m \in S PROVE m + 1 \in S
  <2>1. m \in Nat
    OBVIOUS
  <2>2. ASSUME m + 1 <= len PROVE r[(m + 1) + 1] = whole
    <3>1. (m + 1) + 1 \in 1..(len + 1) /\ ((m + 1) + 1) - 1 = m + 1 /\ m <= len
      BY <2>1, <2>2
    <3>2. r[(m + 1) + 1] = ReadPiece(r[m + 1], (m + 1) + 1, len, slice) /\ r[m + 1] = whole
      BY <1>1, <3>1 DEF Reading
    <3> QED BY <1>3, <2>1, <3>2
  <2> QED BY <2>1, <2>2
<1>6. S = Nat
  <2>1. S \in SUBSET Nat
    OBVIOUS
  <2> HIDE DEF S
  <2> QED BY <1>4, <1>5, <2>1, EveryNumber
<1>7. r[len + 1] = whole
  <2>1. len \in S
    BY <1>6
  <2> QED BY <2>1
<1>8. Pieces(len, slice) = <<[from |-> 0, to |-> len]>>
  BY <1>1, <1>7 DEF whole
<1> QED BY <1>8 DEF PiecesJoin, KeptTo, Last

\* A longer row of pieces of c bytes is no shorter.
LEMMA Longer ==
  ASSUME NEW a \in Nat, NEW b \in Nat, NEW c \in Nat, a <= b
  PROVE  a * c <= b * c /\ a * c \in Nat /\ b * c \in Nat /\ (a + 1) * c = a * c + c
<1>1. PICK d \in Nat : b = a + d
  <2>1. b - a \in Nat /\ b = a + (b - a)
    OBVIOUS
  <2> QED BY <2>1
<1>2. \A i, j \in Nat : i * j \in Nat
  OBVIOUS
<1>3. b * c = a * c + d * c /\ (a + 1) * c = a * c + c
  BY <1>1
<1> QED BY <1>2, <1>3

\* In the loop the pieces are full but for the last, as long as there is place.
Piece == [from : Nat, to : Nat]
Joined(pieces) ==
  \A i \in 1..Len(pieces) :
    /\ pieces[i].from = IF i = 1 THEN 0 ELSE pieces[i - 1].to
    /\ pieces[i].from <= pieces[i].to
    /\ Length(pieces[i]) < Chunk
SliceLen(left) == IF left > Chunk - 1 THEN Chunk - 1 ELSE left
ReadSlice(s, len, size) ==
  IF s.left = 0 THEN s
  ELSE [left |-> s.left - SliceLen(s.left),
        pieces |-> Stored(s.pieces, size, [from |-> len - s.left,
                                           to |-> (len - s.left) + SliceLen(s.left)])]
SlicesOf(s, len, size, unit) ==
  /\ s.left \in 0..len /\ s.pieces \in Seq(Piece) /\ Len(s.pieces) <= size
  /\ Joined(s.pieces)
  /\ KeptTo(s.pieces) <= Len(s.pieces) * unit
  /\ KeptTo(s.pieces) = IF len - s.left <= size * unit THEN len - s.left ELSE size * unit
  /\ s.left > 0 => Len(s.pieces) * unit <= len - s.left
  /\ Len(s.pieces) < size => KeptTo(s.pieces) = len - s.left

\* What one more piece does.
LEMMA JoinOne ==
  ASSUME NEW ps \in Seq(Piece), Joined(ps), NEW to \in Nat, KeptTo(ps) <= to,
         to < KeptTo(ps) + Chunk
  PROVE  LET qs == Append(ps, [from |-> KeptTo(ps), to |-> to])
         IN  /\ qs \in Seq(Piece) /\ Len(qs) = Len(ps) + 1 /\ Joined(qs) /\ KeptTo(qs) = to
<1> DEFINE p  == [from |-> KeptTo(ps), to |-> to]
           qs == Append(ps, p)
<1>1. Len(ps) \in Nat /\ (ps = <<>> <=> Len(ps) = 0)
      /\ \A i \in 1..Len(ps) : ps[i] \in Piece
  BY EmptySeq, LenProperties, ElementOfSeq
<1>2. KeptTo(ps) \in Nat /\ (Len(ps) > 0 => KeptTo(ps) = ps[Len(ps)].to) /\ (Len(ps) = 0 => KeptTo(ps) = 0)
  <2>1. CASE Len(ps) = 0
    BY <1>1, <2>1 DEF KeptTo
  <2>2. CASE Len(ps) > 0
    <3>1. ps # <<>> /\ ps[Len(ps)] \in Piece
      BY <1>1, <2>2
    <3> QED BY <2>2, <3>1 DEF KeptTo, Last, Piece
  <2> QED BY <1>1, <2>1, <2>2
<1>3. p \in Piece /\ p.from = KeptTo(ps) /\ p.to = to
  BY <1>2 DEF Piece
<1> HIDE DEF p
<1>4. /\ qs \in Seq(Piece) /\ Len(qs) = Len(ps) + 1 /\ qs[Len(ps) + 1] = p
      /\ \A i \in 1..Len(ps) : qs[i] = ps[i]
  BY <1>3, AppendProperties
<1> HIDE DEF qs
<1>5. qs # <<>> /\ KeptTo(qs) = to
  <2>1. qs # <<>>
    BY <1>1, <1>4, EmptySeq
  <2> QED BY <1>3, <1>4, <2>1 DEF KeptTo, Last
<1>6. ASSUME NEW i \in 1..Len(qs)
      PROVE  /\ qs[i].from = IF i = 1 THEN 0 ELSE qs[i - 1].to
             /\ qs[i].from <= qs[i].to
             /\ Length(qs[i]) < Chunk
  <2>1. CASE i = Len(ps) + 1
    <3>1. qs[i] = p /\ (i = 1 <=> Len(ps) = 0) /\ (i # 1 => qs[i - 1] = ps[Len(ps)])
      BY <1>1, <1>4, <2>1
    <3>2. qs[i].from = IF i = 1 THEN 0 ELSE qs[i - 1].to
      BY <1>2, <1>3, <3>1
    <3>3. to - KeptTo(ps) < Chunk
      BY <1>2, ChunkAssumption
    <3> QED BY <1>3, <3>1, <3>2, <3>3 DEF Length
  <2>2. CASE i # Len(ps) + 1
    <3>1. i \in 1..Len(ps) /\ qs[i] = ps[i] /\ (i # 1 => qs[i - 1] = ps[i - 1])
      BY <1>1, <1>4, <2>2
    <3> QED BY <3>1 DEF Joined
  <2> QED BY <2>1, <2>2
<1>7. Joined(qs)
  BY <1>6 DEF Joined
<1> QED BY <1>4, <1>5, <1>7 DEF qs, p

\* One turn of the loop.
LEMMA SliceRead ==
  ASSUME NEW len \in Nat, NEW size \in Nat, NEW s, SlicesOf(s, len, size, Chunk - 1)
  PROVE  LET n == ReadSlice(s, len, size)
         IN  /\ SlicesOf(n, len, size, Chunk - 1)
             /\ n.left = 0 \/ n.left < s.left
<1> DEFINE n == ReadSlice(s, len, size)
<1>2. PICK unit \in Nat : unit = Chunk - 1 /\ unit >= 1 /\ Chunk = unit + 1
  BY ChunkAssumption
<1>3. /\ s.left \in 0..len /\ s.pieces \in Seq(Piece) /\ Len(s.pieces) \in Nat
      /\ Len(s.pieces) <= size /\ SlicesOf(s, len, size, unit)
  BY <1>2, LenProperties DEF SlicesOf
<1>4. CASE s.left = 0
  <2>1. n = s
    BY <1>4 DEF ReadSlice
  <2> QED BY <1>2, <1>3, <1>4, <2>1
<1>5. CASE s.left # 0
  <2>1. PICK k \in Nat : k = SliceLen(s.left) /\ k <= s.left /\ k <= unit /\ k >= 1
                         /\ (k = unit \/ k = s.left)
    <3>1. s.left \in Nat
      BY <1>3
    <3> QED BY <1>2, <1>5, <3>1 DEF SliceLen
  <2>2. PICK ps : ps = s.pieces
    OBVIOUS
  <2>3. PICK left : left = s.left
    OBVIOUS
  <2>4. PICK qs : qs = Stored(ps, size, [from |-> len - left, to |-> (len - left) + k])
    OBVIOUS
  <2>5. n.left = left - k /\ n.pieces = qs
    BY <1>5, <2>1, <2>2, <2>3, <2>4 DEF ReadSlice
  <2>6. PICK L \in Nat : L = Len(ps)
    BY <1>3, <2>2
  <2>7. PICK E : E = KeptTo(ps)
    OBVIOUS
  <2>8. PICK a \in Nat : a = L * unit
    BY Longer
  <2>9. PICK z \in Nat : z = size * unit
    BY Longer
  <2>10. /\ (L + 1) * unit = a + unit /\ a <= z
         /\ L < size => a + unit <= z
    <3>1. L <= size /\ (L < size => L + 1 <= size)
      BY <1>3, <2>2, <2>6
    <3>2. a <= z /\ (L + 1) * unit = a + unit
      BY <2>8, <2>9, <3>1, Longer
    <3>3. ASSUME L < size PROVE (L + 1) * unit <= size * unit
      BY <3>1, <3>3, Longer
    <3> QED BY <2>9, <3>2, <3>3
  <2>11. /\ left \in 0..len /\ ps \in Seq(Piece) /\ L <= size /\ Joined(ps)
         /\ E <= a /\ (E = IF len - left <= z THEN len - left ELSE z)
         /\ left > 0 => a <= len - left
         /\ L < size => E = len - left
    BY <1>3, <2>2, <2>3, <2>6, <2>7, <2>8, <2>9 DEF SlicesOf
  <2>12. left > 0 /\ left \in Nat /\ left - k \in 0..len /\ left - k < left
    BY <1>3, <1>5, <2>1, <2>3
  <2>13. CASE L < size
    <3>1. qs = Append(ps, [from |-> E, to |-> E + k])
      BY <2>4, <2>6, <2>11, <2>13 DEF Stored
    <3>2. /\ qs \in Seq(Piece) /\ Len(qs) = L + 1 /\ Joined(qs) /\ KeptTo(qs) = E + k
      <4>1. E + k \in Nat /\ E <= E + k /\ E + k < E + Chunk
        BY <1>2, <2>1, <2>11, <2>12, <2>13
      <4>2. PICK to \in Nat : to = E + k
        BY <4>1
      <4>3. KeptTo(ps) <= to /\ to < KeptTo(ps) + Chunk
        BY <2>7, <4>1, <4>2
      <4>4. ps \in Seq(Piece) /\ Joined(ps)
        BY <2>11
      <4>5. qs = Append(ps, [from |-> KeptTo(ps), to |-> to])
        BY <2>7, <3>1, <4>2
      <4>6. qs \in Seq(Piece) /\ Len(qs) = Len(ps) + 1 /\ Joined(qs) /\ KeptTo(qs) = to
        BY <4>3, <4>4, <4>5, JoinOne
      <4> QED BY <2>6, <4>2, <4>6
    <3>3. E = a /\ E = len - left /\ len - (left - k) = a + k
      BY <2>1, <2>11, <2>12, <2>13
    <3>4. a + k <= a + unit /\ a + unit <= z
      BY <2>1, <2>10, <2>13
    <3>5. left - k > 0 => k = unit
      BY <2>1, <2>3
    <3>6. PICK m : m = L + 1
      OBVIOUS
    <3>7. m * unit = a + unit /\ m <= size /\ Len(qs) = m
      BY <2>10, <2>13, <3>2, <3>6
    <3>8. KeptTo(qs) = a + k
      BY <3>2, <3>3
    <3>9. PICK w \in Nat : w = left - k
      BY <2>12
    <3>10. /\ w \in 0..len /\ len - w = a + k /\ a + k <= z
           /\ a + k <= a + unit
           /\ w > 0 => a + unit <= a + k
      BY <2>1, <2>12, <3>3, <3>4, <3>5, <3>9
    <3>11. /\ KeptTo(qs) <= Len(qs) * unit
           /\ KeptTo(qs) = IF len - w <= size * unit THEN len - w ELSE size * unit
           /\ w > 0 => Len(qs) * unit <= len - w
           /\ KeptTo(qs) = len - w
      BY <2>9, <3>7, <3>8, <3>10
    <3>12. n.left = w /\ n.pieces = qs /\ Len(qs) <= size
      BY <2>5, <3>7, <3>9
    <3>13. SlicesOf(n, len, size, unit)
      BY <3>2, <3>10, <3>11, <3>12 DEF SlicesOf
    <3> QED BY <1>2, <2>3, <2>5, <2>12, <3>13
  <2>14. CASE ~(L < size)
    <3>1. qs = ps /\ L = size /\ a = z
      BY <2>4, <2>6, <2>8, <2>9, <2>11, <2>14 DEF Stored
    <3>2. PICK w \in Nat : w = left - k
      BY <2>12
    <3>3. /\ w \in 0..len /\ a <= len - w
          /\ E = IF len - w <= z THEN len - w ELSE z
      BY <2>1, <2>11, <2>12, <3>1, <3>2
    <3>4. n.left = w /\ n.pieces = ps
      BY <2>5, <3>1, <3>2
    <3>5. /\ n.left = w /\ n.pieces = ps /\ Len(ps) = size /\ KeptTo(ps) = E
          /\ E <= size * unit /\ E = IF len - w <= size * unit THEN len - w ELSE size * unit
          /\ size * unit <= len - w
      BY <2>6, <2>7, <2>9, <2>11, <3>1, <3>3, <3>4
    <3>6. SlicesOf(n, len, size, unit)
      BY <2>11, <3>3, <3>5 DEF SlicesOf
    <3> QED BY <1>2, <2>3, <2>5, <2>12, <3>6
  <2> QED BY <2>13, <2>14
<1> QED BY <1>4, <1>5

LEMMA SlicePiece ==
  ASSUME NEW slice \in BOOLEAN, slice, NEW len \in Nat, NEW i \in Nat, NEW s
  PROVE  ReadPiece(s, i, len, slice) = ReadSlice(s, len, Ceiling(len, Chunk))
BY DEF ReadPiece, ReadSlice, PieceLen, SliceLen, Places

\* How far a sliced value is kept: as far as there are places.
Placed(len) == Min({len, Ceiling(len, Chunk) * (Chunk - 1)})

\* A sliced value is kept to that length and not to its own.
LEMMA SlicesKept ==
  ASSUME NEW len \in Nat, NEW slice \in BOOLEAN, slice
  PROVE  PiecesJoin(slice, Pieces(len, slice)) /\ KeptTo(Pieces(len, slice)) = Placed(len)
<1>1. PICK r : Reading(r, len + 1, len, slice) /\ Pieces(len, slice) = r[len + 1].pieces
  BY PiecesRead, Zenon
<1>2. PICK size \in Nat : size = Ceiling(len, Chunk)
  <2>1. Ceiling(len, Chunk) \in Nat
    <3>1. len \div Chunk \in Nat
      BY ChunkAssumption
    <3> QED BY <3>1 DEF Ceiling
  <2> QED BY <2>1
<1>3. PICK unit \in Nat : unit = Chunk - 1
  BY ChunkAssumption
<1>4. r[0] = Unread(len) /\ \A i \in 1..(len + 1) : r[i] = ReadPiece(r[i - 1], i, len, slice)
  BY <1>1, Zenon DEF Reading
<1>5. \A i \in 1..(len + 1) : r[i] = ReadSlice(r[i - 1], len, size)
  <2> SUFFICES ASSUME NEW i \in 1..(len + 1) PROVE r[i] = ReadSlice(r[i - 1], len, size)
    OBVIOUS
  <2>1. i \in Nat
    OBVIOUS
  <2>2. ReadPiece(r[i - 1], i, len, slice) = ReadSlice(r[i - 1], len, Ceiling(len, Chunk))
    BY <2>1, SlicePiece, Zenon
  <2> QED BY <1>2, <1>4, <2>2, Zenon
<1> DEFINE Held(i) == SlicesOf(r[i], len, size, unit) /\ (r[i].left = 0 \/ r[i].left + i <= len)
           S == {i \in Nat : i <= len + 1 => Held(i)}
<1>6. 0 \in S
  <2>1. r[0].left = len /\ r[0].pieces = <<>>
    BY <1>4 DEF Unread
  <2>2. size * unit \in Nat /\ 0 * unit = 0
    BY <1>2, <1>3, Longer
  <2>3. PICK z \in Nat : z = size * unit
    BY <2>2
  <2>4. len - len = 0 /\ len \in 0..len /\ Len(<<>>) = 0 /\ <<>> \in Seq(Piece)
    BY EmptySeq
  <2>5. KeptTo(<<>>) = 0 /\ Joined(<<>>)
    BY <2>4 DEF KeptTo, Joined
  <2>6. SlicesOf(r[0], len, size, unit)
    BY <2>1, <2>2, <2>3, <2>4, <2>5 DEF SlicesOf
  <2> QED BY <2>1, <2>6
<1>7. ASSUME NEW m \in S PROVE m + 1 \in S
  <2>1. m \in Nat
    OBVIOUS
  <2>2. ASSUME m + 1 <= len + 1 PROVE Held(m + 1)
    <3>1. m + 1 \in 1..(len + 1) /\ (m + 1) - 1 = m /\ m <= len + 1
      BY <2>1, <2>2
    <3>2. Held(m)
      BY <3>1
    <3>3. r[m + 1] = ReadSlice(r[m], len, size)
      BY <1>5, <3>1
    <3>4. /\ SlicesOf(r[m + 1], len, size, unit)
          /\ r[m + 1].left = 0 \/ r[m + 1].left < r[m].left
      BY <1>3, <3>2, <3>3, SliceRead
    <3>5. r[m].left \in Nat /\ r[m + 1].left \in Nat
      BY <3>2, <3>4 DEF SlicesOf
    <3>6. r[m + 1].left = 0 \/ r[m + 1].left + (m + 1) <= len
      BY <2>1, <3>2, <3>4, <3>5
    <3> QED BY <3>4, <3>6
  <2> HIDE DEF Held
  <2> QED BY <2>1, <2>2
<1>8. S = Nat
  <2>1. S \in SUBSET Nat
    OBVIOUS
  <2> HIDE DEF S
  <2> QED BY <1>6, <1>7, <2>1, EveryNumber
<1>9. Held(len + 1)
  <2>1. len + 1 \in S
    BY <1>8
  <2> HIDE DEF Held
  <2> QED BY <2>1
<1>10. PICK ps : ps = r[len + 1].pieces
  OBVIOUS
<1>11. SlicesOf(r[len + 1], len, size, unit) /\ r[len + 1].left = 0
  BY <1>9 DEF SlicesOf
<1>12. Joined(ps) /\ KeptTo(ps) = IF len <= size * unit THEN len ELSE size * unit
  <2>1. len - 0 = len
    OBVIOUS
  <2> QED BY <1>10, <1>11, <2>1 DEF SlicesOf
<1>13. PiecesJoin(slice, ps)
  BY <1>12 DEF Joined, PiecesJoin
<1>14. KeptTo(ps) = Placed(len)
  <2>1. PICK z \in Nat : z = size * unit
    BY Longer
  <2>2. Min({len, z}) = IF len <= z THEN len ELSE z
    BY DEF Min
  <2>3. Placed(len) = Min({len, z})
    BY <1>2, <1>3, <2>1 DEF Placed
  <2>4. KeptTo(ps) = Min({len, z})
    BY <1>12, <2>1, <2>2
  <2> QED BY <2>3, <2>4, Zenon
<1>15. Pieces(len, slice) = ps
  BY <1>1, <1>10, Zenon
<1> QED BY <1>13, <1>14, <1>15, Zenon

-----------------------------------------------------------------------------
(* What the invariant is for. *)

LEMMA InvReplies == ClientInv => ReplyMatches
<1> SUFFICES ASSUME ClientInv PROVE ReplyMatches
  OBVIOUS
<1> USE DEF ClientInv
<1>1. stack \in Seq([req : Requests, at : {"open", "auth", "select", "check", "write", "read"},
                     retried : BOOLEAN])
  BY DEF StackInv, Frames, FramePlaces
<1>2. stack # <<>> => Top.req \in Requests
  BY TopRoot DEF Frames
<1>3. wire \in [req : Requests \cup {"none"}, cmd : 0..MaxCmds]
  <2>1. CASE wire = NoRequest
    BY <2>1, ClientAssumption DEF NoRequest
  <2>2. CASE wire # NoRequest
    BY <1>2, <2>2 DEF WireInv, At, Typed
  <2> QED BY <2>1, <2>2
<1>4. CASE pending = <<>>
  <2>1. /\ pending \in Seq([req : Requests, cmd : 0..MaxCmds, ok : BOOLEAN])
        /\ Len(pending) = 0
    BY <1>4
  <2> QED BY <1>1, <1>3, <2>1 DEF ReplyMatches, TypeOK, Typed
<1>5. CASE pending # <<>>
  <2>1. PICK ok \in BOOLEAN : pending = <<[req |-> Top.req, cmd |-> cmd, ok |-> ok]>>
    BY <1>5 DEF WireInv
  <2>2. stack # <<>> /\ Top.at = "read"
    BY <1>5 DEF WireInv, At
  <2>3. /\ pending \in Seq([req : Requests, cmd : 0..MaxCmds, ok : BOOLEAN])
        /\ Len(pending) = 1 /\ pending[1].req = Top.req /\ pending[1].cmd = cmd
    BY <1>2, <2>1, <2>2 DEF Typed
  <2> QED BY <1>1, <1>3, <2>2, <2>3 DEF ReplyMatches, TypeOK, Typed
<1> QED BY <1>4, <1>5

LEMMA InvWritten == ClientInv => WrittenRight
<1> SUFFICES ASSUME ClientInv PROVE WrittenRight
  OBVIOUS
<1>1. ASSUME wire.req = "cmd" PROVE Ready
  <2>1. wire # NoRequest
    BY <1>1 DEF NoRequest
  <2>2. stack # <<>> /\ Top.at = "read" /\ Top.req = "cmd"
    BY <1>1, <2>1 DEF ClientInv, WireInv, At
  <2> QED BY <2>2 DEF ClientInv, SessionInv, Using, Need, Roots
<1> QED BY <1>1 DEF WrittenRight, OnSelectedDb, AtMostTwice, Ready, ClientInv, SentInv

\* A reply is only ever read as the answer to the request it answers: the
\* connection is closed when a request is given up, so no late reply is left
\* for the next one.
THEOREM RepliesMatch == Spec => []ReplyMatches
BY ClientSafe, InvReplies, PTL

\* A command is written only in an authenticated session with the configured
\* database, also after a new connection within run(), and at most twice.
THEOREM CommandsWrittenRight == Spec => []WrittenRight
BY ClientSafe, InvWritten, PTL

\* run() returns NULL only with the connection closed.
THEOREM NullClosed == Spec => []NullMeansEof
<1>1. ClientInv => NullMeansEof
  BY DEF ClientInv
<1> QED BY <1>1, ClientSafe, PTL

\* Only the answer to a command leaves a value, and then the call is over.
ValueInv == value # NoValue => stack = <<>> /\ ret = "ok"

LEMMA ValueStep ==
  ASSUME ClientInv, ValueInv, [Next]_vars
  PROVE  ValueInv'
<1>1. ASSUME value' = NoValue PROVE ValueInv'
  BY <1>1 DEF ValueInv, NoValue
<1>2. ASSUME UNCHANGED value, stack # <<>> PROVE ValueInv'
  <2>1. value = NoValue
    BY <1>2 DEF ValueInv
  <2> QED BY <1>1, <1>2, <2>1
<1>3. ASSUME UNCHANGED <<value, stack, ret>> PROVE ValueInv'
  BY <1>3 DEF ValueInv, NoValue
<1>4. CASE \E op \in Roots : Call(op)
  BY <1>1, <1>4 DEF Call
<1>5. CASE Run
  <2>1. CASE ~ReadReply
    BY <1>2, <1>5, <2>1
       DEF Run, OpenAlready, OpenFail, OpenConnect, AuthOk, SelectOk, SetupFailed, Check, Write,
           WriteFail, ReadFail, Broken, At
  <2>2. CASE ReadReply
    <3>1. CASE Top.req = "cmd" /\ Head(pending).ok
      <4>1. stack # <<>> /\ Return("ok")
        BY <2>2, <3>1 DEF ReadReply, At
      <4>2. Depth = 1
        BY <3>1, <4>1, TopRoot DEF ClientInv, Setup
      <4>3. stack' = <<>> /\ ret' = "ok"
        BY <4>1, <4>2, ReturnStack DEF ClientInv, Return
      <4> QED BY <4>3 DEF ValueInv
    <3>2. CASE ~(Top.req = "cmd" /\ Head(pending).ok)
      <4>1. value' \in {NoValue}
        BY <2>2, <3>2 DEF ReadReply
      <4> QED BY <1>1, <4>1
    <3> QED BY <3>1, <3>2
  <2> QED BY <2>1, <2>2
<1>6. CASE Server
  BY <1>3, <1>6 DEF Server, Push, Cut, Serve
<1>7. CASE UNCHANGED vars
  BY <1>3, <1>7 DEF vars
<1> QED BY <1>4, <1>5, <1>6, <1>7 DEF Next, Finished

\* A value of less than a chunk has one place at most, and needs no other.
LEMMA ShortPlaced ==
  ASSUME NEW len \in Nat, len < Chunk
  PROVE  Placed(len) = len
<1>1. len \div Chunk = 0 /\ len % Chunk = len
  BY ChunkAssumption
<1>2. Ceiling(len, Chunk) = IF len = 0 THEN 0 ELSE 1
  BY <1>1 DEF Ceiling
<1>3. PICK z \in Nat : z = Ceiling(len, Chunk) * (Chunk - 1) /\ len <= z
  <2>1. CASE len = 0
    <3>1. Ceiling(len, Chunk) = 0 /\ 0 * (Chunk - 1) = 0
      BY <1>2, <2>1, ChunkAssumption
    <3> QED BY <2>1, <3>1
  <2>2. CASE len # 0
    <3>1. Ceiling(len, Chunk) = 1 /\ 1 * (Chunk - 1) = Chunk - 1
      BY <1>2, <2>2, ChunkAssumption
    <3> QED BY <3>1, ChunkAssumption
  <2> QED BY <2>1, <2>2
<1>4. Min({len, z}) = len
  BY <1>3 DEF Min
<1> QED BY <1>3, <1>4 DEF Placed

LEMMA InvKept == ClientInv /\ ValueInv => ReplyKept
<1> SUFFICES ASSUME ClientInv, ValueInv, value # NoValue
             PROVE  /\ stack = <<>> /\ ret = "ok"
                    /\ PiecesJoin(value.slice, value.pieces)
                    /\ ~value.slice \/ value.len < Chunk => KeptTo(value.pieces) = value.len
  BY DEF ReplyKept
<1>1. stack = <<>> /\ ret = "ok" /\ value \in Values
  BY DEF ValueInv, ClientInv, Typed
<1>2. PICK len \in Lengths, slice \in BOOLEAN :
        value = [len |-> len, slice |-> slice, pieces |-> Pieces(len, slice)]
  BY <1>1 DEF Values
<1>3. len \in Nat
  BY ClientAssumption
<1>4. /\ PiecesJoin(slice, Pieces(len, slice))
      /\ ~slice \/ len < Chunk => KeptTo(Pieces(len, slice)) = len
  <2>1. CASE slice
    <3>1. PiecesJoin(slice, Pieces(len, slice)) /\ KeptTo(Pieces(len, slice)) = Placed(len)
      BY <1>3, <2>1, SlicesKept, Zenon
    <3>2. len < Chunk => Placed(len) = len
      BY <1>3, ShortPlaced, Zenon
    <3> QED BY <2>1, <3>1, <3>2, Zenon
  <2>2. CASE ~slice
    BY <1>3, <2>2, WholeKept, Zenon
  <2> QED BY <2>1, <2>2, Zenon
<1>5. value.len = len /\ value.slice = slice /\ value.pieces = Pieces(len, slice)
  BY <1>2, Zenon
<1> QED BY <1>1, <1>4, <1>5, Zenon

\* What run() returns for a command is its reply from the first byte on, in pieces
\* that join, and all of it unless the value is sliced and has more bytes than a
\* chunk; a reply that broke off, also before a repetition, leaves nothing. For
\* replies of every length.
THEOREM RepliesKept == Spec => []ReplyKept
<1>1. Init => ValueInv
  BY DEF Init, ValueInv, NoValue
<1> QED BY <1>1, ClientSafe, ValueStep, InvKept, PTL DEF Spec
=============================================================================
