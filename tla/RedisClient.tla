----------------------------- MODULE RedisClient ----------------------------
(***************************************************************************)
(* acl::redis_client (aclredis/src/redis/redis_client.cpp): one connection *)
(* to a redis server that opens itself, authenticates, selects its         *)
(* database, sends one request at a time, reads the reply, and repeats the *)
(* request once over a new connection when the old one breaks.             *)
(*                                                                         *)
(* open() sends AUTH and SELECT with run(), and run() calls open(): the    *)
(* call stack is the variable stack, one frame per active run().           *)
(* The server and the network (external) may refuse a connection, cut it   *)
(* at any point, lose a request or a reply, or be too slow for the I/O     *)
(* time limit. A client is used by one thread at a time (see ConnPool).    *)
(***************************************************************************)
EXTENDS Naturals, Sequences, RedisReply

CONSTANTS
  Password,   \* pass_ is set
  Db,         \* dbnum_, 0 is none
  Retry,      \* retry_
  CheckAddr,  \* the caller's check_addr_
  Lengths,    \* lengths of the string replies to its commands
  MaxCmds     \* BOUND: calls made

ASSUME ClientAssumption ==
  /\ Password \in BOOLEAN /\ Retry \in BOOLEAN /\ CheckAddr \in BOOLEAN
  /\ Lengths \subseteq Nat /\ Db \in Nat /\ MaxCmds \in Nat

VARIABLES
  opened,     \* conn_.opened()
  checkAddr,  \* check_addr_ of the client
  stack,      \* active calls: [req, at, retried]
  ret,        \* what the last finished call returned
  cmd,        \* number of the caller's present call
  sent,       \* how often the request of this call was written
  value,      \* the redis_result of its reply: [len, slice, pieces]
  \* the connection, as the server sees it
  link,       \* "none", "up" or "cut"
  authed, db, \* state of the session
  wire,       \* the request the server has not handled, or NoRequest
  pending     \* replies the client has not read: [req, cmd, ok]

conn == <<opened, link, authed, db, wire, pending>>
vars == <<conn, checkAddr, stack, ret, cmd, sent, value>>

Roots == {"connect", "cmd", "listen"}
NoRequest == [req |-> "none", cmd |-> 0]
NoValue == [len |-> 0, slice |-> FALSE, pieces |-> <<>>]
Values == {[len |-> n, slice |-> s, pieces |-> Pieces(n, s)] :
             n \in Lengths, s \in BOOLEAN}
Frame(req) == [req |-> req, at |-> "open", retried |-> FALSE]

Init ==
  /\ opened = FALSE /\ checkAddr = FALSE
  /\ stack = <<>> /\ ret = "none" /\ cmd = 0 /\ sent = 0
  /\ value = NoValue
  /\ link = "none" /\ authed = FALSE /\ db = 0
  /\ wire = NoRequest /\ pending = <<>>

Depth == Len(stack)
Top == stack[Depth]
At(place) == stack # <<>> /\ Top.at = place
Goto(place) == [stack EXCEPT ![Depth].at = place]

\* conn_.eof() is set by a failed read or write and by close; each failure is
\* followed by close at once, so between the steps it is
eof == ~opened

-----------------------------------------------------------------------------
(* The caller. "connect" is open() alone, as connect_pool::peek and          *)
(* get_stream call it; "listen" is run() with an empty request, with which a *)
(* subscriber waits for the next message.                                    *)

Call(op) ==
  /\ stack = <<>> /\ cmd < MaxCmds
  /\ op = "listen" => opened
  /\ stack' = <<Frame(op)>>
  /\ cmd' = cmd + 1 /\ sent' = 0 /\ ret' = "none" /\ value' = NoValue
  /\ checkAddr' = IF op = "connect" THEN checkAddr ELSE CheckAddr
  /\ UNCHANGED conn

Return(v) ==
  /\ stack' = SubSeq(stack, 1, Depth - 1)
  /\ ret' = v

CloseNothing == UNCHANGED conn   \* mutant: a broken connection is kept
Close ==
  /\ opened' = FALSE /\ link' = "none"
  /\ wire' = NoRequest /\ pending' = <<>>
  /\ UNCHANGED <<authed, db>>

-----------------------------------------------------------------------------
(* open() *)

Opened == IF Top.req = "connect" THEN Return("ok") ELSE stack' = Goto("check") /\ UNCHANGED ret

OpenAlready ==
  /\ At("open") /\ opened
  /\ Opened
  /\ UNCHANGED <<conn, checkAddr, cmd, sent, value>>

OpenFail ==
  /\ At("open") /\ ~opened
  /\ Return("null")
  /\ UNCHANGED <<conn, checkAddr, cmd, sent, value>>

\* auth() and select() are commands of a redis_connection on this client,
\* whose run() gives the client its own check_addr_, which is false.
Begin(place, req) ==
  /\ stack' = Append(Goto(place), Frame(req))
  /\ checkAddr' = FALSE
  /\ ret' = "none"

ThenCheck == Opened /\ UNCHANGED checkAddr
ThenCheckUnselected == ThenCheck    \* mutant: no SELECT
ThenSelect == IF Db > 0 THEN Begin("select", "select") ELSE ThenCheck

OpenConnect ==
  /\ At("open") /\ ~opened
  /\ opened' = TRUE /\ link' = "up" /\ authed' = FALSE /\ db' = 0
  /\ wire' = NoRequest /\ pending' = <<>>
  /\ IF Password THEN Begin("auth", "auth") ELSE ThenSelect
  /\ UNCHANGED <<cmd, sent, value>>

AuthOk ==
  /\ At("auth") /\ ret = "ok"
  /\ ThenSelect
  /\ UNCHANGED <<conn, cmd, sent, value>>

SelectOk ==
  /\ At("select") /\ ret = "ok"
  /\ ThenCheck
  /\ UNCHANGED <<conn, cmd, sent, value>>

SetupFailed ==
  /\ At("auth") \/ At("select")
  /\ ret \in {"null", "error"}
  /\ Close
  /\ Return("null")
  /\ UNCHANGED <<checkAddr, cmd, sent, value>>

-----------------------------------------------------------------------------
(* run(), for a string and for a redis_request alike *)

\* check_connection compares the peer address.
Check ==
  /\ At("check")
  /\ \/ (stack' = Goto("write") /\ UNCHANGED <<conn, ret>>)
     \/ (checkAddr /\ Close /\ Return("null"))
  /\ UNCHANGED <<checkAddr, cmd, sent, value>>

\* A write to a connection the server has cut may still succeed.
Write ==
  /\ At("write")
  /\ stack' = Goto("read")
  /\ IF Top.req = "listen" THEN UNCHANGED wire
     ELSE wire' = IF link = "up" THEN [req |-> Top.req, cmd |-> cmd] ELSE NoRequest
  /\ sent' = IF Top.req = "cmd" THEN sent + 1 ELSE sent
  /\ UNCHANGED <<opened, link, authed, db, pending, checkAddr, ret, cmd, value>>

MayRetryAlways == Retry /\ Top.req # "listen"   \* mutant: retried is not set
MayRetry == Retry /\ ~Top.retried /\ Top.req # "listen"

\* Close, and once more from open(), or give up.
Broken ==
  /\ Close
  /\ IF MayRetry
       THEN /\ stack' = [stack EXCEPT ![Depth].at = "open", ![Depth].retried = TRUE]
            /\ UNCHANGED ret
       ELSE Return("null")
  /\ UNCHANGED <<checkAddr, cmd, sent, value>>

WriteFail == At("write") /\ Top.req # "listen" /\ link = "cut" /\ Broken

\* The connection is cut, the time limit is over, or the reply makes no sense.
ReadFail == At("read") /\ Broken

\* The reply, "ok" or an error reply. That to a command is a string, which the
\* result holds whole or in pieces: slice_res_ is set for each command.
ReadReply ==
  /\ At("read") /\ pending # <<>>
  /\ pending' = Tail(pending)
  /\ Return(IF Head(pending).ok THEN "ok" ELSE "error")
  /\ value' \in IF Top.req = "cmd" /\ Head(pending).ok THEN Values ELSE {NoValue}
  /\ UNCHANGED <<opened, link, authed, db, wire, checkAddr, cmd, sent>>

-----------------------------------------------------------------------------
(* The server and the network (external) *)

Serve(ok) ==
  /\ link = "up" /\ wire # NoRequest
  /\ ok /\ Password /\ wire.req # "auth" => authed
  /\ authed' = (authed \/ (wire.req = "auth" /\ ok))
  /\ db' = IF wire.req = "select" /\ ok THEN Db ELSE db
  /\ pending' = Append(pending, [req |-> wire.req, cmd |-> wire.cmd, ok |-> ok])
  /\ wire' = NoRequest
  /\ UNCHANGED <<opened, link, checkAddr, stack, ret, cmd, sent, value>>

Push ==
  /\ link = "up" /\ At("read") /\ Top.req = "listen" /\ pending = <<>>
  /\ pending' = <<[req |-> "listen", cmd |-> cmd, ok |-> TRUE]>>
  /\ UNCHANGED <<opened, link, authed, db, wire, checkAddr, stack, ret, cmd, sent, value>>

\* A reply that was sent may arrive or not.
Cut ==
  /\ link = "up"
  /\ link' = "cut" /\ wire' = NoRequest
  /\ pending' \in {pending, <<>>}
  /\ UNCHANGED <<opened, authed, db, checkAddr, stack, ret, cmd, sent, value>>

-----------------------------------------------------------------------------
Run ==
  \/ OpenAlready \/ OpenFail \/ OpenConnect \/ AuthOk \/ SelectOk \/ SetupFailed
  \/ Check \/ Write \/ WriteFail \/ ReadFail \/ ReadReply

Server == Push \/ Cut \/ \E ok \in BOOLEAN : Serve(ok)

\* The program ends when its calls are made.
Finished == cmd = MaxCmds /\ stack = <<>> /\ UNCHANGED vars

Next == (\E op \in Roots : Call(op)) \/ Run \/ Server \/ Finished

Spec == Init /\ [][Next]_vars

\* The client's thread runs on, and a read ends at its time limit at the latest.
FairSpec == Spec /\ WF_vars(Run)

-----------------------------------------------------------------------------
(* Properties *)

Requests == Roots \cup {"auth", "select"}
TypeOK ==
  /\ opened \in BOOLEAN /\ checkAddr \in BOOLEAN
  /\ stack \in Seq([req : Requests, at : {"open", "auth", "select", "check", "write", "read"},
                    retried : BOOLEAN])
  /\ ret \in {"none", "ok", "error", "null"}
  /\ cmd \in 0..MaxCmds /\ sent \in Nat /\ value \in Values \cup {NoValue}
  /\ link \in {"none", "up", "cut"} /\ (link = "none") = ~opened
  /\ authed \in BOOLEAN /\ db \in {0, Db}
  /\ wire \in [req : Requests \cup {"none"}, cmd : 0..MaxCmds]
  /\ pending \in Seq([req : Requests, cmd : 0..MaxCmds, ok : BOOLEAN])

\* The variables have their types, and a reply is only ever read as the answer
\* to the request it answers: a late reply to a request that was given up, or
\* to an AUTH or a SELECT, never reaches another command of the connection.
ReplyMatches ==
  /\ TypeOK
  /\ \A i \in 1..Len(pending) :
       stack # <<>> /\ Top.at = "read" /\ pending[i].req = Top.req /\ pending[i].cmd = cmd

\* What the server is asked to do: a command reaches it only in a session that
\* is authenticated and uses the configured database, also when it is repeated
\* over a new connection; and it is written at most twice, once when retry_ is
\* off, so that one that is not idempotent takes effect at most so often.
OnSelectedDb == wire.req = "cmd" => (Password => authed) /\ db = Db
AtMostTwice == sent <= IF Retry THEN 2 ELSE 1
WrittenRight == OnSelectedDb /\ AtMostTwice

\* Only a call that succeeded has a value: the bytes from the first one on, in
\* order and without a gap, each piece in its buffer; all of them, when the value
\* is not sliced or is shorter than one chunk.
ReplyKept ==
  value # NoValue =>
    /\ stack = <<>> /\ ret = "ok"
    /\ PiecesJoin(value.slice, value.pieces)
    /\ ~value.slice \/ value.len < Chunk => KeptTo(value.pieces) = value.len

\* redis_result.hpp:144 "the total length of all data", redis_command.hpp:286:
\* slicing cuts a large reply into chunks, which together are the reply.
ReplyWhole == value # NoValue => KeptTo(value.pieces) = value.len

\* run() returns NULL only with the connection closed: redis_command takes
\* eof() for "the connection broke" and gives every other one back to its pool.
NullMeansEof == stack = <<>> /\ ret = "null" => eof

\* redis_client.cpp:110 "to avoid an endless loop": while the connection is being
\* authenticated, open() does not authenticate once more.
AuthNotNested ==
  \A i, j \in 1..Depth : stack[i].req = "auth" /\ stack[j].req = "auth" => i = j

\* A call returns, however often the server cuts the connection, lets a request
\* time out or refuses, for each call of run() repeats once: unless one set-up
\* call comes inside another of its kind, when with retry_ each may open one more.
SetUpNested == \E i, j \in 1..Depth : i < j /\ stack[i].req = stack[j].req
CallReturns == stack # <<>> ~> (stack = <<>> \/ SetUpNested)
=============================================================================
