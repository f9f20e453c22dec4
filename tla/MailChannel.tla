---------------------------- MODULE MailChannel ----------------------------
(***************************************************************************)
(* What a mailbox promises: messages come out in the order they went in,   *)
(* each once, none made up. Who sends, and when a reader is told that      *)
(* there is something to read, is left to the implementation (Mbox).       *)
(***************************************************************************)
EXTENDS Sequences

CONSTANTS Msgs, NoMsg

VARIABLES
  box,    \* the messages sent and not yet read, the oldest first
  last    \* the message read last

vars == <<box, last>>

Init == box = <<>> /\ last = NoMsg

Send == \E m \in Msgs : box' = Append(box, m) /\ UNCHANGED last

Read == box # <<>> /\ last' = Head(box) /\ box' = Tail(box)

\* The mailbox is freed with what is in it.
Discard == box' = <<>> /\ UNCHANGED last

Spec == Init /\ [][Send \/ Read \/ Discard]_vars
=============================================================================
