------------------------------- MODULE MCMbox -------------------------------
(* Small instances of Mbox for TLC. *)
EXTENDS Mbox
=============================================================================
