--------------------------- MODULE MCConnMonitor ----------------------------
(* Small instances of ConnMonitor for TLC. *)
EXTENDS ConnMonitor
=============================================================================
