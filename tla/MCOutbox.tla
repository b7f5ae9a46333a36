-------------------------------- MODULE MCOutbox --------------------------------
(* Small instances of Outbox: one clock ahead of the database's, one behind it. *)
EXTENDS Outbox, TLC

CONSTANTS v, w

ClocksDiffer == (v :> 1) @@ (w :> -1)
=============================================================================
