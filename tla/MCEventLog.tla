------------------------------ MODULE MCEventLog ------------------------------
(* The event log checked on a small instance. *)
EXTENDS EventLog
==============================================================================
