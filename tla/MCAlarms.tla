------------------------------ MODULE MCAlarms ------------------------------
(* One session object over a few heartbeats. *)
EXTENDS HostAlarm
=============================================================================
