------------------------------ MODULE MCSession ------------------------------
(***************************************************************************)
(* Small instances of SessionControl: the client operations each run       *)
(* offers.  The bounds are in the .cfg files.                              *)
(***************************************************************************)
EXTENDS SessionControl

\* Everything a client or the host may submit.
EveryOperation == {"queue", "steer", "interrupt", "stop", "cancel", "promote", "stop+resume"}

\* Work, and everything that ends, withdraws or restarts it.
ControlOperations == {"queue", "steer", "interrupt", "cancel", "stop+resume"}

\* Queued work and what a user does to it.
QueueOperations == {"queue", "stop", "cancel"}
=============================================================================
