------------------------------- MODULE MCLog -------------------------------
(* An instance of SessionLog: two clients who share an idempotency key, one    *)
(* with an explicit command id, alone or together in one batch, and an engine  *)
(* that opens and closes turns and rebases the context.  Beside it, the codec  *)
(* of the checkpoints that SessionLog takes to be exact: a history is one of   *)
(* the log or one of the codec.                                                *)
EXTENDS SessionLog

CONSTANTS k1, c1, m1

Named == [id |-> c1, key |-> k1, submits |-> TRUE]
Unnamed == [id |-> None, key |-> k1, submits |-> FALSE]
MCCommands == {Named, Unnamed}
MCSubmissions == {<<Named>>, <<Unnamed>>, <<Named, Unnamed>>}
MCBatches == {<<"TurnStarted">>, <<"Message", "TurnEnded">>, <<"SummaryCreated", "ContextRebased">>}

VARIABLES
    events, reduced, loaded, saved,     \* those of the codec
    subject                             \* what the history is one of

Codec == INSTANCE StateCheckpoint WITH
    Commands <- {c1}, Messages <- {m1}, Tools <- {"t1"}, MaxLog <- 4,
    log <- events, mem <- reduced, checkpoint <- saved
codecVars == <<events, reduced, loaded, saved>>

MCInit == LogInit /\ Codec!CodecInit /\ subject \in {"log", "codec"}
MCNext ==
    \/ subject = "log" /\ LogNext /\ UNCHANGED <<codecVars, subject>>
    \/ subject = "codec" /\ Codec!CodecNext /\ UNCHANGED <<logVars, subject>>
MCSpec == MCInit /\ [][MCNext]_<<logVars, codecVars, subject>>

\* The property of StateCheckpoint: after any restart from any checkpoint, the live
\* state is the fold of the whole log (decodeReducedStateCheckpoint).
HydrationIsReplay == Codec!HydrationIsReplay
=============================================================================
