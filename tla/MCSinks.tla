------------------------------ MODULE MCSinks ------------------------------
(* An instance of SinkRunners: a projected sink that hears ephemerals and      *)
(* stages a note for every batch that has a message.                           *)
EXTENDS SinkRunners

CONSTANT teller

MCWants == [s \in {teller} |-> {"Message"}]
MCBatches == {<<"Message">>, <<"Message", "Message">>}
=============================================================================
