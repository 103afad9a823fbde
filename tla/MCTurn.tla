------------------------------- MODULE MCTurn -------------------------------
(* Turns whose model may ask for two tool calls, one of which may be re-invoked. *)
EXTENDS TurnExecution

CONSTANTS p1, p2
MCParts == {p1, p2}
MCReinvoked == {p1}
=============================================================================
