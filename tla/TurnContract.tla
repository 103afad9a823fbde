---------------------------- MODULE TurnContract ----------------------------
(***************************************************************************)
(* What the control plane relies on about a turn (SessionControl's turn    *)
(* fiber): it is opened when every earlier turn is closed, it records at   *)
(* most one end, its fiber reports that end or dies, and whoever owns the  *)
(* fiber closes what an interruption left open.                            *)
(***************************************************************************)
EXTENDS Sequences, Naturals

VARIABLES
  ends,    \* of each turn: "open", "Completed" or "Failed"
  fiber    \* "none", "live", or how the fiber ended

Closed == \A t \in DOMAIN ends : ends[t] # "open"
Last   == Len(ends)

ContractInit == ends = <<>> /\ fiber = "none"

\* The fiber may never come to life: building the prompt may fail.
Start ==
  /\ fiber = "none" /\ Closed
  /\ ends' = Append(ends, "open") /\ fiber' \in {"live", "none"}

\* The end is recorded, and is what the fiber reports unless it is interrupted meanwhile.
End ==
  /\ fiber = "live" /\ ends[Last] = "open"
  /\ \/ ends' = [ends EXCEPT ![Last] = "Completed"] /\ fiber' \in {"ok", "interrupted"}
     \/ ends' = [ends EXCEPT ![Last] = "Failed"] /\ fiber' \in {"failed", "defect", "interrupted"}

Interrupted == fiber = "live" /\ fiber' = "interrupted" /\ UNCHANGED ends

\* Only an interrupted fiber may have left its turn open.
Observe ==
  /\ fiber \notin {"none", "live"}
  /\ ends[Last] = "open" => fiber = "interrupted"
  /\ ends' = [ends EXCEPT ![Last] = IF @ = "open" THEN "Failed" ELSE @]
  /\ fiber' = "none"

Die == fiber' = "none" /\ UNCHANGED ends

\* Recovery closes what the process that died left open.
Repair ==
  /\ fiber = "none"
  /\ ends' = [t \in DOMAIN ends |-> IF ends[t] = "open" THEN "Failed" ELSE ends[t]]
  /\ UNCHANGED fiber

ContractNext == Start \/ End \/ Interrupted \/ Observe \/ Die \/ Repair

ContractSpec == ContractInit /\ [][ContractNext]_<<ends, fiber>>
=============================================================================
