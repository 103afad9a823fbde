----------------------------- MODULE MCCompaction -----------------------------
(* Pairings of a policy with an executor, as the library's tests document them. *)
EXTENDS ContextCompaction

MCPresets == {[retain |-> "tail", reads |-> "messages"],
              [retain |-> "last-response", reads |-> "prompt"],
              [retain |-> "nothing", reads |-> "prompt"]}
=============================================================================
