----------------------------- MODULE MCTranscript -----------------------------
(* Two releases of a transcript definition, and a rollback; the first can   *)
(* neither decode nor project the "late" events of the second.              *)
EXTENDS TranscriptBuilder

MCReleases == <<[current |-> "v1", previous |-> "v0"], [current |-> "v2", previous |-> "v1"]>>
MCRefuses == [v \in {"v1", "v2"} |-> IF v = "v1" THEN {"late"} ELSE {}]
MCUndecodable == <<{"late"}, {}>>
=============================================================================
