----------------------------- MODULE MCSockets -----------------------------
(* A session with one finished turn, and the bounds of its transcript socket. *)
EXTENDS TranscriptSockets

OneTurn == <<"submit", "consume", "infer", "tool", "settle", "submit">>
=============================================================================
