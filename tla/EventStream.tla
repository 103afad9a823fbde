----------------------------- MODULE EventStream -----------------------------
(* What the log of a session promises those who follow it, whatever crashes:   *)
(* the log only grows and holds an event once; a follower has seen a prefix of *)
(* it, and only ever sees more; an answer given to a command names the         *)
(* position of its admission, and is never given anew.                         *)
EXTENDS Naturals, Sequences

CONSTANTS Followers, Clients

VARIABLES log, seen, answer

streamVars == <<log, seen, answer>>

Prefix(s, n) == SubSeq(s, 1, n)
Once(s) == \A i, j \in DOMAIN s : s[i] = s[j] => i = j

StreamInit ==
    /\ log = <<>>
    /\ seen = [r \in Followers |-> <<>>]
    /\ answer = [c \in Clients |-> {}]

\* A batch is appended, and answered to at most one client.
Grow ==
    /\ Len(log) <= Len(log') /\ Prefix(log', Len(log)) = log /\ Once(log')
    /\ seen' = seen
    /\ \A c \in Clients :
         \/ answer'[c] = answer[c]
         \/ answer[c] = {} /\ \E s \in DOMAIN log' : answer'[c] = {s}

\* A follower sees what comes next, or several of it at once.
See(r) ==
    /\ \E n \in Len(seen[r]) + 1 .. Len(log) : seen' = [seen EXCEPT ![r] = Prefix(log, n)]
    /\ UNCHANGED <<log, answer>>

StreamNext == Grow \/ \E r \in Followers : See(r)

StreamSpec == StreamInit /\ [][StreamNext]_streamVars
=============================================================================
