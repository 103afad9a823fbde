---------------------------- MODULE ReducedState ----------------------------
(***************************************************************************)
(* The canonical replay state of one session: the part of `ReducedState`   *)
(* (domain/reduced-state.ts) that scheduling and recovery read, the fold   *)
(* of each durable event into it, and the queues derived from it           *)
(* (domain/command-queues.ts).                                             *)
(*                                                                         *)
(* Every durable event type is one operator from a state to a state.  A    *)
(* batch committed by one store append is a composition of them.           *)
(*                                                                         *)
(* Identities.  Command ids are numbered in admission order, so the order  *)
(* of `admittedSeq` is the order of the numbers.  A SubmitMessage command  *)
(* has at most one message, which bears the number of its command.         *)
(* Sequence numbers are kept only where they order something: the          *)
(* effective position of a message (`at`).                                 *)
(***************************************************************************)
EXTENDS Integers, FiniteSets

CONSTANTS
  MaxCmd,     \* bound on admitted commands, internal resumptions included
  MaxRun,     \* bound on runs started
  MaxTurn     \* bound on turns started

ASSUME BoundsAssumption ==
  /\ MaxCmd \in Nat \ {0}
  /\ MaxRun \in Nat \ {0}
  /\ MaxTurn \in Nat \ {0}

Cmd  == 1 .. MaxCmd
Run  == 1 .. MaxRun
Turn == 1 .. MaxTurn

\* EDACommand, with the disposition of a SubmitMessage in its kind.
Submits == {"queue", "steer", "interrupt"}
Kinds   == Submits \cup {"stop", "cancel", "promote", "resume"}

\* `targets`: the messages a cancel, promote or resume command names.
Command == [kind : Kinds \cup {"none"}, targets : SUBSET Cmd,
            started : BOOLEAN, terminal : {"none", "Completed", "Failed", "Cancelled"}]

\* `consumed` counts the TurnStarted events that list the message.
Message == [known : BOOLEAN, disposition : {"unset", "queue", "steer"}, at : Nat,
            paused : BOOLEAN, consumed : Nat, cancelled : BOOLEAN]

\* "Failed" stands for every end but completion: Failed, Interrupted and Stopped.
RunRecord  == [of : SUBSET Cmd, status : {"none", "open", "Completed", "Failed"}]
TurnRecord == [run : Run \cup {0}, feedback : BOOLEAN,
               status : {"none", "open", "Completed", "Failed"}]
StopRecord == [status : {"none", "requested", "applied"},
               run : Run \cup {0}, turn : Turn \cup {0}]

\* RunSchedulingRequestRecord; id = 0 when no reservation is current.
Request ==
       [id : Nat \ {0}, work : {"Command"}, cmd : Cmd, run : {0},
        inputs : {{}}, delivered : BOOLEAN]
  \cup [id : Nat \ {0}, work : {"Recovery"}, cmd : Cmd, run : Run,
        inputs : SUBSET Cmd, delivered : BOOLEAN]
NoRequest == [id |-> 0, work |-> "Command", cmd |-> 0, run |-> 0,
              inputs |-> {}, delivered |-> FALSE]

State == [ncmd : 0 .. MaxCmd, nrun : 0 .. MaxRun, nturn : 0 .. MaxTurn,
          clock : Nat, nreq : Nat,
          cmd  : [Cmd -> Command],
          msg  : [Cmd -> Message],
          run  : [Run -> RunRecord],
          turn : [Turn -> TurnRecord],
          stop : [Cmd -> StopRecord],
          req  : Request \cup {NoRequest}]

InitialState ==
  [ncmd |-> 0, nrun |-> 0, nturn |-> 0, clock |-> 0, nreq |-> 0,
   cmd  |-> [c \in Cmd |-> [kind |-> "none", targets |-> {},
                            started |-> FALSE, terminal |-> "none"]],
   msg  |-> [c \in Cmd |-> [known |-> FALSE, disposition |-> "unset", at |-> 0,
                            paused |-> FALSE, consumed |-> 0, cancelled |-> FALSE]],
   run  |-> [r \in Run |-> [of |-> {}, status |-> "none"]],
   turn |-> [t \in Turn |-> [run |-> 0, feedback |-> FALSE, status |-> "none"]],
   stop |-> [c \in Cmd |-> [status |-> "none", run |-> 0, turn |-> 0]],
   req  |-> NoRequest]

-----------------------------------------------------------------------------
(* The fold: one operator per durable event type.                          *)

CommandAdmitted(s, kind, targets) ==
  [s EXCEPT !.ncmd = @ + 1,
            !.cmd[s.ncmd + 1] = [@ EXCEPT !.kind = kind, !.targets = targets]]

CommandStarted(s, c) == [s EXCEPT !.cmd[c].started = TRUE]

\* CommandCompleted, CommandFailed and CommandCancelled: the last one folded wins.
CommandTerminal(s, c, outcome) == [s EXCEPT !.cmd[c].terminal = outcome]

UserMessageSubmitted(s, m, disposition) ==
  [s EXCEPT !.clock = @ + 1,
            !.msg[m] = [@ EXCEPT !.known = TRUE, !.disposition = disposition,
                                 !.at = s.clock + 1]]

\* The message of an interrupting command: no disposition, hence queue.
UserMessageCommitted(s, m) == UserMessageSubmitted(s, m, "unset")

UserMessagePromoted(s, m) ==
  IF s.msg[m].known /\ s.msg[m].disposition = "queue"
    THEN [s EXCEPT !.clock = @ + 1,
                   !.msg[m] = [@ EXCEPT !.disposition = "steer", !.paused = FALSE,
                                        !.at = s.clock + 1]]
    ELSE s

UserMessageCancelled(s, m) ==
  IF s.msg[m].known THEN [s EXCEPT !.msg[m].cancelled = TRUE] ELSE s

Unconsumed(s, m) == s.msg[m].known /\ s.msg[m].consumed = 0 /\ ~s.msg[m].cancelled

PendingMessagesPaused(s, ms) ==
  [s EXCEPT !.msg = [m \in Cmd |->
     IF m \in ms /\ Unconsumed(s, m)
       THEN [s.msg[m] EXCEPT !.disposition = "queue", !.paused = TRUE]
       ELSE s.msg[m]]]

RunStarted(s, of) ==
  [s EXCEPT !.nrun = @ + 1,
            !.run[s.nrun + 1] = [of |-> of, status |-> "open"]]

RunTerminal(s, r, outcome) == [s EXCEPT !.run[r].status = outcome]

\* TurnStarted consumes its inputs, whatever else was folded about them.
TurnStarted(s, r, inputs) ==
  [s EXCEPT !.nturn = @ + 1,
            !.turn[s.nturn + 1] = [run |-> r, feedback |-> FALSE, status |-> "open"],
            !.msg = [m \in Cmd |-> IF m \in inputs /\ s.msg[m].known
                                     THEN [s.msg[m] EXCEPT !.consumed = @ + 1]
                                     ELSE s.msg[m]]]

\* `feedback`: the turn has a terminal or rejected tool call to report back.
TurnTerminal(s, t, outcome, feedback) ==
  [s EXCEPT !.turn[t] = [@ EXCEPT !.status = outcome, !.feedback = feedback]]

StopTurnRequested(s, c, r, t) ==
  [s EXCEPT !.stop[c] = [status |-> "requested", run |-> r, turn |-> t]]

StopTurnApplied(s, c) == [s EXCEPT !.stop[c].status = "applied"]

RunSchedulingRequested(s, work, c, r, inputs) ==
  [s EXCEPT !.nreq = @ + 1,
            !.req = [id |-> s.nreq + 1, work |-> work, cmd |-> c, run |-> r,
                     inputs |-> inputs, delivered |-> FALSE]]

RunSchedulingDelivered(s, id) ==
  IF s.req.id = id THEN [s EXCEPT !.req.delivered = TRUE] ELSE s

\* RunSchedulingInvalidated and RunSchedulingGranted release the reservation.
RunSchedulingClosed(s, id) ==
  IF s.req.id = id THEN [s EXCEPT !.req = NoRequest] ELSE s

-----------------------------------------------------------------------------
(* Queues derived from the records (deriveCommandQueues).                  *)

IsSubmit(s, c) == s.cmd[c].kind \in Submits

PendingCommands(s) ==
  {c \in 1 .. s.ncmd : ~s.cmd[c].started /\ s.cmd[c].terminal = "none"}

PendingMessages(s) == {m \in Cmd : Unconsumed(s, m)}

Disposition(s, m) ==
  IF s.msg[m].paused \/ s.msg[m].disposition = "unset" THEN "queue"
                                                       ELSE s.msg[m].disposition

PendingSteers(s) == {m \in PendingMessages(s) : Disposition(s, m) = "steer"}
PausedQueue(s)   == {m \in PendingMessages(s) : s.msg[m].paused}
PendingQueue(s)  == PendingMessages(s) \ (PendingSteers(s) \cup PausedQueue(s))

\* Commands that may act on an active run.
ControlCommands(s) ==
  {c \in PendingCommands(s) :
     \/ s.cmd[c].kind \in {"stop", "cancel", "promote", "interrupt"}
     \/ c \in PendingSteers(s)
     \/ s.cmd[c].kind = "steer" /\ c \notin PendingMessages(s)}

OpenRuns(s)       == {r \in Run : s.run[r].status = "open"}
OpenTurns(s)      == {t \in Turn : s.turn[t].status = "open"}
ActiveCommands(s) == {c \in Cmd : s.cmd[c].started /\ s.cmd[c].terminal = "none"}

Least(S) == CHOOSE x \in S : \A y \in S : x <= y
Latest(S) == CHOOSE x \in S : \A y \in S : x >= y

\* deriveActiveCommand: the first started command without a terminal, or 0.
ActiveCommand(s) == IF ActiveCommands(s) = {} THEN 0 ELSE Least(ActiveCommands(s))

\* The open run of command c, or 0.
OpenRunOf(s, c) ==
  LET rs == {r \in OpenRuns(s) : c \in s.run[r].of} IN IF rs = {} THEN 0 ELSE Least(rs)

\* activeTurnIdentityForCommand: the last run of command c and the last turn of that run.
LastRunOf(s, c) ==
  LET rs == {r \in 1 .. s.nrun : c \in s.run[r].of} IN IF rs = {} THEN 0 ELSE Latest(rs)
LastTurnOf(s, r) ==
  LET ts == {t \in 1 .. s.nturn : s.turn[t].run = r} IN IF ts = {} THEN 0 ELSE Latest(ts)
=============================================================================
