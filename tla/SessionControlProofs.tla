------------------------- MODULE SessionControlProofs -------------------------
(***************************************************************************)
(* What holds of the session's control plane for every value of its        *)
(* constants.  First its parts: every durable event keeps the replay state *)
(* well formed, the choices made among its records pick a member, the pure *)
(* decisions return what they claim to, and startup recovery keeps the     *)
(* replay state well formed.  Then TypeOK, and the safety properties that  *)
(* rest on it; last, the invariant of the run slot.                        *)
(***************************************************************************)
EXTENDS SessionControl, TLAPS, WellFoundedInduction

-----------------------------------------------------------------------------
(* Choices.                                                                *)

Below == {p \in Nat \X Nat : p[1] < p[2]}

\* A non-empty set of naturals has a least element.
LEMMA LeastExists ==
  ASSUME NEW S \in SUBSET Nat, S # {}
  PROVE  \E x \in S : \A y \in S : x <= y
<1>1. IsWellFoundedOn(Below, Nat)
  BY NatLessThanWellFounded DEF OpToRel, Below
<1>2. PICK x \in S : \A y \in S : ~ (<<y, x>> \in Below)
  BY <1>1, WFMin
<1>3. \A y \in S : ~(y < x)
  BY <1>2 DEF Below
<1> QED BY <1>3

LEMMA LeastIsMember ==
  ASSUME NEW S \in SUBSET Nat, S # {}
  PROVE  Least(S) \in S /\ \A y \in S : Least(S) <= y
BY LeastExists DEF Least

\* A bounded non-empty set of naturals has a greatest element.
LEMMA LatestIsMember ==
  ASSUME NEW n \in Nat, NEW S \in SUBSET (0 .. n), S # {}
  PROVE  Latest(S) \in S /\ \A y \in S : y <= Latest(S)
<1> DEFINE T == {n - x : x \in S}
<1>1. T \in SUBSET Nat
  OBVIOUS
<1>5. T # {}
  OBVIOUS
<1>2. PICK t \in T : \A u \in T : t <= u
  BY <1>1, <1>5, LeastExists
<1>3. PICK x \in S : t = n - x
  BY <1>2
<1>4. \A y \in S : x >= y
  BY <1>2, <1>3
<1> QED BY <1>4 DEF Latest

-----------------------------------------------------------------------------
(* Each event of the fold keeps the type of the state.                     *)

LEMMA StateFields ==
  ASSUME NEW s \in State
  PROVE  /\ s.ncmd \in 0 .. MaxCmd /\ s.nrun \in 0 .. MaxRun /\ s.nturn \in 0 .. MaxTurn
         /\ s.clock \in Nat /\ s.nreq \in Nat
         /\ s.cmd \in [Cmd -> Command] /\ s.msg \in [Cmd -> Message]
         /\ s.run \in [Run -> RunRecord] /\ s.turn \in [Turn -> TurnRecord]
         /\ s.stop \in [Cmd -> StopRecord] /\ s.req \in Request \cup {NoRequest}
BY DEF State

\* A state stays one when one of its components is replaced by another of the same type.
LEMMA StateUpdate ==
  ASSUME NEW s \in State
  PROVE  /\ \A f \in [Cmd -> Command] : [s EXCEPT !.cmd = f] \in State
         /\ \A f \in [Cmd -> Message] : [s EXCEPT !.msg = f] \in State
         /\ \A f \in [Cmd -> StopRecord] : [s EXCEPT !.stop = f] \in State
         /\ \A f \in [Run -> RunRecord] : [s EXCEPT !.run = f] \in State
         /\ \A f \in [Turn -> TurnRecord] : [s EXCEPT !.turn = f] \in State
         /\ \A q \in Request \cup {NoRequest} : [s EXCEPT !.req = q] \in State
         /\ \A n \in 0 .. MaxCmd : [s EXCEPT !.ncmd = n] \in State
         /\ \A n \in 0 .. MaxRun : [s EXCEPT !.nrun = n] \in State
         /\ \A n \in 0 .. MaxTurn : [s EXCEPT !.nturn = n] \in State
         /\ \A n \in Nat : [s EXCEPT !.clock = n] \in State
         /\ \A n \in Nat : [s EXCEPT !.nreq = n] \in State
BY DEF State

LEMMA InitialStateType == InitialState \in State
<1>1. InitialState.cmd \in [Cmd -> Command] /\ InitialState.stop \in [Cmd -> StopRecord]
  BY DEF InitialState, Command, StopRecord, Kinds
<1>2. InitialState.msg \in [Cmd -> Message]
  BY DEF InitialState, Message
<1>3. InitialState.run \in [Run -> RunRecord] /\ InitialState.turn \in [Turn -> TurnRecord]
  BY DEF InitialState, RunRecord, TurnRecord
<1> QED BY <1>1, <1>2, <1>3, BoundsAssumption DEF InitialState, State

LEMMA CommandAdmittedType ==
  ASSUME NEW s \in State, s.ncmd < MaxCmd, NEW kind \in Kinds, NEW targets \in SUBSET Cmd
  PROVE  CommandAdmitted(s, kind, targets) \in State
<1> DEFINE f == [s.cmd EXCEPT ![s.ncmd + 1] = [@ EXCEPT !.kind = kind, !.targets = targets]]
           s1 == [s EXCEPT !.ncmd = s.ncmd + 1]
<1>1. s.cmd \in [Cmd -> Command]
  BY StateFields
<1>2. f \in [Cmd -> Command]
  BY <1>1 DEF Command
<1>3. s.ncmd + 1 \in 0 .. MaxCmd
  BY StateFields, BoundsAssumption
<1>4. s1 \in State
  BY <1>3, StateUpdate
<1>5. CommandAdmitted(s, kind, targets) = [s1 EXCEPT !.cmd = f]
  BY DEF CommandAdmitted, State
<1> HIDE DEF f, s1
<1> QED BY <1>2, <1>4, <1>5, StateUpdate

LEMMA CommandStartedType ==
  ASSUME NEW s \in State, NEW c
  PROVE  CommandStarted(s, c) \in State
<1>1. s.cmd \in [Cmd -> Command]
  BY StateFields
<1>2. [s.cmd EXCEPT ![c].started = TRUE] \in [Cmd -> Command]
  BY <1>1 DEF Command
<1> QED BY <1>2, StateUpdate DEF CommandStarted

LEMMA CommandTerminalType ==
  ASSUME NEW s \in State, NEW c, NEW outcome \in {"Completed", "Failed", "Cancelled"}
  PROVE  CommandTerminal(s, c, outcome) \in State
<1>1. s.cmd \in [Cmd -> Command]
  BY StateFields
<1>2. [s.cmd EXCEPT ![c].terminal = outcome] \in [Cmd -> Command]
  BY <1>1 DEF Command
<1> QED BY <1>2, StateUpdate DEF CommandTerminal

LEMMA UserMessageSubmittedType ==
  ASSUME NEW s \in State, NEW m, NEW d \in {"unset", "queue", "steer"}
  PROVE  UserMessageSubmitted(s, m, d) \in State
<1> DEFINE f == [s.msg EXCEPT ![m] = [@ EXCEPT !.known = TRUE, !.disposition = d,
                                          !.at = s.clock + 1]]
           s1 == [s EXCEPT !.clock = s.clock + 1]
<1>1. s.msg \in [Cmd -> Message] /\ s.clock + 1 \in Nat
  BY StateFields
<1>2. f \in [Cmd -> Message]
  BY <1>1 DEF Message
<1>3. s.clock + 1 \in Nat
  BY StateFields
<1>4. s1 \in State
  BY <1>3, StateUpdate
<1>5. UserMessageSubmitted(s, m, d) = [s1 EXCEPT !.msg = f]
  BY DEF UserMessageSubmitted, State
<1> HIDE DEF f, s1
<1> QED BY <1>2, <1>4, <1>5, StateUpdate

LEMMA UserMessageCommittedType ==
  ASSUME NEW s \in State, NEW m
  PROVE  UserMessageCommitted(s, m) \in State
BY UserMessageSubmittedType DEF UserMessageCommitted

LEMMA UserMessagePromotedType ==
  ASSUME NEW s \in State, NEW m
  PROVE  UserMessagePromoted(s, m) \in State
<1> DEFINE f == [s.msg EXCEPT ![m] = [@ EXCEPT !.disposition = "steer", !.paused = FALSE,
                                               !.at = s.clock + 1]]
           s1 == [s EXCEPT !.clock = s.clock + 1]
<1>1. s.msg \in [Cmd -> Message] /\ s.clock + 1 \in Nat
  BY StateFields
<1>2. f \in [Cmd -> Message]
  BY <1>1 DEF Message
<1>3. s1 \in State
  BY <1>1, StateUpdate
<1>4. [s1 EXCEPT !.msg = f] \in State
  <2> HIDE DEF f, s1
  <2> QED BY <1>2, <1>3, StateUpdate
<1>5. UserMessagePromoted(s, m) \in {s, [s1 EXCEPT !.msg = f]}
  BY DEF UserMessagePromoted, State
<1> HIDE DEF f, s1
<1> QED BY <1>4, <1>5

LEMMA UserMessageCancelledType ==
  ASSUME NEW s \in State, NEW m
  PROVE  UserMessageCancelled(s, m) \in State
<1>1. s.msg \in [Cmd -> Message]
  BY StateFields
<1>2. [s.msg EXCEPT ![m].cancelled = TRUE] \in [Cmd -> Message]
  BY <1>1 DEF Message
<1> QED BY <1>2, StateUpdate DEF UserMessageCancelled

LEMMA PendingMessagesPausedType ==
  ASSUME NEW s \in State, NEW ms
  PROVE  PendingMessagesPaused(s, ms) \in State
<1> DEFINE f == [m \in Cmd |->
     IF m \in ms /\ Unconsumed(s, m)
       THEN [s.msg[m] EXCEPT !.disposition = "queue", !.paused = TRUE]
       ELSE s.msg[m]]
<1>1. s.msg \in [Cmd -> Message]
  BY StateFields
<1>2. f \in [Cmd -> Message]
  BY <1>1 DEF Message
<1>3. PendingMessagesPaused(s, ms) = [s EXCEPT !.msg = f]
  BY DEF PendingMessagesPaused
<1> HIDE DEF f
<1> QED BY <1>2, <1>3, StateUpdate

LEMMA RunStartedType ==
  ASSUME NEW s \in State, s.nrun < MaxRun, NEW of \in SUBSET Cmd
  PROVE  RunStarted(s, of) \in State
<1> DEFINE f == [s.run EXCEPT ![s.nrun + 1] = [of |-> of, status |-> "open"]]
           s1 == [s EXCEPT !.nrun = s.nrun + 1]
<1>1. s.run \in [Run -> RunRecord]
  BY StateFields
<1>2. f \in [Run -> RunRecord]
  BY <1>1 DEF RunRecord
<1>3. s.nrun + 1 \in 0 .. MaxRun
  BY StateFields, BoundsAssumption
<1>4. s1 \in State
  BY <1>3, StateUpdate
<1>5. RunStarted(s, of) = [s1 EXCEPT !.run = f]
  BY DEF RunStarted, State
<1> HIDE DEF f, s1
<1> QED BY <1>2, <1>4, <1>5, StateUpdate

LEMMA RunTerminalType ==
  ASSUME NEW s \in State, NEW r, NEW outcome \in {"Completed", "Failed"}
  PROVE  RunTerminal(s, r, outcome) \in State
<1>1. s.run \in [Run -> RunRecord]
  BY StateFields
<1>2. [s.run EXCEPT ![r].status = outcome] \in [Run -> RunRecord]
  BY <1>1 DEF RunRecord
<1> QED BY <1>2, StateUpdate DEF RunTerminal

LEMMA TurnStartedType ==
  ASSUME NEW s \in State, s.nturn < MaxTurn, NEW r \in Run \cup {0}, NEW inputs
  PROVE  TurnStarted(s, r, inputs) \in State
<1> DEFINE f == [s.turn EXCEPT ![s.nturn + 1] =
                    [run |-> r, feedback |-> FALSE, status |-> "open"]]
           g == [m \in Cmd |-> IF m \in inputs /\ s.msg[m].known
                                  THEN [s.msg[m] EXCEPT !.consumed = @ + 1]
                                  ELSE s.msg[m]]
           s1 == [s EXCEPT !.nturn = s.nturn + 1]
<1>1. s.turn \in [Turn -> TurnRecord] /\ s.msg \in [Cmd -> Message]
  BY StateFields
<1>2. f \in [Turn -> TurnRecord]
  BY <1>1 DEF TurnRecord
<1>3. g \in [Cmd -> Message]
  BY <1>1 DEF Message
<1>4. s.nturn + 1 \in 0 .. MaxTurn
  BY StateFields, BoundsAssumption
<1>5. s1 \in State
  BY <1>4, StateUpdate
<1>6. TurnStarted(s, r, inputs) = [s1 EXCEPT !.turn = f, !.msg = g]
  BY DEF TurnStarted, State
<1> HIDE DEF f, g, s1
<1>7. [s1 EXCEPT !.turn = f] \in State
  BY <1>2, <1>5, StateUpdate
<1>8. [[s1 EXCEPT !.turn = f] EXCEPT !.msg = g] \in State
  BY <1>7, <1>3, StateUpdate
<1> QED BY <1>6, <1>8

LEMMA TurnTerminalType ==
  ASSUME NEW s \in State, NEW t, NEW outcome \in {"Completed", "Failed"},
         NEW feedback \in BOOLEAN
  PROVE  TurnTerminal(s, t, outcome, feedback) \in State
<1>1. s.turn \in [Turn -> TurnRecord]
  BY StateFields
<1>2. [s.turn EXCEPT ![t] = [@ EXCEPT !.status = outcome, !.feedback = feedback]] \in [Turn -> TurnRecord]
  BY <1>1 DEF TurnRecord
<1> QED BY <1>2, StateUpdate DEF TurnTerminal

LEMMA StopTurnRequestedType ==
  ASSUME NEW s \in State, NEW c, NEW r \in Run \cup {0}, NEW t \in Turn \cup {0}
  PROVE  StopTurnRequested(s, c, r, t) \in State
<1>1. s.stop \in [Cmd -> StopRecord]
  BY StateFields
<1>2. [s.stop EXCEPT ![c] = [status |-> "requested", run |-> r, turn |-> t]] \in [Cmd -> StopRecord]
  BY <1>1 DEF StopRecord
<1> QED BY <1>2, StateUpdate DEF StopTurnRequested

LEMMA StopTurnAppliedType ==
  ASSUME NEW s \in State, NEW c
  PROVE  StopTurnApplied(s, c) \in State
<1>1. s.stop \in [Cmd -> StopRecord]
  BY StateFields
<1>2. [s.stop EXCEPT ![c].status = "applied"] \in [Cmd -> StopRecord]
  BY <1>1 DEF StopRecord
<1> QED BY <1>2, StateUpdate DEF StopTurnApplied

\* A reservation for a command names no run; one made by recovery names the run it continues.
LEMMA RunSchedulingRequestedType ==
  ASSUME NEW s \in State, NEW work \in {"Command", "Recovery"}, NEW c \in Cmd, NEW r,
         NEW inputs \in SUBSET Cmd,
         work = "Command" => r = 0 /\ inputs = {},
         work = "Recovery" => r \in Run
  PROVE  RunSchedulingRequested(s, work, c, r, inputs) \in State
<1> DEFINE q == [id |-> s.nreq + 1, work |-> work, cmd |-> c, run |-> r,
                 inputs |-> inputs, delivered |-> FALSE]
           s1 == [s EXCEPT !.nreq = s.nreq + 1]
<1>1. s.nreq + 1 \in Nat /\ s.nreq + 1 # 0
  BY StateFields
<1>2. q \in Request
  BY <1>1 DEF Request
<1>3. s1 \in State
  BY <1>1, StateUpdate
<1>4. RunSchedulingRequested(s, work, c, r, inputs) = [s1 EXCEPT !.req = q]
  BY DEF RunSchedulingRequested, State
<1> HIDE DEF q, s1
<1> QED BY <1>2, <1>3, <1>4, StateUpdate

LEMMA RunSchedulingDeliveredType ==
  ASSUME NEW s \in State, NEW id \in Nat \ {0}
  PROVE  RunSchedulingDelivered(s, id) \in State
<1> DEFINE q == [s.req EXCEPT !.delivered = TRUE]
<1>1. s.req \in Request \cup {NoRequest}
  BY StateFields
<1>2. ASSUME s.req.id = id PROVE q \in Request
  <2>1. s.req \in Request
    BY <1>1, <1>2 DEF NoRequest
  <2>2. q \in [id : Nat \ {0}, work : {"Command"}, cmd : Cmd, run : {0},
                inputs : {{}}, delivered : BOOLEAN]
        \/ q \in [id : Nat \ {0}, work : {"Recovery"}, cmd : Cmd, run : Run,
                  inputs : SUBSET Cmd, delivered : BOOLEAN]
    <3>1. CASE s.req \in [id : Nat \ {0}, work : {"Command"}, cmd : Cmd, run : {0},
                          inputs : {{}}, delivered : BOOLEAN]
      BY <3>1
    <3>2. CASE s.req \in [id : Nat \ {0}, work : {"Recovery"}, cmd : Cmd, run : Run,
                          inputs : SUBSET Cmd, delivered : BOOLEAN]
      BY <3>2
    <3> QED BY <2>1, <3>1, <3>2 DEF Request
  <2> QED BY <2>2 DEF Request
<1>3. RunSchedulingDelivered(s, id) = IF s.req.id = id THEN [s EXCEPT !.req = q] ELSE s
  BY DEF RunSchedulingDelivered
<1> HIDE DEF q
<1> QED BY <1>2, <1>3, StateUpdate

LEMMA RunSchedulingClosedType ==
  ASSUME NEW s \in State, NEW id
  PROVE  RunSchedulingClosed(s, id) \in State
BY StateUpdate DEF RunSchedulingClosed

-----------------------------------------------------------------------------
(* The queues hold command and message numbers.                            *)

LEMMA QueueTypes ==
  ASSUME NEW s \in State
  PROVE  /\ PendingCommands(s) \subseteq Cmd /\ PendingMessages(s) \subseteq Cmd
         /\ PendingSteers(s) \subseteq Cmd /\ PausedQueue(s) \subseteq Cmd
         /\ PendingQueue(s) \subseteq Cmd /\ ControlCommands(s) \subseteq Cmd
         /\ MessagesToResume(s) \subseteq Cmd /\ MessagesToPause(s) \subseteq Cmd
<1>1. s.ncmd \in 0 .. MaxCmd /\ MaxCmd \in Nat
  BY StateFields, BoundsAssumption
<1>2. PendingCommands(s) \subseteq Cmd
  BY <1>1 DEF PendingCommands, Cmd
<1>3. PendingMessages(s) \subseteq Cmd
  BY DEF PendingMessages
<1> QED BY <1>2, <1>3 DEF PendingSteers, PausedQueue, PendingQueue, ControlCommands,
                          MessagesToResume, MessagesToPause

LEMMA CmdIsNat == Cmd \subseteq Nat /\ Run \subseteq Nat /\ Turn \subseteq Nat
BY BoundsAssumption DEF Cmd, Run, Turn

-----------------------------------------------------------------------------
(* Choices.                                                                *)

LEMMA EarliestIsMember ==
  ASSUME NEW s \in State, NEW S \in SUBSET Cmd, S # {}
  PROVE  Earliest(s, S) \in S
<1> DEFINE T == {s.msg[m].at : m \in S}
<1>1. \A m \in Cmd : s.msg[m].at \in Nat
  BY StateFields DEF Message
<1>2. T \in SUBSET Nat
  BY <1>1
<1>3. T # {}
  OBVIOUS
<1>4. PICK t \in T : \A u \in T : t <= u
  BY <1>2, <1>3, LeastExists
<1>5. PICK m \in S : t = s.msg[m].at
  BY <1>4
<1>6. \A k \in S : s.msg[m].at <= s.msg[k].at
  BY <1>4, <1>5
<1> QED BY <1>6 DEF Earliest

LEMMA FirstControlIsMember ==
  ASSUME NEW s \in State, NEW S \in SUBSET Cmd
  PROVE  FirstControl(s, S) \in S \cup {0} /\ (S # {} => FirstControl(s, S) \in S)
<1> DEFINE rank(c) == Priority(s.cmd[c].kind)
           T == {rank(c) : c \in S}
<1>1. CASE S = {}
  BY <1>1 DEF FirstControl
<1>2. CASE S # {}
  <2>1. \A c : rank(c) \in Nat
    BY DEF Priority
  <2>2. T \in SUBSET Nat
    BY <2>1
  <2>3. T # {}
    BY <1>2
  <2>4. PICK p \in T : \A q \in T : p <= q
    BY <2>2, <2>3, LeastExists
  <2> DEFINE U == {c \in S : rank(c) = p}
  <2>5. U \in SUBSET Nat
    BY CmdIsNat
  <2>6. U # {}
    BY <2>4
  <2>7. PICK c \in U : \A d \in U : c <= d
    <3> HIDE DEF U
    <3> QED BY <2>5, <2>6, LeastExists
  <2>8. ASSUME NEW d \in S PROVE Precedes(s, c, d)
    <3>1. rank(c) = p /\ p <= rank(d) /\ rank(d) \in Nat /\ p \in Nat
      BY <2>1, <2>2, <2>4, <2>7
    <3>2. CASE rank(d) = p
      BY <2>7, <3>1, <3>2 DEF Precedes
    <3>3. CASE rank(d) # p
      <4> HIDE DEF rank
      <4>1. rank(c) < rank(d)
        BY <3>1, <3>3
      <4> USE DEF rank
      <4> QED BY <4>1 DEF Precedes
    <3> QED BY <3>2, <3>3
  <2> QED BY <1>2, <2>7, <2>8 DEF FirstControl
<1> QED BY <1>1, <1>2

LEMMA ControlChoices ==
  ASSUME NEW s \in State
  PROVE  /\ NextControl(s) \in ControlCommands(s) \cup {0}
         /\ WaitingControl(s) \in ControlCommands(s) \cup {0}
BY FirstControlIsMember, QueueTypes DEF NextControl, WaitingControl

LEMMA ActiveCommandType ==
  ASSUME NEW s \in State
  PROVE  ActiveCommand(s) \in ActiveCommands(s) \cup {0}
BY LeastIsMember, CmdIsNat DEF ActiveCommand, ActiveCommands

\* An idle session picks a pending command, unless it has nothing or only orphaned steers.
LEMMA NextIdleType ==
  ASSUME NEW s \in State
  PROVE  NextIdle(s) \in PendingCommands(s) \cup {0, Orphaned}
<1> DEFINE pending == PendingCommands(s)
           interrupts == {c \in pending : s.cmd[c].kind = "interrupt"}
           queued == PendingQueue(s) \cap pending
           others == UnpausedWork(s)
<1>1. pending \subseteq Cmd /\ PendingSteers(s) \subseteq Cmd
  BY QueueTypes
<1>2. CASE OwnedSteers(s) # {}
  <2> DEFINE m == Earliest(s, OwnedSteers(s))
  <2>1. m \in OwnedSteers(s)
    BY <1>1, <1>2, EarliestIsMember DEF OwnedSteers
  <2>2. m \in pending \/ ResumesOf(s, m) # {}
    BY <2>1 DEF OwnedSteers
  <2>3. ResumesOf(s, m) # {} => Least(ResumesOf(s, m)) \in pending
    BY <1>1, CmdIsNat, LeastIsMember DEF ResumesOf
  <2>4. NextIdle(s) = IF m \in pending THEN m ELSE Least(ResumesOf(s, m))
    BY <1>2 DEF NextIdle, OwnedSteers
  <2> HIDE DEF m
  <2> QED BY <2>2, <2>3, <2>4
<1>3. CASE OwnedSteers(s) = {} /\ PendingSteers(s) # {}
  BY <1>3 DEF NextIdle
<1>4. CASE PendingSteers(s) = {} /\ interrupts # {}
  <2>1. OwnedSteers(s) = {}
    BY <1>4 DEF OwnedSteers
  <2>2. NextIdle(s) = Least(interrupts)
    BY <1>4, <2>1 DEF NextIdle
  <2> QED BY <1>1, <1>4, <2>2, CmdIsNat, LeastIsMember
<1>5. CASE PendingSteers(s) = {} /\ interrupts = {} /\ queued # {}
  <2>1. OwnedSteers(s) = {}
    BY <1>5 DEF OwnedSteers
  <2>2. NextIdle(s) = Earliest(s, queued)
    BY <1>5, <2>1 DEF NextIdle
  <2>3. queued \in SUBSET Cmd
    BY <1>1
  <2> QED BY <1>5, <2>2, <2>3, EarliestIsMember
<1>6. CASE PendingSteers(s) = {} /\ interrupts = {} /\ queued = {}
  <2>1. OwnedSteers(s) = {}
    BY <1>6 DEF OwnedSteers
  <2>2. NextIdle(s) = IF others = {} THEN 0 ELSE Least(others)
    BY <1>6, <2>1 DEF NextIdle
  <2>3. others \subseteq pending
    BY DEF UnpausedWork
  <2> QED BY <1>1, <2>2, <2>3, CmdIsNat, LeastIsMember
<1> QED BY <1>2, <1>3, <1>4, <1>5, <1>6 DEF OwnedSteers

LEMMA LastRunAndTurnTypes ==
  ASSUME NEW s \in State
  PROVE  /\ \A c : LastRunOf(s, c) \in Run \cup {0}
         /\ \A r : LastTurnOf(s, r) \in Turn \cup {0}
<1>1. s.nrun \in 0 .. MaxRun /\ s.nturn \in 0 .. MaxTurn /\ MaxRun \in Nat /\ MaxTurn \in Nat
  BY StateFields, BoundsAssumption
<1>2. ASSUME NEW c PROVE LastRunOf(s, c) \in Run \cup {0}
  <2> DEFINE rs == {r \in 1 .. s.nrun : c \in s.run[r].of}
  <2>1. rs \in SUBSET (0 .. MaxRun) /\ rs \subseteq Run
    BY <1>1 DEF Run
  <2>2. LastRunOf(s, c) = IF rs = {} THEN 0 ELSE Latest(rs)
    BY DEF LastRunOf
  <2> HIDE DEF rs
  <2> QED BY <1>1, <2>1, <2>2, LatestIsMember
<1>3. ASSUME NEW r PROVE LastTurnOf(s, r) \in Turn \cup {0}
  <2> DEFINE ts == {t \in 1 .. s.nturn : s.turn[t].run = r}
  <2>1. ts \in SUBSET (0 .. MaxTurn) /\ ts \subseteq Turn
    BY <1>1 DEF Turn
  <2>2. LastTurnOf(s, r) = IF ts = {} THEN 0 ELSE Latest(ts)
    BY DEF LastTurnOf
  <2> HIDE DEF ts
  <2> QED BY <1>1, <2>1, <2>2, LatestIsMember
<1> QED BY <1>2, <1>3

-----------------------------------------------------------------------------
(* Startup recovery.                                                       *)

\* A run to continue is an open run of the command it is continued for.
LEMMA ContinuationType ==
  ASSUME NEW s \in State
  PROVE  /\ ContinuationCommand(s) \in Cmd \cup {0}
         /\ ContinuationCommand(s) # 0 =>
              /\ ContinuationCommand(s) \in RecoverableCommands(s)
              /\ ContinuationRun(s) \in OpenRuns(s)
              /\ ContinuationCommand(s) \in s.run[ContinuationRun(s)].of
         /\ ContinuationInputs(s) \in SUBSET Cmd
<1> DEFINE c == ContinuationCommand(s)
           rs == {r \in OpenRuns(s) \ StoppedRuns(s) : c \in s.run[r].of}
<1>1. ContinuationCandidates(s) \in SUBSET Cmd
  BY DEF ContinuationCandidates, RecoverableCommands, ActiveCommands
<1>2. ContinuationCandidates(s) # {} => c \in ContinuationCandidates(s)
  BY <1>1, CmdIsNat, LeastIsMember DEF ContinuationCommand
<1>3. ContinuationCandidates(s) = {} => c = 0
  BY DEF ContinuationCommand
<1>4. 0 \notin Cmd
  BY BoundsAssumption DEF Cmd
<1>5. c # 0 => c \in RecoverableCommands(s) /\ rs # {}
  BY <1>2, <1>3 DEF ContinuationCandidates
<1>6. rs \in SUBSET Nat
  BY CmdIsNat DEF OpenRuns
<1>7. c # 0 => ContinuationRun(s) \in rs
  <2>1. c # 0 => ContinuationRun(s) = Least(rs)
    BY DEF ContinuationRun
  <2> HIDE DEF rs, c
  <2> QED BY <1>5, <1>6, <2>1, LeastIsMember
<1>8. ContinuationInputs(s) \in SUBSET Cmd
  BY QueueTypes DEF ContinuationInputs
<1>9. c \in Cmd \cup {0}
  BY <1>1, <1>2, <1>3
<1> QED BY <1>5, <1>7, <1>8, <1>9

LEMMA ClosedByRecoveryType ==
  ASSUME NEW s \in State
  PROVE  /\ ClosedByRecovery(s) \in State
         /\ ClosedByRecovery(s).ncmd = s.ncmd /\ ClosedByRecovery(s).nrun = s.nrun
<1> DEFINE ft == [t \in Turn |-> IF t \in OpenTurns(s)
                                   THEN [s.turn[t] EXCEPT !.status = "Failed"] ELSE s.turn[t]]
           fr == [r \in Run |-> IF r \in OpenRuns(s)
                                  THEN [s.run[r] EXCEPT !.status = "Failed"] ELSE s.run[r]]
           fs == [c \in Cmd |-> IF c \in ApplicableStops(s)
                                  THEN [s.stop[c] EXCEPT !.status = "applied"] ELSE s.stop[c]]
           fc == [c \in Cmd |->
                   IF c \in ApplicableStops(s) THEN [s.cmd[c] EXCEPT !.terminal = "Completed"]
                   ELSE IF c \in RecoverableCommands(s) \ {ContinuationCommand(s)}
                     THEN [s.cmd[c] EXCEPT !.terminal = "Cancelled"]
                     ELSE s.cmd[c]]
<1>1. /\ s.turn \in [Turn -> TurnRecord] /\ s.run \in [Run -> RunRecord]
      /\ s.stop \in [Cmd -> StopRecord] /\ s.cmd \in [Cmd -> Command]
  BY StateFields
<1>2. ft \in [Turn -> TurnRecord]
  BY <1>1 DEF TurnRecord
<1>3. fr \in [Run -> RunRecord]
  BY <1>1 DEF RunRecord
<1>4. fs \in [Cmd -> StopRecord]
  BY <1>1 DEF StopRecord
<1>5. fc \in [Cmd -> Command]
  BY <1>1 DEF Command
<1>6. ClosedByRecovery(s) = [s EXCEPT !.turn = ft, !.run = fr, !.stop = fs, !.cmd = fc]
  BY DEF ClosedByRecovery
<1> HIDE DEF ft, fr, fs, fc
<1>7. [s EXCEPT !.turn = ft] \in State
  BY <1>2, StateUpdate
<1>8. [[s EXCEPT !.turn = ft] EXCEPT !.run = fr] \in State
  BY <1>3, <1>7, StateUpdate
<1>9. [[[s EXCEPT !.turn = ft] EXCEPT !.run = fr] EXCEPT !.stop = fs] \in State
  BY <1>4, <1>8, StateUpdate
<1>10. [[[[s EXCEPT !.turn = ft] EXCEPT !.run = fr] EXCEPT !.stop = fs] EXCEPT !.cmd = fc]
         \in State
  BY <1>5, <1>9, StateUpdate
<1>11. /\ ClosedByRecovery(s).ncmd = s.ncmd
       /\ ClosedByRecovery(s).nrun = s.nrun
  BY <1>6 DEF State
<1> QED BY <1>6, <1>10, <1>11

\* A recovery batch keeps the state well formed, whichever way it resolves the continuation.
LEMMA RecoveryBatchType ==
  ASSUME NEW s \in State, s.ncmd < MaxCmd, s.nrun < MaxRun, NEW deferred \in BOOLEAN
  PROVE  RecoveryBatch(s, deferred) \in State
<1> DEFINE paused == PendingMessagesPaused(ClosedByRecovery(s), RecoveryPauses(s))
           resumed == IF RecoveryResumes(s) = {} THEN paused
                      ELSE CommandAdmitted(paused, "resume", RecoveryResumes(s))
<1>1. paused \in State
  BY ClosedByRecoveryType, PendingMessagesPausedType
<1>2. paused.ncmd < MaxCmd /\ paused.nrun = s.nrun
  BY ClosedByRecoveryType DEF PendingMessagesPaused, State
<1>3. RecoveryResumes(s) \in SUBSET Cmd /\ "resume" \in Kinds
  BY QueueTypes DEF RecoveryResumes, Kinds
<1>4. CommandAdmitted(paused, "resume", RecoveryResumes(s)) \in State
  <2> HIDE DEF paused
  <2> QED BY <1>1, <1>2, <1>3, CommandAdmittedType
<1>5. CommandAdmitted(paused, "resume", RecoveryResumes(s)).nrun = s.nrun
  <2> HIDE DEF paused
  <2> QED BY <1>1, <1>2 DEF CommandAdmitted, State
<1>6. resumed \in State /\ resumed.nrun < MaxRun
  <2> HIDE DEF paused
  <2> QED BY <1>1, <1>2, <1>4, <1>5
<1>7. ContinuationCommand(s) = 0 => RecoveryBatch(s, deferred) = resumed
  BY DEF RecoveryBatch
<1>8. ContinuationCommand(s) # 0 /\ deferred =>
        RecoveryBatch(s, deferred) =
          RunSchedulingRequested(resumed, "Recovery", ContinuationCommand(s),
                                 ContinuationRun(s), ContinuationInputs(s))
  BY DEF RecoveryBatch
<1>9. ContinuationCommand(s) # 0 /\ ~deferred =>
        RecoveryBatch(s, deferred) = RunStarted(resumed, s.run[ContinuationRun(s)].of)
  BY DEF RecoveryBatch
<1> HIDE DEF resumed
<1>10. CASE ContinuationCommand(s) = 0
  BY <1>6, <1>7, <1>10
<1>11. CASE ContinuationCommand(s) # 0 /\ deferred
  <2>1. ContinuationCommand(s) \in Cmd /\ ContinuationRun(s) \in Run
    BY <1>11, ContinuationType DEF OpenRuns
  <2> QED BY <1>6, <1>8, <1>11, <2>1, ContinuationType, RunSchedulingRequestedType
<1>12. CASE ContinuationCommand(s) # 0 /\ ~deferred
  <2>1. s.run \in [Run -> RunRecord] /\ ContinuationRun(s) \in Run
    BY <1>12, ContinuationType, StateFields DEF OpenRuns
  <2>2. s.run[ContinuationRun(s)].of \in SUBSET Cmd
    BY <2>1 DEF RunRecord
  <2> QED BY <1>6, <1>9, <1>12, <2>2, RunStartedType
<1> QED BY <1>10, <1>11, <1>12


-----------------------------------------------------------------------------
(* Types.                                                                  *)

\* A place of the control fiber that TypeOK allows.
Allowed(p) == p \in PlaceType(Positions) /\ (p.at \in Starting => p.cmd # 0)

LEMMA PlaceAllowed ==
  ASSUME NEW at \in Positions, NEW c \in Cmd \cup {0}, NEW a \in Cmd \cup {0},
         NEW r \in Run \cup {0}, NEW msgs \in SUBSET Cmd,
         at \in Starting => c # 0
  PROVE  Allowed(Place(at, c, a, r, msgs))
BY DEF Allowed, PlaceType, Place

LEMMA FreeAllowed ==
  ASSUME NEW at \in Positions \ Starting
  PROVE  Allowed(Free(at))
BY PlaceAllowed DEF Free

\* A step of the control fiber is well typed if what it assigns is.
LEMMA ControlStepType ==
  ASSUME TypeOK, st' \in State, exec' \in ExecType, wakeup' \in BOOLEAN, Allowed(ctl'),
         UnchangedByControl
  PROVE  TypeOK'
BY DEF TypeOK, Allowed, UnchangedByControl, external, bounds

LEMMA ExecTypes ==
  ASSUME TypeOK
  PROVE  /\ NoExec \in ExecType /\ Observed \in ExecType
         /\ exec.cmd \in Cmd \cup {0} /\ exec.run \in Run \cup {0} /\ exec.turn \in Turn \cup {0}
<1>1. exec \in ExecType
  BY DEF TypeOK
<1>2. NoExec \in ExecType
  BY DEF NoExec, ExecType
<1>3. Observed \in ExecType
  BY <1>1 DEF Observed, ExecType
<1> QED BY <1>1, <1>2, <1>3 DEF ExecType

LEMMA ChosenType ==
  ASSUME TypeOK
  PROVE  /\ Chosen \in Cmd \cup {0}
         /\ ChosenKind # "none" => Chosen \in Cmd /\ Chosen # 0
<1>1. st \in State
  BY DEF TypeOK
<1>2. Chosen \in Cmd \cup {0}
  BY <1>1, ControlChoices, QueueTypes DEF Chosen
<1> QED BY <1>2 DEF ChosenKind

LEMMA CtlFields ==
  ASSUME TypeOK
  PROVE  /\ ctl.cmd \in Cmd \cup {0} /\ ctl.active \in Cmd \cup {0}
         /\ ctl.run \in Run \cup {0} /\ ctl.msgs \in SUBSET Cmd /\ ctl.at \in Positions
         /\ ctl.at \in Starting => ctl.cmd \in Cmd /\ ctl.cmd # 0
BY DEF TypeOK, PlaceType

LEMMA InitType == Init => TypeOK
<1> SUFFICES ASSUME Init PROVE TypeOK
  OBVIOUS
<1>1. Free("boot") \in PlaceType(Positions) /\ Free("boot").at \notin Starting
  BY DEF Free, Place, PlaceType, Positions, Starting
<1>2. NoGrant \in PlaceType({"none", "turn"})
  BY DEF NoGrant, Free, Place, PlaceType
<1>3. NoExec \in ExecType
  BY DEF NoExec, ExecType
<1> QED BY <1>1, <1>2, <1>3, InitialStateType DEF Init, TypeOK

-----------------------------------------------------------------------------
(* Admission.                                                              *)

LEMMA AdmitType ==
  ASSUME TypeOK, NEW s1 \in State, Admit(s1)
  PROVE  TypeOK'
BY DEF TypeOK, Admit, external

LEMMA PausedQueueClearedType ==
  ASSUME NEW s \in State
  PROVE  PausedQueueCleared(s) \in State
<1> DEFINE fm == [m \in Cmd |-> IF m \in PausedQueue(s)
                                  THEN [s.msg[m] EXCEPT !.cancelled = TRUE] ELSE s.msg[m]]
           fc == [c \in Cmd |-> IF c \in PausedQueue(s) \cap PendingCommands(s)
                                  THEN [s.cmd[c] EXCEPT !.terminal = "Cancelled"] ELSE s.cmd[c]]
<1>1. s.msg \in [Cmd -> Message] /\ s.cmd \in [Cmd -> Command]
  BY StateFields
<1>2. fm \in [Cmd -> Message]
  BY <1>1 DEF Message
<1>3. fc \in [Cmd -> Command]
  BY <1>1 DEF Command
<1>4. PausedQueueCleared(s) = [[s EXCEPT !.msg = fm] EXCEPT !.cmd = fc]
  BY DEF PausedQueueCleared
<1> HIDE DEF fm, fc
<1>5. [s EXCEPT !.msg = fm] \in State
  BY <1>2, StateUpdate
<1> QED BY <1>3, <1>4, <1>5, StateUpdate

LEMMA SubmitAdmittedType ==
  ASSUME NEW s \in State, s.ncmd < MaxCmd, NEW d \in {"queue", "steer"}, NEW clear \in BOOLEAN
  PROVE  SubmitAdmitted(s, d, clear) \in State
<1>1. CommandAdmitted(s, d, {}) \in State
  BY CommandAdmittedType DEF Kinds, Submits
<1> QED BY <1>1, PausedQueueClearedType, UserMessageSubmittedType DEF SubmitAdmitted

LEMMA AdmissionType ==
  ASSUME TypeOK, Admission
  PROVE  TypeOK'
<1>1. st \in State /\ st.ncmd \in Nat /\ MaxCmd \in Nat
  BY StateFields, BoundsAssumption DEF TypeOK
<1>2. CASE AdmitSubmit
  <2>1. PICK d \in {"queue", "steer"}, clear \in BOOLEAN : Admit(SubmitAdmitted(st, d, clear))
    BY <1>2 DEF AdmitSubmit
  <2>2. st.ncmd < MaxCmd
    BY <1>1, <2>1 DEF Admit
  <2> QED BY <1>1, <2>1, <2>2, SubmitAdmittedType, AdmitType
<1>3. CASE AdmitControl
  <2>1. PICK k \in {"interrupt", "stop"} : Admit(CommandAdmitted(st, k, {}))
    BY <1>3 DEF AdmitControl
  <2>2. CommandAdmitted(st, k, {}) \in State
    BY <1>1, <2>1, CommandAdmittedType DEF Admit, Kinds, Submits
  <2> QED BY <2>1, <2>2, AdmitType
<1>4. CASE AdmitTargeted
  <2>1. PICK k \in {"cancel", "promote"}, m \in Cmd : Admit(CommandAdmitted(st, k, {m}))
    BY <1>4 DEF AdmitTargeted, KnownMessages
  <2>2. CommandAdmitted(st, k, {m}) \in State
    BY <1>1, <2>1, CommandAdmittedType DEF Admit, Kinds, Submits
  <2> QED BY <2>1, <2>2, AdmitType
<1>5. CASE AdmitStopAndResume
  <2>1. PICK m \in Cmd :
          Admit(CommandAdmitted(CommandAdmitted(st, "stop", {}), "resume", {m}))
    BY <1>1, <1>5, QueueTypes DEF AdmitStopAndResume
  <2>2. CommandAdmitted(st, "stop", {}) \in State
    BY <1>1, <2>1, CommandAdmittedType DEF Admit, Kinds
  <2>3. CommandAdmitted(st, "stop", {}).ncmd < MaxCmd
    <3>1. CommandAdmitted(st, "stop", {}).ncmd = st.ncmd + 1
      BY <1>1 DEF CommandAdmitted, State
    <3>2. st.ncmd < MaxCmd - 1
      BY <2>1 DEF Admit
    <3> QED BY <1>1, <3>1, <3>2
  <2>4. CommandAdmitted(CommandAdmitted(st, "stop", {}), "resume", {m}) \in State
    BY <2>2, <2>3, CommandAdmittedType DEF Kinds
  <2> QED BY <2>1, <2>4, AdmitType
<1> QED BY <1>2, <1>3, <1>4, <1>5 DEF Admission

-----------------------------------------------------------------------------
(* The control fiber, one lemma per action or group of actions.            *)

LEMMA HydrateType == TypeOK /\ Hydrate => TypeOK'
<1> SUFFICES ASSUME TypeOK, Hydrate PROVE TypeOK'
  OBVIOUS
<1>1. Allowed(ctl')
  BY FreeAllowed DEF Hydrate, Goto, Positions, Ungated, Starting
<1>2. wakeup' \in BOOLEAN
  BY DEF Hydrate, Undelivered
<1> QED BY <1>1, <1>2, ControlStepType DEF Hydrate, TypeOK

LEMMA RecoverType == TypeOK /\ Recover => TypeOK'
<1> SUFFICES ASSUME TypeOK, Recover PROVE TypeOK'
  OBVIOUS
<1> DEFINE s1 == RecoveryBatch(st, Deferred)
           c == ContinuationCommand(st)
<1>1. st \in State /\ st.ncmd < MaxCmd /\ st.nrun < MaxRun
  BY DEF TypeOK, Recover
<1>2. s1 \in State
  BY <1>1, RecoveryBatchType, IngressAssumption
<1>3. st' = s1 /\ UnchangedByControl /\ exec' = exec
  BY DEF Recover
<1>4. wakeup' \in BOOLEAN
  BY DEF Recover, TypeOK
<1>5. Allowed(Free("dead")) /\ Allowed(Free("ready"))
  BY FreeAllowed DEF Positions, Starting, Ungated
<1>6. Allowed(Place("recovered", c, c, s1.nrun, ContinuationInputs(st)))
        \/ ~(c # 0 /\ ~Deferred)
  <2>1. s1.nrun \in Run \cup {0}
    BY <1>2, StateFields DEF Run
  <2>2. c \in Cmd \cup {0} /\ ContinuationInputs(st) \in SUBSET Cmd
    BY <1>1, ContinuationType
  <2> HIDE DEF c, s1
  <2> QED BY <2>1, <2>2, PlaceAllowed DEF Positions, Starting
<1>7. Allowed(ctl')
  BY <1>5, <1>6 DEF Recover, Goto
<1> QED BY <1>2, <1>3, <1>4, <1>7, ControlStepType DEF TypeOK

LEMMA ResumeRecoveredType == TypeOK /\ ResumeRecovered => TypeOK'
<1> SUFFICES ASSUME TypeOK, ResumeRecovered PROVE TypeOK'
  OBVIOUS
<1> DEFINE ms == {m \in ctl.msgs : Unconsumed(st, m)}
<1>1. ms \in SUBSET Cmd
  BY CtlFields
<1>2. Allowed(Place("turn", ctl.cmd, ctl.cmd, ctl.run, ms))
  <2> HIDE DEF ms
  <2> QED BY <1>1, CtlFields, PlaceAllowed DEF Positions, Starting
<1>3. Allowed(ctl')
  BY <1>2 DEF ResumeRecovered, Goto, TurnPlace
<1> QED BY <1>3, ControlStepType DEF ResumeRecovered, TypeOK

LEMMA StartTurnType == TypeOK /\ StartTurn => TypeOK'
<1> SUFFICES ASSUME TypeOK, StartTurn PROVE TypeOK'
  OBVIOUS
<1>1. st \in State /\ st.nturn < MaxTurn
  BY DEF TypeOK, StartTurn
<1>2. st' \in State
  BY <1>1, CtlFields, TurnStartedType DEF StartTurn
<1>3. st.nturn + 1 \in Turn
  BY <1>1, StateFields, BoundsAssumption DEF Turn
<1>4. exec' \in ExecType
  BY <1>3, CtlFields DEF StartTurn, Running, ExecType
<1>5. Allowed(ctl')
  BY FreeAllowed DEF StartTurn, Goto, Positions, Ungated, Starting
<1> QED BY <1>2, <1>4, <1>5, ControlStepType DEF StartTurn, TypeOK

LEMMA StartSubmitType == TypeOK /\ StartSubmit => TypeOK'
<1> SUFFICES ASSUME TypeOK, StartSubmit PROVE TypeOK'
  OBVIOUS
<1> DEFINE c  == ctl.cmd
           s1 == CommandStarted(st, c)
           s2 == IF st.msg[c].known THEN s1 ELSE UserMessageCommitted(s1, c)
<1>1. st \in State /\ st.nrun < MaxRun /\ c \in Cmd
  BY CtlFields DEF TypeOK, StartSubmit, Starting
<1>2. s1 \in State /\ s1.nrun = st.nrun
  BY <1>1, CommandStartedType DEF CommandStarted, State
<1>3. s2 \in State /\ s2.nrun = st.nrun
  <2>1. UserMessageCommitted(s1, c) \in State /\ UserMessageCommitted(s1, c).nrun = s1.nrun
    <3> HIDE DEF s1
    <3> QED BY <1>2, UserMessageCommittedType
            DEF UserMessageCommitted, UserMessageSubmitted, State
  <2> HIDE DEF s1
  <2> QED BY <1>2, <2>1
<1>4. st' = RunStarted(s2, {c})
  BY DEF StartSubmit
<1>5. st' \in State
  <2> HIDE DEF s2, c
  <2> QED BY <1>1, <1>3, <1>4, RunStartedType
<1>6. st.nrun + 1 \in Run
  BY <1>1, StateFields, BoundsAssumption DEF Run
<1>7. Allowed(Place("turn", c, c, st.nrun + 1, {c}))
  <2> HIDE DEF c
  <2> QED BY <1>1, <1>6, PlaceAllowed DEF Positions, Starting
<1>8. Allowed(ctl')
  BY <1>7 DEF StartSubmit, Goto, TurnPlace
<1> QED BY <1>5, <1>8, ControlStepType DEF StartSubmit, TypeOK

LEMMA StartResumeType == TypeOK /\ StartResume => TypeOK'
<1> SUFFICES ASSUME TypeOK, StartResume PROVE TypeOK'
  OBVIOUS
<1> DEFINE s1 == CommandStarted(st, ctl.cmd)
<1>1. st \in State /\ st.nrun < MaxRun /\ ctl.cmd \in Cmd /\ ctl.msgs \in SUBSET Cmd
  BY CtlFields DEF TypeOK, StartResume, Starting
<1>2. s1 \in State /\ s1.nrun = st.nrun
  BY <1>1, CommandStartedType DEF CommandStarted, State
<1>3. st' = RunStarted(s1, {ctl.cmd} \cup ctl.msgs)
  BY DEF StartResume
<1>4. st' \in State
  <2> HIDE DEF s1
  <2> QED BY <1>1, <1>2, <1>3, RunStartedType
<1>5. st.nrun + 1 \in Run
  BY <1>1, StateFields, BoundsAssumption DEF Run
<1>6. Allowed(Place("turn", ctl.cmd, ctl.cmd, st.nrun + 1, ctl.msgs))
  BY <1>1, <1>5, PlaceAllowed DEF Positions, Starting
<1>7. Allowed(ctl')
  BY <1>6 DEF StartResume, Goto, TurnPlace
<1> QED BY <1>4, <1>7, ControlStepType DEF StartResume, TypeOK

LEMMA DeferralType == TypeOK /\ (SetWakeup \/ Defer) => TypeOK'
<1>1. ASSUME TypeOK, SetWakeup PROVE TypeOK'
  <2>1. ctl.cmd \in Cmd /\ ctl.cmd # 0
    BY <1>1, CtlFields DEF SetWakeup, Starting
  <2>2. Allowed(Place("defer", ctl.cmd, 0, 0, {}))
    BY <2>1, PlaceAllowed DEF Positions, Starting
  <2> QED BY <1>1, <2>2, ControlStepType DEF SetWakeup, Goto, TypeOK
<1>2. ASSUME TypeOK, Defer PROVE TypeOK'
  <2>1. ctl.cmd \in Cmd /\ st \in State
    BY <1>2, CtlFields DEF Defer, Starting, TypeOK
  <2>2. st' \in State
    BY <1>2, <2>1, RunSchedulingRequestedType DEF Defer
  <2>3. Allowed(ctl')
    BY <1>2, FreeAllowed DEF Defer, Goto, Positions, Ungated, Starting
  <2> QED BY <1>2, <2>2, <2>3, ControlStepType DEF Defer, TypeOK
<1> QED BY <1>1, <1>2

LEMMA DrainDeadFiberType == TypeOK /\ (DrainDefect \/ DrainInterrupted) => TypeOK'
<1>1. ASSUME TypeOK PROVE st \in State /\ MessagesToResume(st) \in SUBSET Cmd
  BY <1>1, QueueTypes DEF TypeOK
<1>2. ASSUME TypeOK, NEW at \in {"failRun", "cancelRun"}
      PROVE  Allowed(Place(at, 0, exec.cmd, exec.run, MessagesToResume(st)))
  BY <1>1, <1>2, ExecTypes, PlaceAllowed DEF Positions, Starting
<1>3. ASSUME TypeOK, DrainDefect PROVE TypeOK'
  <2>1. Allowed(ctl')
    BY <1>2, <1>3 DEF DrainDefect, Goto
  <2> QED BY <1>3, <2>1, ExecTypes, ControlStepType DEF DrainDefect, TypeOK
<1>4. ASSUME TypeOK, DrainInterrupted PROVE TypeOK'
  <2>1. Allowed(ctl')
    BY <1>2, <1>4 DEF DrainInterrupted, Goto
  <2>2. st' \in State
    BY <1>1, <1>4, TurnTerminalType DEF DrainInterrupted
  <2> QED BY <1>4, <2>1, <2>2, ExecTypes, ControlStepType DEF DrainInterrupted, TypeOK
<1> QED BY <1>3, <1>4

\* A guarded control that commits its CommandStarted and goes on to an allowed place.
LEMMA BeginType ==
  ASSUME TypeOK, NEW c, NEW p, Allowed(p), Begin(c, p), wakeup' \in BOOLEAN
  PROVE  TypeOK'
<1>1. st' \in State /\ exec' \in ExecType
  BY CommandStartedType, ExecTypes DEF Begin, TypeOK
<1> QED BY <1>1, ControlStepType DEF Begin, Goto

LEMMA DrainControlType ==
  TypeOK /\ (DrainCancel \/ DrainPromote \/ DrainStop \/ DrainSteer) => TypeOK'
<1>1. ASSUME TypeOK PROVE \A c \in Cmd : st.cmd[c].targets \in SUBSET Cmd
  BY <1>1, StateFields DEF TypeOK, Command
<1>2. ASSUME TypeOK, ChosenKind # "none"
      PROVE  /\ Chosen \in Cmd
             /\ Allowed(Place("failControl", Chosen, 0, 0, {}))
             /\ Allowed(Place("steer", Chosen, 0, 0, {}))
             /\ Allowed(Place("cancel", Chosen, 0, 0, UnstartedOrigin(Chosen)))
             /\ Allowed(Place("promote", Chosen, 0, 0,
                              {k \in st.cmd[Chosen].targets : PromotionNeedsResume(st, k)}))
             /\ Allowed(Place("stopRequest", Chosen, exec.cmd, exec.run, {}))
  <2>1. Chosen \in Cmd /\ Chosen # 0
    BY <1>2, ChosenType
  <2>2. UnstartedOrigin(Chosen) \in SUBSET Cmd
    BY <1>1, <1>2, <2>1 DEF UnstartedOrigin
  <2>3. {k \in st.cmd[Chosen].targets : PromotionNeedsResume(st, k)} \in SUBSET Cmd
    BY <1>1, <1>2, <2>1
  <2>4. exec.cmd \in Cmd \cup {0} /\ exec.run \in Run \cup {0}
    BY <1>2, ExecTypes
  <2> QED BY <2>1, <2>2, <2>3, <2>4, PlaceAllowed DEF Positions, Starting
<1>3. ASSUME TypeOK, DrainCancel PROVE TypeOK'
  <2>1. PICK p \in {Place("failControl", Chosen, 0, 0, {}),
                    Place("cancel", Chosen, 0, 0, UnstartedOrigin(Chosen))} : Begin(Chosen, p)
    BY <1>3 DEF DrainCancel
  <2>2. wakeup' \in BOOLEAN
    BY <1>3 DEF DrainCancel, TypeOK
  <2> QED BY <1>2, <1>3, <2>1, <2>2, BeginType DEF DrainCancel
<1>4. ASSUME TypeOK, DrainPromote PROVE TypeOK'
  <2>1. PICK p \in {Place("failControl", Chosen, 0, 0, {}),
                    Place("promote", Chosen, 0, 0,
                          {k \in st.cmd[Chosen].targets : PromotionNeedsResume(st, k)})} :
               Begin(Chosen, p)
    BY <1>4 DEF DrainPromote
  <2>2. wakeup' \in BOOLEAN
    BY <1>4 DEF DrainPromote, TypeOK
  <2> QED BY <1>2, <1>4, <2>1, <2>2, BeginType DEF DrainPromote
<1>5. ASSUME TypeOK, DrainStop PROVE TypeOK'
  BY <1>2, <1>5, BeginType DEF DrainStop, TypeOK
<1>6. ASSUME TypeOK, DrainSteer PROVE TypeOK'
  BY <1>2, <1>6, BeginType DEF DrainSteer, TypeOK
<1> QED BY <1>3, <1>4, <1>5, <1>6

LEMMA DrainDecisionType ==
  TypeOK /\ (DrainInterrupt \/ DrainNothing \/ DrainWaiting) => TypeOK'
<1>1. ASSUME TypeOK PROVE st \in State /\ MessagesToPause(st) \in SUBSET Cmd
  BY <1>1, QueueTypes DEF TypeOK
<1>2. ASSUME TypeOK, DrainInterrupt PROVE TypeOK'
  <2>1. Chosen \in Cmd /\ Chosen # 0
    BY <1>2, ChosenType DEF DrainInterrupt
  <2>2. Allowed(Place("interruption", Chosen, exec.cmd, exec.run, MessagesToPause(st)))
    BY <1>1, <1>2, <2>1, ExecTypes, PlaceAllowed DEF Positions, Starting
  <2> QED BY <1>2, <2>2, ExecTypes, ControlStepType DEF DrainInterrupt, Goto, TypeOK
<1>3. ASSUME TypeOK, DrainNothing PROVE TypeOK'
  <2>1. Allowed(Place("boundary", 0, exec.cmd, exec.run, {}))
    BY <1>3, ExecTypes, PlaceAllowed DEF Positions, Starting
  <2>2. Allowed(Free("park"))
    BY FreeAllowed DEF Positions, Ungated, Starting
  <2>3. Allowed(ctl')
    BY <1>3, <2>1, <2>2 DEF DrainNothing, Goto
  <2> QED BY <1>3, <2>3, ExecTypes, ControlStepType DEF DrainNothing, TypeOK
<1>4. ASSUME TypeOK, DrainWaiting PROVE TypeOK'
  <2>1. Chosen \in Cmd /\ Chosen # 0
    BY <1>4, ChosenType DEF DrainWaiting
  <2>2. MessagesToPause(st) \ {Chosen} \in SUBSET Cmd
    BY <1>1, <1>4
  <2>3. Allowed(Place("closeWaiting", Chosen, 0, 0, MessagesToPause(st) \ {Chosen}))
    BY <2>1, <2>2, PlaceAllowed DEF Positions, Starting
  <2> QED BY <1>4, <2>3, ControlStepType DEF DrainWaiting, Goto, TypeOK
<1> QED BY <1>2, <1>3, <1>4

LEMMA IdleDrainType == TypeOK /\ (DrainInactiveStop \/ DrainStart) => TypeOK'
<1>1. ASSUME TypeOK, DrainInactiveStop PROVE TypeOK'
  <2>1. Chosen \in Cmd
    BY <1>1, ChosenType DEF DrainInactiveStop
  <2>2. Allowed(Place("inactiveStop", Chosen, 0, 0, {}))
    BY <2>1, PlaceAllowed DEF Positions, Starting
  <2> QED BY <1>1, <2>2, BeginType DEF DrainInactiveStop, TypeOK
<1>2. ASSUME TypeOK, DrainStart PROVE TypeOK'
  <2> DEFINE c == NextIdle(st)
             pending == {m \in st.cmd[c].targets : Unconsumed(st, m)}
  <2>1. st \in State /\ exec \in ExecType /\ wakeup \in BOOLEAN
    BY <1>2 DEF TypeOK
  <2>2. c \in Cmd \cup {0, Orphaned}
    BY <2>1, NextIdleType, QueueTypes
  <2>3. st' \in State
    BY <1>2, <2>1, CommandStartedType DEF DrainStart
  <2>4. Allowed(Free("dead")) /\ Allowed(Free("park"))
    BY FreeAllowed DEF Positions, Ungated, Starting
  <2>5. ASSUME c \in Cmd
        PROVE  /\ Allowed(Place("start", c, 0, 0, {}))
               /\ Allowed(Place("startResume", c, 0, 0, pending))
               /\ Allowed(Place("inactiveStop", c, 0, 0, {}))
    <3>1. pending \in SUBSET Cmd
      BY <2>1, <2>5, StateFields DEF Command
    <3>2. c # 0
      BY <2>5, BoundsAssumption DEF Cmd
    <3> HIDE DEF c, pending
    <3> QED BY <2>5, <3>1, <3>2, PlaceAllowed DEF Positions, Starting
  <2>6. Allowed(ctl')
    <3>1. ctl' = IF ActiveCommand(st) # 0 \/ c = Orphaned THEN Free("dead")
                 ELSE IF c = 0 THEN Free("park")
                 ELSE IF st.cmd[c].kind # "resume" THEN Place("start", c, 0, 0, {})
                 ELSE IF pending # {} THEN Place("startResume", c, 0, 0, pending)
                 ELSE Place("inactiveStop", c, 0, 0, {})
      BY <1>2 DEF DrainStart, Goto
    <3> HIDE DEF c, pending
    <3> QED BY <2>2, <2>4, <2>5, <3>1
  <2> QED BY <1>2, <2>1, <2>3, <2>6, ControlStepType DEF DrainStart
<1> QED BY <1>1, <1>2

\* An append that ends a drain's work and goes on to an allowed place.
LEMMA FinishType ==
  ASSUME TypeOK, NEW s1 \in State, NEW p, Allowed(p), Finish(s1, p),
         exec' \in ExecType, wakeup' \in BOOLEAN
  PROVE  TypeOK'
BY ControlStepType DEF Finish, Goto

LEMMA FinishControlType ==
  TypeOK /\ (CompleteSteer \/ FailControl \/ CancelInactiveStop) => TypeOK'
<1> SUFFICES ASSUME TypeOK, CompleteSteer \/ FailControl \/ CancelInactiveStop PROVE TypeOK'
  OBVIOUS
<1>1. st \in State /\ exec \in ExecType /\ wakeup \in BOOLEAN
  BY DEF TypeOK
<1>2. PICK outcome \in {"Completed", "Failed", "Cancelled"} :
        Finish(CommandTerminal(st, ctl.cmd, outcome), Free("ready"))
        /\ exec' = exec /\ wakeup' = wakeup
  BY DEF CompleteSteer, FailControl, CancelInactiveStop
<1>3. Allowed(Free("ready"))
  BY FreeAllowed DEF Positions, Ungated, Starting
<1> QED BY <1>1, <1>2, <1>3, CommandTerminalType, FinishType

\* The inputs a reservation can still start with are messages.
LEMMA RequestInputsType ==
  ASSUME NEW s \in State
  PROVE  /\ s.req.id # 0 => RequestInputs(s) \in SUBSET Cmd /\ s.req.cmd \in Cmd
         /\ s.req.id # 0 /\ s.req.work = "Recovery" => s.req.run \in Run
         /\ s.req.work \in {"Command", "Recovery"}
<1>1. s.req \in Request \cup {NoRequest} /\ s.cmd \in [Cmd -> Command]
  BY StateFields
<1>2. s.req.id # 0 => s.req \in Request
  BY <1>1 DEF NoRequest
<1>3. s.req.id # 0 => s.req.cmd \in Cmd /\ s.req.inputs \in SUBSET Cmd
  BY <1>2 DEF Request
<1>4. s.req.id # 0 /\ s.req.work = "Recovery" => s.req.run \in Run
  BY <1>2 DEF Request
<1>5. s.req.work \in {"Command", "Recovery"}
  BY <1>1 DEF Request, NoRequest
<1>6. s.req.id # 0 => s.cmd[s.req.cmd].targets \in SUBSET Cmd
  BY <1>1, <1>3 DEF Command
<1>7. s.req.id # 0 => RequestInputs(s) \in SUBSET Cmd
  BY <1>3, <1>6 DEF RequestInputs
<1> QED BY <1>3, <1>4, <1>5, <1>7

LEMMA ReservationWithoutType ==
  ASSUME NEW s \in State, NEW m
  PROVE  ReservationWithout(s, m) \in State
<1> DEFINE rest == RequestInputs(s) \ {m}
           closed == RunSchedulingClosed(s, s.req.id)
<1>1. closed \in State
  BY RunSchedulingClosedType
<1>2. CommandTerminal(closed, s.req.cmd, "Cancelled") \in State
  <2> HIDE DEF closed
  <2> QED BY <1>1, CommandTerminalType
<1>3. s.req.id # 0 /\ s.req.work = "Recovery" =>
        RunSchedulingRequested(s, "Recovery", s.req.cmd, s.req.run, rest) \in State
  <2>1. s.req.id # 0 => rest \in SUBSET Cmd /\ s.req.cmd \in Cmd
    BY RequestInputsType
  <2> HIDE DEF rest
  <2> QED BY <2>1, RequestInputsType, RunSchedulingRequestedType
<1>4. ReservationWithout(s, m) =
        IF s.req.id = 0 \/ m \notin RequestInputs(s) THEN s
        ELSE IF s.req.work = "Command" THEN closed
        ELSE IF rest = {} THEN CommandTerminal(closed, s.req.cmd, "Cancelled")
        ELSE RunSchedulingRequested(s, "Recovery", s.req.cmd, s.req.run, rest)
  BY DEF ReservationWithout
<1>5. s.req.work \in {"Command", "Recovery"}
  BY RequestInputsType
<1> HIDE DEF rest, closed
<1> QED BY <1>1, <1>2, <1>3, <1>4, <1>5

LEMMA CommitCancelType == TypeOK /\ CommitCancel => TypeOK'
<1> SUFFICES ASSUME TypeOK, CommitCancel PROVE TypeOK'
  OBVIOUS
<1> DEFINE m == Target(ctl.cmd)
           s1 == ReservationWithout(st, m)
           s2 == UserMessageCancelled(s1, m)
           s3 == IF ctl.msgs = {} THEN s2 ELSE CommandTerminal(s2, m, "Cancelled")
           s4 == CommandTerminal(s3, ctl.cmd, "Completed")
<1>1. st \in State /\ exec \in ExecType /\ wakeup \in BOOLEAN
  BY DEF TypeOK
<1>2. s1 \in State
  BY <1>1, ReservationWithoutType
<1>3. s2 \in State
  <2> HIDE DEF s1
  <2> QED BY <1>2, UserMessageCancelledType
<1>4. s3 \in State
  <2> HIDE DEF s2
  <2> QED BY <1>3, CommandTerminalType
<1>5. s4 \in State
  <2> HIDE DEF s3
  <2> QED BY <1>4, CommandTerminalType
<1>6. Finish(s4, Free("ready")) /\ exec' = exec
  BY DEF CommitCancel
<1>7. wakeup' \in BOOLEAN
  BY <1>1 DEF CommitCancel, StillReserved
<1>8. Allowed(Free("ready"))
  BY FreeAllowed DEF Positions, Ungated, Starting
<1> HIDE DEF s4
<1> QED BY <1>1, <1>5, <1>6, <1>7, <1>8, FinishType

LEMMA CommitPromoteType == TypeOK /\ CommitPromote => TypeOK'
<1> SUFFICES ASSUME TypeOK, CommitPromote PROVE TypeOK'
  OBVIOUS
<1> DEFINE s1 == UserMessagePromoted(st, Target(ctl.cmd))
           s2 == IF ctl.msgs = {} THEN s1 ELSE CommandAdmitted(s1, "resume", ctl.msgs)
           s3 == CommandTerminal(s2, ctl.cmd, "Completed")
<1>1. st \in State /\ exec \in ExecType /\ wakeup \in BOOLEAN /\ ctl.msgs \in SUBSET Cmd
  BY CtlFields DEF TypeOK
<1>2. s1 \in State /\ s1.ncmd = st.ncmd
  BY <1>1, UserMessagePromotedType DEF UserMessagePromoted, State
<1>3. s2 \in State
  <2> HIDE DEF s1
  <2> QED BY <1>1, <1>2, CommandAdmittedType DEF CommitPromote, Kinds
<1>4. s3 \in State
  <2> HIDE DEF s2
  <2> QED BY <1>3, CommandTerminalType
<1>5. Finish(s3, Free("ready")) /\ exec' = exec /\ wakeup' = wakeup
  BY DEF CommitPromote
<1>6. Allowed(Free("ready"))
  BY FreeAllowed DEF Positions, Ungated, Starting
<1> HIDE DEF s3
<1> QED BY <1>1, <1>4, <1>5, <1>6, FinishType

LEMMA StopType == TypeOK /\ (RequestStop \/ CloseStoppedTurn \/ ApplyStop) => TypeOK'
<1>1. ASSUME TypeOK
      PROVE  /\ st \in State /\ exec \in ExecType /\ wakeup \in BOOLEAN
             /\ ctl \in PlaceType(Positions) /\ MessagesToPause(st) \in SUBSET Cmd
  BY <1>1, QueueTypes DEF TypeOK
<1>2. ASSUME TypeOK, RequestStop PROVE TypeOK'
  <2> DEFINE r == LastRunOf(st, ctl.active)
             t == IF r = 0 THEN 0 ELSE LastTurnOf(st, r)
             s1 == StopTurnRequested(st, ctl.cmd, IF t = 0 THEN 0 ELSE r, t)
  <2>1. r \in Run \cup {0} /\ t \in Turn \cup {0}
    BY <1>1, <1>2, LastRunAndTurnTypes
  <2>2. s1 \in State
    <3> HIDE DEF t, r
    <3> QED BY <1>1, <1>2, <2>1, StopTurnRequestedType
  <2>3. Allowed([ctl EXCEPT !.at = "stopClose"])
    <3>1. ctl.cmd # 0
      BY <1>2, CtlFields DEF RequestStop, Starting
    <3> QED BY <1>1, <1>2, <3>1 DEF Allowed, PlaceType, Positions
  <2>4. Finish(s1, [ctl EXCEPT !.at = "stopClose"]) /\ exec' = exec /\ wakeup' = wakeup
    BY <1>2 DEF RequestStop
  <2> HIDE DEF s1
  <2> QED BY <1>1, <1>2, <2>2, <2>3, <2>4, FinishType
<1>3. ASSUME TypeOK, CloseStoppedTurn PROVE TypeOK'
  <2>1. ctl.cmd # 0
    BY <1>3, CtlFields DEF CloseStoppedTurn, Starting
  <2>2. Allowed([ctl EXCEPT !.at = "interruption", !.msgs = MessagesToPause(st)])
    BY <1>1, <1>3, <2>1 DEF Allowed, PlaceType, Positions
  <2> QED BY <1>1, <1>3, <2>2, ExecTypes, ControlStepType DEF CloseStoppedTurn, Goto
<1>4. ASSUME TypeOK, ApplyStop PROVE TypeOK'
  <2>1. Allowed(Free("ready"))
    BY FreeAllowed DEF Positions, Ungated, Starting
  <2>2. CommandTerminal(StopTurnApplied(st, ctl.cmd), ctl.cmd, "Completed") \in State
    BY <1>1, <1>4, StopTurnAppliedType, CommandTerminalType
  <2> QED BY <1>1, <1>4, <2>1, <2>2, FinishType DEF ApplyStop
<1> QED BY <1>2, <1>3, <1>4

LEMMA CommitInterruptionType == TypeOK /\ CommitInterruption => TypeOK'
<1> SUFFICES ASSUME TypeOK, CommitInterruption PROVE TypeOK'
  OBVIOUS
<1> DEFINE t  == LastTurnOf(st, ctl.run)
           s1 == IF st.turn[t].status = "open" THEN TurnTerminal(st, t, "Failed", FALSE) ELSE st
           s2 == CommandTerminal(RunTerminal(s1, ctl.run, "Failed"), ctl.active, "Cancelled")
           s3 == PendingMessagesPaused(s2, ctl.msgs)
           p  == IF st.cmd[ctl.cmd].kind = "stop" THEN Place("stopApply", ctl.cmd, 0, 0, {})
                                                  ELSE Place("start", ctl.cmd, 0, 0, {})
<1>1. st \in State /\ exec \in ExecType /\ wakeup \in BOOLEAN
  BY DEF TypeOK
<1>2. s1 \in State
  BY <1>1, TurnTerminalType
<1>3. s2 \in State
  <2> HIDE DEF s1
  <2> QED BY <1>2, RunTerminalType, CommandTerminalType
<1>4. s3 \in State
  <2> HIDE DEF s2
  <2> QED BY <1>3, PendingMessagesPausedType
<1>5. Allowed(p)
  <2>1. ctl.cmd \in Cmd /\ ctl.cmd # 0
    BY CtlFields DEF CommitInterruption, Starting
  <2> QED BY <2>1, PlaceAllowed DEF Positions, Starting
<1>6. Finish(s3, p) /\ exec' = exec /\ wakeup' = wakeup
  BY DEF CommitInterruption
<1> HIDE DEF s3, p
<1> QED BY <1>1, <1>4, <1>5, <1>6, FinishType

LEMMA CloseWaitingRunType == TypeOK /\ CloseWaitingRun => TypeOK'
<1> SUFFICES ASSUME TypeOK, CloseWaitingRun PROVE TypeOK'
  OBVIOUS
<1> DEFINE c == ctl.cmd
           released(s) == CommandTerminal(
                            PendingMessagesPaused(RunSchedulingClosed(s, s.req.id), ctl.msgs),
                            s.req.cmd, "Cancelled")
           s1 == CommandTerminal(released(CommandStarted(st, c)), c, "Completed")
<1>1. st \in State /\ exec \in ExecType
  BY DEF TypeOK
<1>2. ASSUME NEW s \in State PROVE released(s) \in State
  BY <1>2, RunSchedulingClosedType, PendingMessagesPausedType, CommandTerminalType
<1>3. s1 \in State
  <2> HIDE DEF released
  <2> QED BY <1>1, <1>2, CommandStartedType, CommandTerminalType
<1>4. Allowed(Free("ready")) /\ Allowed(Place("start", c, 0, 0, {}))
  <2>1. c \in Cmd /\ c # 0
    BY CtlFields DEF CloseWaitingRun, Starting
  <2> HIDE DEF c
  <2> QED BY <2>1, PlaceAllowed, FreeAllowed DEF Positions, Ungated, Starting
<1>5. Finish(s1, Free("ready")) \/ Finish(released(st), Place("start", c, 0, 0, {}))
  BY DEF CloseWaitingRun
<1>6. exec' = exec /\ wakeup' \in BOOLEAN
  BY DEF CloseWaitingRun
<1> HIDE DEF s1, released, c
<1> QED BY <1>1, <1>2, <1>3, <1>4, <1>5, <1>6, FinishType

LEMMA BoundaryType ==
  TypeOK /\ (DecideBoundary \/ CompleteRun \/ CloseFailedRun) => TypeOK'
<1>1. ASSUME TypeOK
      PROVE  /\ st \in State /\ exec \in ExecType /\ wakeup \in BOOLEAN
             /\ ctl \in PlaceType(Positions) /\ Allowed(Free("ready"))
             /\ MessagesToResume(st) \in SUBSET Cmd /\ PendingSteers(st) \in SUBSET Cmd
  BY <1>1, QueueTypes, FreeAllowed DEF TypeOK, Positions, Ungated, Starting
<1>2. ASSUME TypeOK, DecideBoundary PROVE TypeOK'
  <2>1. Allowed(Place("failRun", 0, ctl.active, ctl.run, MessagesToResume(st)))
    BY <1>1, <1>2, CtlFields, PlaceAllowed DEF Positions, Starting
  <2>2. \A inputs \in SUBSET Cmd : Allowed(TurnPlace(ctl.active, ctl.run, inputs))
    BY <1>2, CtlFields, PlaceAllowed DEF Positions, Starting, TurnPlace
  <2>3. Allowed([ctl EXCEPT !.at = "complete"])
    BY <1>1, <1>2 DEF Allowed, PlaceType, Positions, Starting
  <2>4. Allowed(ctl')
    <3>1. Continuation(st, exec.turn) \in {"steering", "feedback", "complete"}
      BY DEF Continuation
    <3>2. CASE exec.fiber = "failed"
      BY <1>2, <2>1, <3>2 DEF DecideBoundary, Goto
    <3>3. CASE exec.fiber # "failed" /\ Continuation(st, exec.turn) = "steering"
      BY <1>1, <1>2, <2>2, <3>3 DEF DecideBoundary, Goto
    <3>4. CASE exec.fiber # "failed" /\ Continuation(st, exec.turn) = "feedback"
      BY <1>2, <2>2, <3>4 DEF DecideBoundary, Goto
    <3>5. CASE exec.fiber # "failed" /\ Continuation(st, exec.turn) = "complete"
      BY <1>2, <2>3, <3>5 DEF DecideBoundary, Goto
    <3> QED BY <3>1, <3>2, <3>3, <3>4, <3>5
  <2>5. UnchangedByControl /\ UNCHANGED <<st, exec, wakeup>>
    BY <1>2 DEF DecideBoundary
  <2> QED BY <1>1, <1>2, <2>4, <2>5, ControlStepType
<1>3. ASSUME TypeOK, CompleteRun PROVE TypeOK'
  <2>1. CommandTerminal(RunTerminal(st, ctl.run, "Completed"), ctl.active, "Completed") \in State
    BY <1>1, <1>3, RunTerminalType, CommandTerminalType
  <2> QED BY <1>1, <1>3, <2>1, ExecTypes, FinishType DEF CompleteRun
<1>4. ASSUME TypeOK, CloseFailedRun PROVE TypeOK'
  <2> DEFINE outcome == IF ctl.at = "failRun" THEN "Failed" ELSE "Cancelled"
             s0 == RunTerminal(st, ctl.run, "Failed")
             s1 == CommandTerminal(s0, ctl.active, outcome)
             s2 == IF ctl.msgs = {} THEN s1 ELSE CommandAdmitted(s1, "resume", ctl.msgs)
  <2>1. s0 \in State /\ s0.ncmd = st.ncmd
    BY <1>1, <1>4, RunTerminalType DEF RunTerminal, State
  <2>2. s1 \in State /\ s1.ncmd = st.ncmd
    <3> HIDE DEF s0
    <3> QED BY <2>1, CommandTerminalType DEF CommandTerminal, State
  <2>3. s2 \in State
    <3>1. ctl.msgs \in SUBSET Cmd /\ st.ncmd < MaxCmd /\ "resume" \in Kinds
      BY <1>4, CtlFields DEF CloseFailedRun, Kinds
    <3> HIDE DEF s1
    <3> QED BY <2>2, <3>1, CommandAdmittedType
  <2>4. Finish(s2, Free("ready")) /\ exec' = NoExec /\ wakeup' = wakeup
    BY <1>4 DEF CloseFailedRun
  <2> HIDE DEF s2
  <2> QED BY <1>1, <1>4, <2>3, <2>4, ExecTypes, FinishType
<1> QED BY <1>2, <1>3, <1>4

LEMMA WaitingType == TypeOK /\ (Park \/ WakeOnSignal \/ WakeOnExit) => TypeOK'
<1>1. \A at \in Ungated : Allowed(Free(at))
  BY FreeAllowed DEF Positions, Ungated, Starting
<1>2. ASSUME TypeOK, Park PROVE TypeOK'
  <2>1. exec.tag \in {"Idle", "Running", "Completed"} /\ st \in State /\ exec \in ExecType
        /\ wakeup \in BOOLEAN
    BY <1>2 DEF TypeOK, ExecType
  <2>2. Allowed(ctl')
    BY <1>1, <1>2, <2>1 DEF Park, Goto, Ungated
  <2> QED BY <1>2, <2>1, <2>2, ControlStepType DEF Park
<1>3. ASSUME TypeOK, WakeOnSignal PROVE TypeOK'
  <2>1. Allowed(ctl')
    BY <1>1, <1>3 DEF WakeOnSignal, Goto, Ungated
  <2> QED BY <1>3, <2>1 DEF WakeOnSignal, TypeOK, Allowed, external, bounds
<1>4. ASSUME TypeOK, WakeOnExit PROVE TypeOK'
  <2>1. Allowed(ctl')
    BY <1>1, <1>4 DEF WakeOnExit, Goto, Ungated
  <2> QED BY <1>4, <2>1, ControlStepType DEF WakeOnExit, TypeOK
<1> QED BY <1>2, <1>3, <1>4

LEMMA ControlType == TypeOK /\ Control => TypeOK'
BY HydrateType, RecoverType, ResumeRecoveredType, StartTurnType, StartSubmitType, StartResumeType,
   DeferralType, DrainDeadFiberType, DrainControlType, DrainDecisionType, IdleDrainType,
   FinishControlType, CommitCancelType, CommitPromoteType, StopType, CommitInterruptionType,
   CloseWaitingRunType, BoundaryType, WaitingType
DEF Control

-----------------------------------------------------------------------------
(* The turn fiber, the external scheduler and the crash.                   *)

LEMMA FiberType ==
  TypeOK /\ (TurnFiber \/ TurnSurprise) => TypeOK'
<1> SUFFICES ASSUME TypeOK, TurnFiber \/ TurnSurprise PROVE TypeOK'
  OBVIOUS
<1>1. st \in State /\ exec \in ExecType /\ surprises \in Nat
  BY DEF TypeOK
<1>2. st' \in State
  BY <1>1, TurnTerminalType DEF TurnFiber, TurnSurprise, TurnCompletes, TurnFails, TurnExits,
                               TurnInterrupted
<1>3. exec' \in ExecType
  <2>1. \A f \in Outcomes : [exec EXCEPT !.fiber = f] \in ExecType
    BY <1>1 DEF ExecType
  <2>2. [exec EXCEPT !.exited = TRUE] \in ExecType
    BY <1>1 DEF ExecType
  <2>3. [exec EXCEPT !.fiber = "interrupted", !.exited = TRUE] \in ExecType
    BY <1>1 DEF ExecType, Outcomes
  <2> QED BY <2>1, <2>2, <2>3 DEF TurnFiber, TurnSurprise, TurnCompletes, TurnFails, TurnExits,
                                  TurnInterrupted, Outcomes
<1>4. surprises' \in Nat
  <2>1. CASE TurnFiber
    <3>1. surprises' = surprises
      BY <2>1 DEF TurnFiber, TurnExits
    <3> QED BY <1>1, <3>1
  <2>2. CASE TurnSurprise
    <3>1. surprises' = surprises + 1
      BY <2>2 DEF TurnSurprise, Surprise
    <3> QED BY <1>1, <3>1
  <2> QED BY <2>1, <2>2
<1>5. UnchangedByFiber
  BY DEF TurnFiber, TurnSurprise, TurnCompletes, TurnFails, TurnExits, TurnInterrupted
<1> QED BY <1>2, <1>3, <1>4, <1>5 DEF TypeOK, UnchangedByFiber, external

LEMMA DeliveryType ==
  TypeOK /\ (BeginDelivery \/ OfferRun \/ EndDelivery \/ (Surprise /\ DeliveryFails)) => TypeOK'
<1>1. ASSUME TypeOK PROVE st.req.id \in Nat /\ st \in State
  <2>1. st.req \in Request \cup {NoRequest}
    BY <1>1, StateFields DEF TypeOK
  <2> QED BY <1>1, <2>1 DEF Request, NoRequest, TypeOK
<1>2. ASSUME TypeOK, BeginDelivery PROVE TypeOK'
  <2>1. delivery' \in Nat /\ wakeup' \in BOOLEAN
    BY <1>1, <1>2 DEF BeginDelivery, Undelivered
  <2> QED BY <1>2, <2>1 DEF BeginDelivery, UnchangedByScheduling, TypeOK, bounds
<1>3. ASSUME TypeOK, OfferRun PROVE TypeOK'
  <2>1. offered' \subseteq Nat \ {0}
    BY <1>3 DEF OfferRun, TypeOK
  <2> QED BY <1>3, <2>1 DEF OfferRun, UnchangedByScheduling, TypeOK, bounds
<1>4. ASSUME TypeOK, EndDelivery PROVE TypeOK'
  <2>1. delivery \in Nat \ {0}
    BY <1>4 DEF EndDelivery, TypeOK
  <2>2. st' \in State
    BY <1>1, <1>4, <2>1, RunSchedulingDeliveredType DEF EndDelivery
  <2>3. wakeup' \in BOOLEAN /\ delivery' = 0
    BY <1>4 DEF EndDelivery
  <2> QED BY <1>4, <2>2, <2>3 DEF EndDelivery, UnchangedByScheduling, TypeOK, bounds
<1>5. ASSUME TypeOK, Surprise, DeliveryFails PROVE TypeOK'
  <2>1. wakeup' \in BOOLEAN /\ delivery' = 0 /\ surprises' \in Nat
    BY <1>5 DEF DeliveryFails, Undelivered, Surprise, TypeOK
  <2> QED BY <1>5, <2>1 DEF DeliveryFails, TypeOK
<1> QED BY <1>2, <1>3, <1>4, <1>5

\* What Grant commits before the turn, and the turn it will start.
LEMMA GrantType ==
  ASSUME TypeOK, NEW id \in offered, Grant(id)
  PROVE  TypeOK'
<1> DEFINE c      == st.req.cmd
           late   == st.req.work = "Command" /\ LateMessage(st, c)
           inputs == RequestInputs(st) \cup (IF late THEN {c} ELSE {})
           of     == IF st.req.work = "Recovery" THEN st.run[st.req.run].of
                     ELSE {c} \cup (IF st.cmd[c].kind = "resume" THEN inputs ELSE {})
           s1     == IF st.req.work = "Command" THEN CommandStarted(st, c) ELSE st
           s2     == IF late THEN UserMessageCommitted(s1, c) ELSE s1
           s3     == RunSchedulingClosed(s2, id)
<1>1. st \in State /\ st.nrun < MaxRun /\ st.req.id # 0
  BY DEF TypeOK, Grant, CanGrant, IsCurrent
<1>2. c \in Cmd /\ RequestInputs(st) \in SUBSET Cmd
      /\ (st.req.work = "Recovery" => st.req.run \in Run)
  BY <1>1, RequestInputsType
<1>3. inputs \in SUBSET Cmd
  <2> HIDE DEF c, late
  <2> QED BY <1>2
<1>4. of \in SUBSET Cmd
  <2>1. \A r \in Run : st.run[r].of \in SUBSET Cmd
    BY <1>1, StateFields DEF RunRecord
  <2> HIDE DEF inputs, c
  <2> QED BY <1>2, <1>3, <2>1
<1>5. s1 \in State /\ s1.nrun = st.nrun
  <2> HIDE DEF c
  <2> QED BY <1>1, CommandStartedType DEF CommandStarted, State
<1>6. s2 \in State /\ s2.nrun = st.nrun
  <2> HIDE DEF s1, c, late
  <2>1. UserMessageCommitted(s1, c) \in State /\ UserMessageCommitted(s1, c).nrun = s1.nrun
    BY <1>5, UserMessageCommittedType DEF UserMessageCommitted, UserMessageSubmitted, State
  <2> QED BY <1>5, <2>1
<1>7. s3 \in State /\ s3.nrun = st.nrun
  <2> HIDE DEF s2
  <2> QED BY <1>6, RunSchedulingClosedType DEF RunSchedulingClosed, State
<1>8. st' = RunStarted(s3, of) /\ grant' = TurnPlace(c, st.nrun + 1, inputs)
  BY DEF Grant
<1>9. st' \in State
  <2> HIDE DEF s3, of
  <2> QED BY <1>1, <1>4, <1>7, <1>8, RunStartedType
<1>10. grant' \in PlaceType({"none", "turn"})
  <2>1. st.nrun + 1 \in Run
    BY <1>1, StateFields, BoundsAssumption DEF Run
  <2> HIDE DEF c, inputs
  <2> QED BY <1>2, <1>3, <1>8, <2>1 DEF TurnPlace, Place, PlaceType
<1> QED BY <1>9, <1>10 DEF Grant, UnchangedByScheduling, TypeOK, external, bounds

LEMMA StartGrantedTurnType == TypeOK /\ StartGrantedTurn => TypeOK'
<1> SUFFICES ASSUME TypeOK, StartGrantedTurn PROVE TypeOK'
  OBVIOUS
<1>1. st \in State /\ st.nturn < MaxTurn
      /\ grant.cmd \in Cmd \cup {0} /\ grant.run \in Run \cup {0}
  BY DEF TypeOK, StartGrantedTurn, PlaceType
<1>2. st' \in State
  BY <1>1, TurnStartedType DEF StartGrantedTurn
<1>3. st.nturn + 1 \in Turn
  BY <1>1, StateFields, BoundsAssumption DEF Turn
<1>4. exec' \in ExecType
  BY <1>1, <1>3 DEF StartGrantedTurn, Running, ExecType
<1>5. grant' \in PlaceType({"none", "turn"})
  BY DEF StartGrantedTurn, NoGrant, Free, Place, PlaceType
<1> QED BY <1>2, <1>4, <1>5
        DEF StartGrantedTurn, UnchangedByScheduling, TypeOK, external, bounds

LEMMA CrashType == TypeOK /\ Surprise /\ Crash /\ UNCHANGED ingress => TypeOK'
<1> SUFFICES ASSUME TypeOK, Surprise, Crash, UNCHANGED ingress PROVE TypeOK'
  OBVIOUS
<1>1. Allowed(ctl')
  BY FreeAllowed DEF Crash, Positions, Starting, Ungated
<1>2. grant' \in PlaceType({"none", "turn"})
  BY DEF Crash, NoGrant, Free, Place, PlaceType
<1>3. exec' \in ExecType
  BY ExecTypes DEF Crash
<1>4. surprises' \in Nat
  BY DEF Surprise, TypeOK
<1> QED BY <1>1, <1>2, <1>3, <1>4 DEF Crash, TypeOK, Allowed

LEMMA StutterType == TypeOK /\ UNCHANGED vars => TypeOK'
BY DEF TypeOK, vars, external, bounds

LEMMA OfferSignalType == TypeOK /\ OfferSignal => TypeOK'
BY DEF TypeOK, OfferSignal, external, bounds

LEMMA TypeStep == TypeOK /\ [Next]_vars => TypeOK'
BY AdmissionType, OfferSignalType, ControlType, FiberType, DeliveryType, StartGrantedTurnType,
   GrantType, CrashType, StutterType
DEF Next, Scheduling

\* Types are kept whatever clients, the turn fiber, the scheduler and crashes do.
THEOREM TypeCorrect == Spec => []TypeOK
BY InitType, TypeStep, PTL DEF Spec

-----------------------------------------------------------------------------
(* ReservationRetried, for every value of the constants: the durable       *)
(* wake-up is set before a reservation is appended, and lowered only when  *)
(* nothing is left to deliver.  The invariant adds the one position of the *)
(* control fiber at which the reservation is about to be appended.  First, *)
(* which events touch the reservation.                                     *)

LEMMA EventsKeepReservation ==
  ASSUME NEW s \in State, NEW c, NEW k, NEW v, NEW w
  PROVE  /\ CommandAdmitted(s, k, v).req = s.req
         /\ CommandStarted(s, c).req = s.req
         /\ CommandTerminal(s, c, v).req = s.req
         /\ UserMessageSubmitted(s, c, v).req = s.req
         /\ UserMessageCommitted(s, c).req = s.req
         /\ UserMessagePromoted(s, c).req = s.req
         /\ UserMessageCancelled(s, c).req = s.req
         /\ PendingMessagesPaused(s, v).req = s.req
         /\ RunStarted(s, v).req = s.req
         /\ RunTerminal(s, c, v).req = s.req
         /\ TurnStarted(s, c, v).req = s.req
         /\ TurnTerminal(s, c, v, w).req = s.req
         /\ StopTurnRequested(s, c, v, w).req = s.req
         /\ StopTurnApplied(s, c).req = s.req
         /\ PausedQueueCleared(s).req = s.req
         /\ ClosedByRecovery(s).req = s.req
<1>1. /\ CommandAdmitted(s, k, v).req = s.req
      /\ CommandStarted(s, c).req = s.req
      /\ CommandTerminal(s, c, v).req = s.req
  BY DEF CommandAdmitted, CommandStarted, CommandTerminal, State
<1>2. /\ UserMessageSubmitted(s, c, v).req = s.req
      /\ UserMessageCommitted(s, c).req = s.req
      /\ UserMessagePromoted(s, c).req = s.req
      /\ UserMessageCancelled(s, c).req = s.req
  BY DEF UserMessageSubmitted, UserMessageCommitted, UserMessagePromoted,
         UserMessageCancelled, State
<1>3. /\ PendingMessagesPaused(s, v).req = s.req
      /\ PausedQueueCleared(s).req = s.req
      /\ ClosedByRecovery(s).req = s.req
  BY DEF PendingMessagesPaused, PausedQueueCleared, ClosedByRecovery, State
<1>4. /\ RunStarted(s, v).req = s.req
      /\ RunTerminal(s, c, v).req = s.req
      /\ TurnStarted(s, c, v).req = s.req
      /\ TurnTerminal(s, c, v, w).req = s.req
  BY DEF RunStarted, RunTerminal, TurnStarted, TurnTerminal, State
<1>5. /\ StopTurnRequested(s, c, v, w).req = s.req
      /\ StopTurnApplied(s, c).req = s.req
  BY DEF StopTurnRequested, StopTurnApplied, State
<1> QED BY <1>1, <1>2, <1>3, <1>4, <1>5

LEMMA ClosedReservation ==
  ASSUME NEW s \in State
  PROVE  RunSchedulingClosed(s, s.req.id).req.id = 0
BY DEF RunSchedulingClosed, NoRequest, State

-----------------------------------------------------------------------------
(* The wake-up outlives the reservation it is for.                         *)

\* The alarm is already set when the control fiber is about to append a request.
SetBeforeRequest == ctl.at = "defer" => wakeup

RetryInv == ReservationRetried /\ SetBeforeRequest

\* A step that leaves the reservation alone and lowers no alarm.
LEMMA QuietStep ==
  ASSUME RetryInv, st'.req = st.req, wakeup => wakeup', ctl'.at = "defer" => wakeup'
  PROVE  RetryInv'
BY DEF RetryInv, ReservationRetried, SetBeforeRequest

\* A step after which no reservation is left undelivered.
LEMMA NothingUndelivered ==
  ASSUME st'.req.id # 0 /\ ~st'.req.delivered => wakeup', ctl'.at # "defer"
  PROVE  RetryInv'
BY DEF RetryInv, ReservationRetried, SetBeforeRequest

LEMMA AdmissionRetry == TypeOK /\ RetryInv /\ Admission => RetryInv'
<1> SUFFICES ASSUME TypeOK, RetryInv, Admission PROVE RetryInv'
  OBVIOUS
<1>1. PICK s1 : Admit(s1) /\ s1.req = st.req
  <2>1. st \in State
    BY DEF TypeOK
  <2>2. \A k, ts : CommandAdmitted(st, k, ts).req = st.req
    BY <2>1, EventsKeepReservation
  <2>3. CASE AdmitSubmit
    <3>1. PICK d, clear : Admit(SubmitAdmitted(st, d, clear))
      BY <2>3 DEF AdmitSubmit
    <3>2. SubmitAdmitted(st, d, clear).req = st.req
      BY <2>1 DEF SubmitAdmitted, CommandAdmitted, PausedQueueCleared, UserMessageSubmitted, State
    <3> QED BY <3>1, <3>2
  <2>4. CASE AdmitControl
    BY <2>2, <2>4 DEF AdmitControl
  <2>5. CASE AdmitTargeted
    BY <2>2, <2>5 DEF AdmitTargeted
  <2>6. CASE AdmitStopAndResume
    <3>1. PICK m : Admit(CommandAdmitted(CommandAdmitted(st, "stop", {}), "resume", {m}))
      BY <2>6 DEF AdmitStopAndResume
    <3>2. CommandAdmitted(CommandAdmitted(st, "stop", {}), "resume", {m}).req = st.req
      BY <2>1 DEF CommandAdmitted, State
    <3> QED BY <3>1, <3>2
  <2> QED BY <2>3, <2>4, <2>5, <2>6 DEF Admission
<1>2. st' = s1 /\ UNCHANGED <<ctl, wakeup>>
  BY <1>1 DEF Admit
<1> QED BY <1>1, <1>2, QuietStep DEF RetryInv, SetBeforeRequest

LEMMA RecoverRetry == TypeOK /\ RetryInv /\ Recover => RetryInv'
<1> SUFFICES ASSUME TypeOK, RetryInv, Recover PROVE RetryInv'
  OBVIOUS
<1> DEFINE c == ContinuationCommand(st)
<1>1. st \in State
  BY DEF TypeOK
<1>2. ctl'.at # "defer"
  BY DEF Recover, Goto, Free, Place
<1>3. CASE c # 0 /\ Deferred
  <2>1. wakeup'
    BY <1>3 DEF Recover
  <2> QED BY <1>2, <2>1, NothingUndelivered
<1>4. CASE ~(c # 0 /\ Deferred)
  <2>1. st'.req = st.req
    BY ZenonT(60), <1>1, <1>4 DEF Recover, RecoveryBatch, ClosedByRecovery, PendingMessagesPaused,
                      CommandAdmitted, RunStarted, State
  <2>2. wakeup => wakeup'
    BY DEF Recover
  <2> QED BY <1>2, <2>1, <2>2, QuietStep
<1> QED BY <1>3, <1>4

\* A new runtime recomputes the alarm from the log.
LEMMA HydrateRetry == Hydrate => RetryInv'
<1> SUFFICES ASSUME Hydrate PROVE RetryInv'
  OBVIOUS
<1>1. wakeup' = Undelivered /\ st' = st /\ ctl'.at # "defer"
  BY DEF Hydrate, Goto, Free, Place
<1> QED BY <1>1, NothingUndelivered DEF Undelivered

LEMMA StartRetry ==
  TypeOK /\ RetryInv /\ (ResumeRecovered \/ StartTurn \/ StartSubmit \/ StartResume
                         \/ SetWakeup \/ Defer) => RetryInv'
<1>1. ASSUME TypeOK, RetryInv, ResumeRecovered \/ StartTurn \/ StartSubmit \/ StartResume
      PROVE  RetryInv'
  <2>1. st'.req = st.req
    <3>1. st \in State
      BY <1>1 DEF TypeOK
    <3>2. CASE ResumeRecovered
      BY <3>2 DEF ResumeRecovered
    <3>3. CASE StartTurn
      BY <3>1, <3>3 DEF StartTurn, TurnStarted, State
    <3>4. CASE StartSubmit
      BY <3>1, <3>4 DEF StartSubmit, CommandStarted, UserMessageCommitted, UserMessageSubmitted,
                        RunStarted, State
    <3>5. CASE StartResume
      BY <3>1, <3>5 DEF StartResume, CommandStarted, RunStarted, State
    <3> QED BY <1>1, <3>2, <3>3, <3>4, <3>5
  <2>2. wakeup' = wakeup /\ ctl'.at # "defer"
    BY <1>1 DEF ResumeRecovered, StartTurn, StartSubmit, StartResume, Goto, TurnPlace, Free, Place
  <2> QED BY <1>1, <2>1, <2>2, QuietStep
<1>2. ASSUME RetryInv, SetWakeup PROVE RetryInv'
  BY <1>2, QuietStep DEF SetWakeup
<1>3. ASSUME RetryInv, Defer PROVE RetryInv'
  <2>1. wakeup' /\ ctl'.at # "defer"
    BY <1>3 DEF Defer, RetryInv, SetBeforeRequest, Goto, Free, Place
  <2> QED BY <2>1, NothingUndelivered
<1> QED BY <1>1, <1>2, <1>3

LEMMA DrainRetry ==
  TypeOK /\ RetryInv
    /\ (DrainDefect \/ DrainInterrupted \/ DrainCancel \/ DrainPromote \/ DrainStop
        \/ DrainSteer \/ DrainInterrupt \/ DrainNothing \/ DrainWaiting
        \/ DrainInactiveStop \/ DrainStart) => RetryInv'
<1> SUFFICES ASSUME TypeOK, RetryInv,
                    DrainDefect \/ DrainInterrupted \/ DrainCancel \/ DrainPromote
                      \/ DrainStop \/ DrainSteer \/ DrainInterrupt \/ DrainNothing
                      \/ DrainWaiting \/ DrainInactiveStop \/ DrainStart
             PROVE  RetryInv'
  OBVIOUS
<1>1. st \in State
  BY DEF TypeOK
<1>2. \A c : CommandStarted(st, c).req = st.req
  BY <1>1, EventsKeepReservation
<1>3. st'.req = st.req
  BY <1>1, <1>2 DEF DrainDefect, DrainInterrupted, DrainCancel, DrainPromote, DrainStop,
       DrainSteer, DrainInterrupt, DrainNothing, DrainWaiting, DrainInactiveStop, DrainStart,
       Begin, TurnTerminal, State
<1>4. ctl'.at # "defer"
  <2>1. CASE DrainDefect \/ DrainInterrupted \/ DrainInterrupt \/ DrainWaiting
    <3>1. \A at, c, a, r, ms : Place(at, c, a, r, ms).at = at
      BY DEF Place
    <3>2. CASE DrainDefect
      BY <3>1, <3>2 DEF DrainDefect, Goto
    <3>3. CASE DrainInterrupted
      BY <3>1, <3>3 DEF DrainInterrupted, Goto
    <3>4. CASE DrainInterrupt
      BY <3>1, <3>4 DEF DrainInterrupt, Goto
    <3>5. CASE DrainWaiting
      BY <3>1, <3>5 DEF DrainWaiting, Goto
    <3> QED BY <2>1, <3>2, <3>3, <3>4, <3>5
  <2>5. CASE DrainNothing
    <3>1. PICK at \in {"boundary", "park"} : ctl'.at = at
      BY <2>5 DEF DrainNothing, Goto, Free, Place
    <3> QED BY <3>1
  <2>2. CASE DrainCancel \/ DrainPromote
    BY <2>2 DEF DrainCancel, DrainPromote, Begin, Goto, Place
  <2>3. CASE DrainStop \/ DrainSteer \/ DrainInactiveStop
    BY <2>3 DEF DrainStop, DrainSteer, DrainInactiveStop, Begin, Goto, Place
  <2>4. CASE DrainStart
    BY <2>4 DEF DrainStart, Goto, Free, Place
  <2> QED BY <2>1, <2>2, <2>3, <2>4, <2>5
<1>5. wakeup => wakeup'
  BY DEF DrainDefect, DrainInterrupted, DrainCancel, DrainPromote, DrainStop,
         DrainSteer, DrainInterrupt, DrainNothing, DrainWaiting, DrainInactiveStop, DrainStart
<1> QED BY <1>3, <1>4, <1>5, QuietStep

LEMMA FinishRetry ==
  TypeOK /\ RetryInv
    /\ (CompleteSteer \/ FailControl \/ CancelInactiveStop \/ CommitPromote \/ RequestStop
        \/ CloseStoppedTurn \/ CommitInterruption \/ ApplyStop) => RetryInv'
<1> SUFFICES ASSUME TypeOK, RetryInv,
                    CompleteSteer \/ FailControl \/ CancelInactiveStop \/ CommitPromote
                      \/ RequestStop \/ CloseStoppedTurn \/ CommitInterruption \/ ApplyStop
             PROVE  RetryInv'
  OBVIOUS
<1>1. st \in State
  BY DEF TypeOK
<1>2. st'.req = st.req
  <2>1. CASE CompleteSteer \/ FailControl \/ CancelInactiveStop \/ ApplyStop
    BY <1>1, <2>1 DEF CompleteSteer, FailControl, CancelInactiveStop, ApplyStop, Finish,
                      CommandTerminal, StopTurnApplied, State
  <2>2. CASE CommitPromote
    BY <1>1, <2>2 DEF CommitPromote, Finish, UserMessagePromoted, CommandAdmitted,
                      CommandTerminal, State
  <2>3. CASE RequestStop \/ CloseStoppedTurn
    BY <1>1, <2>3 DEF RequestStop, CloseStoppedTurn, Finish, StopTurnRequested, State
  <2>4. CASE CommitInterruption
    BY <1>1, <2>4 DEF CommitInterruption, Finish, TurnTerminal, RunTerminal, CommandTerminal,
                      PendingMessagesPaused, State
  <2> QED BY <2>1, <2>2, <2>3, <2>4
<1>3. ctl'.at # "defer"
  <2>1. ctl \in PlaceType(Positions)
    BY DEF TypeOK
  <2>2. CASE RequestStop \/ CloseStoppedTurn
    BY <2>1, <2>2 DEF RequestStop, CloseStoppedTurn, Finish, Goto, PlaceType
  <2>3. CASE CompleteSteer \/ FailControl \/ CancelInactiveStop \/ CommitPromote \/ ApplyStop
    BY <2>3 DEF CompleteSteer, FailControl, CancelInactiveStop, CommitPromote, ApplyStop,
                Finish, Goto, Free, Place
  <2>4. CASE CommitInterruption
    BY <2>4 DEF CommitInterruption, Finish, Goto, Place
  <2> QED BY <2>2, <2>3, <2>4
<1>4. wakeup' = wakeup
  BY DEF CompleteSteer, FailControl, CancelInactiveStop, CommitPromote, RequestStop,
         CloseStoppedTurn, CommitInterruption, ApplyStop
<1> QED BY <1>2, <1>3, <1>4, QuietStep

\* A cancellation that changes the reservation leaves the alarm set exactly if one remains.
LEMMA CancelRetry == TypeOK /\ RetryInv /\ CommitCancel => RetryInv'
<1> SUFFICES ASSUME TypeOK, RetryInv, CommitCancel PROVE RetryInv'
  OBVIOUS
<1> DEFINE m == Target(ctl.cmd)
           s1 == ReservationWithout(st, m)
           s2 == UserMessageCancelled(s1, m)
           s3 == IF ctl.msgs = {} THEN s2 ELSE CommandTerminal(s2, m, "Cancelled")
           s4 == CommandTerminal(s3, ctl.cmd, "Completed")
<1>1. s1 \in State
  BY ReservationWithoutType DEF TypeOK
<1>2. s4.req = s1.req
  <2> HIDE DEF s1
  <2> QED BY <1>1 DEF UserMessageCancelled, CommandTerminal, State
<1>3. /\ st' = s4
      /\ wakeup' = IF s1 = st THEN wakeup ELSE StillReserved(s1)
      /\ ctl'.at # "defer"
  BY DEF CommitCancel, Finish, Goto, Free, Place
<1> HIDE DEF s1, s4
<1>4. CASE s1 = st
  BY <1>2, <1>3, <1>4, QuietStep
<1>5. CASE s1 # st
  BY <1>2, <1>3, <1>5, NothingUndelivered DEF StillReserved
<1> QED BY <1>4, <1>5

\* Stop and interrupt release the reservation before they lower the alarm.
LEMMA CloseWaitingRetry == TypeOK /\ CloseWaitingRun => RetryInv'
<1> SUFFICES ASSUME TypeOK, CloseWaitingRun PROVE RetryInv'
  OBVIOUS
<1> DEFINE released(s) == CommandTerminal(
                            PendingMessagesPaused(RunSchedulingClosed(s, s.req.id), ctl.msgs),
                            s.req.cmd, "Cancelled")
<1>1. st \in State
  BY DEF TypeOK
<1>2. ASSUME NEW s \in State PROVE released(s) \in State /\ released(s).req.id = 0
  <2>1. RunSchedulingClosed(s, s.req.id) \in State
    BY <1>2, RunSchedulingClosedType
  <2>2. released(s) \in State
    BY <2>1, PendingMessagesPausedType, CommandTerminalType
  <2>3. released(s).req = RunSchedulingClosed(s, s.req.id).req
    BY <2>1 DEF PendingMessagesPaused, CommandTerminal, State
  <2> QED BY <1>2, <2>2, <2>3, ClosedReservation
<1>3. CommandStarted(st, ctl.cmd) \in State
  BY <1>1, CommandStartedType
<1>4. st'.req.id = 0
  <2>1. released(st).req.id = 0
    BY <1>1, <1>2
  <2>2. CommandTerminal(released(CommandStarted(st, ctl.cmd)), ctl.cmd, "Completed").req.id = 0
    <3> HIDE DEF released
    <3> QED BY <1>2, <1>3, EventsKeepReservation
  <2>3. st' = released(st)
          \/ st' = CommandTerminal(released(CommandStarted(st, ctl.cmd)), ctl.cmd, "Completed")
    BY DEF CloseWaitingRun, Finish
  <2> HIDE DEF released
  <2> QED BY <2>1, <2>2, <2>3
<1>5. ctl'.at # "defer"
  BY DEF CloseWaitingRun, Finish, Goto, Free, Place
<1> QED BY <1>4, <1>5, NothingUndelivered

LEMMA BoundaryRetry ==
  TypeOK /\ RetryInv
    /\ (DecideBoundary \/ CompleteRun \/ CloseFailedRun \/ Park \/ WakeOnSignal \/ WakeOnExit)
  => RetryInv'
<1> SUFFICES ASSUME TypeOK, RetryInv,
                    DecideBoundary \/ CompleteRun \/ CloseFailedRun \/ Park \/ WakeOnSignal
                      \/ WakeOnExit
             PROVE  RetryInv'
  OBVIOUS
<1>1. st \in State /\ ctl \in PlaceType(Positions)
  BY DEF TypeOK
<1>2. st'.req = st.req
  BY <1>1 DEF DecideBoundary, CompleteRun, CloseFailedRun, Park, WakeOnSignal, WakeOnExit, Finish,
              RunTerminal, CommandTerminal, CommandAdmitted, State
<1>3. wakeup' = wakeup
  BY DEF DecideBoundary, CompleteRun, CloseFailedRun, Park, WakeOnSignal, WakeOnExit
<1>4. ctl'.at # "defer"
  <2>1. CASE DecideBoundary
    <3>1. Continuation(st, exec.turn) \in {"steering", "feedback", "complete"}
      BY DEF Continuation
    <3>2. [ctl EXCEPT !.at = "complete"].at = "complete"
      BY <1>1 DEF PlaceType
    <3>3. CASE exec.fiber = "failed"
      BY <2>1, <3>3 DEF DecideBoundary, Goto, Place
    <3>4. CASE exec.fiber # "failed" /\ Continuation(st, exec.turn) = "steering"
      BY <2>1, <3>4 DEF DecideBoundary, Goto, TurnPlace, Place
    <3>5. CASE exec.fiber # "failed" /\ Continuation(st, exec.turn) = "feedback"
      BY <2>1, <3>5 DEF DecideBoundary, Goto, TurnPlace, Place
    <3>6. CASE exec.fiber # "failed" /\ Continuation(st, exec.turn) = "complete"
      BY <2>1, <3>2, <3>6 DEF DecideBoundary, Goto
    <3> QED BY <3>1, <3>3, <3>4, <3>5, <3>6
  <2>2. CASE Park
    <3>1. exec.tag \in {"Idle", "Running", "Completed"}
      BY DEF TypeOK, ExecType
    <3> QED BY <2>2, <3>1 DEF Park, Goto, Free, Place
  <2>3. CASE CompleteRun \/ CloseFailedRun \/ WakeOnSignal \/ WakeOnExit
    BY <2>3 DEF CompleteRun, CloseFailedRun, WakeOnSignal, WakeOnExit, Finish, Goto, Free, Place
  <2> QED BY <2>1, <2>2, <2>3
<1> QED BY <1>2, <1>3, <1>4, QuietStep

LEMMA ControlRetry == TypeOK /\ RetryInv /\ Control => RetryInv'
BY HydrateRetry, RecoverRetry, StartRetry, DrainRetry, FinishRetry, CancelRetry, CloseWaitingRetry,
   BoundaryRetry DEF Control

LEMMA FiberRetry == TypeOK /\ RetryInv /\ (TurnFiber \/ TurnSurprise) => RetryInv'
<1> SUFFICES ASSUME TypeOK, RetryInv, TurnFiber \/ TurnSurprise PROVE RetryInv'
  OBVIOUS
<1>1. st \in State
  BY DEF TypeOK
<1>2. st'.req = st.req /\ UnchangedByFiber
  BY <1>1 DEF TurnFiber, TurnSurprise, TurnCompletes, TurnFails, TurnExits, TurnInterrupted,
              TurnTerminal, State
<1> QED BY <1>2, QuietStep DEF UnchangedByFiber, RetryInv, SetBeforeRequest

\* Delivery and grants take controlGate: no request is about to be appended.
LEMMA GateFreeIsQuiet ==
  ASSUME GateFree, UNCHANGED ctl
  PROVE  ctl'.at # "defer"
BY DEF GateFree, Ungated

LEMMA SchedulingRetry ==
  TypeOK /\ RetryInv
    /\ (BeginDelivery \/ OfferRun \/ EndDelivery \/ StartGrantedTurn \/ DeliveryFails) => RetryInv'
<1>1. ASSUME BeginDelivery \/ DeliveryFails PROVE RetryInv'
  <2>1. wakeup' = Undelivered /\ st' = st /\ GateFree /\ UNCHANGED ctl
    BY <1>1 DEF BeginDelivery, DeliveryFails, UnchangedByScheduling
  <2> QED BY <2>1, GateFreeIsQuiet, NothingUndelivered DEF Undelivered
<1>2. ASSUME RetryInv, OfferRun PROVE RetryInv'
  BY <1>2, QuietStep DEF OfferRun, UnchangedByScheduling, RetryInv, SetBeforeRequest
<1>3. ASSUME EndDelivery PROVE RetryInv'
  <2>1. GateFree /\ UNCHANGED ctl /\ wakeup' = (st'.req.id # 0 /\ ~st'.req.delivered)
    BY <1>3 DEF EndDelivery, UnchangedByScheduling
  <2> QED BY <2>1, GateFreeIsQuiet, NothingUndelivered
<1>4. ASSUME TypeOK, RetryInv, StartGrantedTurn PROVE RetryInv'
  <2>1. st'.req = st.req
    BY <1>4 DEF StartGrantedTurn, TurnStarted, TypeOK, State
  <2> QED BY <1>4, <2>1, QuietStep
          DEF StartGrantedTurn, UnchangedByScheduling, RetryInv, SetBeforeRequest
<1> QED BY <1>1, <1>2, <1>3, <1>4

\* A grant releases the reservation it answers.
LEMMA GrantRetry ==
  ASSUME TypeOK, NEW id, Grant(id)
  PROVE  RetryInv'
<1> DEFINE c  == st.req.cmd
           s1 == IF st.req.work = "Command" THEN CommandStarted(st, c) ELSE st
           s2 == IF st.req.work = "Command" /\ LateMessage(st, c)
                   THEN UserMessageCommitted(s1, c) ELSE s1
<1>1. st \in State /\ id = st.req.id
  BY DEF TypeOK, Grant, CanGrant, IsCurrent
<1>2. s2 \in State /\ s2.req = st.req
  <2>1. s1 \in State /\ s1.req = st.req
    BY <1>1, CommandStartedType, EventsKeepReservation
  <2> HIDE DEF s1
  <2>2. UserMessageCommitted(s1, c) \in State /\ UserMessageCommitted(s1, c).req = s1.req
    BY <2>1, UserMessageCommittedType, EventsKeepReservation
  <2> QED BY <2>1, <2>2
<1>3. PICK of : st' = RunStarted(RunSchedulingClosed(s2, id), of)
  BY DEF Grant
<1>4. st'.req.id = 0
  <2> HIDE DEF s2
  <2>1. RunSchedulingClosed(s2, id) \in State /\ RunSchedulingClosed(s2, id).req.id = 0
    BY <1>1, <1>2, RunSchedulingClosedType, ClosedReservation
  <2> QED BY <1>3, <2>1, EventsKeepReservation
<1>5. GateFree /\ UNCHANGED ctl
  BY DEF Grant, UnchangedByScheduling
<1> QED BY <1>4, <1>5, GateFreeIsQuiet, NothingUndelivered

LEMMA RetryStep == TypeOK /\ RetryInv /\ [Next]_vars => RetryInv'
<1>1. ASSUME RetryInv, OfferSignal \/ UNCHANGED vars PROVE RetryInv'
  BY <1>1, QuietStep DEF OfferSignal, vars, RetryInv, SetBeforeRequest
<1>2. ASSUME RetryInv, Crash PROVE RetryInv'
  BY <1>2, QuietStep DEF Crash, Free, Place
<1> QED BY <1>1, <1>2, AdmissionRetry, ControlRetry, FiberRetry, SchedulingRetry, GrantRetry
        DEF Next, Scheduling

LEMMA RetryInit == Init => RetryInv
BY DEF Init, RetryInv, ReservationRetried, SetBeforeRequest, InitialState, NoRequest, Free, Place

\* A reservation the scheduler has not confirmed is always covered by the durable alarm,
\* whatever fails or crashes between the steps of its delivery.
THEOREM UndeliveredIsRetried == Spec => []ReservationRetried
<1>1. Init => TypeOK /\ RetryInv
  BY InitType, RetryInit
<1>2. TypeOK /\ RetryInv /\ [Next]_vars => (TypeOK /\ RetryInv)'
  BY TypeStep, RetryStep
<1>3. RetryInv => ReservationRetried
  BY DEF RetryInv
<1> QED BY <1>1, <1>2, <1>3, PTL DEF Spec

-----------------------------------------------------------------------------
(***************************************************************************)
(* The run slot of a session and the finality of what is settled:          *)
(* OneOwnedRun, SettledIsFinal and PausedNeedsResume, which share one      *)
(* inductive invariant.                                                    *)
(*                                                                         *)
(* The log alone says that there is one slot; who holds it is known from   *)
(* the place of the control fiber, the execution and the grant.  A command *)
(* or message that was read before an append is still as it was read when  *)
(* the append is made, because nothing but an admission may come between,  *)
(* and what an admission does to it is harmless.                           *)
(***************************************************************************)

-----------------------------------------------------------------------------
(* The invariant.                                                          *)

\* One run is open, its last turn at most, or a reservation holds the slot.
OneSlot(s) ==
  /\ \A r1, r2 \in OpenRuns(s) : r1 = r2
  /\ \A t \in OpenTurns(s) : t = s.nturn /\ s.turn[t].run \in OpenRuns(s)
  /\ s.req.id # 0 => Deferred /\ OpenRuns(s) = {}

\* A reservation is for a command that has not started, or for the run of one that has not ended.
Reservable(s) ==
  s.req.id # 0 =>
    /\ s.req.cmd \in 1 .. s.ncmd
    /\ s.req.work = "Command" => ~s.cmd[s.req.cmd].started
    /\ s.req.work = "Recovery" =>
         s.req.cmd \in ActiveCommands(s) /\ s.cmd[s.req.cmd].kind # "stop"

\* A command that never started can only have been cancelled.
Commands(s) ==
  \A c \in Cmd :
    /\ c > s.ncmd => s.cmd[c].kind = "none" /\ ~s.cmd[c].started
    /\ ~s.cmd[c].started => s.cmd[c].terminal \in {"none", "Cancelled"}
    /\ s.cmd[c].kind \in {"cancel", "promote"} => \E m \in Cmd : s.cmd[c].targets = {m}
    /\ s.stop[c].status = "requested" => s.cmd[c].kind = "stop" /\ s.cmd[c].started

\* An interrupting command has a message once it starts, the other submissions at once.
Messages(s) ==
  \A m \in Cmd :
    /\ s.msg[m].known => IsSubmit(s, m)
    /\ ~s.msg[m].known => s.msg[m].consumed = 0 /\ ~s.msg[m].paused
    /\ s.cmd[m].kind = "interrupt" /\ ~s.cmd[m].started => ~s.msg[m].known

LogInvariant(s) == OneSlot(s) /\ Reservable(s) /\ Commands(s) /\ Messages(s)

\* Run r has the slot, for command c.
Holds(s, r, c) == OpenRuns(s) = {r} /\ c \in ActiveCommands(s) /\ c \in s.run[r].of
TurnsClosed(s) == OpenTurns(s) = {}

\* Where the control fiber may be while there is an execution.
Executing == Ungated \cup {"steer", "cancel", "promote", "failControl", "stopRequest",
                           "stopClose", "boundary", "complete", "turn", "failRun"}

\* The execution holds the slot, and its turn is the last one.
ExecHolds ==
  /\ exec.tag = "Idle" => exec = NoExec
  /\ exec.tag = "Completed" => exec.exited /\ exec.fiber \in {"ok", "failed"}
  /\ exec.tag # "Idle" =>
       /\ Holds(st, exec.run, exec.cmd) /\ exec.turn = st.nturn
       /\ exec.fiber \in {"ok", "failed", "defect"} => TurnsClosed(st)
       /\ ctl.at \in Executing
       /\ ctl.at \in {"turn", "failRun", "boundary", "complete"} => exec.tag = "Completed"

\* So does the control fiber on its way from one execution to the next, or to none.
Closing == {"recovered", "turn", "interruption", "failRun", "cancelRun"}
CtlHolds ==
  /\ ctl.at \in Closing => Holds(st, ctl.run, ctl.active)
  /\ ctl.at \in Closing \ {"interruption"} => TurnsClosed(st)
  /\ ctl.at \in {"stopRequest", "stopClose", "boundary", "complete"} =>
       exec.tag # "Idle" /\ ctl.run = exec.run /\ ctl.active = exec.cmd
  /\ ctl.at \in {"recovered", "turn"} => ctl.cmd = ctl.active

\* And a grant, until its turn is started.
GrantHolds ==
  grant # NoGrant =>
    /\ ctl.at \in Ungated /\ exec.tag = "Idle"
    /\ Holds(st, grant.run, grant.cmd) /\ TurnsClosed(st)

\* Without a holder the slot is empty, except for a restart to repair.
SlotHeld ==
  \/ ctl.at \in Closing \cup {"boot", "hydrated", "dead"}
  \/ exec.tag # "Idle" \/ grant # NoGrant
  \/ OpenRuns(st) = {}

\* The command that the control fiber has started, and the one it is about to start.
Taken == {"steer", "cancel", "promote", "failControl", "inactiveStop", "stopRequest",
          "stopClose", "stopApply"}
Awaited == {"start", "startResume", "defer", "closeWaiting"}

TakenCommand ==
  /\ ctl.at \in Taken =>
       ctl.cmd \in ActiveCommands(st) /\ (exec.tag # "Idle" => ctl.cmd # exec.cmd)
  /\ ctl.at \in Awaited => ctl.cmd \in PendingCommands(st) /\ ctl.cmd \notin PausedQueue(st)
  /\ ctl.at \in Awaited \ {"closeWaiting"} => st.req.id = 0
  /\ ctl.at = "start" => IsSubmit(st, ctl.cmd)
  /\ ctl.at = "defer" => Deferred
  /\ ctl.at = "closeWaiting" =>
       st.req.id # 0 /\ st.cmd[ctl.cmd].kind \in {"stop", "interrupt"}
  /\ ctl.at \in {"stopRequest", "stopClose", "stopApply"} => st.cmd[ctl.cmd].kind = "stop"
  /\ ctl.at = "interruption" =>
       /\ ctl.cmd # ctl.active
       /\ \/ st.cmd[ctl.cmd].kind = "stop" /\ ctl.cmd \in ActiveCommands(st)
          \/ st.cmd[ctl.cmd].kind = "interrupt" /\ ctl.cmd \in PendingCommands(st)
  /\ ctl.cmd # 0 /\ st.req.id # 0 => ctl.cmd # st.req.cmd

\* What a cancellation or a promotion read of its message and of that message's command.
TargetUnconsumed ==
  /\ ctl.at \in {"cancel", "promote"} =>
       /\ st.cmd[ctl.cmd].kind = ctl.at
       /\ \A m \in st.cmd[ctl.cmd].targets : st.msg[m].known /\ st.msg[m].consumed = 0
  /\ ctl.at = "cancel" =>
       /\ ctl.msgs \subseteq st.cmd[ctl.cmd].targets
       /\ \A c \in ctl.msgs : ~st.cmd[c].started

\* A paused message among a run's inputs was resumed by a command of that run.
Resumed(s, r, msgs) ==
  \A m \in msgs \cap PausedQueue(s) :
    \E c \in s.run[r].of : s.cmd[c].kind = "resume" /\ m \in s.cmd[c].targets

InputsResumed ==
  /\ ctl.at \in {"recovered", "turn"} => Resumed(st, ctl.run, ctl.msgs)
  /\ grant # NoGrant => Resumed(st, grant.run, grant.msgs)
  /\ ctl.at = "startResume" =>
       st.cmd[ctl.cmd].kind = "resume" /\ ctl.msgs \subseteq st.cmd[ctl.cmd].targets

Memory == /\ ExecHolds /\ CtlHolds /\ GrantHolds /\ SlotHeld
          /\ TakenCommand /\ TargetUnconsumed /\ InputsResumed

SlotInvariant == TypeOK /\ LogInvariant(st) /\ Memory

-----------------------------------------------------------------------------
(* What is settled.                                                        *)

\* SettledIsFinal, of two states of the log.
Lasting(s, s1) ==
  \A c \in Cmd :
    /\ s.cmd[c].terminal # "none" => /\ s1.cmd[c].terminal = s.cmd[c].terminal
                                     /\ s1.cmd[c].started = s.cmd[c].started
    /\ s.msg[c].consumed > 0 => /\ s1.msg[c].consumed > 0
                                /\ s1.msg[c].cancelled = s.msg[c].cancelled
                                /\ s1.msg[c].disposition = s.msg[c].disposition

LEMMA LastingIsTransitive ==
  ASSUME NEW s, NEW s1, NEW s2, Lasting(s, s1), Lasting(s1, s2)
  PROVE  Lasting(s, s2)
BY DEF Lasting

LEMMA LastingIsReflexive == \A s : Lasting(s, s)
BY DEF Lasting

-----------------------------------------------------------------------------
(* What one event changes, and what it keeps of the invariant of the log.  *)

SameSlot(s, s1) == /\ s1.run = s.run /\ s1.nrun = s.nrun /\ s1.turn = s.turn
                   /\ s1.nturn = s.nturn /\ s1.req = s.req
SameOrders(s, s1) == s1.cmd = s.cmd /\ s1.ncmd = s.ncmd /\ s1.stop = s.stop

LEMMA RecordFields ==
  ASSUME NEW s \in State
  PROVE  /\ \A c \in Cmd : /\ s.cmd[c] \in Command /\ s.msg[c] \in Message
                           /\ s.stop[c] \in StopRecord
                           /\ s.cmd[c].started \in BOOLEAN /\ s.msg[c].consumed \in Nat
                           /\ s.msg[c].known \in BOOLEAN /\ s.msg[c].paused \in BOOLEAN
                           /\ s.msg[c].cancelled \in BOOLEAN
         /\ \A r \in Run : s.run[r] \in RunRecord
         /\ \A t \in Turn : s.turn[t] \in TurnRecord
<1>1. /\ s.cmd \in [Cmd -> Command] /\ s.msg \in [Cmd -> Message]
      /\ s.run \in [Run -> RunRecord] /\ s.turn \in [Turn -> TurnRecord]
      /\ s.stop \in [Cmd -> StopRecord]
  BY StateFields
<1>2. \A c \in Cmd : s.cmd[c] \in Command /\ s.msg[c] \in Message /\ s.stop[c] \in StopRecord
  BY <1>1
<1> QED BY <1>1, <1>2 DEF Command, Message

\* Commands.
Admits(s, s1, k, ts) ==
  /\ s1 \in State /\ SameSlot(s, s1) /\ s1.msg = s.msg /\ s1.stop = s.stop
  /\ s.ncmd + 1 \in Cmd /\ s1.ncmd = s.ncmd + 1
  /\ s1.cmd[s.ncmd + 1].kind = k /\ s1.cmd[s.ncmd + 1].targets = ts
  /\ \A c \in Cmd : /\ s1.cmd[c].started = s.cmd[c].started
                    /\ s1.cmd[c].terminal = s.cmd[c].terminal
                    /\ c # s.ncmd + 1 => s1.cmd[c] = s.cmd[c]

LEMMA AdmittedEffect ==
  ASSUME NEW s \in State, s.ncmd < MaxCmd, NEW k \in Kinds, NEW ts \in SUBSET Cmd
  PROVE  Admits(s, CommandAdmitted(s, k, ts), k, ts)
<1> DEFINE s1 == CommandAdmitted(s, k, ts)
           n == s.ncmd + 1
<1>1. s1 \in State
  BY CommandAdmittedType
<1>2. n \in Cmd
  BY StateFields, BoundsAssumption DEF Cmd
<1>3. SameSlot(s, s1) /\ s1.msg = s.msg /\ s1.stop = s.stop /\ s1.ncmd = n
  BY DEF CommandAdmitted, State, SameSlot
<1>4. s1.cmd = [s.cmd EXCEPT ![n] = [@ EXCEPT !.kind = k, !.targets = ts]]
  BY DEF CommandAdmitted, State
<1>5. s.cmd \in [Cmd -> Command]
  BY StateFields
<1> HIDE DEF s1, n
<1>6. \A c \in Cmd : s1.cmd[c] = IF c = n THEN [s.cmd[n] EXCEPT !.kind = k, !.targets = ts]
                                          ELSE s.cmd[c]
  BY <1>2, <1>4, <1>5
<1>7. s.cmd[n] \in Command
  BY <1>2, <1>5
<1>8. /\ [s.cmd[n] EXCEPT !.kind = k, !.targets = ts].kind = k
      /\ [s.cmd[n] EXCEPT !.kind = k, !.targets = ts].targets = ts
      /\ [s.cmd[n] EXCEPT !.kind = k, !.targets = ts].started = s.cmd[n].started
      /\ [s.cmd[n] EXCEPT !.kind = k, !.targets = ts].terminal = s.cmd[n].terminal
  BY <1>7 DEF Command
<1> QED BY <1>1, <1>2, <1>3, <1>6, <1>8 DEF Admits, s1, n

Starts(s, s1, c) ==
  /\ s1 \in State /\ SameSlot(s, s1) /\ s1.msg = s.msg
  /\ s1.stop = s.stop /\ s1.ncmd = s.ncmd
  /\ s1.cmd[c].started
  /\ \A d \in Cmd : /\ s1.cmd[d].kind = s.cmd[d].kind
                    /\ s1.cmd[d].targets = s.cmd[d].targets
                    /\ s1.cmd[d].terminal = s.cmd[d].terminal
                    /\ d # c => s1.cmd[d] = s.cmd[d]

LEMMA StartedEffect ==
  ASSUME NEW s \in State, NEW c \in Cmd
  PROVE  Starts(s, CommandStarted(s, c), c)
<1> DEFINE s1 == CommandStarted(s, c)
<1>1. s1 \in State
  BY CommandStartedType
<1>2. SameSlot(s, s1) /\ s1.msg = s.msg /\ s1.stop = s.stop /\ s1.ncmd = s.ncmd
  BY DEF CommandStarted, State, SameSlot
<1>3. s1.cmd = [s.cmd EXCEPT ![c] = [@ EXCEPT !.started = TRUE]]
  BY DEF CommandStarted, State
<1>4. s.cmd \in [Cmd -> Command]
  BY StateFields
<1> HIDE DEF s1
<1>5. \A d \in Cmd : s1.cmd[d] = IF d = c THEN [s.cmd[c] EXCEPT !.started = TRUE] ELSE s.cmd[d]
  BY <1>3, <1>4
<1>6. s.cmd[c] \in Command
  BY <1>4
<1>7. /\ [s.cmd[c] EXCEPT !.started = TRUE].kind = s.cmd[c].kind
      /\ [s.cmd[c] EXCEPT !.started = TRUE].targets = s.cmd[c].targets
      /\ [s.cmd[c] EXCEPT !.started = TRUE].terminal = s.cmd[c].terminal
      /\ [s.cmd[c] EXCEPT !.started = TRUE].started
  BY <1>6 DEF Command
<1> QED BY <1>1, <1>2, <1>5, <1>7 DEF Starts, s1

Ends(s, s1, c, o) ==
  /\ s1 \in State /\ SameSlot(s, s1) /\ s1.msg = s.msg
  /\ s1.stop = s.stop /\ s1.ncmd = s.ncmd
  /\ s1.cmd[c].terminal = o
  /\ \A d \in Cmd : /\ s1.cmd[d].kind = s.cmd[d].kind
                    /\ s1.cmd[d].targets = s.cmd[d].targets
                    /\ s1.cmd[d].started = s.cmd[d].started
                    /\ d # c => s1.cmd[d] = s.cmd[d]

LEMMA TerminalEffect ==
  ASSUME NEW s \in State, NEW c \in Cmd, NEW o \in {"Completed", "Failed", "Cancelled"}
  PROVE  Ends(s, CommandTerminal(s, c, o), c, o)
<1> DEFINE s1 == CommandTerminal(s, c, o)
<1>1. s1 \in State
  BY CommandTerminalType
<1>2. SameSlot(s, s1) /\ s1.msg = s.msg /\ s1.stop = s.stop /\ s1.ncmd = s.ncmd
  BY DEF CommandTerminal, State, SameSlot
<1>3. s1.cmd = [s.cmd EXCEPT ![c] = [@ EXCEPT !.terminal = o]]
  BY DEF CommandTerminal, State
<1>4. s.cmd \in [Cmd -> Command]
  BY StateFields
<1> HIDE DEF s1
<1>5. \A d \in Cmd : s1.cmd[d] = IF d = c THEN [s.cmd[c] EXCEPT !.terminal = o] ELSE s.cmd[d]
  BY <1>3, <1>4
<1>6. s.cmd[c] \in Command
  BY <1>4
<1>7. /\ [s.cmd[c] EXCEPT !.terminal = o].kind = s.cmd[c].kind
      /\ [s.cmd[c] EXCEPT !.terminal = o].targets = s.cmd[c].targets
      /\ [s.cmd[c] EXCEPT !.terminal = o].started = s.cmd[c].started
      /\ [s.cmd[c] EXCEPT !.terminal = o].terminal = o
  BY <1>6 DEF Command
<1> QED BY <1>1, <1>2, <1>5, <1>7 DEF Ends, s1

LEMMA SameSlotViews ==
  ASSUME NEW s, NEW s1, SameSlot(s, s1)
  PROVE  /\ OpenRuns(s1) = OpenRuns(s) /\ OpenTurns(s1) = OpenTurns(s)
         /\ OneSlot(s) => OneSlot(s1)
BY DEF SameSlot, OpenRuns, OpenTurns, OneSlot

LEMMA AdmittedKeeps ==
  ASSUME NEW s \in State, s.ncmd < MaxCmd, NEW k \in Kinds, NEW ts \in SUBSET Cmd,
         LogInvariant(s), k \in {"cancel", "promote"} => \E m \in Cmd : ts = {m}
  PROVE  LogInvariant(CommandAdmitted(s, k, ts)) /\ Lasting(s, CommandAdmitted(s, k, ts))
<1> DEFINE s1 == CommandAdmitted(s, k, ts)
           n == s.ncmd + 1
<1>1. Admits(s, s1, k, ts)
  BY AdmittedEffect
<1>2. s.ncmd \in Nat /\ \A c \in Cmd : c \in Nat
  BY StateFields, CmdIsNat
<1>3. s.cmd[n].kind = "none" /\ ~s.cmd[n].started /\ ~s.msg[n].known
  BY <1>1, <1>2 DEF LogInvariant, Commands, Messages, IsSubmit, Submits, Admits
<1> HIDE DEF s1
<1>4. OneSlot(s1)
  BY <1>1, SameSlotViews DEF LogInvariant, Admits
<1>5. Reservable(s1)
  <2>1. s1.req = s.req
    BY <1>1 DEF SameSlot, Admits
  <2>2. CASE s.req.id = 0
    BY <2>1, <2>2 DEF Reservable
  <2>3. CASE s.req.id # 0
    <3>1. s.req.cmd \in 1 .. s.ncmd /\ s.req.cmd \in Cmd /\ s.req.cmd # n /\ s.req.cmd \in 1 .. n
      <4>1. s.req.cmd \in 1 .. s.ncmd
        BY <2>3 DEF LogInvariant, Reservable
      <4> QED BY <1>1, <1>2, <4>1, BoundsAssumption DEF Cmd, Admits
    <3>2. s1.cmd[s.req.cmd] = s.cmd[s.req.cmd]
      BY <1>1, <3>1 DEF Admits
    <3> QED BY <1>1, <2>1, <2>3, <3>1, <3>2 DEF LogInvariant, Reservable, ActiveCommands, Admits
  <2> QED BY <2>2, <2>3
<1>6. Commands(s1)
  <2> SUFFICES ASSUME NEW c \in Cmd
               PROVE  /\ c > s1.ncmd => s1.cmd[c].kind = "none" /\ ~s1.cmd[c].started
                      /\ ~s1.cmd[c].started => s1.cmd[c].terminal \in {"none", "Cancelled"}
                      /\ s1.cmd[c].kind \in {"cancel", "promote"} =>
                           \E m \in Cmd : s1.cmd[c].targets = {m}
                      /\ s1.stop[c].status = "requested" =>
                           s1.cmd[c].kind = "stop" /\ s1.cmd[c].started
    BY DEF Commands
  <2>1. CASE c = n
    BY <1>1, <1>2, <1>3, <2>1 DEF LogInvariant, Commands, Admits
  <2>2. CASE c # n
    BY <1>1, <1>2, <2>2 DEF LogInvariant, Commands, Admits
  <2> QED BY <2>1, <2>2
<1>7. Messages(s1)
  BY <1>1, <1>3 DEF LogInvariant, Messages, IsSubmit, Admits
<1>8. Lasting(s, s1)
  BY <1>1 DEF Lasting, Admits
<1> QED BY <1>4, <1>5, <1>6, <1>7, <1>8 DEF LogInvariant, s1

LEMMA StartedKeeps ==
  ASSUME NEW s \in State, NEW c \in 1 .. s.ncmd, LogInvariant(s), s.cmd[c].terminal = "none",
         s.req.id # 0 /\ s.req.work = "Command" => c # s.req.cmd
  PROVE  /\ c \in Cmd
         /\ LogInvariant(CommandStarted(s, c)) /\ Lasting(s, CommandStarted(s, c))
<1> DEFINE s1 == CommandStarted(s, c)
<1>0. c \in Cmd /\ s.ncmd \in Nat /\ \A d \in Cmd : d \in Nat
  BY StateFields, CmdIsNat, BoundsAssumption DEF Cmd
<1>1. Starts(s, s1, c)
  BY <1>0, StartedEffect
<1> HIDE DEF s1
<1>2. OneSlot(s1)
  BY <1>1, SameSlotViews DEF LogInvariant, Starts
<1>3. Reservable(s1)
  <2>1. s1.req = s.req
    BY <1>1 DEF SameSlot, Starts
  <2>2. CASE s.req.id = 0
    BY <2>1, <2>2 DEF Reservable
  <2>3. CASE s.req.id # 0
    <3>1. s.req.cmd \in Cmd
      <4>1. s.req.cmd \in 1 .. s.ncmd
        BY <2>3 DEF LogInvariant, Reservable
      <4> QED BY <4>1, StateFields, BoundsAssumption DEF Cmd
    <3>2. /\ s.req.cmd = c => s1.cmd[s.req.cmd].started
          /\ s.req.cmd # c => s1.cmd[s.req.cmd] = s.cmd[s.req.cmd]
      BY <1>1, <3>1 DEF Starts
    <3>3. /\ s1.cmd[s.req.cmd].terminal = s.cmd[s.req.cmd].terminal
          /\ s1.cmd[s.req.cmd].kind = s.cmd[s.req.cmd].kind /\ s1.ncmd = s.ncmd
      BY <1>1, <3>1 DEF Starts
    <3>4. /\ s.req.cmd \in 1 .. s.ncmd
          /\ s.req.work = "Command" => ~s.cmd[s.req.cmd].started
          /\ s.req.work = "Recovery" =>
               s.req.cmd \in ActiveCommands(s) /\ s.cmd[s.req.cmd].kind # "stop"
      BY <2>3 DEF LogInvariant, Reservable
    <3>5. s.req.cmd \in ActiveCommands(s) => s.req.cmd \in ActiveCommands(s1)
      BY <3>1, <3>2, <3>3 DEF ActiveCommands
    <3> QED BY <2>1, <2>3, <3>2, <3>3, <3>4, <3>5 DEF Reservable
  <2> QED BY <2>2, <2>3
<1>4. Commands(s1)
  BY <1>0, <1>1 DEF LogInvariant, Commands, Starts
<1>5. Messages(s1)
  BY <1>0, <1>1 DEF LogInvariant, Messages, IsSubmit, Starts
<1>6. Lasting(s, s1)
  BY <1>0, <1>1 DEF Lasting, Starts
<1> QED BY <1>0, <1>2, <1>3, <1>4, <1>5, <1>6 DEF LogInvariant, s1

\* A terminal event is for a command that has none, or repeats it.
LEMMA TerminalKeeps ==
  ASSUME NEW s \in State, NEW c \in Cmd, NEW o \in {"Completed", "Failed", "Cancelled"},
         LogInvariant(s), s.cmd[c].terminal \in {"none", o}, s.cmd[c].started \/ o = "Cancelled",
         s.req.id # 0 /\ s.req.work = "Recovery" => c # s.req.cmd
  PROVE  LogInvariant(CommandTerminal(s, c, o)) /\ Lasting(s, CommandTerminal(s, c, o))
<1> DEFINE s1 == CommandTerminal(s, c, o)
<1>1. Ends(s, s1, c, o)
  BY TerminalEffect
<1> HIDE DEF s1
<1>2. OneSlot(s1)
  BY <1>1, SameSlotViews DEF Ends, LogInvariant
<1>3. Reservable(s1)
  <2>1. s1.req = s.req
    BY <1>1 DEF Ends, SameSlot
  <2>2. CASE s.req.id = 0
    BY <2>1, <2>2 DEF Reservable
  <2>3. CASE s.req.id # 0
    <3>1. s.req.cmd \in Cmd
      <4>1. s.req.cmd \in 1 .. s.ncmd
        BY <2>3 DEF LogInvariant, Reservable
      <4> QED BY <4>1, StateFields, BoundsAssumption DEF Cmd
    <3> QED BY <1>1, <2>1, <2>3, <3>1 DEF Ends, LogInvariant, Reservable, ActiveCommands
  <2> QED BY <2>2, <2>3
<1>4. Commands(s1)
  BY <1>1 DEF Ends, LogInvariant, Commands
<1>5. Messages(s1)
  BY <1>1 DEF Ends, LogInvariant, Messages, IsSubmit
<1>6. Lasting(s, s1)
  BY <1>1 DEF Ends, Lasting
<1> QED BY <1>2, <1>3, <1>4, <1>5, <1>6 DEF LogInvariant, s1

\* Messages: no event but TurnStarted consumes one, and what is consumed is left alone.
OnlyMessages(s, s1) ==
  /\ s1 \in State /\ SameSlot(s, s1) /\ SameOrders(s, s1)
  /\ \A m \in Cmd :
       /\ s1.msg[m].consumed = s.msg[m].consumed
       /\ s.msg[m].known => s1.msg[m].known
       /\ s.msg[m].consumed > 0 => s1.msg[m].cancelled = s.msg[m].cancelled
                                   /\ s1.msg[m].disposition = s.msg[m].disposition

\* One message at most becomes known, that of a submission, and none is paused.
LEMMA SubmittedEffect ==
  ASSUME NEW s \in State, NEW c \in Cmd, NEW d \in {"unset", "queue", "steer"},
         s.msg[c].consumed = 0
  PROVE  LET s1 == UserMessageSubmitted(s, c, d) IN
         /\ OnlyMessages(s, s1) /\ s1.msg[c].known
         /\ \A m \in Cmd : /\ s1.msg[m].paused = s.msg[m].paused
                           /\ s1.msg[m].cancelled = s.msg[m].cancelled
                           /\ m # c => s1.msg[m] = s.msg[m]
<1> DEFINE s1 == UserMessageSubmitted(s, c, d)
           rec == [s.msg[c] EXCEPT !.known = TRUE, !.disposition = d, !.at = s.clock + 1]
<1>1. s1 \in State /\ s.msg \in [Cmd -> Message]
  BY UserMessageSubmittedType, StateFields
<1>2. SameSlot(s, s1) /\ SameOrders(s, s1)
  BY DEF UserMessageSubmitted, State, SameSlot, SameOrders
<1>3. s1.msg = [s.msg EXCEPT ![c] = rec]
  BY DEF UserMessageSubmitted, State
<1>4. s.msg[c] \in Message
  BY <1>1
<1>5. /\ rec.known /\ rec.consumed = s.msg[c].consumed /\ rec.paused = s.msg[c].paused
      /\ rec.cancelled = s.msg[c].cancelled
  BY <1>4 DEF Message
<1> HIDE DEF s1, rec
<1>6. \A m \in Cmd : s1.msg[m] = IF m = c THEN rec ELSE s.msg[m]
  BY <1>1, <1>3
<1> QED BY <1>1, <1>2, <1>5, <1>6 DEF OnlyMessages, s1

LEMMA PromotedEffect ==
  ASSUME NEW s \in State, NEW c \in Cmd, s.msg[c].consumed = 0
  PROVE  LET s1 == UserMessagePromoted(s, c) IN
         /\ OnlyMessages(s, s1)
         /\ \A m \in Cmd : /\ s1.msg[m].paused => s.msg[m].paused
                           /\ s1.msg[m].known = s.msg[m].known
                           /\ s1.msg[m].cancelled = s.msg[m].cancelled
<1> DEFINE s1 == UserMessagePromoted(s, c)
           rec == [s.msg[c] EXCEPT !.disposition = "steer", !.paused = FALSE, !.at = s.clock + 1]
<1>1. s1 \in State /\ s.msg \in [Cmd -> Message]
  BY UserMessagePromotedType, StateFields
<1>2. SameSlot(s, s1) /\ SameOrders(s, s1)
  BY DEF UserMessagePromoted, State, SameSlot, SameOrders
<1>3. s1.msg = [s.msg EXCEPT ![c] = rec] \/ s1.msg = s.msg
  BY DEF UserMessagePromoted, State
<1>4. s.msg[c] \in Message
  BY <1>1
<1>5. /\ rec.known = s.msg[c].known /\ rec.consumed = s.msg[c].consumed /\ ~rec.paused
      /\ rec.cancelled = s.msg[c].cancelled
  BY <1>4 DEF Message
<1> HIDE DEF s1, rec
<1>6. \A m \in Cmd : s1.msg[m] = s.msg[m] \/ (m = c /\ s1.msg[m] = rec)
  BY <1>1, <1>3
<1> QED BY <1>1, <1>2, <1>5, <1>6 DEF OnlyMessages, s1

LEMMA CancelledEffect ==
  ASSUME NEW s \in State, NEW c \in Cmd, s.msg[c].consumed = 0
  PROVE  LET s1 == UserMessageCancelled(s, c) IN
         /\ OnlyMessages(s, s1)
         /\ \A m \in Cmd : /\ s1.msg[m].paused = s.msg[m].paused
                           /\ s1.msg[m].known = s.msg[m].known
                           /\ s.msg[m].cancelled => s1.msg[m].cancelled
<1> DEFINE s1 == UserMessageCancelled(s, c)
           rec == [s.msg[c] EXCEPT !.cancelled = TRUE]
<1>1. s1 \in State /\ s.msg \in [Cmd -> Message]
  BY UserMessageCancelledType, StateFields
<1>2. SameSlot(s, s1) /\ SameOrders(s, s1)
  BY DEF UserMessageCancelled, State, SameSlot, SameOrders
<1>3. s1.msg = [s.msg EXCEPT ![c] = rec] \/ s1.msg = s.msg
  BY DEF UserMessageCancelled, State
<1>4. s.msg[c] \in Message
  BY <1>1
<1>5. /\ rec.known = s.msg[c].known /\ rec.consumed = s.msg[c].consumed
      /\ rec.paused = s.msg[c].paused /\ rec.cancelled
  BY <1>4 DEF Message
<1> HIDE DEF s1, rec
<1>6. \A m \in Cmd : s1.msg[m] = s.msg[m] \/ (m = c /\ s1.msg[m] = rec)
  BY <1>1, <1>3
<1> QED BY <1>1, <1>2, <1>5, <1>6 DEF OnlyMessages, s1

LEMMA PausedEffect ==
  ASSUME NEW s \in State, NEW ms
  PROVE  LET s1 == PendingMessagesPaused(s, ms) IN
         /\ OnlyMessages(s, s1)
         /\ \A m \in Cmd : /\ s1.msg[m].known = s.msg[m].known
                           /\ s1.msg[m].cancelled = s.msg[m].cancelled
                           /\ m \notin ms \/ ~s.msg[m].known => s1.msg[m] = s.msg[m]
<1> DEFINE s1 == PendingMessagesPaused(s, ms)
           rec(m) == [s.msg[m] EXCEPT !.disposition = "queue", !.paused = TRUE]
<1>1. s1 \in State /\ \A m \in Cmd : s.msg[m] \in Message /\ s.msg[m].consumed \in Nat
  BY PendingMessagesPausedType, RecordFields
<1>2. SameSlot(s, s1) /\ SameOrders(s, s1)
  BY DEF PendingMessagesPaused, State, SameSlot, SameOrders
<1>3. \A m \in Cmd : s1.msg[m] = IF m \in ms /\ Unconsumed(s, m) THEN rec(m) ELSE s.msg[m]
  BY DEF PendingMessagesPaused, State
<1>5. \A m \in Cmd : /\ rec(m).known = s.msg[m].known /\ rec(m).consumed = s.msg[m].consumed
                     /\ rec(m).cancelled = s.msg[m].cancelled
  BY <1>1 DEF Message
<1> HIDE DEF s1, rec
<1> QED BY <1>1, <1>2, <1>3, <1>5 DEF OnlyMessages, Unconsumed, s1

LEMMA OnlyMessagesKeeps ==
  ASSUME NEW s \in State, NEW s1, LogInvariant(s), OnlyMessages(s, s1),
         \A m \in Cmd : /\ ~s1.msg[m].known => ~s1.msg[m].paused
                        /\ s1.msg[m].known /\ ~s.msg[m].known =>
                             IsSubmit(s, m) /\ (s.cmd[m].kind = "interrupt" => s.cmd[m].started)
  PROVE  LogInvariant(s1) /\ Lasting(s, s1)
<1> USE DEF OnlyMessages
<1>1. OneSlot(s1)
  BY SameSlotViews DEF LogInvariant
<1>2. Reservable(s1)
  BY DEF LogInvariant, Reservable, ActiveCommands, SameSlot, SameOrders
<1>3. Commands(s1)
  BY DEF LogInvariant, Commands, SameOrders
<1>4. Messages(s1)
  BY RecordFields DEF LogInvariant, Messages, IsSubmit, SameOrders
<1>5. Lasting(s, s1)
  BY RecordFields DEF Lasting, SameOrders
<1> QED BY <1>1, <1>2, <1>3, <1>4, <1>5 DEF LogInvariant

LEMMA SubmittedKeeps ==
  ASSUME NEW s \in State, NEW c \in Cmd, NEW d \in {"unset", "queue", "steer"}, LogInvariant(s),
         ~s.msg[c].known, IsSubmit(s, c), s.cmd[c].kind = "interrupt" => s.cmd[c].started
  PROVE  LogInvariant(UserMessageSubmitted(s, c, d)) /\ Lasting(s, UserMessageSubmitted(s, c, d))
<1>1. s.msg[c].consumed = 0 /\ \A m \in Cmd : ~s.msg[m].known => ~s.msg[m].paused
  BY DEF LogInvariant, Messages
<1> DEFINE s1 == UserMessageSubmitted(s, c, d)
<1>2. /\ OnlyMessages(s, s1) /\ s1.msg[c].known
      /\ \A m \in Cmd : s1.msg[m].paused = s.msg[m].paused /\ (m # c => s1.msg[m] = s.msg[m])
  BY <1>1, SubmittedEffect
<1> HIDE DEF s1
<1>3. \A m \in Cmd : /\ ~s1.msg[m].known => ~s1.msg[m].paused
                     /\ s1.msg[m].known /\ ~s.msg[m].known => m = c
  BY <1>1, <1>2
<1>4. LogInvariant(s1) /\ Lasting(s, s1)
  BY <1>2, <1>3, OnlyMessagesKeeps
<1> QED BY <1>4 DEF s1

LEMMA MessageKeeps ==
  ASSUME NEW s \in State, LogInvariant(s)
  PROVE  /\ \A ms : LogInvariant(PendingMessagesPaused(s, ms))
                    /\ Lasting(s, PendingMessagesPaused(s, ms))
         /\ \A c \in Cmd : s.msg[c].consumed = 0 =>
              /\ LogInvariant(UserMessagePromoted(s, c)) /\ Lasting(s, UserMessagePromoted(s, c))
              /\ LogInvariant(UserMessageCancelled(s, c)) /\ Lasting(s, UserMessageCancelled(s, c))
<1>1. \A m \in Cmd : ~s.msg[m].known => ~s.msg[m].paused
  BY DEF LogInvariant, Messages
<1>2. ASSUME NEW ms
      PROVE  LogInvariant(PendingMessagesPaused(s, ms)) /\ Lasting(s, PendingMessagesPaused(s, ms))
  BY <1>1, PausedEffect, OnlyMessagesKeeps
<1>3. ASSUME NEW c \in Cmd, s.msg[c].consumed = 0
      PROVE  LogInvariant(UserMessagePromoted(s, c)) /\ Lasting(s, UserMessagePromoted(s, c))
  BY <1>1, <1>3, PromotedEffect, OnlyMessagesKeeps
<1>4. ASSUME NEW c \in Cmd, s.msg[c].consumed = 0
      PROVE  LogInvariant(UserMessageCancelled(s, c)) /\ Lasting(s, UserMessageCancelled(s, c))
  BY <1>1, <1>4, CancelledEffect, OnlyMessagesKeeps
<1> QED BY <1>2, <1>3, <1>4

\* Runs and turns.
OnlySlot(s, s1) == s1 \in State /\ SameOrders(s, s1) /\ s1.msg = s.msg

LEMMA OnlySlotKeeps ==
  ASSUME NEW s \in State, NEW s1, LogInvariant(s), OnlySlot(s, s1), OneSlot(s1), s1.req = s.req
  PROVE  LogInvariant(s1) /\ Lasting(s, s1)
BY DEF LogInvariant, OnlySlot, SameOrders, Reservable, Commands, Messages, Lasting, ActiveCommands,
       IsSubmit

LEMMA RunStartedEffect ==
  ASSUME NEW s \in State, s.nrun < MaxRun, NEW of \in SUBSET Cmd
  PROVE  LET s1 == RunStarted(s, of)
             n == s.nrun + 1
         IN /\ OnlySlot(s, s1) /\ s1.req = s.req /\ s1.turn = s.turn /\ s1.nturn = s.nturn
            /\ n \in Run /\ s1.nrun = n /\ s1.run[n].of = of
            /\ OpenRuns(s1) = OpenRuns(s) \cup {n}
            /\ OpenTurns(s1) = OpenTurns(s)
<1> DEFINE s1 == RunStarted(s, of)
           n == s.nrun + 1
           rec == [of |-> of, status |-> "open"]
<1>1. s1 \in State /\ s.run \in [Run -> RunRecord]
  BY RunStartedType, StateFields
<1>2. n \in Run
  BY StateFields, BoundsAssumption DEF Run
<1>3. /\ SameOrders(s, s1) /\ s1.msg = s.msg /\ s1.req = s.req /\ s1.turn = s.turn
      /\ s1.nturn = s.nturn /\ s1.nrun = n /\ s1.run = [s.run EXCEPT ![n] = rec]
  BY DEF RunStarted, State, SameOrders
<1>4. rec.of = of /\ rec.status = "open"
  OBVIOUS
<1> HIDE DEF s1, n, rec
<1>5. \A r \in Run : s1.run[r] = IF r = n THEN rec ELSE s.run[r]
  BY <1>1, <1>3
<1>6. OpenRuns(s1) = OpenRuns(s) \cup {n}
  BY <1>2, <1>4, <1>5 DEF OpenRuns
<1>7. OpenTurns(s1) = OpenTurns(s)
  BY <1>3 DEF OpenTurns
<1> QED BY <1>1, <1>2, <1>3, <1>4, <1>5, <1>6, <1>7 DEF OnlySlot, s1, n

LEMMA RunTerminalEffect ==
  ASSUME NEW s \in State, NEW r \in Run, NEW o \in {"Completed", "Failed"}
  PROVE  LET s1 == RunTerminal(s, r, o) IN
         /\ OnlySlot(s, s1) /\ s1.req = s.req /\ s1.turn = s.turn /\ s1.nturn = s.nturn
         /\ s1.nrun = s.nrun
         /\ OpenRuns(s1) = OpenRuns(s) \ {r} /\ OpenTurns(s1) = OpenTurns(s)
<1> DEFINE s1 == RunTerminal(s, r, o)
           rec == [s.run[r] EXCEPT !.status = o]
<1>1. s1 \in State /\ s.run \in [Run -> RunRecord] /\ s.run[r] \in RunRecord
  BY RunTerminalType, StateFields
<1>3. /\ SameOrders(s, s1) /\ s1.msg = s.msg /\ s1.req = s.req /\ s1.turn = s.turn
      /\ s1.nturn = s.nturn /\ s1.nrun = s.nrun /\ s1.run = [s.run EXCEPT ![r] = rec]
  BY DEF RunTerminal, State, SameOrders
<1>4. rec.status = o /\ o # "open"
  BY <1>1 DEF RunRecord
<1> HIDE DEF s1, rec
<1>5. \A q \in Run : s1.run[q] = IF q = r THEN rec ELSE s.run[q]
  BY <1>1, <1>3
<1>6. OpenRuns(s1) = OpenRuns(s) \ {r}
  BY <1>4, <1>5 DEF OpenRuns
<1>7. OpenTurns(s1) = OpenTurns(s)
  BY <1>3 DEF OpenTurns
<1> QED BY <1>1, <1>3, <1>6, <1>7 DEF OnlySlot, s1

ClosesTurn(s, s1, t) ==
  /\ OnlySlot(s, s1) /\ s1.req = s.req /\ s1.run = s.run /\ s1.nrun = s.nrun
  /\ s1.nturn = s.nturn /\ OpenRuns(s1) = OpenRuns(s) /\ OpenTurns(s1) = OpenTurns(s) \ {t}
  /\ \A u \in OpenTurns(s1) : s1.turn[u].run = s.turn[u].run

LEMMA TurnTerminalEffect ==
  ASSUME NEW s \in State, NEW t, NEW o \in {"Completed", "Failed"}, NEW f \in BOOLEAN
  PROVE  ClosesTurn(s, TurnTerminal(s, t, o, f), t)
<1> DEFINE s1 == TurnTerminal(s, t, o, f)
           rec == [s.turn[t] EXCEPT !.status = o, !.feedback = f]
<1>1. s1 \in State /\ s.turn \in [Turn -> TurnRecord] /\ (t \in Turn => s.turn[t] \in TurnRecord)
  BY TurnTerminalType, StateFields
<1>3. /\ SameOrders(s, s1) /\ s1.msg = s.msg /\ s1.req = s.req /\ s1.run = s.run
      /\ s1.nturn = s.nturn /\ s1.nrun = s.nrun /\ s1.turn = [s.turn EXCEPT ![t] = rec]
  BY DEF TurnTerminal, State, SameOrders
<1>4. t \in Turn => rec.status = o /\ o # "open"
  BY <1>1 DEF TurnRecord
<1> HIDE DEF s1, rec
<1>5. \A u \in Turn : s1.turn[u] = IF u = t THEN rec ELSE s.turn[u]
  BY <1>1, <1>3
<1>6. OpenTurns(s1) = OpenTurns(s) \ {t} /\ \A u \in OpenTurns(s1) : s1.turn[u].run = s.turn[u].run
  BY <1>4, <1>5 DEF OpenTurns
<1>7. OpenRuns(s1) = OpenRuns(s)
  BY <1>3 DEF OpenRuns
<1> QED BY <1>1, <1>3, <1>6, <1>7 DEF OnlySlot, ClosesTurn, s1

LEMMA RunStartedKeeps ==
  ASSUME NEW s \in State, s.nrun < MaxRun, NEW of \in SUBSET Cmd, LogInvariant(s),
         OpenRuns(s) = {}, s.req.id = 0
  PROVE  LogInvariant(RunStarted(s, of)) /\ Lasting(s, RunStarted(s, of))
<1> DEFINE s1 == RunStarted(s, of)
<1>1. /\ OnlySlot(s, s1) /\ s1.req = s.req
      /\ OpenRuns(s1) = {s.nrun + 1} /\ OpenTurns(s1) = OpenTurns(s)
  BY RunStartedEffect
<1>2. OpenTurns(s) = {}
  BY DEF LogInvariant, OneSlot
<1> HIDE DEF s1
<1>3. OneSlot(s1)
  BY <1>1, <1>2 DEF OneSlot
<1>4. LogInvariant(s1) /\ Lasting(s, s1)
  BY <1>1, <1>3, OnlySlotKeeps
<1> QED BY <1>4 DEF s1

LEMMA RunTerminalKeeps ==
  ASSUME NEW s \in State, NEW r \in Run, NEW o \in {"Completed", "Failed"}, LogInvariant(s),
         OpenTurns(s) = {}
  PROVE  LogInvariant(RunTerminal(s, r, o)) /\ Lasting(s, RunTerminal(s, r, o))
<1> DEFINE s1 == RunTerminal(s, r, o)
<1>1. /\ OnlySlot(s, s1) /\ s1.req = s.req
      /\ OpenRuns(s1) = OpenRuns(s) \ {r} /\ OpenTurns(s1) = OpenTurns(s)
  BY RunTerminalEffect
<1> HIDE DEF s1
<1>3. OneSlot(s1)
  BY <1>1 DEF LogInvariant, OneSlot
<1>4. LogInvariant(s1) /\ Lasting(s, s1)
  BY <1>1, <1>3, OnlySlotKeeps
<1> QED BY <1>4 DEF s1

LEMMA TurnTerminalKeeps ==
  ASSUME NEW s \in State, NEW t, NEW o \in {"Completed", "Failed"}, NEW f \in BOOLEAN,
         LogInvariant(s)
  PROVE  LogInvariant(TurnTerminal(s, t, o, f)) /\ Lasting(s, TurnTerminal(s, t, o, f))
<1> DEFINE s1 == TurnTerminal(s, t, o, f)
<1>1. ClosesTurn(s, s1, t)
  BY TurnTerminalEffect
<1> HIDE DEF s1
<1>3. OneSlot(s1)
  BY <1>1 DEF LogInvariant, OneSlot, ClosesTurn
<1>4. LogInvariant(s1) /\ Lasting(s, s1)
  BY <1>1, <1>3, OnlySlotKeeps DEF ClosesTurn
<1> QED BY <1>4 DEF s1

\* A turn starts in the open run, and consumes known messages only.
OpensTurn(s, s1, r, inputs) ==
  /\ s1 \in State /\ SameOrders(s, s1) /\ s1.run = s.run /\ s1.nrun = s.nrun /\ s1.req = s.req
  /\ s1.nturn = s.nturn + 1 /\ s1.nturn \in Turn
  /\ OpenTurns(s1) = OpenTurns(s) \cup {s1.nturn} /\ s1.turn[s1.nturn].run = r
  /\ \A m \in Cmd : /\ s1.msg[m].known = s.msg[m].known
                    /\ s1.msg[m].paused = s.msg[m].paused
                    /\ s1.msg[m].cancelled = s.msg[m].cancelled
                    /\ s1.msg[m].disposition = s.msg[m].disposition
                    /\ s1.msg[m].consumed >= s.msg[m].consumed
                    /\ s1.msg[m].consumed # s.msg[m].consumed => m \in inputs /\ s.msg[m].known

LEMMA TurnStartedEffect ==
  ASSUME NEW s \in State, s.nturn < MaxTurn, NEW r \in Run, NEW inputs
  PROVE  OpensTurn(s, TurnStarted(s, r, inputs), r, inputs)
<1> DEFINE s1 == TurnStarted(s, r, inputs)
           n == s.nturn + 1
           rec == [run |-> r, feedback |-> FALSE, status |-> "open"]
           eaten(m) == [s.msg[m] EXCEPT !.consumed = @ + 1]
<1>1. s1 \in State /\ s.turn \in [Turn -> TurnRecord]
  BY TurnStartedType, StateFields
<1>2. n \in Turn
  BY StateFields, BoundsAssumption DEF Turn
<1>3. /\ SameOrders(s, s1) /\ s1.run = s.run /\ s1.nrun = s.nrun /\ s1.req = s.req
      /\ s1.nturn = n /\ s1.turn = [s.turn EXCEPT ![n] = rec]
  BY DEF TurnStarted, State, SameOrders
<1>4. \A m \in Cmd : s1.msg[m] = IF m \in inputs /\ s.msg[m].known THEN eaten(m) ELSE s.msg[m]
  BY DEF TurnStarted, State
<1>5. \A m \in Cmd : /\ eaten(m).known = s.msg[m].known /\ eaten(m).paused = s.msg[m].paused
                     /\ eaten(m).cancelled = s.msg[m].cancelled
                     /\ eaten(m).disposition = s.msg[m].disposition
                     /\ eaten(m).consumed = s.msg[m].consumed + 1
  BY RecordFields DEF Message
<1>6. rec.run = r /\ rec.status = "open"
  OBVIOUS
<1> HIDE DEF s1, n, rec, eaten
<1>7. \A t \in Turn : s1.turn[t] = IF t = n THEN rec ELSE s.turn[t]
  BY <1>1, <1>3
<1>8. OpenTurns(s1) = OpenTurns(s) \cup {n} /\ s1.turn[n].run = r
  BY <1>2, <1>6, <1>7 DEF OpenTurns
<1>9. \A m \in Cmd : /\ s1.msg[m].known = s.msg[m].known
                     /\ s1.msg[m].paused = s.msg[m].paused
                     /\ s1.msg[m].cancelled = s.msg[m].cancelled
                     /\ s1.msg[m].disposition = s.msg[m].disposition
  BY <1>4, <1>5
<1>10. \A m \in Cmd : /\ s1.msg[m].consumed >= s.msg[m].consumed
                      /\ s1.msg[m].consumed # s.msg[m].consumed => m \in inputs /\ s.msg[m].known
  BY <1>4, <1>5, RecordFields
<1> QED BY <1>1, <1>2, <1>3, <1>8, <1>9, <1>10 DEF OpensTurn, s1, n

LEMMA TurnStartedKeeps ==
  ASSUME NEW s \in State, s.nturn < MaxTurn, NEW r \in Run, NEW inputs,
         LogInvariant(s), OpenRuns(s) = {r}, OpenTurns(s) = {}
  PROVE  LogInvariant(TurnStarted(s, r, inputs)) /\ Lasting(s, TurnStarted(s, r, inputs))
<1> DEFINE s1 == TurnStarted(s, r, inputs)
<1>1. OpensTurn(s, s1, r, inputs)
  BY TurnStartedEffect
<1> HIDE DEF s1
<1> USE DEF OpensTurn
<1>2. OpenRuns(s1) = OpenRuns(s)
  BY <1>1 DEF OpenRuns
<1>3. OneSlot(s1)
  BY <1>1, <1>2 DEF LogInvariant, OneSlot
<1>4. Reservable(s1)
  BY <1>1 DEF LogInvariant, Reservable, ActiveCommands, SameOrders
<1>5. Commands(s1)
  BY <1>1 DEF LogInvariant, Commands, SameOrders
<1>6. Messages(s1)
  BY <1>1, RecordFields DEF LogInvariant, Messages, IsSubmit, SameOrders
<1>7. Lasting(s, s1)
  BY <1>1, RecordFields DEF Lasting, SameOrders
<1> QED BY <1>3, <1>4, <1>5, <1>6, <1>7 DEF LogInvariant, s1

\* Stops.
LEMMA StopRequestedKeeps ==
  ASSUME NEW s \in State, NEW c \in Cmd, NEW r \in Run \cup {0}, NEW t \in Turn \cup {0},
         LogInvariant(s), s.cmd[c].kind = "stop", s.cmd[c].started
  PROVE  LET s1 == StopTurnRequested(s, c, r, t) IN
         /\ s1 \in State /\ SameSlot(s, s1) /\ s1.cmd = s.cmd /\ s1.ncmd = s.ncmd
         /\ s1.msg = s.msg /\ LogInvariant(s1) /\ Lasting(s, s1)
<1> DEFINE s1 == StopTurnRequested(s, c, r, t)
<1>1. s1 \in State /\ s.stop \in [Cmd -> StopRecord]
  BY StopTurnRequestedType, StateFields
<1>2. SameSlot(s, s1) /\ s1.cmd = s.cmd /\ s1.ncmd = s.ncmd /\ s1.msg = s.msg
  BY DEF StopTurnRequested, State, SameSlot
<1>3. \A d \in Cmd : d # c => s1.stop[d] = s.stop[d]
  BY <1>1 DEF StopTurnRequested, State
<1> HIDE DEF s1
<1>4. LogInvariant(s1)
  BY <1>2, <1>3, SameSlotViews
     DEF LogInvariant, Reservable, ActiveCommands, Commands, Messages, IsSubmit, SameSlot
<1>5. Lasting(s, s1)
  BY <1>2 DEF Lasting
<1> QED BY <1>1, <1>2, <1>4, <1>5 DEF s1

LEMMA StopAppliedKeeps ==
  ASSUME NEW s \in State, NEW c \in Cmd, LogInvariant(s)
  PROVE  LET s1 == StopTurnApplied(s, c) IN
         /\ s1 \in State /\ SameSlot(s, s1) /\ s1.cmd = s.cmd /\ s1.ncmd = s.ncmd
         /\ s1.msg = s.msg /\ LogInvariant(s1) /\ Lasting(s, s1)
<1> DEFINE s1 == StopTurnApplied(s, c)
<1>1. s1 \in State /\ s.stop \in [Cmd -> StopRecord]
  BY StopTurnAppliedType, StateFields
<1>2. SameSlot(s, s1) /\ s1.cmd = s.cmd /\ s1.ncmd = s.ncmd /\ s1.msg = s.msg
  BY DEF StopTurnApplied, State, SameSlot
<1>3. \A d \in Cmd : s1.stop[d].status = "requested" => s.stop[d].status = "requested"
  BY <1>1 DEF StopTurnApplied, State, StopRecord
<1> HIDE DEF s1
<1>4. LogInvariant(s1)
  BY <1>2, <1>3, SameSlotViews
     DEF LogInvariant, Reservable, ActiveCommands, Commands, Messages, IsSubmit, SameSlot
<1>5. Lasting(s, s1)
  BY <1>2 DEF Lasting
<1> QED BY <1>1, <1>2, <1>4, <1>5 DEF s1

\* Reservations.
OnlyRequest(s, s1) ==
  /\ s1 \in State /\ SameOrders(s, s1) /\ s1.msg = s.msg /\ s1.run = s.run /\ s1.nrun = s.nrun
  /\ s1.turn = s.turn /\ s1.nturn = s.nturn

LEMMA OnlyRequestViews ==
  ASSUME NEW s, NEW s1, OnlyRequest(s, s1)
  PROVE  OpenRuns(s1) = OpenRuns(s) /\ OpenTurns(s1) = OpenTurns(s) /\ Lasting(s, s1)
BY DEF OnlyRequest, SameOrders, OpenRuns, OpenTurns, Lasting

LEMMA OnlyRequestKeeps ==
  ASSUME NEW s, NEW s1, LogInvariant(s), OnlyRequest(s, s1), Reservable(s1),
         s1.req.id # 0 => Deferred /\ OpenRuns(s) = {}
  PROVE  LogInvariant(s1)
<1>1. OneSlot(s1)
  BY OnlyRequestViews DEF LogInvariant, OneSlot, OnlyRequest
<1> QED BY <1>1 DEF LogInvariant, OnlyRequest, Commands, Messages, IsSubmit, SameOrders

LEMMA RequestedKeeps ==
  ASSUME NEW s \in State, NEW w \in {"Command", "Recovery"}, NEW c \in 1 .. s.ncmd, NEW r,
         NEW inputs \in SUBSET Cmd, w = "Command" => r = 0 /\ inputs = {}, w = "Recovery" => r \in Run,
         LogInvariant(s), Deferred, OpenRuns(s) = {},
         w = "Command" => ~s.cmd[c].started,
         w = "Recovery" => c \in ActiveCommands(s) /\ s.cmd[c].kind # "stop"
  PROVE  LET s1 == RunSchedulingRequested(s, w, c, r, inputs) IN
         OnlyRequest(s, s1) /\ LogInvariant(s1) /\ Lasting(s, s1)
<1> DEFINE s1 == RunSchedulingRequested(s, w, c, r, inputs)
<1>1. c \in Cmd
  BY StateFields, BoundsAssumption DEF Cmd
<1>2. OnlyRequest(s, s1)
  <2>1. s1 \in State
    BY <1>1, RunSchedulingRequestedType
  <2> QED BY <2>1 DEF RunSchedulingRequested, State, OnlyRequest, SameOrders
<1>3. s1.req.cmd = c /\ s1.req.work = w
  BY DEF RunSchedulingRequested, State
<1> HIDE DEF s1
<1>4. Reservable(s1)
  BY <1>2, <1>3 DEF Reservable, OnlyRequest, SameOrders, ActiveCommands
<1>5. LogInvariant(s1)
  BY <1>2, <1>4, OnlyRequestKeeps
<1> QED BY <1>2, <1>5, OnlyRequestViews DEF s1

LEMMA DeliveredKeeps ==
  ASSUME NEW s \in State, NEW id \in Nat \ {0}, LogInvariant(s)
  PROVE  LET s1 == RunSchedulingDelivered(s, id) IN
         /\ OnlyRequest(s, s1) /\ LogInvariant(s1) /\ Lasting(s, s1)
         /\ s1.req.id = s.req.id /\ s1.req.cmd = s.req.cmd
<1> DEFINE s1 == RunSchedulingDelivered(s, id)
<1>2. OnlyRequest(s, s1)
  <2>1. s1 \in State
    BY RunSchedulingDeliveredType
  <2> QED BY <2>1 DEF RunSchedulingDelivered, State, OnlyRequest, SameOrders
<1>3. s1.req.cmd = s.req.cmd /\ s1.req.work = s.req.work /\ s1.req.id = s.req.id
  BY StateFields DEF RunSchedulingDelivered, State, Request, NoRequest
<1> HIDE DEF s1
<1>4. Reservable(s1)
  BY <1>2, <1>3 DEF LogInvariant, Reservable, OnlyRequest, SameOrders, ActiveCommands
<1>5. LogInvariant(s1)
  BY <1>2, <1>3, <1>4, OnlyRequestKeeps DEF LogInvariant, OneSlot
<1> QED BY <1>2, <1>3, <1>5, OnlyRequestViews DEF s1

LEMMA ClosedKeeps ==
  ASSUME NEW s \in State, LogInvariant(s)
  PROVE  LET s1 == RunSchedulingClosed(s, s.req.id) IN
         OnlyRequest(s, s1) /\ LogInvariant(s1) /\ Lasting(s, s1) /\ s1.req.id = 0
<1> DEFINE s1 == RunSchedulingClosed(s, s.req.id)
<1>2. OnlyRequest(s, s1)
  <2>1. s1 \in State
    BY RunSchedulingClosedType
  <2> QED BY <2>1 DEF RunSchedulingClosed, State, OnlyRequest, SameOrders
<1>3. s1.req.id = 0
  BY DEF RunSchedulingClosed, State, NoRequest
<1> HIDE DEF s1
<1>4. Reservable(s1)
  BY <1>3 DEF Reservable
<1>5. LogInvariant(s1)
  BY <1>2, <1>3, <1>4, OnlyRequestKeeps
<1> QED BY <1>2, <1>3, <1>5, OnlyRequestViews DEF s1

\* The paused queue is cleared by cancelling its messages, and its commands if they wait.
ClearsPaused(s, s1) ==
  /\ s1 \in State /\ SameSlot(s, s1) /\ s1.stop = s.stop /\ s1.ncmd = s.ncmd
  /\ PausedQueue(s1) = {}
  /\ \A c \in Cmd :
       /\ s1.cmd[c].kind = s.cmd[c].kind /\ s1.cmd[c].targets = s.cmd[c].targets
       /\ s1.cmd[c].started = s.cmd[c].started
       /\ s1.cmd[c].terminal # s.cmd[c].terminal =>
            /\ c \in PendingCommands(s) \cap PausedQueue(s)
            /\ s1.cmd[c].terminal = "Cancelled"
       /\ s1.msg[c].known = s.msg[c].known /\ s1.msg[c].paused = s.msg[c].paused
       /\ s1.msg[c].consumed = s.msg[c].consumed
       /\ s.msg[c].consumed > 0 => s1.msg[c].cancelled = s.msg[c].cancelled
       /\ s1.msg[c].disposition = s.msg[c].disposition

LEMMA PausedQueueClearedEffect ==
  ASSUME NEW s \in State
  PROVE  ClearsPaused(s, PausedQueueCleared(s))
<1> DEFINE s1 == PausedQueueCleared(s)
           dropped(m) == [s.msg[m] EXCEPT !.cancelled = TRUE]
           ended(c) == [s.cmd[c] EXCEPT !.terminal = "Cancelled"]
<1>1. s1 \in State
  BY PausedQueueClearedType
<1>2. SameSlot(s, s1) /\ s1.stop = s.stop /\ s1.ncmd = s.ncmd
  BY DEF PausedQueueCleared, State, SameSlot
<1>3. \A m \in Cmd : s1.msg[m] = IF m \in PausedQueue(s) THEN dropped(m) ELSE s.msg[m]
  BY DEF PausedQueueCleared, State
<1>4. \A c \in Cmd : s1.cmd[c] = IF c \in PausedQueue(s) \cap PendingCommands(s)
                                   THEN ended(c) ELSE s.cmd[c]
  BY DEF PausedQueueCleared, State
<1>5. \A m \in Cmd : /\ dropped(m).known = s.msg[m].known /\ dropped(m).paused = s.msg[m].paused
                     /\ dropped(m).consumed = s.msg[m].consumed /\ dropped(m).cancelled
                     /\ dropped(m).disposition = s.msg[m].disposition
  BY RecordFields DEF Message
<1>6. \A c \in Cmd : /\ ended(c).kind = s.cmd[c].kind /\ ended(c).targets = s.cmd[c].targets
                     /\ ended(c).started = s.cmd[c].started /\ ended(c).terminal = "Cancelled"
  BY RecordFields DEF Command
<1>7. \A m \in Cmd : s.msg[m].consumed > 0 => m \notin PausedQueue(s)
  BY DEF PausedQueue, PendingMessages, Unconsumed
<1> HIDE DEF s1, dropped, ended
<1>8. PausedQueue(s1) = {}
  BY <1>3, <1>5 DEF PausedQueue, PendingMessages, Unconsumed
<1>9. \A m \in Cmd : /\ s1.msg[m].known = s.msg[m].known /\ s1.msg[m].paused = s.msg[m].paused
                     /\ s1.msg[m].consumed = s.msg[m].consumed
                     /\ s.msg[m].consumed > 0 => s1.msg[m].cancelled = s.msg[m].cancelled
                     /\ s1.msg[m].disposition = s.msg[m].disposition
  BY <1>3, <1>5, <1>7
<1>10. \A c \in Cmd :
       /\ s1.cmd[c].kind = s.cmd[c].kind /\ s1.cmd[c].targets = s.cmd[c].targets
       /\ s1.cmd[c].started = s.cmd[c].started
       /\ s1.cmd[c].terminal # s.cmd[c].terminal =>
            /\ c \in PendingCommands(s) \cap PausedQueue(s)
            /\ s1.cmd[c].terminal = "Cancelled"
  BY <1>4, <1>6
<1> QED BY <1>1, <1>2, <1>8, <1>9, <1>10 DEF ClearsPaused, s1

LEMMA ClearedKeeps ==
  ASSUME NEW s \in State, LogInvariant(s)
  PROVE  LogInvariant(PausedQueueCleared(s)) /\ Lasting(s, PausedQueueCleared(s))
<1> DEFINE s1 == PausedQueueCleared(s)
<1>1. ClearsPaused(s, s1)
  BY PausedQueueClearedEffect
<1>2. \A c \in PendingCommands(s) : ~s.cmd[c].started /\ s.cmd[c].terminal = "none"
  BY DEF PendingCommands
<1> HIDE DEF s1
<1>3. OneSlot(s1)
  BY <1>1, SameSlotViews DEF LogInvariant, ClearsPaused
<1>4. Reservable(s1)
  <2>1. s1.req = s.req
    BY <1>1 DEF ClearsPaused, SameSlot
  <2>2. CASE s.req.id = 0
    BY <2>1, <2>2 DEF Reservable
  <2>3. CASE s.req.id # 0
    <3>1. s.req.cmd \in Cmd
      BY <2>3, RequestInputsType
    <3> QED BY <1>1, <1>2, <2>1, <2>3, <3>1 DEF LogInvariant, Reservable, ActiveCommands, ClearsPaused
  <2> QED BY <2>2, <2>3
<1>5. Commands(s1)
  BY <1>1, <1>2 DEF LogInvariant, Commands, ClearsPaused
<1>6. Messages(s1)
  BY <1>1 DEF LogInvariant, Messages, IsSubmit, ClearsPaused
<1>7. Lasting(s, s1)
  BY <1>1, <1>2 DEF Lasting, ClearsPaused
<1> QED BY <1>3, <1>4, <1>5, <1>6, <1>7 DEF LogInvariant, s1

\* A restart closes the slot, and ends commands that have started and are not reserved.
ClosesSlot(s, s1) ==
  /\ s1 \in State /\ OpenRuns(s1) = {} /\ OpenTurns(s1) = {}
  /\ s1.nrun = s.nrun /\ s1.nturn = s.nturn /\ s1.ncmd = s.ncmd
  /\ s1.req = s.req /\ s1.msg = s.msg
  /\ \A c \in Cmd :
       /\ s1.cmd[c].kind = s.cmd[c].kind /\ s1.cmd[c].targets = s.cmd[c].targets
       /\ s1.cmd[c].started = s.cmd[c].started
       /\ s1.cmd[c].terminal # s.cmd[c].terminal =>
            /\ c \in ApplicableStops(s) \/ c \in RecoverableCommands(s) \ {ContinuationCommand(s)}
            /\ s1.cmd[c].terminal \in {"Completed", "Cancelled"}
       /\ s1.stop[c].status = "requested" => s.stop[c].status = "requested"

LEMMA ClosedByRecoveryEffect ==
  ASSUME NEW s \in State
  PROVE  ClosesSlot(s, ClosedByRecovery(s))
<1> DEFINE s1 == ClosedByRecovery(s)
           turn(t) == [s.turn[t] EXCEPT !.status = "Failed"]
           run(r)  == [s.run[r] EXCEPT !.status = "Failed"]
           stop(c) == [s.stop[c] EXCEPT !.status = "applied"]
           cmd(c, o) == [s.cmd[c] EXCEPT !.terminal = o]
<1>1. s1 \in State /\ s1.ncmd = s.ncmd /\ s1.nrun = s.nrun
  BY ClosedByRecoveryType
<1>2. s1.nturn = s.nturn /\ s1.req = s.req /\ s1.msg = s.msg
  BY DEF ClosedByRecovery, State
<1>3. \A t \in Turn : s1.turn[t] = IF t \in OpenTurns(s) THEN turn(t) ELSE s.turn[t]
  BY DEF ClosedByRecovery, State
<1>4. \A r \in Run : s1.run[r] = IF r \in OpenRuns(s) THEN run(r) ELSE s.run[r]
  BY DEF ClosedByRecovery, State
<1>5. \A c \in Cmd : s1.stop[c] = IF c \in ApplicableStops(s) THEN stop(c) ELSE s.stop[c]
  BY DEF ClosedByRecovery, State
<1>6. \A c \in Cmd : s1.cmd[c] = IF c \in ApplicableStops(s) THEN cmd(c, "Completed")
                                 ELSE IF c \in RecoverableCommands(s) \ {ContinuationCommand(s)}
                                   THEN cmd(c, "Cancelled") ELSE s.cmd[c]
  BY DEF ClosedByRecovery, State
<1>7. (\A t \in Turn : turn(t).status = "Failed") /\ (\A r \in Run : run(r).status = "Failed")
  BY RecordFields DEF TurnRecord, RunRecord
<1>8. \A c \in Cmd : stop(c).status = "applied"
  BY RecordFields DEF StopRecord
<1>9. \A c \in Cmd : \A o \in {"Completed", "Cancelled"} :
        /\ cmd(c, o).kind = s.cmd[c].kind /\ cmd(c, o).targets = s.cmd[c].targets
        /\ cmd(c, o).started = s.cmd[c].started /\ cmd(c, o).terminal = o
  BY RecordFields DEF Command
<1> HIDE DEF s1, turn, run, stop, cmd
<1>10. OpenRuns(s1) = {} /\ OpenTurns(s1) = {}
  BY <1>3, <1>4, <1>7 DEF OpenRuns, OpenTurns
<1>11. \A c \in Cmd : s1.stop[c].status = "requested" => s.stop[c].status = "requested"
  BY <1>5, <1>8
<1>12. \A c \in Cmd :
       /\ s1.cmd[c].kind = s.cmd[c].kind /\ s1.cmd[c].targets = s.cmd[c].targets
       /\ s1.cmd[c].started = s.cmd[c].started
       /\ s1.cmd[c].terminal # s.cmd[c].terminal =>
            /\ c \in ApplicableStops(s) \/ c \in RecoverableCommands(s) \ {ContinuationCommand(s)}
            /\ s1.cmd[c].terminal \in {"Completed", "Cancelled"}
  BY <1>6, <1>9
<1> QED BY <1>1, <1>2, <1>10, <1>11, <1>12 DEF ClosesSlot, s1

\* What recovery ends has started, has not ended, and is not what a reservation is for.
LEMMA RecoveryEnds ==
  ASSUME NEW s \in State, LogInvariant(s), NEW c \in ApplicableStops(s) \cup RecoverableCommands(s)
  PROVE  /\ c \in ActiveCommands(s)
         /\ s.req.id # 0 => c # s.req.cmd
<1>1. CASE c \in RecoverableCommands(s)
  BY <1>1 DEF RecoverableCommands
<1>2. CASE c \in ApplicableStops(s)
  <2>1. c \in Cmd /\ s.cmd[c].kind = "stop" /\ c \in ActiveCommands(s)
    BY <1>2 DEF LogInvariant, Commands, ApplicableStops, PendingStops, ActiveCommands
  <2>2. s.req.id # 0 => c # s.req.cmd
    <3>1. s.req.work \in {"Command", "Recovery"}
      BY RequestInputsType
    <3> QED BY <2>1, <3>1 DEF LogInvariant, Reservable, ActiveCommands
  <2> QED BY <2>1, <2>2
<1> QED BY <1>1, <1>2

LEMMA ClosedByRecoveryKeeps ==
  ASSUME NEW s \in State, LogInvariant(s)
  PROVE  LogInvariant(ClosedByRecovery(s)) /\ Lasting(s, ClosedByRecovery(s))
<1> DEFINE s1 == ClosedByRecovery(s)
<1>1. ClosesSlot(s, s1)
  BY ClosedByRecoveryEffect
<1>2. \A c \in Cmd : s1.cmd[c].terminal # s.cmd[c].terminal =>
        /\ s.cmd[c].started /\ s.cmd[c].terminal = "none" /\ (s.req.id # 0 => c # s.req.cmd)
  BY <1>1, RecoveryEnds DEF ClosesSlot, ActiveCommands
<1> HIDE DEF s1
<1>3. OneSlot(s1)
  BY <1>1 DEF LogInvariant, OneSlot, ClosesSlot
<1>4. Reservable(s1)
  <2>1. CASE s.req.id = 0
    BY <1>1, <2>1 DEF Reservable, ClosesSlot
  <2>2. CASE s.req.id # 0
    <3>1. s.req.cmd \in Cmd
      BY <2>2, RequestInputsType
    <3> QED BY <1>1, <1>2, <2>2, <3>1 DEF LogInvariant, Reservable, ActiveCommands, ClosesSlot
  <2> QED BY <2>1, <2>2
<1>5. Commands(s1)
  BY <1>1, <1>2 DEF LogInvariant, Commands, ClosesSlot
<1>6. Messages(s1)
  BY <1>1 DEF LogInvariant, Messages, IsSubmit, ClosesSlot
<1>7. Lasting(s, s1)
  BY <1>1, <1>2 DEF Lasting, ClosesSlot
<1> QED BY <1>3, <1>4, <1>5, <1>6, <1>7 DEF LogInvariant, s1

-----------------------------------------------------------------------------
(* Memory, when the control fiber, the execution and the grant stay where  *)
(* they are: admissions and deliveries do not disturb what was read.       *)

Undisturbed(s, s1) ==
  /\ s1.run = s.run /\ s1.nturn = s.nturn /\ OpenTurns(s1) = OpenTurns(s)
  /\ s1.req.id = s.req.id /\ s1.req.cmd = s.req.cmd
  /\ \A c \in Cmd :
       /\ s1.cmd[c].started = s.cmd[c].started
       /\ s.cmd[c].kind # "none" => /\ s1.cmd[c].kind = s.cmd[c].kind
                                    /\ s1.cmd[c].targets = s.cmd[c].targets
       /\ s1.msg[c].consumed = s.msg[c].consumed
       /\ s.msg[c].known => s1.msg[c].known
  /\ ActiveCommands(s) \subseteq ActiveCommands(s1)
  /\ PendingCommands(s) \ PausedQueue(s) \subseteq PendingCommands(s1)
  /\ PausedQueue(s1) \subseteq PausedQueue(s)

LEMMA UndisturbedIsTransitive ==
  ASSUME NEW s, NEW s1, NEW s2, Undisturbed(s, s1), Undisturbed(s1, s2)
  PROVE  Undisturbed(s, s2)
<1>1. \A c \in Cmd :
        /\ s2.cmd[c].started = s.cmd[c].started
        /\ s.cmd[c].kind # "none" => /\ s2.cmd[c].kind = s.cmd[c].kind
                                     /\ s2.cmd[c].targets = s.cmd[c].targets
        /\ s2.msg[c].consumed = s.msg[c].consumed
        /\ s.msg[c].known => s2.msg[c].known
  BY DEF Undisturbed
<1>2. /\ ActiveCommands(s) \subseteq ActiveCommands(s2)
      /\ PendingCommands(s) \ PausedQueue(s) \subseteq PendingCommands(s2)
      /\ PausedQueue(s2) \subseteq PausedQueue(s)
  BY DEF Undisturbed
<1> QED BY <1>1, <1>2 DEF Undisturbed


LEMMA MemoryStays ==
  ASSUME TypeOK, LogInvariant(st), Memory, Undisturbed(st, st'), UNCHANGED <<exec, ctl, grant>>
  PROVE  Memory'
<1>1. /\ ctl' = ctl /\ exec' = exec /\ grant' = grant
      /\ OpenRuns(st') = OpenRuns(st) /\ OpenTurns(st') = OpenTurns(st)
      /\ st'.nturn = st.nturn /\ st'.run = st.run /\ st'.req.id = st.req.id
      /\ st'.req.cmd = st.req.cmd
  BY DEF Undisturbed, OpenRuns
<1>2. \A r, c : Holds(st, r, c) => Holds(st', r, c)
  BY <1>1 DEF Holds, Undisturbed
<1>3. TurnsClosed(st') = TurnsClosed(st)
  BY <1>1 DEF TurnsClosed
<1>4. /\ ctl.cmd \in Cmd \cup {0} /\ ctl.msgs \in SUBSET Cmd
      /\ grant.msgs \in SUBSET Cmd
  BY DEF TypeOK, PlaceType
<1>5. ExecHolds' /\ CtlHolds' /\ GrantHolds' /\ SlotHeld'
  <2>1. ExecHolds'
    BY <1>1, <1>2, <1>3 DEF Memory, ExecHolds
  <2>2. CtlHolds'
    BY <1>1, <1>2, <1>3 DEF Memory, CtlHolds
  <2>3. GrantHolds'
    BY <1>1, <1>2, <1>3 DEF Memory, GrantHolds
  <2>4. SlotHeld'
    BY <1>1 DEF Memory, SlotHeld
  <2> QED BY <2>1, <2>2, <2>3, <2>4
<1>6. TakenCommand'
  <2>1. ctl.at \in Taken =>
          ctl.cmd \in ActiveCommands(st') /\ (exec.tag # "Idle" => ctl.cmd # exec.cmd)
    BY DEF Memory, TakenCommand, Undisturbed
  <2>2. ctl.at \in Awaited => ctl.cmd \in PendingCommands(st') /\ ctl.cmd \notin PausedQueue(st')
    BY DEF Memory, TakenCommand, Undisturbed
  <2>3. /\ ctl.at = "start" => IsSubmit(st', ctl.cmd)
        /\ ctl.at = "closeWaiting" => st'.cmd[ctl.cmd].kind \in {"stop", "interrupt"}
        /\ ctl.at \in {"stopRequest", "stopClose", "stopApply"} => st'.cmd[ctl.cmd].kind = "stop"
    <3>1. ctl.at \in {"start", "closeWaiting", "stopRequest", "stopClose", "stopApply"} =>
            ctl.cmd \in Cmd
      BY <1>4, QueueTypes DEF TypeOK, Memory, TakenCommand, Awaited, Taken, ActiveCommands
    <3> QED BY <3>1 DEF Memory, TakenCommand, Undisturbed, IsSubmit, Submits
  <2>4. ctl.at = "interruption" =>
       /\ ctl.cmd # ctl.active
       /\ \/ st'.cmd[ctl.cmd].kind = "stop" /\ ctl.cmd \in ActiveCommands(st')
          \/ st'.cmd[ctl.cmd].kind = "interrupt" /\ ctl.cmd \in PendingCommands(st')
    <3>1. ctl.at = "interruption" => ctl.cmd \in Cmd
      BY <1>4, CtlFields DEF Starting
    <3>2. ctl.at = "interruption" /\ st.cmd[ctl.cmd].kind = "interrupt"
             /\ ctl.cmd \in PendingCommands(st) => ctl.cmd \notin PausedQueue(st)
      BY <3>1 DEF LogInvariant, Messages, PausedQueue, PendingMessages, Unconsumed, PendingCommands
    <3> QED BY <3>1, <3>2 DEF Memory, TakenCommand, Undisturbed
  <2> QED BY <1>1, <2>1, <2>2, <2>3, <2>4 DEF Memory, TakenCommand
<1>7. TargetUnconsumed'
  <2>1. ctl.at \in {"cancel", "promote"} =>
          /\ ctl.cmd \in Cmd /\ st.cmd[ctl.cmd].kind = ctl.at
          /\ st'.cmd[ctl.cmd].kind = ctl.at
          /\ st'.cmd[ctl.cmd].targets = st.cmd[ctl.cmd].targets
          /\ st.cmd[ctl.cmd].targets \in SUBSET Cmd
    <3>1. ctl.at \in {"cancel", "promote"} => ctl.cmd \in Cmd /\ st.cmd[ctl.cmd].kind = ctl.at
      BY DEF Memory, TakenCommand, TargetUnconsumed, Taken, ActiveCommands
    <3> QED BY <3>1, StateFields DEF TypeOK, Undisturbed, Command
  <2> QED BY <1>1, <1>4, <2>1 DEF Memory, TargetUnconsumed, Undisturbed
<1>8. InputsResumed'
  <2>1. ASSUME NEW r \in Run, NEW ms, Resumed(st, r, ms)
        PROVE  Resumed(st', r, ms)
    <3>1. st.run[r].of \in SUBSET Cmd
      BY StateFields DEF TypeOK, RunRecord
    <3> QED BY <2>1, <3>1 DEF Resumed, Undisturbed
  <2>2. ctl.at \in {"recovered", "turn"} => ctl.run \in Run
    BY DEF Memory, CtlHolds, Closing, Holds, OpenRuns
  <2>3. grant # NoGrant => grant.run \in Run
    BY DEF Memory, GrantHolds, Holds, OpenRuns
  <2>4. ctl.at = "startResume" => ctl.cmd \in Cmd
    BY <1>4, CtlFields DEF Starting
  <2> QED BY <1>1, <2>1, <2>2, <2>3, <2>4 DEF Memory, InputsResumed, Undisturbed
<1> QED BY <1>5, <1>6, <1>7, <1>8 DEF Memory

-----------------------------------------------------------------------------
(* The steps.  Each keeps the invariant of the log, what is settled and    *)
(* what is remembered; types are kept by SessionControlProofs.             *)

Kept == LogInvariant(st)' /\ Lasting(st, st') /\ Memory'

LEMMA AdmittedIsUndisturbed ==
  ASSUME NEW s \in State, s.ncmd < MaxCmd, NEW k \in Kinds, NEW ts \in SUBSET Cmd,
         LogInvariant(s)
  PROVE  Undisturbed(s, CommandAdmitted(s, k, ts))
<1> DEFINE s1 == CommandAdmitted(s, k, ts)
           n == s.ncmd + 1
<1>1. Admits(s, s1, k, ts)
  BY AdmittedEffect
<1>2. s.ncmd \in Nat /\ \A c \in Cmd : c \in Nat
  BY StateFields, CmdIsNat
<1>3. n \in Cmd /\ s.cmd[n].kind = "none"
  BY <1>1, <1>2 DEF LogInvariant, Commands, Admits
<1> HIDE DEF s1
<1>4. OpenTurns(s1) = OpenTurns(s)
  BY <1>1, SameSlotViews DEF Admits
<1>5. ActiveCommands(s1) = ActiveCommands(s) /\ PausedQueue(s1) = PausedQueue(s)
  BY <1>1 DEF Admits, ActiveCommands, PausedQueue, PendingMessages, Unconsumed
<1>6. PendingCommands(s) \subseteq PendingCommands(s1)
  <2>1. \A c \in 1 .. s.ncmd : c \in Cmd /\ c \in 1 .. n
    BY <1>2, StateFields, BoundsAssumption DEF Cmd, n
  <2> QED BY <1>1, <2>1 DEF Admits, PendingCommands
<1>7. \A c \in Cmd : s.cmd[c].kind # "none" => s1.cmd[c] = s.cmd[c]
  BY <1>1, <1>3 DEF Admits
<1> QED BY <1>1, <1>4, <1>5, <1>6, <1>7 DEF Undisturbed, Admits, SameSlot, s1

LEMMA ClearedIsUndisturbed ==
  ASSUME NEW s \in State
  PROVE  Undisturbed(s, PausedQueueCleared(s))
<1> DEFINE s1 == PausedQueueCleared(s)
<1>1. ClearsPaused(s, s1)
  BY PausedQueueClearedEffect
<1> HIDE DEF s1
<1>2. OpenTurns(s1) = OpenTurns(s)
  BY <1>1, SameSlotViews DEF ClearsPaused
<1>3. ActiveCommands(s) \subseteq ActiveCommands(s1)
  BY <1>1 DEF ClearsPaused, ActiveCommands, PendingCommands
<1>4. PendingCommands(s) \ PausedQueue(s) \subseteq PendingCommands(s1)
  <2>1. PendingCommands(s) \subseteq Cmd
    BY QueueTypes
  <2> QED BY <1>1, <2>1 DEF ClearsPaused, PendingCommands
<1> QED BY <1>1, <1>2, <1>3, <1>4 DEF Undisturbed, ClearsPaused, SameSlot, s1

LEMMA SubmittedIsUndisturbed ==
  ASSUME NEW s \in State, NEW c \in Cmd, NEW d \in {"unset", "queue", "steer"},
         ~s.msg[c].known, LogInvariant(s)
  PROVE  Undisturbed(s, UserMessageSubmitted(s, c, d))
<1> DEFINE s1 == UserMessageSubmitted(s, c, d)
<1>1. s.msg[c].consumed = 0 /\ ~s.msg[c].paused
  BY DEF LogInvariant, Messages
<1>2. /\ OnlyMessages(s, s1)
      /\ \A m \in Cmd : s1.msg[m].paused = s.msg[m].paused /\ (m # c => s1.msg[m] = s.msg[m])
  BY <1>1, SubmittedEffect
<1> HIDE DEF s1
<1>3. OpenTurns(s1) = OpenTurns(s)
  BY <1>2, SameSlotViews DEF OnlyMessages
<1>4. ActiveCommands(s1) = ActiveCommands(s) /\ PendingCommands(s1) = PendingCommands(s)
  BY <1>2 DEF OnlyMessages, SameOrders, ActiveCommands, PendingCommands
<1>5. PausedQueue(s1) \subseteq PausedQueue(s)
  BY <1>1, <1>2 DEF PausedQueue, PendingMessages, Unconsumed
<1> QED BY <1>2, <1>3, <1>4, <1>5 DEF Undisturbed, OnlyMessages, SameSlot, SameOrders, s1

\* What an admission appends is harmless to the log and to what others read of it.
Harmless(s, s1) == s1 \in State /\ LogInvariant(s1) /\ Lasting(s, s1) /\ Undisturbed(s, s1)

LEMMA HarmlessIsTransitive ==
  ASSUME NEW s, NEW s1, NEW s2, Harmless(s, s1), Harmless(s1, s2)
  PROVE  Harmless(s, s2)
BY LastingIsTransitive, UndisturbedIsTransitive DEF Harmless

LEMMA AdmittedIsHarmless ==
  ASSUME NEW s \in State, s.ncmd < MaxCmd, NEW k \in Kinds, NEW ts \in SUBSET Cmd,
         LogInvariant(s), k \in {"cancel", "promote"} => \E m \in Cmd : ts = {m}
  PROVE  Harmless(s, CommandAdmitted(s, k, ts)) /\ CommandAdmitted(s, k, ts).ncmd = s.ncmd + 1
BY AdmittedKeeps, AdmittedIsUndisturbed, AdmittedEffect DEF Harmless, Admits

LEMMA SubmitIsHarmless ==
  ASSUME NEW s \in State, s.ncmd < MaxCmd, NEW d \in {"queue", "steer"}, NEW clear \in BOOLEAN,
         LogInvariant(s)
  PROVE  Harmless(s, SubmitAdmitted(s, d, clear))
<1> DEFINE n  == s.ncmd + 1
           s1 == CommandAdmitted(s, d, {})
           s2 == IF clear THEN PausedQueueCleared(s1) ELSE s1
           s3 == UserMessageSubmitted(s2, n, d)
<1>1. s3 = SubmitAdmitted(s, d, clear)
  BY DEF SubmitAdmitted
<1>2. d \in Kinds /\ d \in Submits
  BY DEF Kinds, Submits
<1>3. Harmless(s, s1) /\ Admits(s, s1, d, {})
  BY <1>2, AdmittedIsHarmless, AdmittedEffect
<1>4. n \in Cmd /\ ~s1.msg[n].known /\ s1.cmd[n].kind = d
  <2>1. n \in Cmd /\ s1.cmd[n].kind = d /\ s1.msg = s.msg
    BY <1>3 DEF Admits
  <2>2. s.cmd[n].kind = "none"
    BY <2>1, StateFields, CmdIsNat DEF LogInvariant, Commands
  <2>3. ~s.msg[n].known
    BY <2>1, <2>2 DEF LogInvariant, Messages, IsSubmit, Submits
  <2> QED BY <2>1, <2>3
<1> HIDE DEF s1, n
<1>5. Harmless(s1, s2) /\ ~s2.msg[n].known /\ s2.cmd[n].kind = d
  <2>1. CASE clear
    <3>1. s2 = PausedQueueCleared(s1)
      BY <2>1
    <3>2. ClearsPaused(s1, s2) /\ LogInvariant(s2) /\ Lasting(s1, s2) /\ Undisturbed(s1, s2)
      BY <1>3, <3>1, PausedQueueClearedEffect, ClearedKeeps, ClearedIsUndisturbed DEF Harmless
    <3> QED BY <1>4, <3>2 DEF ClearsPaused, Harmless
  <2>2. CASE ~clear
    <3>1. OpenTurns(s1) = OpenTurns(s1) /\ Undisturbed(s1, s1)
      BY DEF Undisturbed
    <3> QED BY <1>3, <1>4, <2>2, <3>1, LastingIsReflexive DEF Harmless
  <2> QED BY <2>1, <2>2
<1> HIDE DEF s2
<1>6. Harmless(s2, s3)
  <2>1. s2 \in State /\ LogInvariant(s2) /\ IsSubmit(s2, n) /\ s2.cmd[n].kind # "interrupt"
    BY <1>2, <1>5 DEF Harmless, IsSubmit
  <2>2. s3 \in State
    BY <2>1, UserMessageSubmittedType
  <2>3. LogInvariant(s3) /\ Lasting(s2, s3)
    BY <1>4, <1>5, <2>1, SubmittedKeeps
  <2>4. Undisturbed(s2, s3)
    BY <1>4, <1>5, <2>1, SubmittedIsUndisturbed
  <2> QED BY <2>2, <2>3, <2>4 DEF Harmless
<1> HIDE DEF s3
<1> QED BY <1>1, <1>3, <1>5, <1>6, HarmlessIsTransitive

LEMMA HarmlessStep ==
  ASSUME SlotInvariant, Harmless(st, st'), UNCHANGED <<exec, ctl, grant>>
  PROVE  Kept
BY MemoryStays DEF SlotInvariant, Harmless, Kept

LEMMA AdmissionKeeps == SlotInvariant /\ Admission => Kept
<1> SUFFICES ASSUME SlotInvariant, Admission PROVE Kept
  OBVIOUS
<1>1. st \in State /\ LogInvariant(st)
  BY DEF SlotInvariant, TypeOK
<1>2. ASSUME NEW s1, Admit(s1), Harmless(st, s1) PROVE Kept
  BY <1>2, HarmlessStep DEF Admit
<1>3. ASSUME NEW s1, Admit(s1) PROVE st.ncmd < MaxCmd - 1 /\ st.ncmd < MaxCmd
  BY <1>1, <1>3, StateFields, BoundsAssumption DEF Admit
<1>4. CASE AdmitSubmit
  BY <1>1, <1>2, <1>3, <1>4, SubmitIsHarmless DEF AdmitSubmit
<1>5. CASE AdmitControl
  <2> PICK k \in Ingress \cap {"interrupt", "stop"} : Admit(CommandAdmitted(st, k, {}))
    BY <1>5 DEF AdmitControl
  <2>1. k \in Kinds /\ k \notin {"cancel", "promote"}
    BY DEF Kinds, Submits
  <2> QED BY <1>1, <1>2, <1>3, <2>1, AdmittedIsHarmless
<1>6. CASE AdmitTargeted
  <2> PICK k \in Ingress \cap {"cancel", "promote"}, m \in KnownMessages :
           Admit(CommandAdmitted(st, k, {m}))
    BY <1>6 DEF AdmitTargeted
  <2>1. k \in Kinds /\ m \in Cmd
    BY DEF Kinds, KnownMessages
  <2> QED BY <1>1, <1>2, <1>3, <2>1, AdmittedIsHarmless
<1>7. CASE AdmitStopAndResume
  <2> DEFINE s1 == CommandAdmitted(st, "stop", {})
  <2> PICK m \in PendingSteers(st) : Admit(CommandAdmitted(s1, "resume", {m}))
    BY <1>7 DEF AdmitStopAndResume
  <2>1. "stop" \in Kinds /\ "resume" \in Kinds /\ {m} \in SUBSET Cmd
    BY <1>1, QueueTypes DEF Kinds
  <2>2. Harmless(st, s1) /\ s1.ncmd = st.ncmd + 1
    BY <1>1, <1>3, <2>1, AdmittedIsHarmless
  <2> HIDE DEF s1
  <2>3. s1.ncmd < MaxCmd /\ s1 \in State /\ LogInvariant(s1)
    BY <1>1, <1>3, <2>2, StateFields, BoundsAssumption DEF Harmless
  <2>4. Harmless(s1, CommandAdmitted(s1, "resume", {m}))
    BY <2>1, <2>3, AdmittedIsHarmless
  <2> QED BY <1>2, <2>2, <2>4, HarmlessIsTransitive
<1> QED BY <1>4, <1>5, <1>6, <1>7 DEF Admission

\* What the invariant says of a place.
LEMMA SlotFacts ==
  ASSUME SlotInvariant
  PROVE  /\ st \in State /\ LogInvariant(st) /\ Memory
         /\ ctl.at \notin Ungated => grant = NoGrant
         /\ ctl.at \notin Executing => exec = NoExec /\ exec.tag = "Idle"
         /\ OpenRuns(st) = {} => OpenTurns(st) = {} /\ exec.tag = "Idle" /\ exec = NoExec
         /\ OpenRuns(st) # {} => st.req.id = 0
         /\ (exec.tag = "Idle" /\ grant = NoGrant
               /\ ctl.at \notin Closing \cup {"boot", "hydrated", "dead"}) => OpenRuns(st) = {}
<1>1. st \in State /\ LogInvariant(st) /\ Memory
  BY DEF SlotInvariant, TypeOK
<1>2. ctl.at \notin Ungated => grant = NoGrant
  BY <1>1 DEF Memory, GrantHolds
<1>3. ctl.at \notin Executing => exec = NoExec /\ exec.tag = "Idle"
  BY <1>1 DEF Memory, ExecHolds
<1>4. OpenRuns(st) = {} => OpenTurns(st) = {} /\ exec.tag = "Idle" /\ exec = NoExec
  BY <1>1 DEF Memory, ExecHolds, Holds, LogInvariant, OneSlot
<1>5. OpenRuns(st) # {} => st.req.id = 0
  BY <1>1 DEF LogInvariant, OneSlot
<1>6. (exec.tag = "Idle" /\ grant = NoGrant
         /\ ctl.at \notin Closing \cup {"boot", "hydrated", "dead"}) => OpenRuns(st) = {}
  <2>1. SlotHeld
    BY <1>1 DEF Memory
  <2> QED BY <2>1 DEF SlotHeld
<1> QED BY <1>1, <1>2, <1>3, <1>4, <1>5, <1>6

\* The control fiber comes to rest.
LEMMA AtRest ==
  ASSUME NEW at \in Ungated, ctl' = Free(at), grant' = NoGrant, ExecHolds',
         exec'.tag # "Idle" \/ OpenRuns(st') = {}
  PROVE  Memory'
<1>1. ctl'.at = at /\ ctl'.cmd = 0
  BY DEF Free, Place
<1>2. /\ at \notin Closing \cup Taken \cup Awaited
      /\ at \notin {"stopRequest", "stopClose", "boundary", "complete", "interruption",
                    "cancel", "promote", "startResume"}
  BY DEF Ungated, Closing, Taken, Awaited
<1>3. CtlHolds' /\ GrantHolds' /\ SlotHeld'
  BY <1>1, <1>2 DEF CtlHolds, GrantHolds, SlotHeld, Closing
<1>4. TakenCommand' /\ TargetUnconsumed' /\ InputsResumed'
  BY <1>1, <1>2 DEF TakenCommand, TargetUnconsumed, InputsResumed, Closing, Taken, Awaited
<1> QED BY <1>3, <1>4 DEF Memory

LEMMA NoExecHolds == exec' = NoExec => ExecHolds' /\ exec'.tag = "Idle"
BY DEF ExecHolds, NoExec

\* An execution keeps its slot while its command, its run and its turn are spared.
Spared(s, s1, c) ==
  /\ s1.run = s.run /\ s1.nturn = s.nturn /\ OpenTurns(s1) = OpenTurns(s)
  /\ ActiveCommands(s) \ {c} \subseteq ActiveCommands(s1)

LEMMA HeldOver ==
  ASSUME TypeOK, ExecHolds, exec' \in {exec, Observed}, NEW c, Spared(st, st', c),
         exec.tag # "Idle" => /\ c # exec.cmd /\ ctl'.at \in Executing
                              /\ \/ ctl'.at \notin {"turn", "failRun", "boundary", "complete"}
                                 \/ exec'.tag = "Completed"
  PROVE  /\ ExecHolds'
         /\ (exec'.tag = "Idle") = (exec.tag = "Idle")
         /\ exec'.run = exec.run /\ exec'.cmd = exec.cmd
         /\ exec'.tag # "Idle" => OpenRuns(st') = {exec'.run}
<1>1. exec \in ExecType
  BY DEF TypeOK
<1>2. /\ exec'.run = exec.run /\ exec'.cmd = exec.cmd /\ exec'.turn = exec.turn
      /\ exec'.fiber = exec.fiber /\ exec'.exited = exec.exited
      /\ \/ exec'.tag = exec.tag
         \/ exec'.tag = "Completed" /\ exec.exited /\ exec.fiber \in {"ok", "failed"}
  BY <1>1 DEF Observed, ExecType
<1>3. CASE exec.tag = "Idle"
  <2>1. exec = NoExec /\ exec' = NoExec
    BY <1>3 DEF ExecHolds, Observed, NoExec
  <2> QED BY <1>2, <1>3, <2>1, NoExecHolds
<1>4. CASE exec.tag # "Idle"
  <2>1. Holds(st', exec.run, exec.cmd) /\ TurnsClosed(st') = TurnsClosed(st)
    BY <1>4 DEF ExecHolds, Holds, Spared, OpenRuns, TurnsClosed
  <2>2. exec'.tag # "Idle"
    BY <1>2, <1>4
  <2>3. ExecHolds'
    BY <1>2, <1>4, <2>1, <2>2 DEF ExecHolds, Spared
  <2> QED BY <1>2, <1>4, <2>1, <2>2, <2>3 DEF Holds
<1> QED BY <1>3, <1>4

-----------------------------------------------------------------------------
(* Starting work.                                                          *)

LEMMA HydrateKeeps == SlotInvariant /\ Hydrate => Kept
<1> SUFFICES ASSUME SlotInvariant, Hydrate PROVE Kept
  OBVIOUS
<1>1. st' = st /\ exec' = exec /\ grant' = grant /\ ctl' = Free("hydrated")
  BY DEF Hydrate, UnchangedByControl, Goto
<1>2. exec = NoExec /\ grant = NoGrant /\ LogInvariant(st)
  BY SlotFacts DEF Hydrate, Executing, Ungated
<1>3. ctl'.at = "hydrated" /\ ctl'.cmd = 0
  BY <1>1 DEF Free, Place
<1>4. ExecHolds'
  BY <1>1, <1>2, NoExecHolds
<1>5. Memory'
  BY <1>1, <1>2, <1>3, <1>4 DEF Memory, CtlHolds, GrantHolds, SlotHeld, TakenCommand,
     TargetUnconsumed, InputsResumed, Closing, Taken, Awaited
<1> QED BY <1>1, <1>2, <1>5, LastingIsReflexive DEF Kept

\* From here to a turn the control fiber holds the slot.
LEMMA AtTurn ==
  ASSUME NEW at \in {"recovered", "turn"}, NEW c, NEW r, NEW inputs,
         ctl' = Place(at, c, c, r, inputs), grant' = NoGrant, ExecHolds',
         Holds(st', r, c), TurnsClosed(st'), Resumed(st', r, inputs), LogInvariant(st')
  PROVE  Memory'
<1>1. /\ ctl'.at = at /\ ctl'.cmd = c /\ ctl'.active = c /\ ctl'.run = r /\ ctl'.msgs = inputs
  BY DEF Place
<1>2. st'.req.id = 0
  BY DEF Holds, LogInvariant, OneSlot
<1>3. CtlHolds' /\ GrantHolds' /\ SlotHeld'
  BY <1>1 DEF CtlHolds, GrantHolds, SlotHeld, Closing
<1>4. TakenCommand' /\ TargetUnconsumed' /\ InputsResumed'
  BY <1>1, <1>2 DEF TakenCommand, TargetUnconsumed, InputsResumed, Closing, Taken, Awaited
<1> QED BY <1>3, <1>4 DEF Memory

LEMMA ResumeRecoveredKeeps == SlotInvariant /\ ResumeRecovered => Kept
<1> SUFFICES ASSUME SlotInvariant, ResumeRecovered PROVE Kept
  OBVIOUS
<1> DEFINE inputs == {m \in ctl.msgs : Unconsumed(st, m)}
<1>1. /\ st' = st /\ exec' = exec /\ grant' = grant
      /\ ctl' = Place("turn", ctl.cmd, ctl.cmd, ctl.run, inputs) /\ ctl.at = "recovered"
  BY DEF ResumeRecovered, UnchangedByControl, Goto, TurnPlace
<1>2. exec = NoExec /\ grant = NoGrant /\ LogInvariant(st) /\ Memory
  BY <1>1, SlotFacts DEF Executing, Ungated
<1>3. Holds(st, ctl.run, ctl.cmd) /\ TurnsClosed(st)
  BY <1>1, <1>2 DEF Memory, CtlHolds, Closing
<1>4. Resumed(st, ctl.run, inputs)
  BY <1>1, <1>2 DEF Memory, InputsResumed, Resumed
<1> HIDE DEF inputs
<1>5. Memory'
  BY <1>1, <1>2, <1>3, <1>4, AtTurn, NoExecHolds
<1> QED BY <1>1, <1>2, <1>5, LastingIsReflexive DEF Kept

\* Both places from which a turn is started.
LEMMA TurnStartHolds ==
  ASSUME SlotInvariant, st.nturn < MaxTurn, NEW r, NEW c, NEW inputs,
         Holds(st, r, c), TurnsClosed(st),
         st' = TurnStarted(st, r, inputs), exec' = Running(c, r, st.nturn + 1), ctl'.at \in Ungated
  PROVE  /\ LogInvariant(st') /\ Lasting(st, st')
         /\ ExecHolds' /\ exec'.tag # "Idle"
         /\ st'.req.id = 0
<1>1. st \in State /\ LogInvariant(st)
  BY SlotFacts
<1>2. r \in Run /\ OpenRuns(st) = {r} /\ OpenTurns(st) = {}
  BY DEF Holds, OpenRuns, TurnsClosed
<1>3. OpensTurn(st, st', r, inputs)
  BY <1>1, <1>2, TurnStartedEffect
<1>4. LogInvariant(st') /\ Lasting(st, st')
  BY <1>1, <1>2, TurnStartedKeeps
<1>5. Holds(st', r, c)
  BY <1>3 DEF Holds, OpensTurn, OpenRuns, ActiveCommands, SameOrders
<1>6. /\ exec'.tag = "Running" /\ exec'.run = r /\ exec'.cmd = c /\ exec'.turn = st.nturn + 1
      /\ exec'.fiber = "live"
  BY DEF Running
<1>7. ExecHolds'
  BY <1>3, <1>5, <1>6 DEF ExecHolds, OpensTurn, Ungated, Executing
<1>8. st'.req.id = 0
  BY <1>1, <1>2, <1>3 DEF OpensTurn, LogInvariant, OneSlot
<1> QED BY <1>4, <1>6, <1>7, <1>8

LEMMA StartTurnKeeps == SlotInvariant /\ StartTurn => Kept
<1> SUFFICES ASSUME SlotInvariant, StartTurn PROVE Kept
  OBVIOUS
<1>1. /\ ctl.at = "turn" /\ st.nturn < MaxTurn
      /\ st' = TurnStarted(st, ctl.run, ctl.msgs) /\ grant' = grant
      /\ exec' = Running(ctl.cmd, ctl.run, st.nturn + 1) /\ ctl' = Free("ready")
  BY DEF StartTurn, UnchangedByControl, Goto
<1>2. grant = NoGrant /\ Memory
  BY <1>1, SlotFacts DEF Ungated
<1>3. Holds(st, ctl.run, ctl.cmd) /\ TurnsClosed(st)
  BY <1>1, <1>2 DEF Memory, CtlHolds, Closing
<1>4. ctl'.at = "ready" /\ "ready" \in Ungated
  BY <1>1 DEF Free, Place, Ungated
<1>5. LogInvariant(st') /\ Lasting(st, st') /\ ExecHolds' /\ exec'.tag # "Idle"
  BY <1>1, <1>3, <1>4, TurnStartHolds
<1>6. Memory'
  BY <1>1, <1>2, <1>4, <1>5, AtRest
<1> QED BY <1>5, <1>6 DEF Kept

LEMMA StartGrantedTurnKeeps == SlotInvariant /\ StartGrantedTurn => Kept
<1> SUFFICES ASSUME SlotInvariant, StartGrantedTurn PROVE Kept
  OBVIOUS
<1>1. /\ grant # NoGrant /\ st.nturn < MaxTurn
      /\ st' = TurnStarted(st, grant.run, grant.msgs) /\ grant' = NoGrant
      /\ exec' = Running(grant.cmd, grant.run, st.nturn + 1) /\ ctl' = ctl
  BY DEF StartGrantedTurn, UnchangedByScheduling
<1>2. Memory
  BY SlotFacts
<1>3. Holds(st, grant.run, grant.cmd) /\ TurnsClosed(st) /\ ctl.at \in Ungated
  BY <1>1, <1>2 DEF Memory, GrantHolds
<1>5. /\ LogInvariant(st') /\ Lasting(st, st') /\ ExecHolds' /\ exec'.tag # "Idle"
      /\ st'.req.id = 0
  BY <1>1, <1>3, TurnStartHolds
<1>6. /\ ctl.at \notin Closing \cup Taken \cup Awaited
      /\ ctl.at \notin {"stopRequest", "stopClose", "boundary", "complete", "interruption",
                        "cancel", "promote", "startResume"}
  BY <1>3 DEF Ungated, Closing, Taken, Awaited
<1>7. CtlHolds' /\ GrantHolds' /\ SlotHeld'
  BY <1>1, <1>5, <1>6 DEF CtlHolds, GrantHolds, SlotHeld, Closing
<1>8. TakenCommand' /\ TargetUnconsumed' /\ InputsResumed'
  BY <1>1, <1>5, <1>6 DEF TakenCommand, TargetUnconsumed, InputsResumed, Closing, Taken, Awaited
<1> QED BY <1>5, <1>7, <1>8 DEF Kept, Memory

\* A run opens in an empty slot, for a command that has started.
LEMMA RunOpens ==
  ASSUME NEW s \in State, s.nrun < MaxRun, NEW of \in SUBSET Cmd, LogInvariant(s),
         OpenRuns(s) = {}, s.req.id = 0, NEW c \in of, c \in ActiveCommands(s)
  PROVE  LET s1 == RunStarted(s, of) IN
         /\ LogInvariant(s1) /\ Lasting(s, s1)
         /\ Holds(s1, s.nrun + 1, c) /\ TurnsClosed(s1)
         /\ s1.msg = s.msg /\ s1.cmd = s.cmd /\ s1.run[s.nrun + 1].of = of /\ s1.req = s.req
<1> DEFINE s1 == RunStarted(s, of)
           n == s.nrun + 1
<1>1. /\ OnlySlot(s, s1) /\ s1.req = s.req /\ s1.run[n].of = of
      /\ OpenRuns(s1) = OpenRuns(s) \cup {n} /\ OpenTurns(s1) = OpenTurns(s)
  BY RunStartedEffect
<1>2. LogInvariant(s1) /\ Lasting(s, s1)
  BY RunStartedKeeps
<1> HIDE DEF s1, n
<1>3. Holds(s1, n, c) /\ TurnsClosed(s1)
  BY <1>1 DEF Holds, OnlySlot, SameOrders, ActiveCommands, LogInvariant, OneSlot, TurnsClosed
<1> QED BY <1>1, <1>2, <1>3 DEF OnlySlot, SameOrders, s1, n

\* A command that waits is started, in whatever slot.
LEMMA CommandBegins ==
  ASSUME NEW s \in State, NEW c \in PendingCommands(s), LogInvariant(s),
         s.req.id # 0 /\ s.req.work = "Command" => c # s.req.cmd
  PROVE  LET s1 == CommandStarted(s, c) IN
         /\ s1 \in State /\ LogInvariant(s1) /\ Lasting(s, s1)
         /\ c \in Cmd /\ c \in ActiveCommands(s1)
         /\ SameSlot(s, s1) /\ OpenRuns(s1) = OpenRuns(s) /\ OpenTurns(s1) = OpenTurns(s)
         /\ s1.msg = s.msg /\ s1.ncmd = s.ncmd /\ PausedQueue(s1) = PausedQueue(s)
         /\ ActiveCommands(s) \subseteq ActiveCommands(s1)
         /\ \A d \in Cmd : /\ s1.cmd[d].kind = s.cmd[d].kind
                           /\ s1.cmd[d].targets = s.cmd[d].targets
                           /\ d # c => s1.cmd[d] = s.cmd[d]
<1> DEFINE s1 == CommandStarted(s, c)
<1>1. c \in 1 .. s.ncmd /\ c \in Cmd /\ s.cmd[c].terminal = "none" /\ ~s.cmd[c].started
  BY QueueTypes DEF PendingCommands
<1>2. LogInvariant(s1) /\ Lasting(s, s1)
  BY <1>1, StartedKeeps
<1>3. Starts(s, s1, c)
  BY <1>1, StartedEffect
<1> HIDE DEF s1
<1>4. c \in ActiveCommands(s1) /\ ActiveCommands(s) \subseteq ActiveCommands(s1)
  BY <1>1, <1>3 DEF Starts, ActiveCommands
<1>5. OpenRuns(s1) = OpenRuns(s) /\ OpenTurns(s1) = OpenTurns(s)
  BY <1>3, SameSlotViews DEF Starts
<1>6. PausedQueue(s1) = PausedQueue(s)
  BY <1>3 DEF Starts, PausedQueue, PendingMessages, Unconsumed
<1> QED BY <1>1, <1>2, <1>3, <1>4, <1>5, <1>6 DEF Starts, s1

LEMMA StartSubmitKeeps == SlotInvariant /\ StartSubmit => Kept
<1> SUFFICES ASSUME SlotInvariant, StartSubmit PROVE Kept
  OBVIOUS
<1> DEFINE c  == ctl.cmd
           s1 == CommandStarted(st, c)
           s2 == IF st.msg[c].known THEN s1 ELSE UserMessageCommitted(s1, c)
           s3 == RunStarted(s2, {c})
<1>1. /\ ctl.at = "start" /\ st.nrun < MaxRun /\ st' = s3 /\ grant' = grant /\ exec' = exec
      /\ ctl' = Place("turn", c, c, st.nrun + 1, {c})
  BY DEF StartSubmit, UnchangedByControl, Goto, TurnPlace
<1>2. /\ st \in State /\ LogInvariant(st) /\ Memory /\ exec = NoExec /\ grant = NoGrant
      /\ OpenRuns(st) = {}
  BY <1>1, SlotFacts DEF Executing, Ungated, Closing
<1>3. c \in PendingCommands(st) /\ c \notin PausedQueue(st) /\ st.req.id = 0 /\ IsSubmit(st, c)
  BY <1>1, <1>2 DEF Memory, TakenCommand, Awaited
<1>4. /\ s1 \in State /\ LogInvariant(s1) /\ Lasting(st, s1)
      /\ c \in Cmd /\ c \in ActiveCommands(s1)
      /\ SameSlot(st, s1) /\ OpenRuns(s1) = {} /\ s1.msg = st.msg
      /\ PausedQueue(s1) = PausedQueue(st) /\ s1.cmd[c].kind = st.cmd[c].kind
  BY <1>2, <1>3, CommandBegins
<1> HIDE DEF s1, c
<1>5. /\ s2 \in State /\ LogInvariant(s2) /\ Lasting(s1, s2)
      /\ c \in ActiveCommands(s2) /\ SameSlot(s1, s2) /\ OpenRuns(s2) = {}
      /\ c \notin PausedQueue(s2)
  <2>1. CASE st.msg[c].known
    BY <1>3, <1>4, <2>1, LastingIsReflexive DEF SameSlot
  <2>2. CASE ~st.msg[c].known
    <3>1. s2 = UserMessageSubmitted(s1, c, "unset")
      BY <2>2 DEF UserMessageCommitted
    <3>2. ~s1.msg[c].known /\ s1.cmd[c].started /\ IsSubmit(s1, c)
      BY <1>3, <1>4, <2>2 DEF IsSubmit, ActiveCommands
    <3>3. LogInvariant(s2) /\ Lasting(s1, s2)
      BY <1>4, <3>1, <3>2, SubmittedKeeps
    <3>4. s1.msg[c].consumed = 0 /\ ~s1.msg[c].paused
      BY <1>4, <3>2 DEF LogInvariant, Messages
    <3>5. OnlyMessages(s1, s2) /\ s2.msg[c].paused = s1.msg[c].paused
      BY <1>4, <3>1, <3>4, SubmittedEffect
    <3>6. OpenRuns(s2) = {} /\ c \in ActiveCommands(s2)
      BY <1>4, <3>5, SameSlotViews DEF OnlyMessages, SameOrders, ActiveCommands
    <3> QED BY <3>3, <3>4, <3>5, <3>6 DEF OnlyMessages, PausedQueue
  <2> QED BY <2>1, <2>2
<1> HIDE DEF s2
<1>6. s2.nrun = st.nrun /\ s2.req.id = 0
  BY <1>3, <1>4, <1>5 DEF SameSlot
<1>7. /\ LogInvariant(s3) /\ Lasting(s2, s3) /\ Holds(s3, st.nrun + 1, c) /\ TurnsClosed(s3)
      /\ s3.msg = s2.msg
  BY <1>1, <1>4, <1>5, <1>6, RunOpens
<1> HIDE DEF s3
<1>8. Resumed(s3, st.nrun + 1, {c})
  BY <1>5, <1>7 DEF Resumed, PausedQueue, PendingMessages, Unconsumed
<1>9. Memory'
  BY <1>1, <1>2, <1>7, <1>8, AtTurn, NoExecHolds
<1>10. Lasting(st, st')
  BY <1>1, <1>4, <1>5, <1>7, LastingIsTransitive
<1> QED BY <1>1, <1>7, <1>9, <1>10 DEF Kept

LEMMA StartResumeKeeps == SlotInvariant /\ StartResume => Kept
<1> SUFFICES ASSUME SlotInvariant, StartResume PROVE Kept
  OBVIOUS
<1> DEFINE c  == ctl.cmd
           s1 == CommandStarted(st, c)
           of == {c} \cup ctl.msgs
           s2 == RunStarted(s1, of)
<1>1. /\ ctl.at = "startResume" /\ st.nrun < MaxRun /\ st' = s2 /\ grant' = grant /\ exec' = exec
      /\ ctl' = Place("turn", c, c, st.nrun + 1, ctl.msgs)
  BY DEF StartResume, UnchangedByControl, Goto, TurnPlace
<1>2. /\ st \in State /\ LogInvariant(st) /\ Memory /\ exec = NoExec /\ grant = NoGrant
      /\ OpenRuns(st) = {}
  BY <1>1, SlotFacts DEF Executing, Ungated, Closing
<1>3. /\ c \in PendingCommands(st) /\ st.req.id = 0
      /\ st.cmd[c].kind = "resume" /\ ctl.msgs \subseteq st.cmd[c].targets
  BY <1>1, <1>2 DEF Memory, TakenCommand, Awaited, InputsResumed
<1>4. /\ s1 \in State /\ LogInvariant(s1) /\ Lasting(st, s1)
      /\ c \in Cmd /\ c \in ActiveCommands(s1)
      /\ SameSlot(st, s1) /\ OpenRuns(s1) = {}
      /\ s1.cmd[c].kind = st.cmd[c].kind /\ s1.cmd[c].targets = st.cmd[c].targets
  BY <1>2, <1>3, CommandBegins
<1>5. of \in SUBSET Cmd /\ c \in of /\ s1.nrun = st.nrun /\ s1.req.id = 0
  BY <1>3, <1>4, CtlFields DEF SameSlot, SlotInvariant
<1> HIDE DEF s1, c, of
<1>6. /\ LogInvariant(s2) /\ Lasting(s1, s2) /\ Holds(s2, st.nrun + 1, c) /\ TurnsClosed(s2)
      /\ s2.cmd = s1.cmd /\ s2.run[st.nrun + 1].of = of
  BY <1>1, <1>4, <1>5, RunOpens
<1> HIDE DEF s2
<1>7. Resumed(s2, st.nrun + 1, ctl.msgs)
  BY <1>3, <1>4, <1>5, <1>6 DEF Resumed
<1>8. Memory'
  BY <1>1, <1>2, <1>6, <1>7, AtTurn, NoExecHolds
<1>9. Lasting(st, st')
  BY <1>1, <1>4, <1>6, LastingIsTransitive
<1> QED BY <1>1, <1>6, <1>8, <1>9 DEF Kept

\* The control fiber awaits command c: the slot is empty, and nothing but c is remembered.
LEMMA AtAwaited ==
  ASSUME NEW at \in Awaited, NEW c, NEW msgs,
         ctl' = Place(at, c, 0, 0, msgs), grant' = NoGrant, exec' = NoExec,
         OpenRuns(st') = {}, c \in PendingCommands(st'), c \notin PausedQueue(st'),
         at # "closeWaiting" => st'.req.id = 0,
         at = "start" => IsSubmit(st', c), at = "defer" => Deferred,
         at = "closeWaiting" => /\ st'.req.id # 0 /\ c # st'.req.cmd
                                /\ st'.cmd[c].kind \in {"stop", "interrupt"},
         at = "startResume" => st'.cmd[c].kind = "resume" /\ msgs \subseteq st'.cmd[c].targets
  PROVE  Memory'
<1>1. ctl'.at = at /\ ctl'.cmd = c /\ ctl'.msgs = msgs
  BY DEF Place
<1>2. /\ at \notin Closing \cup Taken
      /\ at \notin {"stopRequest", "stopClose", "boundary", "complete", "interruption",
                    "cancel", "promote"}
  BY DEF Awaited, Closing, Taken
<1>3. ExecHolds' /\ CtlHolds' /\ GrantHolds' /\ SlotHeld'
  BY <1>1, <1>2, NoExecHolds DEF CtlHolds, GrantHolds, SlotHeld, Closing
<1>4. TakenCommand'
  BY <1>1, <1>2 DEF TakenCommand, Taken, Awaited
<1>5. TargetUnconsumed' /\ InputsResumed'
  BY <1>1, <1>2 DEF TargetUnconsumed, InputsResumed, Closing
<1> QED BY <1>3, <1>4, <1>5 DEF Memory

LEMMA SetWakeupKeeps == SlotInvariant /\ SetWakeup => Kept
<1> SUFFICES ASSUME SlotInvariant, SetWakeup PROVE Kept
  OBVIOUS
<1>1. /\ ctl.at \in {"start", "startResume"} /\ Deferred /\ st' = st /\ grant' = grant
      /\ exec' = exec /\ ctl' = Place("defer", ctl.cmd, 0, 0, {})
  BY DEF SetWakeup, UnchangedByControl, Goto
<1>2. /\ LogInvariant(st) /\ Memory /\ exec = NoExec /\ grant = NoGrant
      /\ OpenRuns(st) = {}
  BY <1>1, SlotFacts DEF Executing, Ungated, Closing
<1>3. ctl.cmd \in PendingCommands(st) /\ ctl.cmd \notin PausedQueue(st) /\ st.req.id = 0
  BY <1>1, <1>2 DEF Memory, TakenCommand, Awaited
<1>4. Memory'
  BY <1>1, <1>2, <1>3, AtAwaited DEF Awaited
<1> QED BY <1>1, <1>2, <1>4, LastingIsReflexive DEF Kept

LEMMA DeferKeeps == SlotInvariant /\ Defer => Kept
<1> SUFFICES ASSUME SlotInvariant, Defer PROVE Kept
  OBVIOUS
<1>1. /\ ctl.at = "defer" /\ st' = RunSchedulingRequested(st, "Command", ctl.cmd, 0, {})
      /\ grant' = grant /\ exec' = exec /\ ctl' = Free("park")
  BY DEF Defer, UnchangedByControl, Goto
<1>2. /\ st \in State /\ LogInvariant(st) /\ Memory /\ exec = NoExec /\ grant = NoGrant
      /\ OpenRuns(st) = {}
  BY <1>1, SlotFacts DEF Executing, Ungated, Closing
<1>3. ctl.cmd \in PendingCommands(st) /\ Deferred
  BY <1>1, <1>2 DEF Memory, TakenCommand, Awaited
<1>4. ctl.cmd \in 1 .. st.ncmd /\ ~st.cmd[ctl.cmd].started
  BY <1>3 DEF PendingCommands
<1>5. OnlyRequest(st, st') /\ LogInvariant(st') /\ Lasting(st, st')
  BY <1>1, <1>2, <1>3, <1>4, RequestedKeeps
<1>6. OpenRuns(st') = {}
  BY <1>2, <1>5, OnlyRequestViews
<1>7. Memory'
  BY <1>1, <1>2, <1>6, AtRest, NoExecHolds DEF Ungated
<1> QED BY <1>5, <1>7 DEF Kept

\* What a run is given at a boundary or after a failure is not paused.
LEMMA PlannedAreUnpaused ==
  ASSUME NEW s \in State, NEW m \in PendingSteers(s) \cup MessagesToPause(s) \cup RequestInputs(s)
  PROVE  m \notin PausedQueue(s)
<1>1. m \in PendingSteers(s) => ~s.msg[m].paused
  BY DEF PendingSteers, Disposition
<1>2. m \in PendingQueue(s) => m \notin PausedQueue(s)
  BY DEF PendingQueue
<1>3. m \in RequestInputs(s) => ~s.msg[m].paused
  BY DEF RequestInputs
<1> QED BY <1>1, <1>2, <1>3 DEF MessagesToPause, PausedQueue

\* The repair closes the slot, and keeps the command that a replacement run continues.
LEMMA RecoveryRepairs ==
  ASSUME NEW s \in State, LogInvariant(s), s.ncmd < MaxCmd
  PROVE  LET s1 == PendingMessagesPaused(ClosedByRecovery(s), RecoveryPauses(s))
             s2 == IF RecoveryResumes(s) = {} THEN s1
                   ELSE CommandAdmitted(s1, "resume", RecoveryResumes(s))
             c  == ContinuationCommand(s)
         IN /\ s2 \in State /\ LogInvariant(s2) /\ Lasting(s, s2)
            /\ OpenRuns(s2) = {} /\ s2.nrun = s.nrun /\ s2.req.id = s.req.id
            /\ c # 0 => /\ c \in ActiveCommands(s2) /\ c \in 1 .. s2.ncmd /\ s2.cmd[c].kind # "stop"
                        /\ s.req.id = 0 /\ ContinuationInputs(s) \cap PausedQueue(s2) = {}
<1> DEFINE s0 == ClosedByRecovery(s)
           s1 == PendingMessagesPaused(s0, RecoveryPauses(s))
           s2 == IF RecoveryResumes(s) = {} THEN s1
                 ELSE CommandAdmitted(s1, "resume", RecoveryResumes(s))
           c  == ContinuationCommand(s)
<1>1. ClosesSlot(s, s0) /\ LogInvariant(s0) /\ Lasting(s, s0)
  BY ClosedByRecoveryEffect, ClosedByRecoveryKeeps
<1> HIDE DEF s0
<1>2. s0 \in State /\ s0.ncmd = s.ncmd /\ s0.nrun = s.nrun /\ OpenRuns(s0) = {} /\ s0.req = s.req
  BY <1>1 DEF ClosesSlot
<1>3. /\ LogInvariant(s1) /\ Lasting(s0, s1) /\ OnlyMessages(s0, s1)
      /\ \A m \in Cmd : m \notin RecoveryPauses(s) => s1.msg[m] = s0.msg[m]
  BY <1>1, <1>2, MessageKeeps, PausedEffect
<1> HIDE DEF s1
<1>4. /\ s1 \in State /\ s1.ncmd = s.ncmd /\ s1.nrun = s.nrun /\ OpenRuns(s1) = {}
      /\ s1.req = s.req /\ s1.cmd = s0.cmd
  BY <1>2, <1>3, SameSlotViews DEF OnlyMessages, SameSlot, SameOrders
<1>5. /\ s2 \in State /\ LogInvariant(s2) /\ Lasting(s1, s2) /\ SameSlot(s1, s2)
      /\ s2.msg = s1.msg /\ s2.ncmd >= s1.ncmd
      /\ \A d \in 1 .. s1.ncmd : d \in Cmd => s2.cmd[d] = s1.cmd[d]
  <2>1. CASE RecoveryResumes(s) = {}
    BY <1>3, <1>4, <2>1, StateFields, LastingIsReflexive DEF SameSlot
  <2>2. CASE RecoveryResumes(s) # {}
    <3>1. s2 = CommandAdmitted(s1, "resume", RecoveryResumes(s))
      BY <2>2
    <3>2. RecoveryResumes(s) \in SUBSET Cmd /\ "resume" \in Kinds
      BY QueueTypes DEF RecoveryResumes, Kinds
    <3>3. Admits(s1, s2, "resume", RecoveryResumes(s)) /\ LogInvariant(s2) /\ Lasting(s1, s2)
      BY <1>3, <1>4, <3>1, <3>2, AdmittedEffect, AdmittedKeeps
    <3> QED BY <3>3, StateFields, <1>4 DEF Admits
  <2> QED BY <2>1, <2>2
<1> HIDE DEF s2
<1>6. OpenRuns(s2) = {} /\ s2.nrun = s.nrun /\ s2.req.id = s.req.id
  BY <1>4, <1>5, SameSlotViews DEF SameSlot
<1>7. Lasting(s, s2)
  BY <1>1, <1>3, <1>5, LastingIsTransitive
<1>8. ASSUME c # 0
      PROVE  /\ c \in ActiveCommands(s2) /\ c \in 1 .. s2.ncmd /\ s2.cmd[c].kind # "stop"
             /\ s.req.id = 0 /\ ContinuationInputs(s) \cap PausedQueue(s2) = {}
  <2>1. ContinuationCandidates(s) # {} /\ ContinuationCandidates(s) \in SUBSET Nat
    BY <1>8, CmdIsNat DEF ContinuationCommand, ContinuationCandidates, RecoverableCommands,
       ActiveCommands
  <2>2. c \in ContinuationCandidates(s)
    BY <2>1, LeastIsMember DEF ContinuationCommand
  <2>3. /\ ApplicableStops(s) = {} /\ c \in ActiveCommands(s)
        /\ s.cmd[c].kind \in Submits \cup {"resume"}
    BY <2>2 DEF ContinuationCandidates, RecoverableCommands
  <2>4. s.cmd[c].kind # "stop" /\ c \in Cmd /\ s.cmd[c].started /\ s.cmd[c].terminal = "none"
    BY <2>3 DEF Submits, ActiveCommands
  <2>5. c \in 1 .. s.ncmd
    <3>1. ~(c > s.ncmd)
      BY <2>4 DEF LogInvariant, Commands
    <3> QED BY <2>4, <3>1, StateFields, BoundsAssumption DEF Cmd
  <2>6. s0.cmd[c].started /\ s0.cmd[c].terminal = "none" /\ s0.cmd[c].kind = s.cmd[c].kind
    <3>1. ~(c \in ApplicableStops(s) \/ c \in RecoverableCommands(s) \ {c})
      BY <2>3
    <3> QED BY <1>1, <2>4, <3>1 DEF ClosesSlot
  <2>7. s2.cmd[c] = s0.cmd[c] /\ c \in 1 .. s2.ncmd
    BY <1>4, <1>5, <2>4, <2>5, StateFields
  <2>8. s.req.id = 0
    BY <1>8, ContinuationType DEF LogInvariant, OneSlot
  <2>9. ContinuationInputs(s) \cap PausedQueue(s2) = {}
    <3>1. RecoveryPauses(s) = {}
      BY <2>3 DEF RecoveryPauses
    <3>2. \A m \in Cmd : s2.msg[m] = s.msg[m]
      BY <1>1, <1>3, <1>5, <3>1 DEF ClosesSlot
    <3>3. PausedQueue(s2) = PausedQueue(s)
      BY <3>2 DEF PausedQueue, PendingMessages, Unconsumed
    <3>4. ContinuationInputs(s) \subseteq MessagesToPause(s) \cup PendingSteers(s)
      BY DEF ContinuationInputs
    <3> QED BY <3>3, <3>4, PlannedAreUnpaused
  <2> QED BY <2>4, <2>6, <2>7, <2>8, <2>9 DEF ActiveCommands
<1> QED BY <1>5, <1>6, <1>7, <1>8 DEF s2, s1, s0

LEMMA RecoverKeeps == SlotInvariant /\ Recover => Kept
<1> SUFFICES ASSUME SlotInvariant, Recover PROVE Kept
  OBVIOUS
<1> DEFINE paused == PendingMessagesPaused(ClosedByRecovery(st), RecoveryPauses(st))
           s2 == IF RecoveryResumes(st) = {} THEN paused
                 ELSE CommandAdmitted(paused, "resume", RecoveryResumes(st))
           c  == ContinuationCommand(st)
           r  == ContinuationRun(st)
           ms == ContinuationInputs(st)
<1>1. /\ ctl.at = "hydrated" /\ st.ncmd < MaxCmd /\ st.nrun < MaxRun
      /\ st' = RecoveryBatch(st, Deferred) /\ grant' = grant /\ exec' = exec
      /\ \/ ctl' = Free("dead")
         \/ ctl' = Free("ready") /\ ~(c # 0 /\ ~Deferred)
         \/ ctl' = Place("recovered", c, c, st'.nrun, ms) /\ c # 0 /\ ~Deferred
  BY DEF Recover, UnchangedByControl, Goto
<1>2. st \in State /\ LogInvariant(st) /\ exec = NoExec /\ grant = NoGrant
  BY <1>1, SlotFacts DEF Executing, Ungated
<1>3. /\ s2 \in State /\ LogInvariant(s2) /\ Lasting(st, s2)
      /\ OpenRuns(s2) = {} /\ s2.nrun = st.nrun /\ s2.req.id = st.req.id
      /\ c # 0 => /\ c \in ActiveCommands(s2) /\ c \in 1 .. s2.ncmd /\ s2.cmd[c].kind # "stop"
                  /\ st.req.id = 0 /\ ms \cap PausedQueue(s2) = {}
  BY <1>1, <1>2, RecoveryRepairs
<1>4. /\ c = 0 => st' = s2
      /\ c # 0 /\ Deferred => st' = RunSchedulingRequested(s2, "Recovery", c, r, ms)
      /\ c # 0 /\ ~Deferred => st' = RunStarted(s2, st.run[r].of)
  BY <1>1 DEF RecoveryBatch
<1>5. c # 0 => r \in Run /\ c \in st.run[r].of /\ st.run[r].of \in SUBSET Cmd /\ ms \in SUBSET Cmd
  <2>1. c # 0 => r \in Run /\ c \in st.run[r].of /\ ms \in SUBSET Cmd
    BY <1>2, ContinuationType DEF OpenRuns
  <2> QED BY <1>2, <2>1, StateFields DEF RunRecord
<1> HIDE DEF s2, c, r, ms
<1>6. ASSUME c = 0 \/ Deferred
      PROVE  LogInvariant(st') /\ Lasting(s2, st') /\ OpenRuns(st') = {}
  <2>1. CASE c = 0
    BY <1>3, <1>4, <2>1, LastingIsReflexive
  <2>2. CASE c # 0
    <3>1. c \in ActiveCommands(s2) /\ Deferred
      BY <1>3, <1>6, <2>2
    <3>2. OnlyRequest(s2, st') /\ LogInvariant(st') /\ Lasting(s2, st')
      BY <1>3, <1>4, <1>5, <2>2, <3>1, RequestedKeeps
    <3> QED BY <1>3, <3>2, OnlyRequestViews
  <2> QED BY <2>1, <2>2
<1>7. ASSUME c # 0, ~Deferred
      PROVE  /\ LogInvariant(st') /\ Lasting(s2, st') /\ Holds(st', st'.nrun, c)
             /\ TurnsClosed(st') /\ Resumed(st', st'.nrun, ms)
  <2>1. /\ LogInvariant(st') /\ Lasting(s2, st') /\ Holds(st', s2.nrun + 1, c) /\ TurnsClosed(st')
        /\ st'.msg = s2.msg
    BY <1>1, <1>3, <1>4, <1>5, <1>7, RunOpens
  <2>2. st'.nrun = s2.nrun + 1
    BY <1>1, <1>3, <1>4, <1>5, <1>7, RunStartedEffect
  <2>3. PausedQueue(st') = PausedQueue(s2)
    BY <2>1 DEF PausedQueue, PendingMessages, Unconsumed
  <2> QED BY <1>3, <1>7, <2>1, <2>2, <2>3 DEF Resumed
<1>8. LogInvariant(st') /\ Lasting(st, st')
  BY <1>3, <1>6, <1>7, LastingIsTransitive
<1>9. Memory'
  <2>1. CASE ctl' = Free("ready") /\ ~(c # 0 /\ ~Deferred)
    BY <1>1, <1>2, <1>6, <2>1, AtRest, NoExecHolds DEF Ungated
  <2>2. CASE ctl' = Place("recovered", c, c, st'.nrun, ms) /\ c # 0 /\ ~Deferred
    BY <1>1, <1>2, <1>7, <2>2, AtTurn, NoExecHolds
  <2>3. CASE ctl' = Free("dead")
    <3>1. ctl'.at = "dead" /\ ctl'.cmd = 0
      BY <2>3 DEF Free, Place
    <3>2. ExecHolds' /\ CtlHolds' /\ GrantHolds' /\ SlotHeld'
      BY <1>1, <1>2, <3>1, NoExecHolds DEF CtlHolds, GrantHolds, SlotHeld, Closing
    <3>3. TakenCommand' /\ TargetUnconsumed' /\ InputsResumed'
      BY <1>1, <1>2, <3>1 DEF TakenCommand, TargetUnconsumed, InputsResumed, Taken, Awaited
    <3> QED BY <3>2, <3>3 DEF Memory
  <2> QED BY <1>1, <2>1, <2>2, <2>3
<1> QED BY <1>8, <1>9 DEF Kept

-----------------------------------------------------------------------------
(* One drain.                                                              *)

LEMMA ChosenWaits ==
  ASSUME SlotInvariant, Drain, Chosen # 0
  PROVE  /\ Chosen \in PendingCommands(st) /\ Chosen \in Cmd
         /\ st.req.id # 0 => Chosen # st.req.cmd
         /\ exec.tag # "Idle" => Chosen # exec.cmd
<1>1. st \in State /\ LogInvariant(st) /\ Memory
  BY SlotFacts
<1>2. ControlCommands(st) \subseteq PendingCommands(st) /\ ControlCommands(st) \subseteq Cmd
  BY <1>1, QueueTypes DEF ControlCommands
<1>3. Chosen \in ControlCommands(st)
  BY <1>1, ControlChoices DEF Chosen
<1>4. Reserved => Chosen # st.req.cmd
  <2> DEFINE S == {c \in ControlCommands(st) \ {st.req.cmd} :
                     st.cmd[c].kind \notin {"queue", "steer"}}
  <2>1. S \in SUBSET Cmd /\ WaitingControl(st) = FirstControl(st, S)
    BY <1>2 DEF WaitingControl
  <2>2. WaitingControl(st) \in S \cup {0}
    BY <1>1, <2>1, FirstControlIsMember
  <2> QED BY <2>2 DEF Chosen
<1>5. Working => st.req.id = 0
  BY <1>1, SlotFacts DEF Working
<1>6. exec.tag # "Idle" => Chosen # exec.cmd
  BY <1>1, <1>2, <1>3 DEF Memory, ExecHolds, Holds, ActiveCommands, PendingCommands
<1> QED BY <1>2, <1>3, <1>4, <1>5, <1>6 DEF Reserved

\* The places a drain goes to once it has started a control command.
Begun == {"steer", "cancel", "promote", "failControl", "inactiveStop", "stopRequest"}

LEMMA BeginKeeps ==
  ASSUME SlotInvariant, ctl.at = "ready", grant = NoGrant, grant' = NoGrant,
         NEW c \in PendingCommands(st), NEW at \in Begun, NEW a, NEW r, NEW msgs,
         st.req.id # 0 => c # st.req.cmd,
         exec.tag # "Idle" => c # exec.cmd /\ at # "inactiveStop",
         st' = CommandStarted(st, c), exec' \in {exec, Observed},
         ctl' = Place(at, c, a, r, msgs),
         at = "stopRequest" => /\ st.cmd[c].kind = "stop" /\ exec.tag # "Idle"
                               /\ r = exec.run /\ a = exec.cmd,
         at \in {"cancel", "promote"} =>
           /\ st.cmd[c].kind = at
           /\ \A m \in st.cmd[c].targets : st.msg[m].known /\ st.msg[m].consumed = 0,
         at = "cancel" => msgs \subseteq st.cmd[c].targets \cap PendingCommands(st)
  PROVE  Kept
<1>1. st \in State /\ LogInvariant(st) /\ Memory /\ TypeOK
  BY SlotFacts DEF SlotInvariant
<1>2. /\ LogInvariant(st') /\ Lasting(st, st')
      /\ c \in Cmd /\ c \in ActiveCommands(st')
      /\ SameSlot(st, st') /\ OpenRuns(st') = OpenRuns(st) /\ OpenTurns(st') = OpenTurns(st)
      /\ st'.msg = st.msg /\ ActiveCommands(st) \subseteq ActiveCommands(st')
      /\ \A d \in Cmd : /\ st'.cmd[d].kind = st.cmd[d].kind
                        /\ st'.cmd[d].targets = st.cmd[d].targets
                        /\ d # c => st'.cmd[d] = st.cmd[d]
  BY <1>1, CommandBegins
<1>3. ctl'.at = at /\ ctl'.cmd = c /\ ctl'.active = a /\ ctl'.run = r /\ ctl'.msgs = msgs
  BY DEF Place
<1>4. /\ at \in Taken /\ at \notin Awaited \cup Closing
      /\ at \notin {"stopClose", "stopApply", "boundary", "complete", "interruption"}
      /\ at # "inactiveStop" => at \in Executing
  BY DEF Begun, Taken, Awaited, Closing, Executing
<1>5. /\ ExecHolds' /\ (exec'.tag = "Idle") = (exec.tag = "Idle")
      /\ exec'.run = exec.run /\ exec'.cmd = exec.cmd
  <2>1. Spared(st, st', c)
    BY <1>2 DEF Spared, SameSlot
  <2>2. ctl'.at \notin {"turn", "failRun", "boundary", "complete"}
    BY <1>3, <1>4 DEF Closing
  <2> QED BY <1>1, <1>3, <1>4, <2>1, <2>2, HeldOver DEF Memory
<1>6. CtlHolds' /\ GrantHolds' /\ SlotHeld'
  <2>1. SlotHeld'
    <3>1. exec.tag # "Idle" \/ OpenRuns(st) = {}
      BY SlotFacts DEF Closing
    <3> QED BY <1>2, <1>5, <3>1 DEF SlotHeld
  <2> QED BY <1>3, <1>4, <1>5, <2>1 DEF CtlHolds, GrantHolds, Closing
<1>7. TakenCommand'
  BY <1>2, <1>3, <1>4, <1>5 DEF TakenCommand, Awaited, Closing, SameSlot
<1>8. TargetUnconsumed'
  <2>1. at = "cancel" => \A d \in msgs : ~st'.cmd[d].started
    <3>1. ASSUME at = "cancel", NEW d \in msgs PROVE ~st'.cmd[d].started
      <4>1. d \in PendingCommands(st) /\ d \in Cmd /\ st.msg[d].known
        BY <1>1, <3>1, QueueTypes
      <4>2. d # c
        BY <1>1, <3>1, <4>1 DEF LogInvariant, Messages, IsSubmit, Submits
      <4> QED BY <1>2, <4>1, <4>2 DEF PendingCommands
    <3> QED BY <3>1
  <2> QED BY <1>2, <1>3, <2>1 DEF TargetUnconsumed
<1>9. InputsResumed'
  BY <1>3, <1>4 DEF InputsResumed, Closing, Awaited
<1> QED BY <1>2, <1>5, <1>6, <1>7, <1>8, <1>9 DEF Kept, Memory

\* The command a guarded control begins.
LEMMA ChosenBegins ==
  ASSUME SlotInvariant, DrainNormally, ChosenKind # "none", NEW at \in Begun, NEW a, NEW r, NEW msgs,
         Begin(Chosen, Place(at, Chosen, a, r, msgs)),
         exec.tag # "Idle" => at # "inactiveStop",
         at = "stopRequest" => /\ ChosenKind = "stop" /\ exec.tag # "Idle"
                               /\ r = exec.run /\ a = exec.cmd,
         at \in {"cancel", "promote"} =>
           /\ ChosenKind = at
           /\ \A m \in st.cmd[Chosen].targets : st.msg[m].known /\ st.msg[m].consumed = 0,
         at = "cancel" => msgs \subseteq st.cmd[Chosen].targets \cap PendingCommands(st)
  PROVE  Kept
<1>1. Chosen # 0 /\ ChosenKind = st.cmd[Chosen].kind
  BY DEF ChosenKind
<1>2. ctl.at = "ready" /\ grant = NoGrant /\ Drain
  BY DEF DrainNormally, Drain
<1>3. /\ Chosen \in PendingCommands(st) /\ (st.req.id # 0 => Chosen # st.req.cmd)
      /\ exec.tag # "Idle" => Chosen # exec.cmd
  BY <1>1, <1>2, ChosenWaits
<1>4. /\ st' = CommandStarted(st, Chosen) /\ exec' \in {exec, Observed} /\ grant' = NoGrant
      /\ ctl' = Place(at, Chosen, a, r, msgs)
  BY <1>2 DEF Begin, UnchangedByControl, Goto
<1> QED BY <1>1, <1>2, <1>3, <1>4, BeginKeeps

\* A command that names one message names its target.
LEMMA TargetIsNamed ==
  ASSUME SlotInvariant, NEW c \in Cmd, st.cmd[c].kind \in {"cancel", "promote"}
  PROVE  st.cmd[c].targets = {Target(c)} /\ Target(c) \in Cmd
<1>1. \E m \in Cmd : st.cmd[c].targets = {m}
  BY SlotFacts DEF LogInvariant, Commands
<1> QED BY <1>1 DEF Target

LEMMA DrainControlKeeps ==
  SlotInvariant /\ (DrainCancel \/ DrainPromote \/ DrainStop \/ DrainSteer) => Kept
<1> SUFFICES ASSUME SlotInvariant, DrainCancel \/ DrainPromote \/ DrainStop \/ DrainSteer
             PROVE  Kept
  OBVIOUS
<1>1. ASSUME DrainNormally, ChosenKind \in {"cancel", "promote"}
      PROVE  st.cmd[Chosen].targets = {Target(Chosen)} /\ Target(Chosen) \in Cmd
  <2>1. Chosen # 0 /\ Drain /\ ChosenKind = st.cmd[Chosen].kind
    BY <1>1 DEF ChosenKind, DrainNormally
  <2>2. Chosen \in Cmd
    BY <2>1, ChosenWaits
  <2> QED BY <1>1, <2>1, <2>2, TargetIsNamed
<1>2. CASE DrainCancel
  <2> DEFINE m == Target(Chosen)
  <2>1. /\ DrainNormally /\ ChosenKind = "cancel"
        /\ Begin(Chosen, IF Cancellable(m)
                           THEN Place("cancel", Chosen, 0, 0, UnstartedOrigin(Chosen))
                           ELSE Place("failControl", Chosen, 0, 0, {}))
    BY <1>2 DEF DrainCancel
  <2>2. st.cmd[Chosen].targets = {m}
    BY <1>1, <2>1
  <2> HIDE DEF m
  <2>3. CASE Cancellable(m)
    <3>1. st.msg[m].known /\ st.msg[m].consumed = 0
      BY <2>3 DEF Cancellable, Unconsumed
    <3>2. Begin(Chosen, Place("cancel", Chosen, 0, 0, UnstartedOrigin(Chosen)))
      BY <2>1, <2>3
    <3>3. UnstartedOrigin(Chosen) \subseteq st.cmd[Chosen].targets \cap PendingCommands(st)
      BY DEF UnstartedOrigin
    <3> QED BY <2>1, <2>2, <3>1, <3>2, <3>3, ChosenBegins DEF Begun
  <2>4. CASE ~Cancellable(m)
    <3>1. Begin(Chosen, Place("failControl", Chosen, 0, 0, {}))
      BY <2>1, <2>4
    <3> QED BY <2>1, <3>1, ChosenBegins DEF Begun
  <2> QED BY <2>3, <2>4
<1>3. CASE DrainPromote
  <2> DEFINE m == Target(Chosen)
             pending == Unconsumed(st, m) /\ st.msg[m].disposition = "queue"
             resumed == {k \in st.cmd[Chosen].targets : PromotionNeedsResume(st, k)}
  <2>1. /\ DrainNormally /\ ChosenKind = "promote"
        /\ Begin(Chosen, IF pending THEN Place("promote", Chosen, 0, 0, resumed)
                                    ELSE Place("failControl", Chosen, 0, 0, {}))
    BY <1>3 DEF DrainPromote
  <2>2. st.cmd[Chosen].targets = {m}
    BY <1>1, <2>1
  <2>3. pending => st.msg[m].known /\ st.msg[m].consumed = 0
    BY DEF Unconsumed
  <2> HIDE DEF m, pending, resumed
  <2>4. CASE pending
    <3>1. Begin(Chosen, Place("promote", Chosen, 0, 0, resumed))
      BY <2>1, <2>4
    <3> QED BY <2>1, <2>2, <2>3, <2>4, <3>1, ChosenBegins DEF Begun
  <2>5. CASE ~pending
    <3>1. Begin(Chosen, Place("failControl", Chosen, 0, 0, {}))
      BY <2>1, <2>5
    <3> QED BY <2>1, <3>1, ChosenBegins DEF Begun
  <2> QED BY <2>4, <2>5
<1>4. CASE DrainStop
  <2>1. /\ DrainNormally /\ ChosenKind = "stop" /\ exec.tag # "Idle"
        /\ Begin(Chosen, Place("stopRequest", Chosen, exec.cmd, exec.run, {}))
    BY <1>4 DEF DrainStop, Working
  <2> QED BY <2>1, ChosenBegins DEF Begun
<1>5. CASE DrainSteer
  <2>1. /\ DrainNormally /\ ChosenKind # "none" /\ Begin(Chosen, Place("steer", Chosen, 0, 0, {}))
    BY <1>5 DEF DrainSteer
  <2> QED BY <2>1, ChosenBegins DEF Begun
<1> QED BY <1>2, <1>3, <1>4, <1>5

\* The control fiber is about to close a run that ended badly.
LEMMA AtFailure ==
  ASSUME NEW at \in {"failRun", "cancelRun"}, NEW a, NEW r, NEW msgs,
         ctl' = Place(at, 0, a, r, msgs), grant' = NoGrant, ExecHolds',
         Holds(st', r, a), TurnsClosed(st')
  PROVE  Memory'
<1>1. ctl'.at = at /\ ctl'.cmd = 0 /\ ctl'.active = a /\ ctl'.run = r
  BY DEF Place
<1>2. CtlHolds' /\ GrantHolds' /\ SlotHeld'
  BY <1>1 DEF CtlHolds, GrantHolds, SlotHeld, Closing
<1>3. TakenCommand' /\ TargetUnconsumed' /\ InputsResumed'
  BY <1>1 DEF TakenCommand, TargetUnconsumed, InputsResumed, Taken, Awaited
<1> QED BY <1>2, <1>3 DEF Memory

LEMMA DrainDeadFiberKeeps == SlotInvariant /\ (DrainDefect \/ DrainInterrupted) => Kept
<1> SUFFICES ASSUME SlotInvariant, DrainDefect \/ DrainInterrupted PROVE Kept
  OBVIOUS
<1>1. st \in State /\ LogInvariant(st) /\ Memory
  BY SlotFacts
<1>2. /\ Drain /\ exec.exited /\ exec' = NoExec /\ grant' = NoGrant
  BY DEF DrainDefect, DrainInterrupted, Drain, UnchangedByControl
<1>3. /\ Holds(st, exec.run, exec.cmd) /\ exec.turn = st.nturn
      /\ exec.fiber = "defect" => TurnsClosed(st)
  <2>1. exec.tag # "Idle"
    BY <1>1, <1>2 DEF Memory, ExecHolds, NoExec
  <2> QED BY <1>1, <2>1 DEF Memory, ExecHolds
<1>4. CASE DrainDefect
  <2>1. /\ exec.fiber = "defect" /\ st' = st
        /\ ctl' = Place("failRun", 0, exec.cmd, exec.run, MessagesToResume(st))
    BY <1>4 DEF DrainDefect, Goto
  <2>2. Memory'
    BY <1>2, <1>3, <2>1, AtFailure, NoExecHolds
  <2> QED BY <1>1, <2>1, <2>2, LastingIsReflexive DEF Kept
<1>5. CASE DrainInterrupted
  <2>1. /\ st' = IF st.turn[exec.turn].status = "open"
                   THEN TurnTerminal(st, exec.turn, "Failed", FALSE) ELSE st
        /\ ctl' = Place("cancelRun", 0, exec.cmd, exec.run, MessagesToResume(st))
    BY <1>5 DEF DrainInterrupted, Goto
  <2>2. \A t \in OpenTurns(st) : t = exec.turn /\ st.turn[exec.turn].status = "open"
    BY <1>1, <1>3 DEF LogInvariant, OneSlot, OpenTurns
  <2>3. LogInvariant(st') /\ Lasting(st, st') /\ Holds(st', exec.run, exec.cmd) /\ TurnsClosed(st')
    <3>1. CASE st.turn[exec.turn].status = "open"
      <4>1. st' = TurnTerminal(st, exec.turn, "Failed", FALSE)
        BY <2>1, <3>1
      <4>2. LogInvariant(st') /\ Lasting(st, st')
        BY <1>1, <4>1, TurnTerminalKeeps
      <4>3. ClosesTurn(st, st', exec.turn)
        BY <1>1, <4>1, TurnTerminalEffect
      <4> QED BY <1>3, <2>2, <4>2, <4>3
              DEF ClosesTurn, OnlySlot, SameOrders, Holds, ActiveCommands, TurnsClosed
    <3>2. CASE st.turn[exec.turn].status # "open"
      BY <1>1, <1>3, <2>1, <2>2, <3>2, LastingIsReflexive DEF TurnsClosed
    <3> QED BY <3>1, <3>2
  <2>4. Memory'
    BY <1>2, <2>1, <2>3, AtFailure, NoExecHolds
  <2> QED BY <2>3, <2>4 DEF Kept
<1> QED BY <1>4, <1>5

\* An interruption closes the run of the command that was active, for a command that is not it.
LEMMA AtInterruption ==
  ASSUME ctl'.at = "interruption", grant' = NoGrant, exec' = NoExec,
         Holds(st', ctl'.run, ctl'.active), LogInvariant(st'), ctl'.cmd # ctl'.active,
         \/ st'.cmd[ctl'.cmd].kind = "stop" /\ ctl'.cmd \in ActiveCommands(st')
         \/ st'.cmd[ctl'.cmd].kind = "interrupt" /\ ctl'.cmd \in PendingCommands(st')
  PROVE  Memory'
<1>1. st'.req.id = 0
  BY DEF Holds, LogInvariant, OneSlot
<1>2. ExecHolds' /\ CtlHolds' /\ GrantHolds' /\ SlotHeld'
  BY NoExecHolds DEF CtlHolds, GrantHolds, SlotHeld, Closing
<1>3. TakenCommand' /\ TargetUnconsumed' /\ InputsResumed'
  BY <1>1 DEF TakenCommand, TargetUnconsumed, InputsResumed, Taken, Awaited
<1> QED BY <1>2, <1>3 DEF Memory

LEMMA DrainInterruptKeeps == SlotInvariant /\ DrainInterrupt => Kept
<1> SUFFICES ASSUME SlotInvariant, DrainInterrupt PROVE Kept
  OBVIOUS
<1>1. /\ Drain /\ exec.tag # "Idle" /\ ChosenKind = "interrupt" /\ exec' = NoExec /\ st' = st
      /\ grant' = NoGrant
      /\ ctl' = Place("interruption", Chosen, exec.cmd, exec.run, MessagesToPause(st))
  BY DEF DrainInterrupt, DrainNormally, Drain, Working, Goto, UnchangedByControl
<1>2. LogInvariant(st) /\ Memory
  BY SlotFacts
<1>3. Chosen # 0 /\ st.cmd[Chosen].kind = "interrupt"
  BY <1>1 DEF ChosenKind
<1>4. Chosen \in PendingCommands(st) /\ Chosen # exec.cmd
  BY <1>1, <1>3, ChosenWaits
<1>5. Holds(st, exec.run, exec.cmd)
  BY <1>1, <1>2 DEF Memory, ExecHolds
<1>6. /\ ctl'.at = "interruption" /\ ctl'.cmd = Chosen /\ ctl'.active = exec.cmd
      /\ ctl'.run = exec.run
  BY <1>1 DEF Place
<1>7. Memory'
  BY <1>1, <1>2, <1>3, <1>4, <1>5, <1>6, AtInterruption
<1> QED BY <1>1, <1>2, <1>7, LastingIsReflexive DEF Kept

\* The execution that a turn boundary is about.
LEMMA AtBoundary ==
  ASSUME ctl'.at \in {"boundary", "complete"}, grant' = NoGrant, ExecHolds',
         exec'.tag = "Completed", ctl'.run = exec'.run, ctl'.active = exec'.cmd, LogInvariant(st')
  PROVE  Memory'
<1>1. st'.req.id = 0
  BY DEF ExecHolds, Holds, LogInvariant, OneSlot
<1>2. CtlHolds' /\ GrantHolds' /\ SlotHeld'
  BY DEF CtlHolds, GrantHolds, SlotHeld, Closing
<1>3. TakenCommand' /\ TargetUnconsumed' /\ InputsResumed'
  BY <1>1 DEF TakenCommand, TargetUnconsumed, InputsResumed, Taken, Awaited
<1> QED BY <1>2, <1>3 DEF Memory

LEMMA SparedIsReflexive == \A s, c : Spared(s, s, c)
BY DEF Spared

LEMMA DrainNothingKeeps == SlotInvariant /\ DrainNothing => Kept
<1> SUFFICES ASSUME SlotInvariant, DrainNothing PROVE Kept
  OBVIOUS
<1>1. /\ ctl.at = "ready" /\ grant = NoGrant /\ exec' = Observed /\ st' = st /\ grant' = NoGrant
      /\ \/ Observed.tag = "Completed" /\ ctl' = Place("boundary", 0, exec.cmd, exec.run, {})
         \/ Observed.tag # "Completed" /\ ctl' = Free("park")
  BY DEF DrainNothing, DrainNormally, Drain, Goto, UnchangedByControl
<1>2. LogInvariant(st) /\ Memory /\ TypeOK
  BY SlotFacts DEF SlotInvariant
<1>3. exec.tag = "Idle" => OpenRuns(st) = {}
  BY <1>1, SlotFacts DEF Closing
<1>4. ctl'.at \in Executing /\ (ctl'.at \notin {"turn", "failRun", "boundary", "complete"}
                                \/ exec'.tag = "Completed")
  BY <1>1 DEF Place, Free, Executing, Ungated
<1>5. exec.tag # "Idle" => 0 # exec.cmd
  <2>1. 0 \notin Cmd
    BY BoundsAssumption DEF Cmd
  <2> QED BY <1>2, <2>1 DEF Memory, ExecHolds, Holds, ActiveCommands
<1>6. /\ ExecHolds' /\ (exec'.tag = "Idle") = (exec.tag = "Idle")
      /\ exec'.run = exec.run /\ exec'.cmd = exec.cmd
  BY <1>1, <1>2, <1>4, <1>5, HeldOver, SparedIsReflexive DEF Memory
<1>7. Memory'
  <2>1. CASE Observed.tag = "Completed" /\ ctl' = Place("boundary", 0, exec.cmd, exec.run, {})
    <3>1. ctl'.at = "boundary" /\ ctl'.run = exec.run /\ ctl'.active = exec.cmd
      BY <2>1 DEF Place
    <3> QED BY <1>1, <1>2, <1>6, <2>1, <3>1, AtBoundary
  <2>2. CASE ctl' = Free("park")
    BY <1>1, <1>3, <1>6, <2>2, AtRest DEF Ungated
  <2> QED BY <1>1, <2>1, <2>2
<1> QED BY <1>1, <1>2, <1>7, LastingIsReflexive DEF Kept

LEMMA DrainWaitingKeeps == SlotInvariant /\ DrainWaiting => Kept
<1> SUFFICES ASSUME SlotInvariant, DrainWaiting PROVE Kept
  OBVIOUS
<1> DEFINE msgs == MessagesToPause(st) \ {Chosen}
<1>1. /\ Drain /\ exec.tag = "Idle" /\ st.req.id # 0 /\ ChosenKind \in {"stop", "interrupt"}
      /\ st' = st /\ exec' = exec /\ grant = NoGrant /\ grant' = NoGrant /\ ctl.at = "ready"
      /\ ctl' = Place("closeWaiting", Chosen, 0, 0, msgs)
  BY DEF DrainWaiting, DrainNormally, Drain, Reserved, Working, Goto, UnchangedByControl
<1>2. LogInvariant(st) /\ Memory
  BY SlotFacts
<1>3. OpenRuns(st) = {} /\ exec = NoExec
  BY <1>1, SlotFacts DEF Closing
<1>4. Chosen # 0 /\ st.cmd[Chosen].kind \in {"stop", "interrupt"}
  BY <1>1 DEF ChosenKind
<1>5. Chosen \in PendingCommands(st) /\ Chosen \in Cmd /\ Chosen # st.req.cmd
  BY <1>1, <1>4, ChosenWaits
<1>6. Chosen \notin PausedQueue(st)
  <2>1. ~st.msg[Chosen].known
    BY <1>2, <1>4, <1>5 DEF LogInvariant, Messages, PendingCommands, IsSubmit, Submits
  <2> QED BY <2>1 DEF PausedQueue, PendingMessages, Unconsumed
<1> HIDE DEF msgs
<1>7. Memory'
  BY <1>1, <1>3, <1>4, <1>5, <1>6, AtAwaited DEF Awaited
<1> QED BY <1>1, <1>2, <1>7, LastingIsReflexive DEF Kept

\* What an idle session starts is a submission or a resumption, and it is not paused.
LEMMA NextIdleMayStart ==
  ASSUME NEW s \in State, LogInvariant(s), NextIdle(s) \in Cmd
  PROVE  /\ NextIdle(s) \in PendingCommands(s) /\ NextIdle(s) \notin PausedQueue(s)
         /\ s.cmd[NextIdle(s)].kind = "resume" \/ IsSubmit(s, NextIdle(s))
<1> DEFINE pending == PendingCommands(s)
           interrupts == {c \in pending : s.cmd[c].kind = "interrupt"}
           queued == PendingQueue(s) \cap pending
           others == UnpausedWork(s)
<1>0. 0 \notin Cmd /\ Orphaned \notin Cmd
  BY BoundsAssumption DEF Cmd, Orphaned
<1>1. pending \subseteq Cmd /\ PendingSteers(s) \subseteq Cmd
  BY QueueTypes
<1>2. \A c \in pending : s.cmd[c].kind = "resume" => c \notin PausedQueue(s)
  BY DEF LogInvariant, Messages, IsSubmit, Submits, PausedQueue, PendingMessages, Unconsumed
<1>3. \A c \in PendingMessages(s) : IsSubmit(s, c)
  BY DEF LogInvariant, Messages, PendingMessages, Unconsumed
<1>4. CASE OwnedSteers(s) # {}
  <2> DEFINE m == Earliest(s, OwnedSteers(s))
  <2>1. m \in OwnedSteers(s)
    BY <1>1, <1>4, EarliestIsMember DEF OwnedSteers
  <2>2. m \in PendingSteers(s) /\ (m \in pending \/ ResumesOf(s, m) # {})
    BY <2>1 DEF OwnedSteers
  <2>3. ResumesOf(s, m) # {} => /\ Least(ResumesOf(s, m)) \in pending
                                /\ s.cmd[Least(ResumesOf(s, m))].kind = "resume"
    BY <1>1, CmdIsNat, LeastIsMember DEF ResumesOf
  <2>4. NextIdle(s) = IF m \in pending THEN m ELSE Least(ResumesOf(s, m))
    BY <1>4 DEF NextIdle, OwnedSteers
  <2>5. m \notin PausedQueue(s) /\ m \in PendingMessages(s)
    BY <2>2, PlannedAreUnpaused DEF PendingSteers
  <2> HIDE DEF m
  <2>6. CASE m \in pending
    BY <1>3, <2>4, <2>5, <2>6
  <2>7. CASE m \notin pending
    <3>1. NextIdle(s) = Least(ResumesOf(s, m)) /\ ResumesOf(s, m) # {}
      BY <2>2, <2>4, <2>7
    <3> QED BY <1>2, <2>3, <3>1
  <2> QED BY <2>6, <2>7
<1>5. CASE OwnedSteers(s) = {} /\ PendingSteers(s) # {}
  BY <1>0, <1>5 DEF NextIdle
<1>6. CASE PendingSteers(s) = {} /\ interrupts # {}
  <2>1. OwnedSteers(s) = {}
    BY <1>6 DEF OwnedSteers
  <2>2. NextIdle(s) = Least(interrupts)
    BY <1>6, <2>1 DEF NextIdle
  <2>3. NextIdle(s) \in interrupts
    BY <1>1, <1>6, <2>2, CmdIsNat, LeastIsMember
  <2>4. IsSubmit(s, NextIdle(s)) /\ ~s.msg[NextIdle(s)].known
    BY <2>3 DEF LogInvariant, Messages, IsSubmit, Submits, PendingCommands
  <2> QED BY <2>3, <2>4 DEF PausedQueue, PendingMessages, Unconsumed
<1>7. CASE PendingSteers(s) = {} /\ interrupts = {} /\ queued # {}
  <2>1. OwnedSteers(s) = {}
    BY <1>7 DEF OwnedSteers
  <2>2. NextIdle(s) = Earliest(s, queued)
    BY <1>7, <2>1 DEF NextIdle
  <2>3. queued \in SUBSET Cmd
    BY <1>1
  <2>4. NextIdle(s) \in queued
    BY <1>7, <2>2, <2>3, EarliestIsMember
  <2> QED BY <1>3, <2>4 DEF PendingQueue
<1>8. CASE PendingSteers(s) = {} /\ interrupts = {} /\ queued = {}
  <2>1. OwnedSteers(s) = {}
    BY <1>8 DEF OwnedSteers
  <2>2. NextIdle(s) = IF others = {} THEN 0 ELSE Least(others)
    BY <1>8, <2>1 DEF NextIdle
  <2>3. others \subseteq pending
    BY DEF UnpausedWork
  <2>4. NextIdle(s) \in others
    BY <1>0, <1>1, <2>2, <2>3, CmdIsNat, LeastIsMember
  <2> QED BY <1>2, <2>3, <2>4 DEF UnpausedWork
<1> QED BY <1>4, <1>5, <1>6, <1>7, <1>8 DEF OwnedSteers

LEMMA IdleDrainKeeps == SlotInvariant /\ (DrainInactiveStop \/ DrainStart) => Kept
<1> SUFFICES ASSUME SlotInvariant, DrainInactiveStop \/ DrainStart PROVE Kept
  OBVIOUS
<1>1. /\ DrainNormally /\ ctl.at = "ready" /\ grant = NoGrant /\ grant' = NoGrant
      /\ exec.tag = "Idle" /\ st.req.id = 0
  BY DEF DrainInactiveStop, DrainStart, IdleDrain, DrainNormally, Drain, Working, Reserved,
     Begin, UnchangedByControl
<1>2. /\ st \in State /\ LogInvariant(st) /\ Memory /\ OpenRuns(st) = {} /\ exec = NoExec
  BY <1>1, SlotFacts DEF Closing
<1>3. CASE DrainInactiveStop
  <2>1. ChosenKind # "none" /\ Begin(Chosen, Place("inactiveStop", Chosen, 0, 0, {}))
    BY <1>3 DEF DrainInactiveStop
  <2> QED BY <1>1, <2>1, ChosenBegins DEF Begun
<1>4. CASE DrainStart
  <2> DEFINE c == NextIdle(st)
             pending == {m \in st.cmd[c].targets : Unconsumed(st, m)}
             begins == ActiveCommand(st) = 0 /\ c \in Cmd
  <2>1. /\ exec' = exec
        /\ ctl' = IF ActiveCommand(st) # 0 \/ c = Orphaned THEN Free("dead")
                  ELSE IF c = 0 THEN Free("park")
                  ELSE IF st.cmd[c].kind # "resume" THEN Place("start", c, 0, 0, {})
                  ELSE IF pending # {} THEN Place("startResume", c, 0, 0, pending)
                  ELSE Place("inactiveStop", c, 0, 0, {})
        /\ st' = IF begins /\ st.cmd[c].kind = "resume" /\ pending = {}
                   THEN CommandStarted(st, c) ELSE st
    BY <1>4 DEF DrainStart, Goto
  <2>2. 0 \notin Cmd /\ Orphaned \notin Cmd
    BY BoundsAssumption DEF Cmd, Orphaned
  <2>3. c \in Cmd \cup {0, Orphaned}
    BY <1>2, NextIdleType, QueueTypes
  <2>4. c \in Cmd => /\ c \in PendingCommands(st) /\ c \notin PausedQueue(st)
                     /\ st.cmd[c].kind = "resume" \/ IsSubmit(st, c)
    BY <1>2, NextIdleMayStart
  <2>5. pending \subseteq st.cmd[c].targets
    OBVIOUS
  <2> HIDE DEF c, pending
  <2>6. CASE ActiveCommand(st) # 0 \/ c = Orphaned
    <3>1. st' = st /\ ctl' = Free("dead")
      BY <2>1, <2>2, <2>6
    <3>2. ctl'.at = "dead" /\ ctl'.cmd = 0
      BY <3>1 DEF Free, Place
    <3>3. ExecHolds' /\ CtlHolds' /\ GrantHolds' /\ SlotHeld'
      BY <1>1, <1>2, <2>1, <3>2, NoExecHolds DEF CtlHolds, GrantHolds, SlotHeld, Closing
    <3>4. TakenCommand' /\ TargetUnconsumed' /\ InputsResumed'
      BY <1>1, <3>2 DEF TakenCommand, TargetUnconsumed, InputsResumed, Taken, Awaited
    <3> QED BY <1>2, <3>1, <3>3, <3>4, LastingIsReflexive DEF Memory, Kept
  <2>7. CASE ActiveCommand(st) = 0 /\ c = 0
    <3>1. st' = st /\ ctl' = Free("park")
      BY <2>1, <2>2, <2>7 DEF Orphaned
    <3>2. Memory'
      BY <1>1, <1>2, <2>1, <3>1, AtRest, NoExecHolds DEF Ungated
    <3> QED BY <1>2, <3>1, <3>2, LastingIsReflexive DEF Kept
  <2>8. CASE ActiveCommand(st) = 0 /\ c \in Cmd
    <3>1. c # 0 /\ c # Orphaned
      BY <2>2, <2>8
    <3>2. CASE st.cmd[c].kind # "resume"
      <4>1. st' = st /\ ctl' = Place("start", c, 0, 0, {}) /\ IsSubmit(st, c)
        BY <2>1, <2>4, <2>8, <3>1, <3>2
      <4>2. Memory'
        BY <1>1, <1>2, <2>1, <2>4, <2>8, <4>1, AtAwaited DEF Awaited
      <4> QED BY <1>2, <4>1, <4>2, LastingIsReflexive DEF Kept
    <3>3. CASE st.cmd[c].kind = "resume" /\ pending # {}
      <4>1. st' = st /\ ctl' = Place("startResume", c, 0, 0, pending)
        BY <2>1, <2>8, <3>1, <3>3
      <4>2. Memory'
        BY <1>1, <1>2, <2>1, <2>4, <2>5, <2>8, <3>3, <4>1, AtAwaited DEF Awaited
      <4> QED BY <1>2, <4>1, <4>2, LastingIsReflexive DEF Kept
    <3>4. CASE st.cmd[c].kind = "resume" /\ pending = {}
      <4>1. st' = CommandStarted(st, c) /\ ctl' = Place("inactiveStop", c, 0, 0, {})
        BY <2>1, <2>8, <3>1, <3>4
      <4> QED BY <1>1, <2>1, <2>4, <2>8, <4>1, BeginKeeps DEF Begun
    <3> QED BY <3>2, <3>3, <3>4
  <2> QED BY <2>3, <2>6, <2>7, <2>8
<1> QED BY <1>3, <1>4

-----------------------------------------------------------------------------
(* The appends that finish what a drain began.                             *)

LEMMA SparedIsTransitive ==
  ASSUME NEW s, NEW s1, NEW s2, NEW c, Spared(s, s1, c), Spared(s1, s2, c)
  PROVE  Spared(s, s2, c)
BY DEF Spared

LEMMA CommandEnds ==
  ASSUME NEW s \in State, NEW c \in Cmd, NEW o \in {"Completed", "Failed", "Cancelled"},
         LogInvariant(s), s.cmd[c].terminal \in {"none", o}, s.cmd[c].started \/ o = "Cancelled",
         s.req.id # 0 /\ s.req.work = "Recovery" => c # s.req.cmd
  PROVE  LET s1 == CommandTerminal(s, c, o) IN
         /\ s1 \in State /\ LogInvariant(s1) /\ Lasting(s, s1) /\ Spared(s, s1, c)
         /\ SameSlot(s, s1) /\ OpenRuns(s1) = OpenRuns(s) /\ OpenTurns(s1) = OpenTurns(s)
         /\ s1.msg = s.msg /\ s1.ncmd = s.ncmd /\ PausedQueue(s1) = PausedQueue(s)
         /\ PendingCommands(s) \ {c} \subseteq PendingCommands(s1)
         /\ \A d \in Cmd : /\ s1.cmd[d].kind = s.cmd[d].kind
                           /\ s1.cmd[d].targets = s.cmd[d].targets
                           /\ s1.cmd[d].started = s.cmd[d].started
                           /\ d # c => s1.cmd[d] = s.cmd[d]
<1> DEFINE s1 == CommandTerminal(s, c, o)
<1>1. Ends(s, s1, c, o)
  BY TerminalEffect
<1>2. LogInvariant(s1) /\ Lasting(s, s1)
  BY TerminalKeeps
<1> HIDE DEF s1
<1>3. OpenRuns(s1) = OpenRuns(s) /\ OpenTurns(s1) = OpenTurns(s)
  BY <1>1, SameSlotViews DEF Ends
<1>4. Spared(s, s1, c)
  BY <1>1, <1>3 DEF Ends, Spared, SameSlot, ActiveCommands
<1>5. PendingCommands(s) \ {c} \subseteq PendingCommands(s1)
  <2>1. PendingCommands(s) \subseteq Cmd
    BY QueueTypes
  <2> QED BY <1>1, <2>1 DEF Ends, PendingCommands
<1>6. PausedQueue(s1) = PausedQueue(s)
  BY <1>1 DEF Ends, PausedQueue, PendingMessages, Unconsumed
<1> QED BY <1>1, <1>2, <1>3, <1>4, <1>5, <1>6 DEF Ends, s1

\* After its last append the control fiber is ready again.
LEMMA FinishRests ==
  ASSUME SlotInvariant, ctl.at \in Taken, ctl'.at = "ready", ctl' = Free("ready"),
         exec' = exec, grant' = grant, OpenRuns(st') = OpenRuns(st),
         exec.tag # "Idle" => Spared(st, st', ctl.cmd)
  PROVE  Memory'
<1>1. Memory /\ TypeOK /\ grant = NoGrant
  BY SlotFacts DEF Taken, Ungated, SlotInvariant
<1>2. exec.tag = "Idle" => OpenRuns(st) = {}
  BY <1>1, SlotFacts DEF Taken, Closing
<1>3. exec.tag # "Idle" => ctl.cmd # exec.cmd
  BY <1>1 DEF Memory, TakenCommand
<1>4. ExecHolds'
  <2>1. CASE exec.tag = "Idle"
    <3>1. exec' = NoExec
      BY <1>1, <2>1 DEF Memory, ExecHolds
    <3> QED BY <3>1, NoExecHolds
  <2>2. CASE exec.tag # "Idle"
    BY <1>1, <1>3, <2>2, HeldOver DEF Memory, Executing, Ungated
  <2> QED BY <2>1, <2>2
<1> QED BY <1>1, <1>2, <1>4, AtRest DEF Ungated

LEMMA ReadyPlace == Free("ready").at = "ready"
BY DEF Free, Place

\* The command that a drain has started can end, and is not what a reservation is for.
LEMMA TakenEnds ==
  ASSUME SlotInvariant, ctl.at \in Taken
  PROVE  /\ ctl.cmd \in Cmd /\ ctl.cmd \in ActiveCommands(st)
         /\ st.cmd[ctl.cmd].started /\ st.cmd[ctl.cmd].terminal = "none"
         /\ st.req.id # 0 => ctl.cmd # st.req.cmd
<1>1. ctl.cmd \in ActiveCommands(st)
  BY SlotFacts DEF Memory, TakenCommand
<1>2. ctl.cmd \in Cmd /\ st.cmd[ctl.cmd].started /\ st.cmd[ctl.cmd].terminal = "none"
  BY <1>1 DEF ActiveCommands
<1>3. ctl.cmd # 0
  BY <1>2, BoundsAssumption DEF Cmd
<1> QED BY <1>1, <1>2, <1>3, SlotFacts DEF Memory, TakenCommand

LEMMA FinishControlKeeps ==
  SlotInvariant /\ (CompleteSteer \/ FailControl \/ CancelInactiveStop) => Kept
<1> SUFFICES ASSUME SlotInvariant, CompleteSteer \/ FailControl \/ CancelInactiveStop PROVE Kept
  OBVIOUS
<1>1. /\ ctl.at \in Taken /\ exec' = exec /\ grant' = grant /\ ctl' = Free("ready")
      /\ \E o \in {"Completed", "Failed", "Cancelled"} : st' = CommandTerminal(st, ctl.cmd, o)
  BY DEF CompleteSteer, FailControl, CancelInactiveStop, Taken, Finish, Goto, UnchangedByControl
<1>2. st \in State /\ LogInvariant(st)
  BY SlotFacts
<1>3. /\ ctl.cmd \in Cmd /\ st.cmd[ctl.cmd].started /\ st.cmd[ctl.cmd].terminal = "none"
      /\ st.req.id # 0 => ctl.cmd # st.req.cmd
  BY <1>1, TakenEnds
<1>4. /\ LogInvariant(st') /\ Lasting(st, st') /\ Spared(st, st', ctl.cmd)
      /\ OpenRuns(st') = OpenRuns(st)
  BY <1>1, <1>2, <1>3, CommandEnds
<1>5. Memory'
  BY <1>1, <1>4, ReadyPlace, FinishRests
<1> QED BY <1>4, <1>5 DEF Kept

LEMMA CommitPromoteKeeps == SlotInvariant /\ CommitPromote => Kept
<1> SUFFICES ASSUME SlotInvariant, CommitPromote PROVE Kept
  OBVIOUS
<1> DEFINE c  == ctl.cmd
           m  == Target(c)
           s1 == UserMessagePromoted(st, m)
           s2 == IF ctl.msgs = {} THEN s1 ELSE CommandAdmitted(s1, "resume", ctl.msgs)
           s3 == CommandTerminal(s2, c, "Completed")
<1>1. /\ ctl.at = "promote" /\ "promote" \in Taken /\ st.ncmd < MaxCmd /\ st' = s3
      /\ exec' = exec /\ grant' = grant /\ ctl' = Free("ready")
  BY DEF CommitPromote, Finish, Goto, UnchangedByControl, Taken
<1>2. st \in State /\ LogInvariant(st) /\ Memory
  BY SlotFacts
<1>3. /\ c \in Cmd /\ st.cmd[c].started /\ st.cmd[c].terminal = "none"
      /\ c \in ActiveCommands(st) /\ (st.req.id # 0 => c # st.req.cmd)
      /\ ctl.msgs \in SUBSET Cmd
  BY <1>1, TakenEnds, CtlFields DEF SlotInvariant
<1>4. st.cmd[c].kind = "promote" /\ \A k \in st.cmd[c].targets : st.msg[k].consumed = 0
  BY <1>1, <1>2 DEF Memory, TargetUnconsumed
<1>5. m \in Cmd /\ st.msg[m].consumed = 0
  BY <1>3, <1>4, TargetIsNamed
<1> HIDE DEF m, c
<1>6. /\ LogInvariant(s1) /\ Lasting(st, s1) /\ OnlyMessages(st, s1)
  BY <1>2, <1>5, MessageKeeps, PromotedEffect
<1> HIDE DEF s1
<1>7. /\ s1 \in State /\ SameSlot(st, s1) /\ s1.ncmd < MaxCmd /\ s1.cmd = st.cmd
      /\ OpenRuns(s1) = OpenRuns(st) /\ Spared(st, s1, c)
  BY <1>1, <1>6, SameSlotViews DEF OnlyMessages, SameOrders, SameSlot, Spared, ActiveCommands
<1>8. /\ s2 \in State /\ LogInvariant(s2) /\ Lasting(s1, s2) /\ OpenRuns(s2) = OpenRuns(s1)
      /\ Spared(s1, s2, c) /\ s2.req = s1.req
      /\ s2.cmd[c].started /\ s2.cmd[c].terminal = "none"
  <2>1. CASE ctl.msgs = {}
    BY <1>3, <1>6, <1>7, <2>1, LastingIsReflexive, SparedIsReflexive
  <2>2. CASE ctl.msgs # {}
    <3>1. s2 = CommandAdmitted(s1, "resume", ctl.msgs) /\ "resume" \in Kinds
      BY <2>2 DEF Kinds
    <3>2. Harmless(s1, s2) /\ Admits(s1, s2, "resume", ctl.msgs)
      BY <1>3, <1>6, <1>7, <3>1, AdmittedIsHarmless, AdmittedEffect
    <3>3. Spared(s1, s2, c)
      BY <3>2 DEF Harmless, Undisturbed, Spared
    <3> QED BY <1>3, <1>7, <3>2, <3>3, SameSlotViews DEF Harmless, Admits, SameSlot
  <2> QED BY <2>1, <2>2
<1> HIDE DEF s2
<1>9. /\ LogInvariant(s3) /\ Lasting(s2, s3) /\ Spared(s2, s3, c) /\ OpenRuns(s3) = OpenRuns(s2)
  BY <1>3, <1>7, <1>8, CommandEnds DEF SameSlot
<1> HIDE DEF s3
<1>10. Spared(st, s3, c) /\ Lasting(st, s3)
  BY <1>6, <1>7, <1>8, <1>9, SparedIsTransitive, LastingIsTransitive
<1>11. Memory'
  BY <1>1, <1>7, <1>8, <1>9, <1>10, ReadyPlace, FinishRests DEF c
<1> QED BY <1>1, <1>9, <1>10, <1>11 DEF Kept

LEMMA ReservationWithoutKeeps ==
  ASSUME NEW s \in State, LogInvariant(s), NEW m
  PROVE  LET s1 == ReservationWithout(s, m) IN
         /\ s1 \in State /\ LogInvariant(s1) /\ Lasting(s, s1)
         /\ OpenRuns(s1) = OpenRuns(s) /\ s1.msg = s.msg
         /\ s.req.id = 0 => s1 = s
         /\ s1.req.id # 0 => s.req.id # 0 /\ s1.req.cmd = s.req.cmd
         /\ \A d \in Cmd : /\ s1.cmd[d].started = s.cmd[d].started
                           /\ s1.cmd[d].kind = s.cmd[d].kind
                           /\ d # s.req.cmd => s1.cmd[d] = s.cmd[d]
<1> DEFINE s1 == ReservationWithout(s, m)
           closed == RunSchedulingClosed(s, s.req.id)
           rest == RequestInputs(s) \ {m}
           c == s.req.cmd
<1>1. CASE s.req.id = 0 \/ m \notin RequestInputs(s)
  <2>1. s1 = s
    BY <1>1 DEF ReservationWithout
  <2> QED BY <2>1, LastingIsReflexive
<1>2. /\ OnlyRequest(s, closed) /\ LogInvariant(closed) /\ Lasting(s, closed)
      /\ closed.req.id = 0 /\ OpenRuns(closed) = OpenRuns(s)
  BY ClosedKeeps, OnlyRequestViews
<1>3. s.req.id # 0 => c \in 1 .. s.ncmd /\ c \in Cmd /\ Deferred /\ OpenRuns(s) = {}
  BY RequestInputsType DEF LogInvariant, Reservable, OneSlot
<1>4. CASE s.req.id # 0 /\ m \in RequestInputs(s) /\ s.req.work = "Command"
  <2>1. s1 = closed
    BY <1>4 DEF ReservationWithout
  <2> HIDE DEF closed
  <2> QED BY <1>2, <1>4, <2>1 DEF OnlyRequest, SameOrders
<1>5. CASE s.req.id # 0 /\ m \in RequestInputs(s) /\ s.req.work # "Command"
  <2>1. /\ s.req.work = "Recovery" /\ c \in ActiveCommands(s) /\ s.cmd[c].kind # "stop"
        /\ s.req.run \in Run /\ rest \in SUBSET Cmd
    BY <1>5, RequestInputsType DEF LogInvariant, Reservable
  <2>2. CASE rest = {}
    <3>1. s1 = CommandTerminal(closed, c, "Cancelled")
      BY <1>5, <2>2 DEF ReservationWithout
    <3> HIDE DEF closed
    <3>2. closed \in State /\ closed.cmd = s.cmd /\ closed.msg = s.msg
      BY <1>2 DEF OnlyRequest, SameOrders
    <3>3. s.cmd[c].started /\ s.cmd[c].terminal = "none" /\ c \in Cmd
      BY <2>1 DEF ActiveCommands
    <3>4. /\ s1 \in State /\ LogInvariant(s1) /\ Lasting(closed, s1) /\ SameSlot(closed, s1)
          /\ OpenRuns(s1) = OpenRuns(closed) /\ s1.msg = closed.msg
          /\ \A d \in Cmd : /\ s1.cmd[d].started = closed.cmd[d].started
                            /\ s1.cmd[d].kind = closed.cmd[d].kind
                            /\ d # c => s1.cmd[d] = closed.cmd[d]
      BY <1>2, <3>1, <3>2, <3>3, CommandEnds
    <3>5. Lasting(s, s1)
      BY <1>2, <3>4, LastingIsTransitive
    <3> HIDE DEF s1, c
    <3> QED BY <1>2, <1>5, <3>2, <3>4, <3>5 DEF SameSlot, c, s1
  <2>3. CASE rest # {}
    <3>1. s1 = RunSchedulingRequested(s, "Recovery", c, s.req.run, rest)
      BY <1>5, <2>3 DEF ReservationWithout
    <3>2. /\ OnlyRequest(s, s1) /\ LogInvariant(s1) /\ Lasting(s, s1)
      BY <1>3, <1>5, <2>1, <3>1, RequestedKeeps
    <3>3. s1.req.cmd = c
      BY <3>1 DEF RunSchedulingRequested, State
    <3> HIDE DEF s1
    <3>4. OpenRuns(s1) = OpenRuns(s)
      BY <3>2, OnlyRequestViews
    <3> QED BY <1>5, <3>2, <3>3, <3>4 DEF OnlyRequest, SameOrders, s1
  <2> QED BY <2>2, <2>3
<1> QED BY <1>1, <1>4, <1>5

LEMMA CommitCancelKeeps == SlotInvariant /\ CommitCancel => Kept
<1> SUFFICES ASSUME SlotInvariant, CommitCancel PROVE Kept
  OBVIOUS
<1> DEFINE c  == ctl.cmd
           m  == Target(c)
           s1 == ReservationWithout(st, m)
           s2 == UserMessageCancelled(s1, m)
           s3 == IF ctl.msgs = {} THEN s2 ELSE CommandTerminal(s2, m, "Cancelled")
           s4 == CommandTerminal(s3, c, "Completed")
<1>1. /\ ctl.at = "cancel" /\ "cancel" \in Taken /\ st' = s4
      /\ exec' = exec /\ grant' = grant /\ ctl' = Free("ready")
  BY DEF CommitCancel, Finish, Goto, UnchangedByControl, Taken
<1>2. st \in State /\ LogInvariant(st) /\ Memory
  BY SlotFacts
<1>3. /\ c \in Cmd /\ st.cmd[c].started /\ st.cmd[c].terminal = "none"
      /\ c \in ActiveCommands(st) /\ (st.req.id # 0 => c # st.req.cmd)
  BY <1>1, TakenEnds
<1>4. /\ st.cmd[c].kind = "cancel" /\ \A k \in st.cmd[c].targets : st.msg[k].consumed = 0
      /\ ctl.msgs \subseteq st.cmd[c].targets /\ \A k \in ctl.msgs : ~st.cmd[k].started
  BY <1>1, <1>2 DEF Memory, TargetUnconsumed
<1>5. m \in Cmd /\ st.msg[m].consumed = 0 /\ (ctl.msgs # {} => ~st.cmd[m].started)
  BY <1>3, <1>4, TargetIsNamed
<1> HIDE DEF m, c
<1>6. /\ s1 \in State /\ LogInvariant(s1) /\ Lasting(st, s1)
      /\ OpenRuns(s1) = OpenRuns(st) /\ s1.msg = st.msg
      /\ st.req.id = 0 => s1 = st
      /\ s1.req.id # 0 => st.req.id # 0 /\ s1.req.cmd = st.req.cmd
      /\ \A d \in Cmd : /\ s1.cmd[d].started = st.cmd[d].started
                        /\ d # st.req.cmd => s1.cmd[d] = st.cmd[d]
  BY <1>2, ReservationWithoutKeeps
<1>7. s1.cmd[c].started /\ s1.cmd[c].terminal = "none" /\ (s1.req.id # 0 => c # s1.req.cmd)
  BY <1>3, <1>6
<1> HIDE DEF s1
<1>8. LogInvariant(s2) /\ Lasting(s1, s2) /\ OnlyMessages(s1, s2)
  BY <1>5, <1>6, MessageKeeps, CancelledEffect
<1> HIDE DEF s2
<1>9. /\ s2 \in State /\ s2.req = s1.req /\ s2.cmd = s1.cmd
      /\ OpenRuns(s2) = OpenRuns(s1) /\ Spared(s1, s2, c)
  BY <1>8, SameSlotViews DEF OnlyMessages, SameOrders, SameSlot, Spared, ActiveCommands
<1>10. /\ s3 \in State /\ LogInvariant(s3) /\ Lasting(s2, s3) /\ OpenRuns(s3) = OpenRuns(s2)
       /\ Spared(s2, s3, c) /\ s3.req = s2.req /\ s3.cmd[c] = s2.cmd[c]
  <2>1. CASE ctl.msgs = {}
    BY <1>8, <1>9, <2>1, LastingIsReflexive, SparedIsReflexive
  <2>2. CASE ctl.msgs # {}
    <3>1. s3 = CommandTerminal(s2, m, "Cancelled") /\ ~s2.cmd[m].started /\ m # c
      BY <1>3, <1>5, <1>6, <1>9, <2>2
    <3>2. s2.cmd[m].terminal \in {"none", "Cancelled"}
      BY <1>5, <1>8, <3>1 DEF LogInvariant, Commands
    <3>3. s2.req.id # 0 /\ s2.req.work = "Recovery" => m # s2.req.cmd
      BY <1>8, <3>1 DEF LogInvariant, Reservable, ActiveCommands
    <3>4. /\ s3 \in State /\ LogInvariant(s3) /\ Lasting(s2, s3) /\ SameSlot(s2, s3)
          /\ Spared(s2, s3, m) /\ OpenRuns(s3) = OpenRuns(s2) /\ s3.cmd[c] = s2.cmd[c]
      BY <1>3, <1>5, <1>8, <1>9, <3>1, <3>2, <3>3, CommandEnds
    <3>5. m \notin ActiveCommands(s2)
      BY <3>1 DEF ActiveCommands
    <3> QED BY <3>4, <3>5 DEF Spared, SameSlot
  <2> QED BY <2>1, <2>2
<1> HIDE DEF s3
<1>11. /\ LogInvariant(s4) /\ Lasting(s3, s4) /\ Spared(s3, s4, c) /\ OpenRuns(s4) = OpenRuns(s3)
  BY <1>3, <1>7, <1>9, <1>10, CommandEnds
<1> HIDE DEF s4
<1>12. Lasting(st, s4)
  BY <1>6, <1>8, <1>10, <1>11, LastingIsTransitive
<1>13. exec.tag # "Idle" => Spared(st, s4, c)
  <2>1. exec.tag # "Idle" => st.req.id = 0
    BY SlotFacts
  <2>2. Spared(s1, s4, c)
    BY <1>9, <1>10, <1>11, SparedIsTransitive
  <2> QED BY <1>6, <2>1, <2>2
<1>14. Memory'
  BY <1>1, <1>6, <1>9, <1>10, <1>11, <1>13, ReadyPlace, FinishRests DEF c
<1> QED BY <1>1, <1>11, <1>12, <1>14 DEF Kept

-----------------------------------------------------------------------------
(* Stops and interruptions.                                                *)

\* A place that differs in where it is and in what was read.
LEMMA MovedPlace ==
  ASSUME TypeOK, NEW at, NEW msgs
  PROVE  /\ LET p == [ctl EXCEPT !.at = at] IN
            p.at = at /\ p.cmd = ctl.cmd /\ p.active = ctl.active /\ p.run = ctl.run
         /\ LET p == [ctl EXCEPT !.at = at, !.msgs = msgs] IN
            p.at = at /\ p.cmd = ctl.cmd /\ p.active = ctl.active /\ p.run = ctl.run
<1>1. ctl \in PlaceType(Positions)
  BY DEF TypeOK
<1> QED BY <1>1 DEF PlaceType

\* A stop that has started waits for the execution to be closed.
LEMMA AtStop ==
  ASSUME SlotInvariant, ctl.at \in {"stopRequest", "stopClose"}
  PROVE  /\ ctl.cmd \in ActiveCommands(st) /\ st.cmd[ctl.cmd].kind = "stop"
         /\ ctl.cmd \in Cmd /\ st.cmd[ctl.cmd].started /\ ctl.cmd # ctl.active
         /\ grant = NoGrant /\ exec.tag # "Idle" /\ ctl.run = exec.run /\ ctl.active = exec.cmd
         /\ Holds(st, exec.run, exec.cmd)
<1>1. Memory
  BY SlotFacts
<1>2. /\ ctl.cmd \in ActiveCommands(st) /\ st.cmd[ctl.cmd].kind = "stop"
      /\ exec.tag # "Idle" => ctl.cmd # exec.cmd
  BY <1>1 DEF Memory, TakenCommand, Taken
<1>3. exec.tag # "Idle" /\ ctl.run = exec.run /\ ctl.active = exec.cmd
  BY <1>1 DEF Memory, CtlHolds
<1>4. Holds(st, exec.run, exec.cmd)
  BY <1>1, <1>3 DEF Memory, ExecHolds
<1>5. grant = NoGrant
  BY SlotFacts DEF Ungated
<1> QED BY <1>2, <1>3, <1>4, <1>5 DEF ActiveCommands

LEMMA RequestStopKeeps == SlotInvariant /\ RequestStop => Kept
<1> SUFFICES ASSUME SlotInvariant, RequestStop PROVE Kept
  OBVIOUS
<1> DEFINE r == LastRunOf(st, ctl.active)
           t == IF r = 0 THEN 0 ELSE LastTurnOf(st, r)
           q == IF t = 0 THEN 0 ELSE r
<1>1. /\ ctl.at = "stopRequest" /\ st' = StopTurnRequested(st, ctl.cmd, q, t)
      /\ ctl' = [ctl EXCEPT !.at = "stopClose"] /\ exec' = exec /\ grant' = grant
  BY DEF RequestStop, Finish, Goto, UnchangedByControl
<1>2. st \in State /\ LogInvariant(st) /\ Memory /\ TypeOK
  BY SlotFacts DEF SlotInvariant
<1>3. q \in Run \cup {0} /\ t \in Turn \cup {0}
  BY <1>2, LastRunAndTurnTypes
<1> HIDE DEF q, t
<1>4. /\ ctl.cmd \in ActiveCommands(st) /\ st.cmd[ctl.cmd].kind = "stop"
      /\ ctl.cmd \in Cmd /\ st.cmd[ctl.cmd].started /\ ctl.cmd # ctl.active
      /\ grant = NoGrant /\ exec.tag # "Idle" /\ ctl.run = exec.run /\ ctl.active = exec.cmd
      /\ Holds(st, exec.run, exec.cmd)
  BY <1>1, AtStop
<1>5. /\ SameSlot(st, st') /\ st'.cmd = st.cmd /\ LogInvariant(st') /\ Lasting(st, st')
  BY <1>1, <1>2, <1>3, <1>4, StopRequestedKeeps
<1>6. ctl'.at = "stopClose" /\ ctl'.cmd = ctl.cmd /\ ctl'.active = ctl.active /\ ctl'.run = ctl.run
  BY <1>1, <1>2, MovedPlace DEF Place
<1>7. Spared(st, st', ctl.cmd)
  BY <1>5, SameSlotViews DEF Spared, SameSlot, ActiveCommands
<1>8. ExecHolds' /\ exec'.tag # "Idle"
  BY <1>1, <1>2, <1>4, <1>6, <1>7, HeldOver DEF Memory, Executing
<1>9. st'.req.id = 0
  BY <1>4, <1>5, <1>2 DEF Holds, LogInvariant, OneSlot, SameSlot
<1>10. CtlHolds' /\ GrantHolds' /\ SlotHeld'
  BY <1>1, <1>4, <1>6, <1>8 DEF CtlHolds, GrantHolds, SlotHeld, Closing
<1>11. TakenCommand' /\ TargetUnconsumed' /\ InputsResumed'
  BY <1>1, <1>4, <1>5, <1>6, <1>9
     DEF TakenCommand, TargetUnconsumed, InputsResumed, Taken, Awaited, ActiveCommands
<1> QED BY <1>5, <1>8, <1>10, <1>11 DEF Kept, Memory

LEMMA CloseStoppedTurnKeeps == SlotInvariant /\ CloseStoppedTurn => Kept
<1> SUFFICES ASSUME SlotInvariant, CloseStoppedTurn PROVE Kept
  OBVIOUS
<1>1. /\ ctl.at = "stopClose" /\ exec' = NoExec /\ st' = st /\ grant' = grant
      /\ ctl' = [ctl EXCEPT !.at = "interruption", !.msgs = MessagesToPause(st)]
  BY DEF CloseStoppedTurn, Goto, UnchangedByControl
<1>2. LogInvariant(st) /\ TypeOK
  BY SlotFacts DEF SlotInvariant
<1>3. /\ ctl'.at = "interruption" /\ ctl'.cmd = ctl.cmd /\ ctl'.active = ctl.active
      /\ ctl'.run = ctl.run
  BY <1>1, <1>2, MovedPlace DEF Place
<1>4. Memory'
  BY <1>1, <1>2, <1>3, AtStop, AtInterruption
<1> QED BY <1>1, <1>2, <1>4, LastingIsReflexive DEF Kept

LEMMA ApplyStopKeeps == SlotInvariant /\ ApplyStop => Kept
<1> SUFFICES ASSUME SlotInvariant, ApplyStop PROVE Kept
  OBVIOUS
<1> DEFINE s1 == StopTurnApplied(st, ctl.cmd)
<1>1. /\ ctl.at = "stopApply" /\ st' = CommandTerminal(s1, ctl.cmd, "Completed")
      /\ exec' = exec /\ grant' = grant /\ ctl' = Free("ready")
  BY DEF ApplyStop, Finish, Goto, UnchangedByControl
<1>2. st \in State /\ LogInvariant(st) /\ ctl.at \in Taken
  BY <1>1, SlotFacts DEF Taken
<1>3. /\ ctl.cmd \in Cmd /\ st.cmd[ctl.cmd].started /\ st.cmd[ctl.cmd].terminal = "none"
      /\ st.req.id # 0 => ctl.cmd # st.req.cmd
  BY <1>2, TakenEnds
<1>4. s1 \in State /\ SameSlot(st, s1) /\ s1.cmd = st.cmd /\ LogInvariant(s1) /\ Lasting(st, s1)
  BY <1>2, <1>3, StopAppliedKeeps
<1> HIDE DEF s1
<1>5. /\ LogInvariant(st') /\ Lasting(s1, st') /\ Spared(s1, st', ctl.cmd)
      /\ OpenRuns(st') = OpenRuns(s1)
  BY <1>1, <1>3, <1>4, CommandEnds DEF SameSlot
<1>6. OpenRuns(s1) = OpenRuns(st) /\ Spared(st, s1, ctl.cmd)
  BY <1>4, SameSlotViews DEF Spared, SameSlot, ActiveCommands
<1>7. Lasting(st, st') /\ Spared(st, st', ctl.cmd)
  BY <1>4, <1>5, <1>6, LastingIsTransitive, SparedIsTransitive
<1>8. Memory'
  BY <1>1, <1>2, <1>5, <1>6, <1>7, ReadyPlace, FinishRests
<1> QED BY <1>5, <1>7, <1>8 DEF Kept

\* Whoever holds the slot lets it go with its run, and ends its command.
LEMMA RunCloses ==
  ASSUME NEW s \in State, LogInvariant(s), NEW r, NEW a, Holds(s, r, a), TurnsClosed(s),
         NEW o \in {"Completed", "Failed"}, NEW out \in {"Completed", "Failed", "Cancelled"}
  PROVE  LET s1 == CommandTerminal(RunTerminal(s, r, o), a, out) IN
         /\ s1 \in State /\ LogInvariant(s1) /\ Lasting(s, s1)
         /\ OpenRuns(s1) = {} /\ s1.req.id = 0 /\ s1.msg = s.msg /\ s1.ncmd = s.ncmd
         /\ ActiveCommands(s) \ {a} \subseteq ActiveCommands(s1)
         /\ PendingCommands(s) \subseteq PendingCommands(s1)
         /\ \A d \in Cmd : s1.cmd[d].kind = s.cmd[d].kind
<1> DEFINE s0 == RunTerminal(s, r, o)
           s1 == CommandTerminal(s0, a, out)
<1>1. /\ r \in Run /\ OpenRuns(s) = {r} /\ OpenTurns(s) = {} /\ s.req.id = 0
      /\ a \in Cmd /\ s.cmd[a].started /\ s.cmd[a].terminal = "none"
  BY DEF Holds, TurnsClosed, OpenRuns, ActiveCommands, LogInvariant, OneSlot
<1>2. LogInvariant(s0) /\ Lasting(s, s0)
  BY <1>1, RunTerminalKeeps
<1>3. OnlySlot(s, s0) /\ s0.req = s.req /\ OpenRuns(s0) = {}
  BY <1>1, RunTerminalEffect
<1> HIDE DEF s0
<1>4. s0 \in State /\ s0.cmd = s.cmd /\ s0.msg = s.msg /\ s0.ncmd = s.ncmd
  BY <1>3 DEF OnlySlot, SameOrders
<1>5. /\ s1 \in State /\ LogInvariant(s1) /\ Lasting(s0, s1) /\ Spared(s0, s1, a)
      /\ SameSlot(s0, s1) /\ OpenRuns(s1) = OpenRuns(s0) /\ s1.msg = s0.msg /\ s1.ncmd = s0.ncmd
      /\ PendingCommands(s0) \ {a} \subseteq PendingCommands(s1)
      /\ \A d \in Cmd : s1.cmd[d].kind = s0.cmd[d].kind
  BY <1>1, <1>2, <1>3, <1>4, CommandEnds
<1> HIDE DEF s1
<1>6. ActiveCommands(s0) = ActiveCommands(s) /\ PendingCommands(s0) = PendingCommands(s)
  BY <1>4 DEF ActiveCommands, PendingCommands
<1>7. a \notin PendingCommands(s)
  BY <1>1 DEF PendingCommands
<1>8. Lasting(s, s1)
  BY <1>2, <1>5, LastingIsTransitive
<1> QED BY <1>1, <1>3, <1>4, <1>5, <1>6, <1>7, <1>8 DEF Spared, SameSlot, s1, s0

\* The last turn of the open run is the open turn, if there is one.
LEMMA LastTurnIsOpen ==
  ASSUME NEW s \in State, LogInvariant(s), NEW r, OpenRuns(s) = {r}, NEW t \in OpenTurns(s)
  PROVE  LastTurnOf(s, r) = t /\ s.turn[t].status = "open"
<1> DEFINE ts == {u \in 1 .. s.nturn : s.turn[u].run = r}
<1>1. t \in Turn /\ t = s.nturn /\ s.turn[t].run = r /\ s.turn[t].status = "open"
  BY DEF LogInvariant, OneSlot, OpenTurns
<1>2. s.nturn \in Nat /\ t \in Nat /\ t >= 1
  BY <1>1, StateFields DEF Turn
<1>3. ts \in SUBSET (0 .. s.nturn) /\ t \in ts
  BY <1>1, <1>2
<1> HIDE DEF ts
<1>4. Latest(ts) \in ts /\ t <= Latest(ts)
  BY <1>2, <1>3, LatestIsMember
<1>5. Latest(ts) = t
  <2>1. Latest(ts) \in 0 .. s.nturn
    BY <1>3, <1>4
  <2> QED BY <1>1, <1>2, <1>4, <2>1
<1>6. LastTurnOf(s, r) = Latest(ts)
  BY <1>3 DEF LastTurnOf, ts
<1> QED BY <1>1, <1>5, <1>6

LEMMA CommitInterruptionKeeps == SlotInvariant /\ CommitInterruption => Kept
<1> SUFFICES ASSUME SlotInvariant, CommitInterruption PROVE Kept
  OBVIOUS
<1> DEFINE c  == ctl.cmd
           t  == LastTurnOf(st, ctl.run)
           s1 == IF st.turn[t].status = "open" THEN TurnTerminal(st, t, "Failed", FALSE) ELSE st
           s2 == CommandTerminal(RunTerminal(s1, ctl.run, "Failed"), ctl.active, "Cancelled")
           s3 == PendingMessagesPaused(s2, ctl.msgs)
<1>1. /\ ctl.at = "interruption" /\ st' = s3 /\ exec' = exec /\ grant' = grant
      /\ ctl' = IF st.cmd[c].kind = "stop" THEN Place("stopApply", c, 0, 0, {})
                                           ELSE Place("start", c, 0, 0, {})
  BY DEF CommitInterruption, Finish, Goto, UnchangedByControl
<1>2. st \in State /\ LogInvariant(st) /\ Memory /\ exec = NoExec /\ grant = NoGrant
  BY <1>1, SlotFacts DEF Executing, Ungated
<1>3. Holds(st, ctl.run, ctl.active) /\ c # ctl.active /\ c \in Cmd
  BY <1>1, <1>2, CtlFields DEF Memory, CtlHolds, TakenCommand, Closing, Starting, SlotInvariant
<1>4. \/ st.cmd[c].kind = "stop" /\ c \in ActiveCommands(st)
      \/ st.cmd[c].kind = "interrupt" /\ c \in PendingCommands(st)
  BY <1>1, <1>2 DEF Memory, TakenCommand
<1> HIDE DEF c
<1>5. /\ s1 \in State /\ LogInvariant(s1) /\ Lasting(st, s1) /\ s1.cmd = st.cmd
      /\ s1.ncmd = st.ncmd /\ Holds(s1, ctl.run, ctl.active) /\ TurnsClosed(s1)
  <2>1. \A u \in OpenTurns(st) : t = u /\ st.turn[t].status = "open"
    BY <1>2, <1>3, LastTurnIsOpen DEF Holds
  <2>2. CASE st.turn[t].status = "open"
    <3>1. s1 = TurnTerminal(st, t, "Failed", FALSE)
      BY <2>2
    <3> HIDE DEF s1, t
    <3>2. ClosesTurn(st, s1, t) /\ LogInvariant(s1) /\ Lasting(st, s1)
      BY <1>2, <3>1, TurnTerminalEffect, TurnTerminalKeeps
    <3> QED BY <1>3, <2>1, <3>2
            DEF ClosesTurn, OnlySlot, SameOrders, Holds, ActiveCommands, TurnsClosed
  <2>3. CASE st.turn[t].status # "open"
    BY <1>2, <1>3, <2>1, <2>3, LastingIsReflexive DEF TurnsClosed
  <2> QED BY <2>2, <2>3
<1> HIDE DEF s1, t
<1>6. /\ s2 \in State /\ LogInvariant(s2) /\ Lasting(s1, s2)
      /\ OpenRuns(s2) = {} /\ s2.req.id = 0
      /\ ActiveCommands(s1) \ {ctl.active} \subseteq ActiveCommands(s2)
      /\ PendingCommands(s1) \subseteq PendingCommands(s2)
      /\ s2.cmd[c].kind = st.cmd[c].kind
  BY <1>3, <1>5, RunCloses
<1> HIDE DEF s2
<1>7. LogInvariant(s3) /\ Lasting(s2, s3) /\ OnlyMessages(s2, s3)
  BY <1>6, MessageKeeps, PausedEffect
<1> HIDE DEF s3
<1>8. /\ OpenRuns(s3) = {} /\ s3.req.id = 0 /\ s3.cmd[c].kind = st.cmd[c].kind
      /\ ActiveCommands(s3) = ActiveCommands(s2) /\ PendingCommands(s3) = PendingCommands(s2)
  BY <1>6, <1>7, SameSlotViews
     DEF OnlyMessages, SameOrders, SameSlot, ActiveCommands, PendingCommands
<1>9. ActiveCommands(s1) = ActiveCommands(st) /\ PendingCommands(s1) = PendingCommands(st)
  BY <1>5 DEF ActiveCommands, PendingCommands
<1>10. Lasting(st, s3)
  BY <1>5, <1>6, <1>7, LastingIsTransitive
<1>11. CASE st.cmd[c].kind = "stop"
  <2>1. c \in ActiveCommands(s3)
    BY <1>3, <1>4, <1>6, <1>8, <1>9, <1>11
  <2>2. ctl'.at = "stopApply" /\ ctl'.cmd = c
    BY <1>1, <1>11 DEF Place
  <2>3. ExecHolds' /\ CtlHolds' /\ GrantHolds' /\ SlotHeld'
    BY <1>1, <1>2, <1>8, <2>2, NoExecHolds DEF CtlHolds, GrantHolds, SlotHeld, Closing
  <2>4. TakenCommand' /\ TargetUnconsumed' /\ InputsResumed'
    BY <1>1, <1>2, <1>8, <1>11, <2>1, <2>2, <2>3
       DEF TakenCommand, TargetUnconsumed, InputsResumed, Awaited, NoExec
  <2> QED BY <1>1, <1>7, <1>10, <2>3, <2>4 DEF Kept, Memory
<1>12. CASE st.cmd[c].kind # "stop"
  <2>1. c \in PendingCommands(s3) /\ s3.cmd[c].kind = "interrupt"
    BY <1>4, <1>6, <1>8, <1>9, <1>12
  <2>2. c \notin PausedQueue(s3) /\ IsSubmit(s3, c)
    BY <1>7, <2>1 DEF LogInvariant, Messages, IsSubmit, Submits, PausedQueue, PendingMessages,
                      Unconsumed, PendingCommands
  <2>3. ctl' = Place("start", c, 0, 0, {}) /\ exec' = NoExec /\ grant' = NoGrant
    BY <1>1, <1>2, <1>12
  <2>4. Memory'
    BY <1>1, <1>8, <2>1, <2>2, <2>3, AtAwaited DEF Awaited
  <2> QED BY <1>1, <1>7, <1>10, <2>4 DEF Kept
<1> QED BY <1>11, <1>12

\* A reservation is given up, and its command with it.
LEMMA ReservationEnds ==
  ASSUME NEW s \in State, LogInvariant(s), s.req.id # 0, NEW msgs
  PROVE  LET s1 == CommandTerminal(PendingMessagesPaused(RunSchedulingClosed(s, s.req.id), msgs),
                                   s.req.cmd, "Cancelled")
         IN /\ s1 \in State /\ LogInvariant(s1) /\ Lasting(s, s1)
            /\ OpenRuns(s1) = {} /\ s1.req.id = 0
            /\ ActiveCommands(s) \ {s.req.cmd} \subseteq ActiveCommands(s1)
            /\ PendingCommands(s) \ {s.req.cmd} \subseteq PendingCommands(s1)
            /\ \A d \in Cmd : s1.cmd[d].kind = s.cmd[d].kind
<1> DEFINE r == s.req.cmd
           s0 == RunSchedulingClosed(s, s.req.id)
           s1 == PendingMessagesPaused(s0, msgs)
           s2 == CommandTerminal(s1, r, "Cancelled")
<1>1. /\ OnlyRequest(s, s0) /\ LogInvariant(s0) /\ Lasting(s, s0) /\ s0.req.id = 0
      /\ OpenRuns(s0) = OpenRuns(s)
  BY ClosedKeeps, OnlyRequestViews
<1> HIDE DEF s0
<1>2. OpenRuns(s) = {} /\ r \in Cmd /\ s.cmd[r].terminal \in {"none", "Cancelled"}
  <2>1. r \in Cmd /\ s.req.work \in {"Command", "Recovery"}
    BY RequestInputsType
  <2> QED BY <2>1 DEF LogInvariant, OneSlot, Reservable, Commands, ActiveCommands
<1>3. s0 \in State
  BY <1>1 DEF OnlyRequest
<1>4. OnlyMessages(s0, s1) /\ LogInvariant(s1) /\ Lasting(s0, s1) /\ OpenRuns(s1) = OpenRuns(s0)
  BY <1>1, <1>3, PausedEffect, MessageKeeps, SameSlotViews DEF OnlyMessages
<1> HIDE DEF s1
<1>5. s1 \in State /\ s1.req.id = 0 /\ s1.cmd = s.cmd /\ s1.ncmd = s.ncmd
  BY <1>1, <1>4 DEF OnlyMessages, OnlyRequest, SameOrders, SameSlot
<1>6. /\ s2 \in State /\ LogInvariant(s2) /\ Lasting(s1, s2) /\ Spared(s1, s2, r)
      /\ SameSlot(s1, s2) /\ OpenRuns(s2) = OpenRuns(s1)
      /\ PendingCommands(s1) \ {r} \subseteq PendingCommands(s2)
      /\ \A d \in Cmd : s2.cmd[d].kind = s1.cmd[d].kind
  BY <1>2, <1>4, <1>5, CommandEnds
<1> HIDE DEF s2
<1>7. ActiveCommands(s1) = ActiveCommands(s) /\ PendingCommands(s1) = PendingCommands(s)
  BY <1>5 DEF ActiveCommands, PendingCommands
<1>8. Lasting(s, s2)
  BY <1>1, <1>4, <1>6, LastingIsTransitive
<1> QED BY <1>1, <1>2, <1>4, <1>5, <1>6, <1>7, <1>8 DEF Spared, SameSlot, s2, s1, s0

LEMMA CloseWaitingRunKeeps == SlotInvariant /\ CloseWaitingRun => Kept
<1> SUFFICES ASSUME SlotInvariant, CloseWaitingRun PROVE Kept
  OBVIOUS
<1> DEFINE c == ctl.cmd
           released(s) == CommandTerminal(PendingMessagesPaused(RunSchedulingClosed(s, s.req.id),
                                                                ctl.msgs),
                                          s.req.cmd, "Cancelled")
           s1 == CommandStarted(st, c)
           s2 == released(s1)
<1>1. /\ ctl.at = "closeWaiting" /\ exec' = exec /\ grant' = grant
      /\ IF st.cmd[c].kind = "stop"
           THEN st' = CommandTerminal(s2, c, "Completed") /\ ctl' = Free("ready")
           ELSE st' = released(st) /\ ctl' = Place("start", c, 0, 0, {})
  BY DEF CloseWaitingRun, Finish, Goto, UnchangedByControl
<1>2. /\ st \in State /\ LogInvariant(st) /\ Memory /\ exec = NoExec /\ grant = NoGrant
      /\ c \in Cmd /\ c # 0
  BY <1>1, SlotFacts, CtlFields DEF Executing, Ungated, Starting, SlotInvariant
<1>3. c \in PendingCommands(st) /\ c \notin PausedQueue(st)
  BY <1>1, <1>2 DEF Memory, TakenCommand, Awaited
<1>4. st.req.id # 0 /\ st.cmd[c].kind \in {"stop", "interrupt"} /\ c # st.req.cmd
  BY <1>1, <1>2 DEF Memory, TakenCommand
<1> HIDE DEF c
<1>5. CASE st.cmd[c].kind = "stop"
  <2>1. /\ s1 \in State /\ LogInvariant(s1) /\ Lasting(st, s1) /\ c \in ActiveCommands(s1)
        /\ s1.req = st.req
    BY <1>2, <1>3, <1>4, CommandBegins DEF SameSlot
  <2> HIDE DEF s1
  <2>2. /\ s2 \in State /\ LogInvariant(s2) /\ Lasting(s1, s2) /\ OpenRuns(s2) = {}
        /\ s2.req.id = 0 /\ ActiveCommands(s1) \ {s1.req.cmd} \subseteq ActiveCommands(s2)
    BY <1>4, <2>1, ReservationEnds
  <2> HIDE DEF s2
  <2>3. s2.cmd[c].started /\ s2.cmd[c].terminal = "none"
    BY <1>4, <2>1, <2>2 DEF ActiveCommands
  <2>4. st' = CommandTerminal(s2, c, "Completed")
    BY <1>1, <1>5
  <2>5. LogInvariant(st') /\ Lasting(s2, st') /\ OpenRuns(st') = {}
    BY <1>2, <2>2, <2>3, <2>4, CommandEnds
  <2>6. Lasting(st, st')
    BY <2>1, <2>2, <2>5, LastingIsTransitive
  <2>7. Memory'
    BY <1>1, <1>2, <1>5, <2>5, NoExecHolds, AtRest DEF Ungated
  <2> QED BY <2>5, <2>6, <2>7 DEF Kept
<1>6. CASE st.cmd[c].kind # "stop"
  <2>1. st' = released(st) /\ ctl' = Place("start", c, 0, 0, {})
    BY <1>1, <1>6
  <2>2. /\ LogInvariant(st') /\ Lasting(st, st') /\ OpenRuns(st') = {} /\ st'.req.id = 0
        /\ PendingCommands(st) \ {st.req.cmd} \subseteq PendingCommands(st')
        /\ st'.cmd[c].kind = st.cmd[c].kind
    BY <1>2, <1>4, <2>1, ReservationEnds
  <2>3. c \in PendingCommands(st') /\ st'.cmd[c].kind = "interrupt"
    BY <1>3, <1>4, <1>6, <2>2
  <2>4. c \notin PausedQueue(st') /\ IsSubmit(st', c)
    BY <2>2, <2>3 DEF LogInvariant, Messages, IsSubmit, Submits, PausedQueue, PendingMessages,
                      Unconsumed, PendingCommands
  <2>5. Memory'
    BY <1>1, <1>2, <2>1, <2>2, <2>3, <2>4, AtAwaited DEF Awaited
  <2> QED BY <2>2, <2>5 DEF Kept
<1> QED BY <1>5, <1>6

-----------------------------------------------------------------------------
(* The end of a turn and of a run.                                         *)

LEMMA DecideBoundaryKeeps == SlotInvariant /\ DecideBoundary => Kept
<1> SUFFICES ASSUME SlotInvariant, DecideBoundary PROVE Kept
  OBVIOUS
<1>1. ctl.at = "boundary" /\ st' = st /\ exec' = exec /\ grant' = grant
  BY DEF DecideBoundary, UnchangedByControl
<1>2. /\ st \in State /\ LogInvariant(st) /\ Memory /\ TypeOK /\ grant = NoGrant
  BY <1>1, SlotFacts DEF Ungated, SlotInvariant
<1>3. /\ exec.tag = "Completed" /\ ctl.run = exec.run /\ ctl.active = exec.cmd
      /\ Holds(st, exec.run, exec.cmd) /\ exec.fiber \in {"ok", "failed"} /\ TurnsClosed(st)
      /\ exec.tag # "Idle"
  BY <1>1, <1>2 DEF Memory, CtlHolds, ExecHolds
<1>4. ctl'.at \in Executing => ExecHolds'
  BY <1>1, <1>2, <1>3 DEF Memory, ExecHolds
<1>5. \/ ctl' = Place("failRun", 0, ctl.active, ctl.run, MessagesToResume(st))
      \/ ctl' = Place("turn", ctl.active, ctl.active, ctl.run, PendingSteers(st))
      \/ ctl' = Place("turn", ctl.active, ctl.active, ctl.run, {})
      \/ ctl' = [ctl EXCEPT !.at = "complete"]
  <2>1. Continuation(st, exec.turn) \in {"steering", "feedback", "complete"}
    BY DEF Continuation
  <2> QED BY <2>1 DEF DecideBoundary, Goto, TurnPlace
<1>6. CASE ctl' = Place("failRun", 0, ctl.active, ctl.run, MessagesToResume(st))
  <2>1. ctl'.at = "failRun"
    BY <1>6 DEF Place
  <2> QED BY <1>1, <1>2, <1>3, <1>4, <1>6, <2>1, AtFailure, LastingIsReflexive DEF Kept, Executing
<1>7. ASSUME NEW msgs \in {PendingSteers(st), {}},
             ctl' = Place("turn", ctl.active, ctl.active, ctl.run, msgs)
      PROVE  Kept
  <2>1. ctl'.at = "turn"
    BY <1>7 DEF Place
  <2>2. Resumed(st, ctl.run, msgs)
    BY <1>2, <1>7, PlannedAreUnpaused DEF Resumed
  <2>3. Memory'
    BY <1>1, <1>2, <1>3, <1>4, <1>7, <2>1, <2>2, AtTurn DEF Executing
  <2> QED BY <1>1, <1>2, <2>3, LastingIsReflexive DEF Kept
<1>8. CASE ctl' = [ctl EXCEPT !.at = "complete"]
  <2>1. ctl'.at = "complete" /\ ctl'.run = ctl.run /\ ctl'.active = ctl.active
    BY <1>2, <1>8, MovedPlace
  <2>2. Memory'
    BY <1>1, <1>2, <1>3, <1>4, <2>1, AtBoundary DEF Executing
  <2> QED BY <1>1, <1>2, <2>2, LastingIsReflexive DEF Kept
<1> QED BY <1>5, <1>6, <1>7, <1>8

LEMMA CompleteRunKeeps == SlotInvariant /\ CompleteRun => Kept
<1> SUFFICES ASSUME SlotInvariant, CompleteRun PROVE Kept
  OBVIOUS
<1>1. /\ ctl.at = "complete" /\ grant' = grant /\ exec' = NoExec /\ ctl' = Free("ready")
      /\ st' = CommandTerminal(RunTerminal(st, ctl.run, "Completed"), ctl.active, "Completed")
  BY DEF CompleteRun, Finish, Goto, UnchangedByControl
<1>2. st \in State /\ LogInvariant(st) /\ Memory /\ grant = NoGrant
  BY <1>1, SlotFacts DEF Ungated
<1>3. exec.tag = "Completed" /\ ctl.run = exec.run /\ ctl.active = exec.cmd
  BY <1>1, <1>2 DEF Memory, CtlHolds, ExecHolds
<1>4. Holds(st, ctl.run, ctl.active) /\ TurnsClosed(st)
  BY <1>2, <1>3 DEF Memory, ExecHolds
<1>5. LogInvariant(st') /\ Lasting(st, st') /\ OpenRuns(st') = {}
  BY <1>1, <1>2, <1>4, RunCloses
<1>6. Memory'
  BY <1>1, <1>2, <1>5, NoExecHolds, AtRest DEF Ungated
<1> QED BY <1>5, <1>6 DEF Kept

LEMMA CloseFailedRunKeeps == SlotInvariant /\ CloseFailedRun => Kept
<1> SUFFICES ASSUME SlotInvariant, CloseFailedRun PROVE Kept
  OBVIOUS
<1> DEFINE outcome == IF ctl.at = "failRun" THEN "Failed" ELSE "Cancelled"
           s1 == CommandTerminal(RunTerminal(st, ctl.run, "Failed"), ctl.active, outcome)
           s2 == IF ctl.msgs = {} THEN s1 ELSE CommandAdmitted(s1, "resume", ctl.msgs)
<1>1. /\ ctl.at \in {"failRun", "cancelRun"} /\ st.ncmd < MaxCmd
      /\ grant' = grant /\ exec' = NoExec /\ ctl' = Free("ready") /\ st' = s2
  BY DEF CloseFailedRun, Finish, Goto, UnchangedByControl
<1>2. st \in State /\ LogInvariant(st) /\ Memory /\ grant = NoGrant /\ ctl.msgs \in SUBSET Cmd
  BY <1>1, SlotFacts, CtlFields DEF Ungated, SlotInvariant
<1>3. Holds(st, ctl.run, ctl.active) /\ TurnsClosed(st)
  BY <1>1, <1>2 DEF Memory, CtlHolds, Closing
<1>4. outcome \in {"Failed", "Cancelled"}
  OBVIOUS
<1> HIDE DEF outcome
<1>5. /\ s1 \in State /\ LogInvariant(s1) /\ Lasting(st, s1) /\ OpenRuns(s1) = {}
      /\ s1.ncmd = st.ncmd
  BY <1>2, <1>3, <1>4, RunCloses
<1> HIDE DEF s1
<1>6. LogInvariant(s2) /\ Lasting(s1, s2) /\ OpenRuns(s2) = {}
  <2>1. CASE ctl.msgs = {}
    BY <1>5, <2>1, LastingIsReflexive
  <2>2. CASE ctl.msgs # {}
    <3>1. s2 = CommandAdmitted(s1, "resume", ctl.msgs) /\ "resume" \in Kinds
      BY <2>2 DEF Kinds
    <3>2. LogInvariant(s2) /\ Lasting(s1, s2) /\ Admits(s1, s2, "resume", ctl.msgs)
      BY <1>1, <1>2, <1>5, <3>1, AdmittedKeeps, AdmittedEffect
    <3> QED BY <1>5, <3>2, SameSlotViews DEF Admits
  <2> QED BY <2>1, <2>2
<1> HIDE DEF s2
<1>7. Lasting(st, s2)
  BY <1>5, <1>6, LastingIsTransitive
<1>8. Memory'
  BY <1>1, <1>2, <1>6, NoExecHolds, AtRest DEF Ungated
<1> QED BY <1>1, <1>6, <1>7, <1>8 DEF Kept

LEMMA WaitingKeeps == SlotInvariant /\ (Park \/ WakeOnSignal \/ WakeOnExit) => Kept
<1> SUFFICES ASSUME SlotInvariant, Park \/ WakeOnSignal \/ WakeOnExit PROVE Kept
  OBVIOUS
<1>1. LogInvariant(st) /\ Memory /\ exec \in ExecType
  BY SlotFacts DEF SlotInvariant, TypeOK
<1>2. /\ ctl.at \in Ungated /\ st' = st /\ exec' = exec /\ grant' = grant
      /\ \E at \in Ungated : ctl' = Free(at)
  <2>1. exec.tag \in {"Idle", "Running", "Completed"}
    BY <1>1 DEF ExecType
  <2> QED BY <2>1 DEF Park, WakeOnSignal, WakeOnExit, Goto, UnchangedByControl, Ungated
<1>3. ctl'.at \in Ungated /\ ctl'.cmd = 0
  BY <1>2 DEF Free, Place
<1>4. /\ ctl'.at \in Executing /\ ctl'.at \notin Closing \cup Taken \cup Awaited
      /\ ctl'.at \notin {"turn", "failRun", "boundary", "complete", "stopRequest", "stopClose",
                         "interruption", "cancel", "promote", "startResume"}
      /\ ctl.at \notin Closing \cup {"boot", "hydrated", "dead"}
  BY <1>2, <1>3 DEF Ungated, Executing, Closing, Taken, Awaited
<1>5. ExecHolds'
  BY <1>1, <1>2, <1>4 DEF Memory, ExecHolds
<1>6. CtlHolds' /\ GrantHolds' /\ SlotHeld'
  BY <1>1, <1>2, <1>3, <1>4 DEF Memory, CtlHolds, GrantHolds, SlotHeld, Closing
<1>7. TakenCommand' /\ TargetUnconsumed' /\ InputsResumed'
  BY <1>1, <1>2, <1>3, <1>4 DEF Memory, TakenCommand, TargetUnconsumed, InputsResumed, Closing,
     Taken, Awaited
<1> QED BY <1>1, <1>2, <1>5, <1>6, <1>7, LastingIsReflexive DEF Kept, Memory

-----------------------------------------------------------------------------
(* The turn fiber.                                                         *)

\* While the fiber runs, nothing that was read depends on its turn being open.
LEMMA FiberHolds ==
  ASSUME SlotInvariant, FiberStep, exec'.tag = exec.tag, exec'.run = exec.run,
         exec'.cmd = exec.cmd, exec'.turn = exec.turn, UNCHANGED <<ctl, grant>>,
         st' = st \/ ClosesTurn(st, st', exec.turn),
         exec'.fiber \in {"ok", "failed", "defect"} => TurnsClosed(st')
  PROVE  Memory'
<1>1. LogInvariant(st) /\ Memory /\ exec.tag = "Running" /\ ctl' = ctl /\ grant' = grant
  BY SlotFacts DEF FiberStep
<1>2. /\ Holds(st, exec.run, exec.cmd) /\ exec.turn = st.nturn /\ ctl.at \in Executing
      /\ ctl.at \notin {"turn", "failRun", "boundary", "complete"}
      /\ grant = NoGrant
  BY <1>1 DEF Memory, ExecHolds, GrantHolds
<1>3. /\ ctl.at \notin Closing \cup Awaited
      /\ ctl.at \notin {"interruption", "recovered", "startResume"}
  BY <1>2 DEF Executing, Closing, Awaited, Ungated
<1>4. /\ st'.cmd = st.cmd /\ st'.msg = st.msg /\ st'.req = st.req /\ st'.nturn = st.nturn
      /\ Holds(st', exec.run, exec.cmd)
  BY <1>2 DEF ClosesTurn, OnlySlot, SameOrders, Holds, ActiveCommands
<1>5. ExecHolds'
  BY <1>1, <1>2, <1>4 DEF ExecHolds
<1>6. CtlHolds' /\ GrantHolds' /\ SlotHeld'
  BY <1>1, <1>2, <1>3 DEF Memory, CtlHolds, GrantHolds, SlotHeld, Closing
<1>7. TakenCommand'
  BY <1>1, <1>3, <1>4 DEF Memory, TakenCommand, ActiveCommands, Awaited
<1>8. TargetUnconsumed' /\ InputsResumed'
  BY <1>1, <1>2, <1>3, <1>4 DEF Memory, TargetUnconsumed, InputsResumed
<1> QED BY <1>5, <1>6, <1>7, <1>8 DEF Memory

LEMMA FiberKeeps == SlotInvariant /\ (TurnFiber \/ TurnSurprise) => Kept
<1> SUFFICES ASSUME SlotInvariant, TurnFiber \/ TurnSurprise PROVE Kept
  OBVIOUS
<1>1. st \in State /\ LogInvariant(st) /\ Memory /\ exec \in ExecType
  BY SlotFacts DEF SlotInvariant, TypeOK
<1>2. FiberStep /\ ctl' = ctl /\ grant' = grant
  BY DEF TurnFiber, TurnSurprise, TurnCompletes, TurnFails, TurnExits, TurnInterrupted,
         UnchangedByFiber
<1>3. /\ exec.turn = st.nturn
      /\ exec.fiber \in {"ok", "failed", "defect"} => TurnsClosed(st)
  BY <1>1, <1>2 DEF Memory, ExecHolds, FiberStep
<1>4. CASE \E o \in {"Completed", "Failed"}, f \in BOOLEAN, x \in {"ok", "failed", "defect"} :
             /\ st' = TurnTerminal(st, exec.turn, o, f)
             /\ exec' = [exec EXCEPT !.fiber = x]
  <2>1. /\ LogInvariant(st') /\ Lasting(st, st') /\ ClosesTurn(st, st', exec.turn)
    BY <1>1, <1>4, TurnTerminalKeeps, TurnTerminalEffect
  <2>2. TurnsClosed(st')
    BY <1>1, <1>3, <2>1 DEF ClosesTurn, TurnsClosed, LogInvariant, OneSlot
  <2>3. /\ exec'.tag = exec.tag /\ exec'.run = exec.run /\ exec'.cmd = exec.cmd
        /\ exec'.turn = exec.turn
    BY <1>1, <1>4 DEF ExecType
  <2>4. Memory'
    BY <1>2, <2>1, <2>2, <2>3, FiberHolds
  <2> QED BY <2>1, <2>4 DEF Kept
<1>5. CASE st' = st /\ \/ exec' = [exec EXCEPT !.exited = TRUE]
                       \/ exec' = [exec EXCEPT !.fiber = "interrupted", !.exited = TRUE]
  <2>1. /\ exec'.tag = exec.tag /\ exec'.run = exec.run /\ exec'.cmd = exec.cmd
        /\ exec'.turn = exec.turn /\ exec'.fiber \in {exec.fiber, "interrupted"}
    BY <1>1, <1>5 DEF ExecType
  <2>2. exec'.fiber \in {"ok", "failed", "defect"} => TurnsClosed(st')
    BY <1>3, <1>5, <2>1
  <2>3. Memory'
    BY <1>2, <1>5, <2>1, <2>2, FiberHolds
  <2> QED BY <1>1, <1>5, <2>3, LastingIsReflexive DEF Kept
<1> QED BY <1>4, <1>5
        DEF TurnFiber, TurnSurprise, TurnCompletes, TurnFails, TurnExits, TurnInterrupted

-----------------------------------------------------------------------------
(* Signals, deliveries and crashes.                                        *)

LEMMA StandsStill ==
  ASSUME SlotInvariant, UNCHANGED <<st, exec, ctl, grant>>
  PROVE  Kept
<1>1. Undisturbed(st, st')
  BY DEF Undisturbed
<1>2. Harmless(st, st')
  BY <1>1, SlotFacts, LastingIsReflexive DEF Harmless
<1> QED BY <1>2, HarmlessStep

LEMMA DeliveryKeeps ==
  SlotInvariant /\ (BeginDelivery \/ OfferRun \/ EndDelivery \/ DeliveryFails \/ OfferSignal) => Kept
<1> SUFFICES ASSUME SlotInvariant,
                    BeginDelivery \/ OfferRun \/ EndDelivery \/ DeliveryFails \/ OfferSignal
             PROVE  Kept
  OBVIOUS
<1>1. exec' = exec /\ ctl' = ctl /\ grant' = grant
  BY DEF BeginDelivery, OfferRun, EndDelivery, DeliveryFails, OfferSignal, UnchangedByScheduling
<1>2. CASE st' = st
  BY <1>1, <1>2, StandsStill
<1>3. CASE EndDelivery
  <2>1. /\ st' = RunSchedulingDelivered(st, delivery) /\ delivery \in Nat \ {0}
        /\ st \in State /\ LogInvariant(st)
    BY <1>3, SlotFacts DEF EndDelivery, SlotInvariant, TypeOK
  <2>2. /\ OnlyRequest(st, st') /\ LogInvariant(st') /\ Lasting(st, st')
        /\ st'.req.id = st.req.id /\ st'.req.cmd = st.req.cmd
    BY <2>1, DeliveredKeeps
  <2>3. /\ ActiveCommands(st') = ActiveCommands(st) /\ PendingCommands(st') = PendingCommands(st)
        /\ PausedQueue(st') = PausedQueue(st)
    BY <2>2 DEF OnlyRequest, SameOrders, ActiveCommands, PendingCommands, PausedQueue,
                PendingMessages, Unconsumed
  <2>4. Undisturbed(st, st')
    BY <2>2, <2>3, OnlyRequestViews DEF Undisturbed, OnlyRequest, SameOrders
  <2>5. Harmless(st, st')
    BY <2>2, <2>4 DEF Harmless, OnlyRequest
  <2> QED BY <1>1, <2>5, HarmlessStep
<1> QED BY <1>2, <1>3 DEF BeginDelivery, OfferRun, DeliveryFails, OfferSignal

LEMMA CrashKeeps == SlotInvariant /\ Crash => Kept
<1> SUFFICES ASSUME SlotInvariant, Crash PROVE Kept
  OBVIOUS
<1>1. st' = st /\ exec' = NoExec /\ ctl' = Free("boot") /\ grant' = NoGrant
  BY DEF Crash
<1>2. ctl'.at = "boot" /\ ctl'.cmd = 0
  BY <1>1 DEF Free, Place
<1>3. ExecHolds' /\ CtlHolds' /\ GrantHolds' /\ SlotHeld'
  BY <1>1, <1>2, NoExecHolds DEF CtlHolds, GrantHolds, SlotHeld, Closing
<1>4. TakenCommand' /\ TargetUnconsumed' /\ InputsResumed'
  BY <1>1, <1>2 DEF TakenCommand, TargetUnconsumed, InputsResumed, Closing, Taken, Awaited
<1> QED BY <1>1, <1>3, <1>4, SlotFacts, LastingIsReflexive DEF Kept, Memory

-----------------------------------------------------------------------------
(* Grants.                                                                 *)

\* Releasing a reservation touches nothing that starting its command does.
LEMMA ReleaseCommutes ==
  ASSUME NEW s \in State, NEW c \in Cmd, NEW id, s.req.id = id
  PROVE  /\ RunSchedulingClosed(CommandStarted(s, c), id)
              = CommandStarted(RunSchedulingClosed(s, id), c)
         /\ RunSchedulingClosed(UserMessageCommitted(s, c), id)
              = UserMessageCommitted(RunSchedulingClosed(s, id), c)
<1>1. CommandStarted(s, c).req = s.req /\ UserMessageCommitted(s, c).req = s.req
  BY DEF CommandStarted, UserMessageCommitted, UserMessageSubmitted, State
<1>2. RunSchedulingClosed(s, id) = [s EXCEPT !.req = NoRequest]
  BY DEF RunSchedulingClosed
<1>3. RunSchedulingClosed(CommandStarted(s, c), id) = [CommandStarted(s, c) EXCEPT !.req = NoRequest]
  BY <1>1 DEF RunSchedulingClosed
<1>4. RunSchedulingClosed(UserMessageCommitted(s, c), id)
        = [UserMessageCommitted(s, c) EXCEPT !.req = NoRequest]
  BY <1>1 DEF RunSchedulingClosed
<1>5. [CommandStarted(s, c) EXCEPT !.req = NoRequest]
        = CommandStarted([s EXCEPT !.req = NoRequest], c)
  BY DEF CommandStarted, State
<1>6. [UserMessageCommitted(s, c) EXCEPT !.req = NoRequest]
        = UserMessageCommitted([s EXCEPT !.req = NoRequest], c)
  BY DEF UserMessageCommitted, UserMessageSubmitted, State
<1> QED BY <1>2, <1>3, <1>4, <1>5, <1>6

\* The reservation is released, and its command is active with its message known.
LEMMA GrantedBegins ==
  ASSUME NEW s \in State, LogInvariant(s), NEW id, CanGrant(s, id)
  PROVE  LET c      == s.req.cmd
             late   == s.req.work = "Command" /\ LateMessage(s, c)
             s1     == IF s.req.work = "Command" THEN CommandStarted(s, c) ELSE s
             s2     == IF late THEN UserMessageCommitted(s1, c) ELSE s1
             s3     == RunSchedulingClosed(s2, id)
         IN /\ s3 \in State /\ LogInvariant(s3) /\ Lasting(s, s3)
            /\ c \in Cmd /\ c \in ActiveCommands(s3) /\ OpenRuns(s3) = {} /\ s3.req.id = 0
            /\ s3.nrun = s.nrun /\ \A m \in Cmd : s3.msg[m].paused = s.msg[m].paused
<1> DEFINE c    == s.req.cmd
           late == s.req.work = "Command" /\ LateMessage(s, c)
           s1   == IF s.req.work = "Command" THEN CommandStarted(s, c) ELSE s
           s2   == IF late THEN UserMessageCommitted(s1, c) ELSE s1
           s3   == RunSchedulingClosed(s2, id)
           t0   == RunSchedulingClosed(s, id)
           t1   == CommandStarted(t0, c)
           t2   == IF late THEN UserMessageCommitted(t1, c) ELSE t1
<1>1. /\ id # 0 /\ s.req.id = id /\ c \in Cmd /\ c \in 1 .. s.ncmd /\ OpenRuns(s) = {}
      /\ s.cmd[c].terminal = "none" /\ s.req.work \in {"Command", "Recovery"}
      /\ s.req.work = "Command" => ~s.cmd[c].started
      /\ s.req.work = "Recovery" => s.cmd[c].started
  BY RequestInputsType DEF CanGrant, IsCurrent, LogInvariant, Reservable
<1>2. /\ OnlyRequest(s, t0) /\ LogInvariant(t0) /\ Lasting(s, t0) /\ t0.req.id = 0
      /\ OpenRuns(t0) = {}
  BY <1>1, ClosedKeeps, OnlyRequestViews
<1>3. CASE s.req.work = "Recovery"
  <2>1. s3 = t0
    BY <1>3
  <2> HIDE DEF s3, t0
  <2> QED BY <1>1, <1>2, <1>3, <2>1 DEF OnlyRequest, SameOrders, ActiveCommands, c, s1, s2, s3, late
<1>4. CASE s.req.work = "Command"
  <2> HIDE DEF t0
  <2>1. t0 \in State /\ c \in PendingCommands(t0) /\ t0.msg = s.msg /\ t0.cmd = s.cmd
    BY <1>1, <1>2, <1>4 DEF OnlyRequest, SameOrders, PendingCommands
  <2>2. /\ t1 \in State /\ LogInvariant(t1) /\ Lasting(t0, t1) /\ c \in ActiveCommands(t1)
        /\ SameSlot(t0, t1) /\ OpenRuns(t1) = OpenRuns(t0) /\ t1.msg = t0.msg
        /\ t1.cmd[c].kind = t0.cmd[c].kind
    BY <1>2, <2>1, CommandBegins
  <2> HIDE DEF t1
  <2>3. /\ t2 \in State /\ LogInvariant(t2) /\ Lasting(t1, t2) /\ c \in ActiveCommands(t2)
        /\ SameSlot(t1, t2) /\ OpenRuns(t2) = OpenRuns(t1)
        /\ \A m \in Cmd : t2.msg[m].paused = t1.msg[m].paused
    <3>1. CASE ~late
      <4>1. t2 = t1
        BY <3>1
      <4> QED BY <2>2, <4>1, LastingIsReflexive DEF SameSlot
    <3>2. CASE late
      <4>1. t2 = UserMessageSubmitted(t1, c, "unset")
        BY <3>2 DEF UserMessageCommitted
      <4>2. ~t1.msg[c].known /\ t1.cmd[c].started /\ IsSubmit(t1, c)
        BY <2>1, <2>2, <3>2 DEF IsSubmit, ActiveCommands, LateMessage
      <4> HIDE DEF t2, c, late
      <4>3. LogInvariant(t2) /\ Lasting(t1, t2)
        BY <1>1, <2>2, <4>1, <4>2, SubmittedKeeps
      <4>4. t1.msg[c].consumed = 0
        BY <1>1, <2>2, <4>2 DEF LogInvariant, Messages
      <4>5. t1 \in State /\ c \in Cmd
        BY <1>1, <2>2
      <4>6. OnlyMessages(t1, t2) /\ \A m \in Cmd : t2.msg[m].paused = t1.msg[m].paused
        BY <4>1, <4>4, <4>5, SubmittedEffect
      <4> QED BY <2>2, <4>3, <4>6, SameSlotViews DEF OnlyMessages, SameOrders, ActiveCommands
    <3> QED BY <3>1, <3>2
  <2>4. s3 = t2
    <3>1. s1 = CommandStarted(s, c) /\ t1 = RunSchedulingClosed(s1, id)
      BY <1>1, <1>4, ReleaseCommutes DEF t1, t0
    <3>2. s1 \in State /\ s1.req.id = id
      BY <1>1, <3>1, StartedEffect DEF Starts, SameSlot
    <3> HIDE DEF s1
    <3>3. RunSchedulingClosed(UserMessageCommitted(s1, c), id) = UserMessageCommitted(t1, c)
      BY <1>1, <3>1, <3>2, ReleaseCommutes
    <3> QED BY <3>1, <3>3
  <2> HIDE DEF s3, t2, c, late
  <2>5. Lasting(s, t2)
    BY <1>2, <2>2, <2>3, LastingIsTransitive
  <2>6. t2.req.id = 0 /\ t2.nrun = s.nrun /\ OpenRuns(t2) = {}
    BY <1>2, <2>2, <2>3 DEF OnlyRequest, SameSlot
  <2>7. \A m \in Cmd : t2.msg[m].paused = s.msg[m].paused
    BY <2>1, <2>2, <2>3
  <2> HIDE DEF t1, t0
  <2>8. /\ s3 \in State /\ LogInvariant(s3) /\ Lasting(s, s3)
        /\ c \in Cmd /\ c \in ActiveCommands(s3) /\ OpenRuns(s3) = {} /\ s3.req.id = 0
        /\ s3.nrun = s.nrun /\ \A m \in Cmd : s3.msg[m].paused = s.msg[m].paused
    BY <1>1, <2>3, <2>4, <2>5, <2>6, <2>7
  <2> QED BY <2>8 DEF c, s1, s2, s3, late
<1> QED BY <1>1, <1>3, <1>4

\* A granted run holds the slot from its first append on, and is given no paused message.
LEMMA GrantKeeps ==
  ASSUME SlotInvariant, NEW id, Grant(id)
  PROVE  Kept
<1> DEFINE c      == st.req.cmd
           late   == st.req.work = "Command" /\ LateMessage(st, c)
           inputs == RequestInputs(st) \cup (IF late THEN {c} ELSE {})
           of     == IF st.req.work = "Recovery" THEN st.run[st.req.run].of
                     ELSE {c} \cup (IF st.cmd[c].kind = "resume" THEN inputs ELSE {})
           s1     == IF st.req.work = "Command" THEN CommandStarted(st, c) ELSE st
           s2     == IF late THEN UserMessageCommitted(s1, c) ELSE s1
           s3     == RunSchedulingClosed(s2, id)
           n      == st.nrun + 1
<1>1. /\ ctl.at \in Ungated /\ grant = NoGrant /\ CanGrant(st, id) /\ st.nrun < MaxRun
      /\ st' = RunStarted(s3, of) /\ grant' = Place("turn", c, c, n, inputs)
      /\ exec' = exec /\ ctl' = ctl
  BY DEF Grant, GateFree, TurnPlace, UnchangedByScheduling
<1>2. st \in State /\ LogInvariant(st) /\ OpenRuns(st) = {} /\ st.req.id # 0
  BY <1>1, SlotFacts DEF CanGrant, IsCurrent
<1>3. /\ s3 \in State /\ LogInvariant(s3) /\ Lasting(st, s3)
      /\ c \in Cmd /\ c \in ActiveCommands(s3) /\ OpenRuns(s3) = {} /\ s3.req.id = 0
      /\ s3.nrun = st.nrun /\ \A m \in Cmd : s3.msg[m].paused = st.msg[m].paused
  BY <1>1, <1>2, GrantedBegins
<1>4. inputs \in SUBSET Cmd /\ \A m \in inputs : ~st.msg[m].paused
  <2>1. RequestInputs(st) \in SUBSET Cmd /\ \A m \in RequestInputs(st) : ~st.msg[m].paused
    BY <1>2, RequestInputsType DEF RequestInputs
  <2>2. late => ~st.msg[c].paused
    BY <1>2, <1>3 DEF LateMessage, LogInvariant, Messages
  <2> HIDE DEF c, late
  <2> QED BY <1>3, <2>1, <2>2
<1>5. of \in SUBSET Cmd /\ c \in of
  <2>1. CASE st.req.work = "Recovery"
    <3>1. c \in st.run[st.req.run].of /\ st.req.run \in Run
      BY <1>1, <1>2, <2>1, RequestInputsType DEF CanGrant
    <3>2. st.run[st.req.run].of \in SUBSET Cmd
      BY <1>2, <3>1, StateFields DEF RunRecord
    <3> QED BY <2>1, <3>1, <3>2
  <2>2. CASE st.req.work # "Recovery"
    <3> HIDE DEF inputs, c
    <3> QED BY <1>3, <1>4, <2>2
  <2> QED BY <2>1, <2>2
<1> HIDE DEF s3, of, inputs, c, late
<1>6. /\ LogInvariant(st') /\ Lasting(s3, st') /\ Holds(st', n, c) /\ TurnsClosed(st')
      /\ st'.msg = s3.msg /\ st'.req.id = 0
  BY <1>1, <1>3, <1>5, RunOpens
<1>7. Lasting(st, st')
  BY <1>3, <1>6, LastingIsTransitive
<1>8. exec' = NoExec /\ exec'.tag = "Idle" /\ ExecHolds'
  BY <1>1, <1>2, SlotFacts, NoExecHolds
<1>9. /\ grant'.at = "turn" /\ grant'.cmd = c /\ grant'.run = n /\ grant'.msgs = inputs
      /\ grant' # NoGrant
  BY <1>1 DEF Place, NoGrant, Free
<1>10. /\ ctl.at \notin Closing \cup Taken \cup Awaited
       /\ ctl.at \notin {"stopRequest", "stopClose", "boundary", "complete", "interruption",
                         "cancel", "promote", "startResume"}
  BY <1>1 DEF Ungated, Closing, Taken, Awaited
<1>11. CtlHolds' /\ GrantHolds' /\ SlotHeld'
  BY <1>1, <1>6, <1>8, <1>9, <1>10 DEF CtlHolds, GrantHolds, SlotHeld, Closing
<1>12. Resumed(st', n, inputs)
  BY <1>3, <1>4, <1>6 DEF Resumed, PausedQueue
<1>13. TakenCommand' /\ TargetUnconsumed' /\ InputsResumed'
  BY <1>1, <1>6, <1>9, <1>10, <1>12
     DEF TakenCommand, TargetUnconsumed, InputsResumed, Closing, Taken, Awaited
<1> QED BY <1>6, <1>7, <1>8, <1>11, <1>13 DEF Kept, Memory

-----------------------------------------------------------------------------
(* Only the start of a turn consumes a message.                            *)

\* What every fold but TurnStarted does to the messages; it composes over the folds of a step.
ConsumesNothing(s, s1) ==
  s1 \in State /\ \A m \in Cmd : s1.msg[m].consumed = s.msg[m].consumed

LEMMA ConsumesNothingIsTransitive ==
  ASSUME NEW s, NEW s1, NEW s2, ConsumesNothing(s, s1), ConsumesNothing(s1, s2)
  PROVE  ConsumesNothing(s, s2)
BY DEF ConsumesNothing

LEMMA OrdersConsumeNothing ==
  ASSUME NEW s \in State
  PROVE  /\ \A c : ConsumesNothing(s, CommandStarted(s, c))
         /\ \A c : \A o \in {"Completed", "Failed", "Cancelled"} :
              ConsumesNothing(s, CommandTerminal(s, c, o))
         /\ s.ncmd < MaxCmd => \A k \in Kinds, ts \in SUBSET Cmd :
              ConsumesNothing(s, CommandAdmitted(s, k, ts))
<1>1. ASSUME NEW c PROVE ConsumesNothing(s, CommandStarted(s, c))
  <2>1. CommandStarted(s, c).msg = s.msg
    BY DEF CommandStarted, State
  <2> QED BY <2>1, CommandStartedType DEF ConsumesNothing
<1>2. ASSUME NEW c, NEW o \in {"Completed", "Failed", "Cancelled"}
      PROVE  ConsumesNothing(s, CommandTerminal(s, c, o))
  <2>1. CommandTerminal(s, c, o).msg = s.msg
    BY DEF CommandTerminal, State
  <2> QED BY <2>1, CommandTerminalType DEF ConsumesNothing
<1>3. ASSUME s.ncmd < MaxCmd, NEW k \in Kinds, NEW ts \in SUBSET Cmd
      PROVE  ConsumesNothing(s, CommandAdmitted(s, k, ts))
  BY <1>3, AdmittedEffect DEF Admits, ConsumesNothing
<1> QED BY <1>1, <1>2, <1>3

LEMMA MessagesConsumeNothing ==
  ASSUME NEW s \in State
  PROVE  /\ \A m : \A d \in {"unset", "queue", "steer"} :
              ConsumesNothing(s, UserMessageSubmitted(s, m, d))
         /\ \A m : ConsumesNothing(s, UserMessagePromoted(s, m))
         /\ \A m : ConsumesNothing(s, UserMessageCancelled(s, m))
         /\ \A ms : ConsumesNothing(s, PendingMessagesPaused(s, ms))
         /\ ConsumesNothing(s, PausedQueueCleared(s))
<1>1. s.msg \in [Cmd -> Message] /\ \A m \in Cmd : s.msg[m] \in Message
  BY StateFields
<1>2. ASSUME NEW m, NEW d \in {"unset", "queue", "steer"}
      PROVE  ConsumesNothing(s, UserMessageSubmitted(s, m, d))
  <2> DEFINE rec == [s.msg[m] EXCEPT !.known = TRUE, !.disposition = d, !.at = s.clock + 1]
  <2>1. UserMessageSubmitted(s, m, d).msg = [s.msg EXCEPT ![m] = rec]
    BY DEF UserMessageSubmitted, State
  <2>2. m \in Cmd => rec.consumed = s.msg[m].consumed
    BY <1>1 DEF Message
  <2> HIDE DEF rec
  <2> QED BY <1>1, <2>1, <2>2, UserMessageSubmittedType DEF ConsumesNothing
<1>3. ASSUME NEW m PROVE ConsumesNothing(s, UserMessagePromoted(s, m))
  <2> DEFINE rec == [s.msg[m] EXCEPT !.disposition = "steer", !.paused = FALSE, !.at = s.clock + 1]
  <2>1. UserMessagePromoted(s, m).msg \in {[s.msg EXCEPT ![m] = rec], s.msg}
    BY DEF UserMessagePromoted, State
  <2>2. m \in Cmd => rec.consumed = s.msg[m].consumed
    BY <1>1 DEF Message
  <2> HIDE DEF rec
  <2> QED BY <1>1, <2>1, <2>2, UserMessagePromotedType DEF ConsumesNothing
<1>4. ASSUME NEW m PROVE ConsumesNothing(s, UserMessageCancelled(s, m))
  <2> DEFINE rec == [s.msg[m] EXCEPT !.cancelled = TRUE]
  <2>1. UserMessageCancelled(s, m).msg \in {[s.msg EXCEPT ![m] = rec], s.msg}
    BY DEF UserMessageCancelled, State
  <2>2. m \in Cmd => rec.consumed = s.msg[m].consumed
    BY <1>1 DEF Message
  <2> HIDE DEF rec
  <2> QED BY <1>1, <2>1, <2>2, UserMessageCancelledType DEF ConsumesNothing
<1>5. ASSUME NEW ms PROVE ConsumesNothing(s, PendingMessagesPaused(s, ms))
  BY PausedEffect DEF OnlyMessages, ConsumesNothing
<1>6. ConsumesNothing(s, PausedQueueCleared(s))
  BY PausedQueueClearedEffect DEF ClearsPaused, ConsumesNothing
<1> QED BY <1>2, <1>3, <1>4, <1>5, <1>6

LEMMA RunsConsumeNothing ==
  ASSUME NEW s \in State
  PROVE  /\ s.nrun < MaxRun => \A of \in SUBSET Cmd : ConsumesNothing(s, RunStarted(s, of))
         /\ \A r : \A o \in {"Completed", "Failed"} : ConsumesNothing(s, RunTerminal(s, r, o))
         /\ \A t : \A o \in {"Completed", "Failed"}, f \in BOOLEAN :
              ConsumesNothing(s, TurnTerminal(s, t, o, f))
         /\ \A id : ConsumesNothing(s, RunSchedulingClosed(s, id))
<1>1. ASSUME s.nrun < MaxRun, NEW of \in SUBSET Cmd PROVE ConsumesNothing(s, RunStarted(s, of))
  BY <1>1, RunStartedEffect DEF OnlySlot, ConsumesNothing
<1>2. ASSUME NEW r, NEW o \in {"Completed", "Failed"} PROVE ConsumesNothing(s, RunTerminal(s, r, o))
  <2>1. RunTerminal(s, r, o).msg = s.msg
    BY DEF RunTerminal, State
  <2> QED BY <2>1, RunTerminalType DEF ConsumesNothing
<1>3. ASSUME NEW t, NEW o \in {"Completed", "Failed"}, NEW f \in BOOLEAN
      PROVE  ConsumesNothing(s, TurnTerminal(s, t, o, f))
  <2>1. ClosesTurn(s, TurnTerminal(s, t, o, f), t)
    BY TurnTerminalEffect
  <2> QED BY <2>1 DEF ClosesTurn, OnlySlot, ConsumesNothing
<1>4. ASSUME NEW id PROVE ConsumesNothing(s, RunSchedulingClosed(s, id))
  <2>1. RunSchedulingClosed(s, id).msg = s.msg
    BY DEF RunSchedulingClosed, State
  <2> QED BY <2>1, RunSchedulingClosedType DEF ConsumesNothing
<1> QED BY <1>1, <1>2, <1>3, <1>4

\* A step that consumes no message.
NoneConsumed == \A m \in Cmd : st'.msg[m].consumed = st.msg[m].consumed

LEMMA AdmissionConsumesNothing == SlotInvariant /\ Admission => NoneConsumed
<1> SUFFICES ASSUME SlotInvariant, Admission PROVE NoneConsumed
  OBVIOUS
<1>1. \E s1 : Admit(s1)
  BY DEF Admission, AdmitSubmit, AdmitControl, AdmitTargeted, AdmitStopAndResume
<1>2. Harmless(st, st') => NoneConsumed
  BY DEF Harmless, Undisturbed, NoneConsumed
<1>3. /\ st \in State /\ LogInvariant(st) /\ st.ncmd \in Nat /\ MaxCmd \in Nat
      /\ st.ncmd < MaxCmd - 1 /\ st.ncmd < MaxCmd
  BY <1>1, SlotFacts, StateFields, BoundsAssumption DEF Admit
<1>4. CASE AdmitSubmit
  <2> PICK d \in {"queue", "steer"}, clear \in BOOLEAN : Admit(SubmitAdmitted(st, d, clear))
    BY <1>4 DEF AdmitSubmit
  <2>1. Harmless(st, SubmitAdmitted(st, d, clear))
    BY <1>3, SubmitIsHarmless
  <2> QED BY <1>2, <2>1 DEF Admit
<1>5. CASE AdmitControl
  <2> PICK k \in {"interrupt", "stop"} : Admit(CommandAdmitted(st, k, {}))
    BY <1>5 DEF AdmitControl
  <2>1. k \in Kinds /\ {} \in SUBSET Cmd
    BY DEF Kinds, Submits
  <2>2. ConsumesNothing(st, CommandAdmitted(st, k, {}))
    BY <1>3, <2>1, OrdersConsumeNothing
  <2> QED BY <2>2 DEF Admit, ConsumesNothing, NoneConsumed
<1>6. CASE AdmitTargeted
  <2> PICK k \in {"cancel", "promote"}, m \in Cmd : Admit(CommandAdmitted(st, k, {m}))
    BY <1>6 DEF AdmitTargeted, KnownMessages
  <2>1. k \in Kinds /\ {m} \in SUBSET Cmd
    BY DEF Kinds
  <2>2. ConsumesNothing(st, CommandAdmitted(st, k, {m}))
    BY <1>3, <2>1, OrdersConsumeNothing
  <2> QED BY <2>2 DEF Admit, ConsumesNothing, NoneConsumed
<1>7. CASE AdmitStopAndResume
  <2> DEFINE s1 == CommandAdmitted(st, "stop", {})
  <2> PICK m \in PendingSteers(st) : Admit(CommandAdmitted(s1, "resume", {m}))
    BY <1>7 DEF AdmitStopAndResume
  <2>1. "stop" \in Kinds /\ "resume" \in Kinds /\ {m} \in SUBSET Cmd /\ {} \in SUBSET Cmd
    BY <1>3, QueueTypes DEF Kinds
  <2>2. ConsumesNothing(st, s1)
    BY <1>3, <2>1, OrdersConsumeNothing
  <2>3. s1.ncmd = st.ncmd + 1
    BY <1>3, <2>1, AdmittedEffect DEF Admits
  <2> HIDE DEF s1
  <2>4. s1.ncmd < MaxCmd /\ s1 \in State
    BY <1>3, <2>2, <2>3 DEF ConsumesNothing
  <2>5. ConsumesNothing(s1, CommandAdmitted(s1, "resume", {m}))
    BY <2>1, <2>4, OrdersConsumeNothing
  <2> QED BY <2>2, <2>5 DEF Admit, ConsumesNothing, NoneConsumed
<1> QED BY <1>4, <1>5, <1>6, <1>7 DEF Admission

LEMMA RecoverConsumesNothing == SlotInvariant /\ Recover => NoneConsumed
<1> SUFFICES ASSUME SlotInvariant, Recover PROVE NoneConsumed
  OBVIOUS
<1> DEFINE s0 == ClosedByRecovery(st)
           s1 == PendingMessagesPaused(s0, RecoveryPauses(st))
           s2 == IF RecoveryResumes(st) = {} THEN s1
                 ELSE CommandAdmitted(s1, "resume", RecoveryResumes(st))
<1>1. st' = RecoveryBatch(st, Deferred) /\ st.ncmd < MaxCmd
  BY DEF Recover
<1>2. st \in State /\ LogInvariant(st)
  BY SlotFacts
<1>3. s2 \in State
  BY <1>1, <1>2, RecoveryRepairs
<1>4. s0 \in State /\ s0.msg = st.msg /\ s0.ncmd = st.ncmd
  BY <1>2, ClosedByRecoveryEffect DEF ClosesSlot
<1>5. \/ st' = s2
      \/ \E c, r, ms : st' = RunSchedulingRequested(s2, "Recovery", c, r, ms)
      \/ \E of : st' = RunStarted(s2, of)
  BY <1>1 DEF RecoveryBatch
<1> HIDE DEF s0
<1>6. ConsumesNothing(s0, s1) /\ s1.ncmd = s0.ncmd
  BY <1>4, MessagesConsumeNothing, PausedEffect DEF OnlyMessages, SameOrders
<1> HIDE DEF s1
<1>7. ConsumesNothing(s1, s2)
  <2>1. s1 \in State /\ s1.ncmd < MaxCmd
    BY <1>1, <1>4, <1>6 DEF ConsumesNothing
  <2>2. RecoveryResumes(st) \in SUBSET Cmd /\ "resume" \in Kinds
    BY <1>2, QueueTypes DEF RecoveryResumes, Kinds
  <2> QED BY <2>1, <2>2, OrdersConsumeNothing DEF ConsumesNothing
<1> HIDE DEF s2
<1>8. st'.msg = s2.msg
  BY <1>3, <1>5 DEF RunSchedulingRequested, RunStarted, State
<1> QED BY <1>4, <1>6, <1>7, <1>8 DEF ConsumesNothing, NoneConsumed

LEMMA StartConsumesNothing == SlotInvariant /\ (StartSubmit \/ StartResume \/ Defer) => NoneConsumed
<1> SUFFICES ASSUME SlotInvariant, StartSubmit \/ StartResume \/ Defer PROVE NoneConsumed
  OBVIOUS
<1> DEFINE s1 == CommandStarted(st, ctl.cmd)
           s2 == IF st.msg[ctl.cmd].known THEN s1 ELSE UserMessageCommitted(s1, ctl.cmd)
<1>1. st \in State
  BY SlotFacts
<1>2. \/ \E of : st' = RunStarted(s2, of)
      \/ \E of : st' = RunStarted(s1, of)
      \/ st' = RunSchedulingRequested(st, "Command", ctl.cmd, 0, {})
  BY DEF StartSubmit, StartResume, Defer
<1>3. ConsumesNothing(st, s1)
  BY <1>1, OrdersConsumeNothing
<1> HIDE DEF s1
<1>4. ConsumesNothing(s1, s2)
  <2>1. ConsumesNothing(s1, UserMessageCommitted(s1, ctl.cmd))
    BY <1>3, MessagesConsumeNothing DEF ConsumesNothing, UserMessageCommitted
  <2> QED BY <1>3, <2>1 DEF ConsumesNothing
<1> HIDE DEF s2
<1>5. st'.msg \in {s2.msg, s1.msg, st.msg}
  BY <1>1, <1>2, <1>3, <1>4 DEF RunSchedulingRequested, RunStarted, State, ConsumesNothing
<1> QED BY <1>3, <1>4, <1>5 DEF ConsumesNothing, NoneConsumed

Deciding ==
  \/ Hydrate \/ ResumeRecovered \/ SetWakeup
  \/ DrainDefect \/ DrainInterrupted \/ DrainCancel \/ DrainPromote \/ DrainStop
  \/ DrainSteer \/ DrainInterrupt \/ DrainNothing \/ DrainWaiting
  \/ DrainInactiveStop \/ DrainStart \/ CloseStoppedTurn \/ DecideBoundary
  \/ Park \/ WakeOnSignal \/ WakeOnExit

LEMMA DecisionConsumesNothing == SlotInvariant /\ Deciding => NoneConsumed
<1> SUFFICES ASSUME SlotInvariant, Deciding PROVE NoneConsumed
  OBVIOUS
<1>1. st \in State
  BY SlotFacts
<1>2. \/ st' = st
      \/ \E c : st' = CommandStarted(st, c)
      \/ st' = TurnTerminal(st, exec.turn, "Failed", FALSE)
  <2>1. CASE DrainCancel \/ DrainPromote \/ DrainStop \/ DrainSteer \/ DrainInactiveStop
    BY <2>1 DEF DrainCancel, DrainPromote, DrainStop, DrainSteer, DrainInactiveStop, Begin
  <2>2. CASE DrainInterrupted
    BY <2>2 DEF DrainInterrupted
  <2>3. CASE DrainStart
    BY <2>3 DEF DrainStart
  <2>4. CASE DrainDefect \/ DrainInterrupt \/ DrainNothing \/ DrainWaiting
    BY <2>4 DEF DrainDefect, DrainInterrupt, DrainNothing, DrainWaiting
  <2>5. CASE Hydrate \/ ResumeRecovered \/ SetWakeup \/ CloseStoppedTurn \/ DecideBoundary
    BY <2>5 DEF Hydrate, ResumeRecovered, SetWakeup, CloseStoppedTurn, DecideBoundary
  <2>6. CASE Park \/ WakeOnSignal \/ WakeOnExit
    BY <2>6 DEF Park, WakeOnSignal, WakeOnExit
  <2> QED BY <2>1, <2>2, <2>3, <2>4, <2>5, <2>6 DEF Deciding
<1>3. CASE \E c : st' = CommandStarted(st, c)
  BY <1>1, <1>3, OrdersConsumeNothing DEF ConsumesNothing, NoneConsumed
<1>4. CASE st' = TurnTerminal(st, exec.turn, "Failed", FALSE)
  <2>1. ConsumesNothing(st, TurnTerminal(st, exec.turn, "Failed", FALSE))
    BY <1>1, RunsConsumeNothing
  <2> QED BY <1>4, <2>1 DEF ConsumesNothing, NoneConsumed
<1> QED BY <1>2, <1>3, <1>4 DEF NoneConsumed

LEMMA ControlCommitConsumesNothing ==
  SlotInvariant /\ (CompleteSteer \/ FailControl \/ CancelInactiveStop \/ CommitCancel
                    \/ CommitPromote \/ RequestStop \/ ApplyStop) => NoneConsumed
<1>1. ASSUME SlotInvariant PROVE st \in State /\ LogInvariant(st) /\ ctl.msgs \in SUBSET Cmd
  BY <1>1, SlotFacts, CtlFields DEF SlotInvariant
<1>2. ASSUME SlotInvariant, CompleteSteer \/ FailControl \/ CancelInactiveStop PROVE NoneConsumed
  <2>1. \E o \in {"Completed", "Failed", "Cancelled"} : st' = CommandTerminal(st, ctl.cmd, o)
    BY <1>2 DEF CompleteSteer, FailControl, CancelInactiveStop, Finish
  <2> QED BY <1>1, <1>2, <2>1, OrdersConsumeNothing DEF ConsumesNothing, NoneConsumed
<1>3. ASSUME SlotInvariant, CommitCancel PROVE NoneConsumed
  <2> DEFINE m  == Target(ctl.cmd)
             s1 == ReservationWithout(st, m)
             s2 == UserMessageCancelled(s1, m)
             s3 == IF ctl.msgs = {} THEN s2 ELSE CommandTerminal(s2, m, "Cancelled")
  <2>1. st' = CommandTerminal(s3, ctl.cmd, "Completed")
    BY <1>3 DEF CommitCancel, Finish
  <2> HIDE DEF m
  <2>2. ConsumesNothing(st, s1)
    BY <1>1, <1>3, ReservationWithoutKeeps DEF ConsumesNothing
  <2> HIDE DEF s1
  <2>3. ConsumesNothing(s1, s2)
    BY <2>2, MessagesConsumeNothing DEF ConsumesNothing
  <2> HIDE DEF s2
  <2>4. ConsumesNothing(s2, s3)
    BY <2>3, OrdersConsumeNothing DEF ConsumesNothing
  <2> HIDE DEF s3
  <2>5. ConsumesNothing(s3, st')
    BY <2>1, <2>4, OrdersConsumeNothing DEF ConsumesNothing
  <2> QED BY <2>2, <2>3, <2>4, <2>5 DEF ConsumesNothing, NoneConsumed
<1>4. ASSUME SlotInvariant, CommitPromote PROVE NoneConsumed
  <2> DEFINE s1 == UserMessagePromoted(st, Target(ctl.cmd))
             s2 == IF ctl.msgs = {} THEN s1 ELSE CommandAdmitted(s1, "resume", ctl.msgs)
  <2>1. st' = CommandTerminal(s2, ctl.cmd, "Completed") /\ st.ncmd < MaxCmd
    BY <1>4 DEF CommitPromote, Finish
  <2>2. ConsumesNothing(st, s1)
    BY <1>1, <1>4, MessagesConsumeNothing
  <2>3. s1.ncmd = st.ncmd
    BY <1>1, <1>4 DEF UserMessagePromoted, State
  <2> HIDE DEF s1
  <2>4. ConsumesNothing(s1, s2)
    <3>1. s1 \in State /\ s1.ncmd < MaxCmd /\ "resume" \in Kinds
      BY <2>1, <2>2, <2>3 DEF ConsumesNothing, Kinds
    <3> QED BY <1>1, <1>4, <3>1, OrdersConsumeNothing DEF ConsumesNothing
  <2> HIDE DEF s2
  <2>5. ConsumesNothing(s2, st')
    BY <2>1, <2>4, OrdersConsumeNothing DEF ConsumesNothing
  <2> QED BY <2>2, <2>4, <2>5 DEF ConsumesNothing, NoneConsumed
<1>5. ASSUME SlotInvariant, RequestStop PROVE NoneConsumed
  <2>1. \E r, t : st' = StopTurnRequested(st, ctl.cmd, r, t)
    BY <1>5 DEF RequestStop, Finish
  <2>2. st'.msg = st.msg
    BY <1>1, <1>5, <2>1 DEF StopTurnRequested, State
  <2> QED BY <2>2 DEF NoneConsumed
<1>6. ASSUME SlotInvariant, ApplyStop PROVE NoneConsumed
  <2> DEFINE s1 == StopTurnApplied(st, ctl.cmd)
  <2>1. st' = CommandTerminal(s1, ctl.cmd, "Completed")
    BY <1>6 DEF ApplyStop, Finish
  <2>2. s1 \in State /\ s1.msg = st.msg
    BY <1>1, <1>6, StopTurnAppliedType DEF StopTurnApplied, State
  <2> HIDE DEF s1
  <2>3. ConsumesNothing(s1, st')
    BY <2>1, <2>2, OrdersConsumeNothing
  <2> QED BY <2>2, <2>3 DEF ConsumesNothing, NoneConsumed
<1> QED BY <1>2, <1>3, <1>4, <1>5, <1>6

LEMMA RunCommitConsumesNothing ==
  SlotInvariant /\ (CommitInterruption \/ CloseWaitingRun \/ CompleteRun \/ CloseFailedRun)
    => NoneConsumed
<1>1. ASSUME SlotInvariant PROVE st \in State /\ ctl.msgs \in SUBSET Cmd
  BY <1>1, SlotFacts, CtlFields DEF SlotInvariant
<1>2. ASSUME NEW s \in State, NEW r, NEW c, NEW o \in {"Completed", "Failed"},
             NEW out \in {"Completed", "Failed", "Cancelled"}
      PROVE  ConsumesNothing(s, CommandTerminal(RunTerminal(s, r, o), c, out))
  <2> DEFINE s1 == RunTerminal(s, r, o)
  <2>1. ConsumesNothing(s, s1)
    BY RunsConsumeNothing
  <2> HIDE DEF s1
  <2>2. ConsumesNothing(s1, CommandTerminal(s1, c, out))
    BY <2>1, OrdersConsumeNothing DEF ConsumesNothing
  <2> QED BY <2>1, <2>2, ConsumesNothingIsTransitive DEF s1
<1>3. ASSUME SlotInvariant, CommitInterruption PROVE NoneConsumed
  <2> DEFINE t  == LastTurnOf(st, ctl.run)
             s1 == IF st.turn[t].status = "open" THEN TurnTerminal(st, t, "Failed", FALSE) ELSE st
             s2 == CommandTerminal(RunTerminal(s1, ctl.run, "Failed"), ctl.active, "Cancelled")
  <2>1. st' = PendingMessagesPaused(s2, ctl.msgs)
    BY <1>3 DEF CommitInterruption, Finish
  <2> HIDE DEF t
  <2>2. ConsumesNothing(st, s1)
    <3>1. ConsumesNothing(st, TurnTerminal(st, t, "Failed", FALSE))
      BY <1>1, <1>3, RunsConsumeNothing
    <3> QED BY <1>1, <1>3, <3>1 DEF ConsumesNothing
  <2> HIDE DEF s1
  <2>3. s1 \in State
    BY <2>2 DEF ConsumesNothing
  <2>4. ConsumesNothing(s1, s2)
    BY <1>2, <2>3
  <2> HIDE DEF s2
  <2>5. s2 \in State
    BY <2>4 DEF ConsumesNothing
  <2>6. ConsumesNothing(s2, st')
    BY <2>1, <2>5, MessagesConsumeNothing
  <2> QED BY <2>2, <2>4, <2>6 DEF ConsumesNothing, NoneConsumed
<1>4. ASSUME SlotInvariant, CloseWaitingRun PROVE NoneConsumed
  <2> DEFINE released(s) == CommandTerminal(PendingMessagesPaused(RunSchedulingClosed(s, s.req.id),
                                                                  ctl.msgs),
                                            s.req.cmd, "Cancelled")
             s1 == CommandStarted(st, ctl.cmd)
  <2>1. \/ st' = CommandTerminal(released(s1), ctl.cmd, "Completed")
        \/ st' = released(st)
    BY <1>4 DEF CloseWaitingRun, Finish
  <2>2. ASSUME NEW s \in State PROVE ConsumesNothing(s, released(s))
    <3> DEFINE q1 == RunSchedulingClosed(s, s.req.id)
               q2 == PendingMessagesPaused(q1, ctl.msgs)
    <3>1. ConsumesNothing(s, q1)
      BY RunsConsumeNothing
    <3> HIDE DEF q1
    <3>2. ConsumesNothing(q1, q2)
      BY <3>1, MessagesConsumeNothing DEF ConsumesNothing
    <3> HIDE DEF q2
    <3>3. ConsumesNothing(q2, CommandTerminal(q2, s.req.cmd, "Cancelled"))
      BY <3>2, OrdersConsumeNothing DEF ConsumesNothing
    <3>4. ConsumesNothing(s, CommandTerminal(q2, s.req.cmd, "Cancelled"))
      BY <3>1, <3>2, <3>3 DEF ConsumesNothing
    <3> QED BY <3>4 DEF q1, q2
  <2>3. ConsumesNothing(st, s1)
    BY <1>1, <1>4, OrdersConsumeNothing
  <2> HIDE DEF s1
  <2>4. ConsumesNothing(s1, released(s1)) /\ ConsumesNothing(st, released(st))
    BY <1>1, <1>4, <2>2, <2>3 DEF ConsumesNothing
  <2> HIDE DEF released
  <2>5. ConsumesNothing(released(s1), CommandTerminal(released(s1), ctl.cmd, "Completed"))
    BY <2>4, OrdersConsumeNothing DEF ConsumesNothing
  <2> QED BY <2>1, <2>3, <2>4, <2>5 DEF ConsumesNothing, NoneConsumed
<1>5. ASSUME SlotInvariant, CompleteRun PROVE NoneConsumed
  <2>1. ConsumesNothing(st, st')
    BY <1>1, <1>2, <1>5 DEF CompleteRun, Finish
  <2> QED BY <2>1 DEF ConsumesNothing, NoneConsumed
<1>6. ASSUME SlotInvariant, CloseFailedRun PROVE NoneConsumed
  <2> DEFINE outcome == IF ctl.at = "failRun" THEN "Failed" ELSE "Cancelled"
             r1 == RunTerminal(st, ctl.run, "Failed")
             s1 == CommandTerminal(r1, ctl.active, outcome)
             s2 == IF ctl.msgs = {} THEN s1 ELSE CommandAdmitted(s1, "resume", ctl.msgs)
  <2>1. st' = s2 /\ st.ncmd < MaxCmd
    BY <1>6 DEF CloseFailedRun, Finish
  <2>2. outcome \in {"Completed", "Failed", "Cancelled"}
    OBVIOUS
  <2> HIDE DEF outcome
  <2>3. ConsumesNothing(st, s1)
    BY <1>1, <1>2, <1>6, <2>2
  <2>4. s1.ncmd = st.ncmd
    <3>1. r1 \in State /\ r1.ncmd = st.ncmd
      BY <1>1, <1>6, RunTerminalType DEF RunTerminal, State
    <3> HIDE DEF r1
    <3> QED BY <3>1 DEF CommandTerminal, State
  <2> HIDE DEF s1
  <2>5. ConsumesNothing(s1, s2)
    <3>1. s1 \in State /\ s1.ncmd < MaxCmd /\ "resume" \in Kinds
      BY <2>1, <2>3, <2>4 DEF ConsumesNothing, Kinds
    <3> QED BY <1>1, <1>6, <3>1, OrdersConsumeNothing DEF ConsumesNothing
  <2> QED BY <2>1, <2>3, <2>5 DEF ConsumesNothing, NoneConsumed
<1> QED BY <1>3, <1>4, <1>5, <1>6

LEMMA GrantConsumesNothing ==
  ASSUME SlotInvariant, NEW id, Grant(id)
  PROVE  NoneConsumed
<1> DEFINE c    == st.req.cmd
           late == st.req.work = "Command" /\ LateMessage(st, c)
           s1   == IF st.req.work = "Command" THEN CommandStarted(st, c) ELSE st
           s2   == IF late THEN UserMessageCommitted(s1, c) ELSE s1
           s3   == RunSchedulingClosed(s2, id)
<1>1. st \in State /\ \E of : st' = RunStarted(s3, of)
  BY SlotFacts DEF Grant
<1> HIDE DEF late
<1>2. ConsumesNothing(st, s1)
  BY <1>1, OrdersConsumeNothing DEF ConsumesNothing
<1> HIDE DEF s1
<1>3. ConsumesNothing(s1, s2)
  <2>1. s1 \in State
    BY <1>2 DEF ConsumesNothing
  <2> HIDE DEF c
  <2>2. ConsumesNothing(s1, UserMessageSubmitted(s1, c, "unset"))
    BY <2>1, MessagesConsumeNothing
  <2> QED BY <2>1, <2>2 DEF ConsumesNothing, UserMessageCommitted
<1> HIDE DEF s2
<1>4. ConsumesNothing(s2, s3)
  BY <1>3, RunsConsumeNothing DEF ConsumesNothing
<1> HIDE DEF s3
<1>5. st'.msg = s3.msg
  BY <1>1, <1>4 DEF ConsumesNothing, RunStarted, State
<1> QED BY <1>2, <1>3, <1>4, <1>5 DEF ConsumesNothing, NoneConsumed

LEMMA OthersConsumeNothing ==
  SlotInvariant /\ (TurnFiber \/ TurnSurprise \/ BeginDelivery \/ OfferRun \/ EndDelivery
                    \/ DeliveryFails \/ OfferSignal \/ Crash \/ UNCHANGED vars) => NoneConsumed
<1>1. ASSUME SlotInvariant PROVE st \in State
  BY <1>1, SlotFacts
<1>2. ASSUME SlotInvariant, TurnFiber \/ TurnSurprise PROVE NoneConsumed
  <2>1. \/ st' = st
        \/ \E o \in {"Completed", "Failed"}, f \in BOOLEAN : st' = TurnTerminal(st, exec.turn, o, f)
    BY <1>2 DEF TurnFiber, TurnSurprise, TurnCompletes, TurnFails, TurnExits, TurnInterrupted
  <2>2. CASE st' = st
    BY <2>2 DEF NoneConsumed
  <2>3. ASSUME NEW o \in {"Completed", "Failed"}, NEW f \in BOOLEAN,
               st' = TurnTerminal(st, exec.turn, o, f)
        PROVE  NoneConsumed
    <3>1. ConsumesNothing(st, TurnTerminal(st, exec.turn, o, f))
      BY <1>1, <1>2, RunsConsumeNothing
    <3> QED BY <2>3, <3>1 DEF ConsumesNothing, NoneConsumed
  <2> QED BY <2>1, <2>2, <2>3
<1>3. ASSUME SlotInvariant, EndDelivery PROVE NoneConsumed
  <2>1. st'.msg = st.msg
    BY <1>1, <1>3 DEF EndDelivery, RunSchedulingDelivered, State
  <2> QED BY <2>1 DEF NoneConsumed
<1>4. ASSUME BeginDelivery \/ OfferRun \/ DeliveryFails \/ OfferSignal \/ Crash \/ UNCHANGED vars
      PROVE  NoneConsumed
  BY <1>4 DEF BeginDelivery, OfferRun, DeliveryFails, OfferSignal, Crash, vars, NoneConsumed
<1> QED BY <1>2, <1>3, <1>4

LEMMA OnlyTurnsConsume ==
  ASSUME SlotInvariant, [Next]_vars
  PROVE  NoneConsumed \/ StartTurn \/ StartGrantedTurn
<1>1. CASE Control
  BY <1>1, RecoverConsumesNothing, StartConsumesNothing, DecisionConsumesNothing,
     ControlCommitConsumesNothing, RunCommitConsumesNothing
  DEF Control, Deciding
<1>2. CASE \E id \in offered : Grant(id)
  BY <1>2, GrantConsumesNothing
<1>3. CASE Admission
  BY <1>3, AdmissionConsumesNothing
<1>4. CASE Scheduling
  BY <1>4, OthersConsumeNothing DEF Scheduling
<1> QED BY <1>1, <1>2, <1>3, <1>4, OthersConsumeNothing DEF Next

\* The inputs of the turn that starts were resumed, if they were paused.
LEMMA StartedIsResumed ==
  ASSUME SlotInvariant, StartTurn \/ StartGrantedTurn, NEW m \in Cmd, st.msg[m].paused,
         Unconsumed(st, m), st'.msg[m].consumed # st.msg[m].consumed
  PROVE  \E c \in st'.run[st'.turn[st'.nturn].run].of :
           st'.cmd[c].kind = "resume" /\ m \in st'.cmd[c].targets
<1>1. st \in State /\ LogInvariant(st) /\ Memory
  BY SlotFacts
<1>2. PICK r, msgs : /\ st.nturn < MaxTurn /\ st' = TurnStarted(st, r, msgs)
                     /\ OpenRuns(st) = {r} /\ Resumed(st, r, msgs)
  <2>1. CASE StartTurn
    <3>1. /\ ctl.at = "turn" /\ st.nturn < MaxTurn
          /\ st' = TurnStarted(st, ctl.run, ctl.msgs)
      BY <2>1 DEF StartTurn
    <3>2. OpenRuns(st) = {ctl.run} /\ Resumed(st, ctl.run, ctl.msgs)
      BY <1>1, <3>1 DEF Memory, CtlHolds, Closing, Holds, InputsResumed
    <3> QED BY <3>1, <3>2
  <2>2. CASE StartGrantedTurn
    <3>1. /\ grant # NoGrant /\ st.nturn < MaxTurn
          /\ st' = TurnStarted(st, grant.run, grant.msgs)
      BY <2>2 DEF StartGrantedTurn
    <3>2. OpenRuns(st) = {grant.run} /\ Resumed(st, grant.run, grant.msgs)
      BY <1>1, <3>1 DEF Memory, GrantHolds, Holds, InputsResumed
    <3> QED BY <3>1, <3>2
  <2> QED BY <2>1, <2>2
<1>3. r \in Run
  BY <1>2 DEF OpenRuns
<1>4. OpensTurn(st, st', r, msgs)
  BY <1>1, <1>2, <1>3, TurnStartedEffect
<1>5. m \in msgs /\ m \in PausedQueue(st)
  BY <1>4 DEF OpensTurn, PausedQueue, PendingMessages
<1>6. \E c \in st.run[r].of : st.cmd[c].kind = "resume" /\ m \in st.cmd[c].targets
  BY <1>2, <1>5 DEF Resumed
<1>7. st'.turn[st'.nturn].run = r /\ st'.run = st.run /\ st'.cmd = st.cmd
  BY <1>4 DEF OpensTurn, SameOrders
<1> QED BY <1>6, <1>7

-----------------------------------------------------------------------------
(* Every step, and the theorems.                                           *)

LEMMA ControlKeeps == SlotInvariant /\ Control => Kept
BY HydrateKeeps, RecoverKeeps, ResumeRecoveredKeeps, StartTurnKeeps, StartSubmitKeeps,
   StartResumeKeeps, SetWakeupKeeps, DeferKeeps, DrainDeadFiberKeeps, DrainControlKeeps,
   DrainInterruptKeeps, DrainNothingKeeps, DrainWaitingKeeps, IdleDrainKeeps, FinishControlKeeps,
   CommitCancelKeeps, CommitPromoteKeeps, RequestStopKeeps, CloseStoppedTurnKeeps,
   CommitInterruptionKeeps, ApplyStopKeeps, CloseWaitingRunKeeps, DecideBoundaryKeeps,
   CompleteRunKeeps, CloseFailedRunKeeps, WaitingKeeps
DEF Control

LEMMA StepKeeps == SlotInvariant /\ [Next]_vars => Kept
<1> SUFFICES ASSUME SlotInvariant, [Next]_vars PROVE Kept
  OBVIOUS
<1>1. CASE UNCHANGED vars
  BY <1>1, StandsStill DEF vars
<1>2. CASE Scheduling
  BY <1>2, DeliveryKeeps, StartGrantedTurnKeeps DEF Scheduling
<1>3. CASE \E id \in offered : Grant(id)
  BY <1>3, GrantKeeps
<1> QED BY <1>1, <1>2, <1>3, AdmissionKeeps, DeliveryKeeps, ControlKeeps, FiberKeeps, CrashKeeps
        DEF Next

LEMMA SlotInit == Init => SlotInvariant
<1> SUFFICES ASSUME Init PROVE SlotInvariant
  OBVIOUS
<1>1. /\ st = InitialState /\ exec = NoExec /\ ctl = Free("boot") /\ grant = NoGrant
  BY DEF Init
<1>2. ctl.at = "boot" /\ ctl.cmd = 0 /\ exec.tag = "Idle"
  BY <1>1 DEF Free, Place, NoExec
<1>3. /\ st.req.id = 0 /\ OpenRuns(st) = {} /\ OpenTurns(st) = {}
      /\ \A c \in Cmd : /\ st.cmd[c].kind = "none" /\ ~st.cmd[c].started
                        /\ st.cmd[c].terminal = "none" /\ st.stop[c].status = "none"
                        /\ ~st.msg[c].known /\ st.msg[c].consumed = 0 /\ ~st.msg[c].paused
  BY <1>1 DEF InitialState, NoRequest, OpenRuns, OpenTurns
<1>4. LogInvariant(st)
  BY <1>3 DEF LogInvariant, OneSlot, Reservable, Commands, Messages, Submits
<1>5. Memory
  BY <1>1, <1>2, <1>3 DEF Memory, ExecHolds, CtlHolds, GrantHolds, SlotHeld, TakenCommand,
     TargetUnconsumed, InputsResumed, Closing, Taken, Awaited
<1> QED BY <1>4, <1>5, InitType DEF SlotInvariant

LEMMA SlotStep == SlotInvariant /\ [Next]_vars => SlotInvariant'
BY StepKeeps, TypeStep DEF Kept, SlotInvariant

\* The log has one slot with one holder at most, memory knows who that is wherever the control
\* fiber is, and what it read before an append is still so when the append is made.
THEOREM SlotInvariantHolds == Spec => []SlotInvariant
BY SlotInit, SlotStep, PTL DEF Spec

\* However admissions, drains, grants and crashes interleave, one run at most is open, never
\* beside a reservation, and the execution in memory is that run's: what control fiber and
\* grant share behind controlGate is enough.
THEOREM SlotIsOwned == Spec => []OneOwnedRun
<1>1. SlotInvariant => OneOwnedRun
  <2> SUFFICES ASSUME SlotInvariant PROVE OneOwnedRun
    OBVIOUS
  <2>1. OneRunSlot
    BY SlotFacts DEF LogInvariant, OneSlot, OneRunSlot
  <2>2. exec.tag # "Idle" => /\ OpenRuns(st) = {exec.run} /\ exec.cmd \in ActiveCommands(st)
                             /\ exec.cmd \in st.run[exec.run].of
    BY SlotFacts DEF Memory, ExecHolds, Holds
  <2>3. exec.tag = "Idle" /\ ctl.at \in Ungated /\ grant = NoGrant => OpenRuns(st) = {}
    BY SlotFacts DEF Ungated, Closing
  <2> QED BY <2>1, <2>2, <2>3 DEF OneOwnedRun, ExecutionOwned
<1> QED BY <1>1, SlotInvariantHolds, PTL

\* A command ends once and is not started after its end, and a consumed message is neither
\* cancelled nor promoted, although every drain decides before it appends.
THEOREM SettledStays == Spec => SettledIsFinal
<1>1. SlotInvariant /\ [Next]_vars =>
        [\A c \in Cmd :
           /\ st.cmd[c].terminal # "none" => /\ st'.cmd[c].terminal = st.cmd[c].terminal
                                             /\ st'.cmd[c].started = st.cmd[c].started
           /\ st.msg[c].consumed > 0 =>
                /\ st'.msg[c].cancelled = st.msg[c].cancelled
                /\ st'.msg[c].disposition = st.msg[c].disposition]_vars
  BY StepKeeps DEF Kept, Lasting
<1> QED BY <1>1, SlotInvariantHolds, PTL DEF Spec, SettledIsFinal
\* What the user paused reaches the model only in a run that a resume command opened for it,
\* although inputs are chosen long before the turn that consumes them starts.
THEOREM PausedStay == Spec => PausedNeedsResume
<1>1. ASSUME SlotInvariant, [Next]_vars
      PROVE  [\A m \in Cmd :
                st.msg[m].paused /\ Unconsumed(st, m)
                  /\ st'.msg[m].consumed > st.msg[m].consumed =>
                  \E c \in st'.run[st'.turn[st'.nturn].run].of :
                    st'.cmd[c].kind = "resume" /\ m \in st'.cmd[c].targets]_vars
  <2> SUFFICES ASSUME NEW m \in Cmd, st.msg[m].paused, Unconsumed(st, m),
                      st'.msg[m].consumed > st.msg[m].consumed
               PROVE  \E c \in st'.run[st'.turn[st'.nturn].run].of :
                        st'.cmd[c].kind = "resume" /\ m \in st'.cmd[c].targets
    OBVIOUS
  <2>1. st.msg[m].consumed \in Nat
    BY <1>1, SlotFacts, RecordFields
  <2>2. st'.msg[m].consumed # st.msg[m].consumed
    BY <2>1
  <2>3. StartTurn \/ StartGrantedTurn
    BY <1>1, <2>2, OnlyTurnsConsume DEF NoneConsumed
  <2> QED BY <1>1, <2>2, <2>3, StartedIsResumed
<1> QED BY <1>1, SlotInvariantHolds, PTL DEF Spec, PausedNeedsResume
=============================================================================
