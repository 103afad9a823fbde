-------------------------- MODULE SchedulingPolicy --------------------------
(***************************************************************************)
(* The pure decisions of the session: which admitted command to act on     *)
(* (domain/dispatch-policy.ts), what follows a completed turn              *)
(* (domain/run-continuation-policy.ts), what a failure resumes and an      *)
(* interruption pauses (domain/run-terminal-policy.ts), who may be granted *)
(* a reserved run (domain/run-scheduling.ts), and how a restart repairs    *)
(* what the dead process left open (domain/recovery-policy.ts).            *)
(***************************************************************************)
EXTENDS ReducedState

\* The member of S that the scheduler meets first, by effective position.
Earliest(s, S) == CHOOSE m \in S : \A k \in S : s.msg[m].at <= s.msg[k].at

-----------------------------------------------------------------------------
(* Dispatch.                                                               *)

Priority(kind) ==
  CASE kind = "stop"    -> 0
    [] kind = "cancel"  -> 1
    [] kind = "promote" -> 2
    [] kind \in Submits -> 3
    [] OTHER            -> 4

\* Priority, then admission order.
Precedes(s, c, d) ==
  \/ Priority(s.cmd[c].kind) < Priority(s.cmd[d].kind)
  \/ Priority(s.cmd[c].kind) = Priority(s.cmd[d].kind) /\ c <= d

\* The member of a set of pending commands to act on first, or 0.
FirstControl(s, S) ==
  IF S = {} THEN 0 ELSE CHOOSE c \in S : \A d \in S : Precedes(s, c, d)

NextControl(s) == FirstControl(s, ControlCommands(s))

\* Pending commands that would start work for steer m.
ResumesOf(s, m) == {c \in PendingCommands(s) : s.cmd[c].kind = "resume" /\ m \in s.cmd[c].targets}
OwnedSteers(s)  == {m \in PendingSteers(s) : m \in PendingCommands(s) \/ ResumesOf(s, m) # {}}

\* Mutant: the pause is forgotten.
AnyWork(s) == {c \in PendingCommands(s) : s.cmd[c].kind = "resume" \/ IsSubmit(s, c)}

\* Commands that start work when no message is ready: their messages are not paused.
UnpausedWork(s) == {c \in PendingCommands(s) : \/ s.cmd[c].kind = "resume"
                                               \/ IsSubmit(s, c) /\ c \notin PausedQueue(s)}

\* nextIdleCommand: 0 when nothing is runnable, -1 when pending steers have no owner.
Orphaned == -1
NextIdle(s) ==
  LET pending    == PendingCommands(s)
      interrupts == {c \in pending : s.cmd[c].kind = "interrupt"}
      queued     == PendingQueue(s) \cap pending
      others     == UnpausedWork(s)
  IN CASE OwnedSteers(s) # {} ->
            LET m == Earliest(s, OwnedSteers(s))
            IN IF m \in pending THEN m ELSE Least(ResumesOf(s, m))
       [] OwnedSteers(s) = {} /\ PendingSteers(s) # {} -> Orphaned
       [] PendingSteers(s) = {} /\ interrupts # {} -> Least(interrupts)
       [] PendingSteers(s) = {} /\ interrupts = {} /\ queued # {} -> Earliest(s, queued)
       [] PendingSteers(s) = {} /\ interrupts = {} /\ queued = {} ->
            IF others = {} THEN 0 ELSE Least(others)

\* promotionNeedsResumeCommand
PromotionNeedsResume(s, m) ==
  /\ (ActiveCommand(s) = 0 \/ OpenRunOf(s, ActiveCommand(s)) = 0)
  /\ s.msg[m].known
  /\ ~(s.req.id # 0 /\ s.req.work = "Recovery" /\ m \in s.req.inputs)
  /\ m \notin PendingCommands(s) /\ ResumesOf(s, m) = {}

-----------------------------------------------------------------------------
(* Run boundaries.                                                         *)

\* Mutant: a run ends although steers wait for it.
ContinuationIgnoringSteers(s, t) == IF s.turn[t].feedback THEN "feedback" ELSE "complete"

\* decideRunContinuation after a completed turn.
Continuation(s, t) ==
  IF PendingSteers(s) # {} THEN "steering"
  ELSE IF s.turn[t].feedback THEN "feedback" ELSE "complete"

MessagesToResume(s) == PendingSteers(s)                      \* planRunFailure
MessagesToPause(s)  == PendingQueue(s) \cup PendingSteers(s) \* planUserInterruption

-----------------------------------------------------------------------------
(* Reserved runs.                                                          *)

\* runSchedulingInputMessageIds: the reservation's inputs that are still eligible.
RequestInputs(s) ==
  LET own == IF s.req.work = "Recovery" THEN s.req.inputs
             ELSE IF s.cmd[s.req.cmd].kind = "resume" THEN s.cmd[s.req.cmd].targets
             ELSE {s.req.cmd}
  IN {m \in own : Unconsumed(s, m) /\ ~s.msg[m].paused}

\* A granted interrupt has no message until it starts.
LateMessage(s, c) == IsSubmit(s, c) /\ ~s.msg[c].known

\* Mutant: permission for an earlier reservation is accepted for the current one.
HasRequest(s, id) == id # 0 /\ s.req.id # 0

IsCurrent(s, id) == id # 0 /\ s.req.id = id

CanGrant(s, id) ==
  LET c == s.req.cmd IN
  /\ IsCurrent(s, id)
  /\ s.cmd[c].terminal = "none"
  /\ OpenRuns(s) = {}
  /\ IF s.req.work = "Command"
       THEN ~s.cmd[c].started /\ (RequestInputs(s) # {} \/ LateMessage(s, c))
       ELSE /\ s.cmd[c].started
            /\ s.run[s.req.run].status \in {"Completed", "Failed"}
            /\ c \in s.run[s.req.run].of
            /\ (s.req.inputs # {} => RequestInputs(s) # {})
  /\ \A k \in ControlCommands(s) \ {c} :
       /\ s.cmd[k].kind \notin {"stop", "interrupt"}
       /\ (s.cmd[k].kind = "cancel" => s.cmd[k].targets \cap RequestInputs(s) = {})

\* waitingRunControl: 0 when no control may change the waiting work.
WaitingControl(s) ==
  FirstControl(s, {c \in ControlCommands(s) \ {s.req.cmd} :
                     s.cmd[c].kind \notin {"queue", "steer"}})

-----------------------------------------------------------------------------
(* Startup recovery.                                                       *)

RecoverableCommands(s) == {c \in ActiveCommands(s) : s.req.id = 0 \/ c # s.req.cmd}

PendingStops(s) ==
  {c \in Cmd : s.stop[c].status = "requested" /\ s.cmd[c].terminal = "none"}

\* Stops that name the run and turn they were meant for.
ApplicableStops(s) == {c \in PendingStops(s) : s.stop[c].run # 0 /\ s.stop[c].turn # 0}
StoppedRuns(s)     == {s.stop[c].run : c \in PendingStops(s)}

RecoveryPauses(s) == IF ApplicableStops(s) = {} THEN {} ELSE MessagesToPause(s)

ContinuationCandidates(s) ==
  IF ApplicableStops(s) # {} THEN {}
  ELSE {c \in RecoverableCommands(s) :
          /\ s.cmd[c].kind \in Submits \cup {"resume"}
          /\ \E r \in OpenRuns(s) \ StoppedRuns(s) : c \in s.run[r].of}

\* The command and run a replacement run continues; 0 when there is none.
ContinuationCommand(s) ==
  IF ContinuationCandidates(s) = {} THEN 0 ELSE Least(ContinuationCandidates(s))
ContinuationRun(s) ==
  LET c == ContinuationCommand(s) IN
  IF c = 0 THEN 0 ELSE Least({r \in OpenRuns(s) \ StoppedRuns(s) : c \in s.run[r].of})

ContinuationInputs(s) ==
  LET c == ContinuationCommand(s)
      sources == IF s.cmd[c].kind = "resume" THEN s.cmd[c].targets ELSE {c}
  IN IF c = 0 THEN {} ELSE (sources \cap MessagesToPause(s)) \cup PendingSteers(s)

ResumeOwned(s) ==
  UNION {s.cmd[c].targets : c \in {k \in 1 .. s.ncmd : s.cmd[k].kind = "resume"
                                                       /\ s.cmd[k].terminal = "none"}}

RecoveryResumes(s) ==
  {m \in PendingSteers(s) :
     /\ m \notin RecoveryPauses(s)
     /\ m \notin ContinuationInputs(s)
     /\ ~(s.req.id # 0 /\ s.req.work = "Recovery" /\ m \in s.req.inputs)
     /\ m \notin PendingCommands(s)
     /\ m \notin ResumeOwned(s)}

\* Nothing is left for a second recovery (isSessionRecoveryPlanEmpty).
NothingToRecover(s) ==
  /\ RecoverableCommands(s) = {} /\ OpenRuns(s) = {} /\ OpenTurns(s) = {}
  /\ PendingStops(s) = {} /\ RecoveryResumes(s) = {}

\* The repair of what the dead runtime left open: turns and runs fail, stops that
\* apply complete, every other interrupted command but the continued one is cancelled.
ClosedByRecovery(s) ==
  [s EXCEPT
     !.turn = [t \in Turn |-> IF t \in OpenTurns(s) THEN [s.turn[t] EXCEPT !.status = "Failed"]
                                                    ELSE s.turn[t]],
     !.run  = [r \in Run |-> IF r \in OpenRuns(s) THEN [s.run[r] EXCEPT !.status = "Failed"]
                                                  ELSE s.run[r]],
     !.stop = [c \in Cmd |-> IF c \in ApplicableStops(s) THEN [s.stop[c] EXCEPT !.status = "applied"]
                                                         ELSE s.stop[c]],
     !.cmd  = [c \in Cmd |->
                 IF c \in ApplicableStops(s) THEN [s.cmd[c] EXCEPT !.terminal = "Completed"]
                 ELSE IF c \in RecoverableCommands(s) \ {ContinuationCommand(s)}
                   THEN [s.cmd[c] EXCEPT !.terminal = "Cancelled"]
                   ELSE s.cmd[c]]]

\* Mutant: a reservation is made although there is no run to continue.
RecoveryBatchAlwaysReserving(s, deferred) ==
  LET paused  == PendingMessagesPaused(ClosedByRecovery(s), RecoveryPauses(s))
      resumed == IF RecoveryResumes(s) = {} THEN paused
                 ELSE CommandAdmitted(paused, "resume", RecoveryResumes(s))
  IN RunSchedulingRequested(resumed, "Recovery", ContinuationCommand(s),
                            ContinuationRun(s), ContinuationInputs(s))

\* The whole recovery batch: repair, pause, resume, then continue or reserve.
RecoveryBatch(s, deferred) ==
  LET paused  == PendingMessagesPaused(ClosedByRecovery(s), RecoveryPauses(s))
      resumed == IF RecoveryResumes(s) = {} THEN paused
                 ELSE CommandAdmitted(paused, "resume", RecoveryResumes(s))
  IN IF ContinuationCommand(s) = 0 THEN resumed
     ELSE IF deferred
       THEN RunSchedulingRequested(resumed, "Recovery", ContinuationCommand(s),
                                   ContinuationRun(s), ContinuationInputs(s))
       ELSE RunStarted(resumed, s.run[ContinuationRun(s)].of)

\* The check made on the state after the batch, `before` being the state it repaired.
RecoveryReachedFixedPoint(before, s, deferred) ==
  IF ContinuationCommand(before) = 0 \/ deferred THEN NothingToRecover(s)
  ELSE /\ RecoverableCommands(s) = {ContinuationCommand(before)}
       /\ OpenRuns(s) = {s.nrun} /\ OpenTurns(s) = {} /\ PendingStops(s) = {}
       /\ RecoveryPauses(s) = {} /\ RecoveryResumes(s) = {}
       /\ ContinuationInputs(s) = ContinuationInputs(before)
=============================================================================
