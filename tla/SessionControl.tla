--------------------------- MODULE SessionControl ---------------------------
(***************************************************************************)
(* The live control plane of one session (services/session-state.ts).      *)
(*                                                                         *)
(* Clients commit commands to the durable log at any time; one control     *)
(* fiber drains them, one decision at a time, and owns at most one turn    *)
(* fiber; an external scheduler may be asked for permission to start a run *)
(* and grants it whenever it likes; the process may crash between any two  *)
(* commits and then recovers from the log alone.                           *)
(*                                                                         *)
(* One action is one durable append (one store transaction) with what the  *)
(* code does in memory next to it.  Where the code decides on a snapshot   *)
(* and appends later, the decision is an action of its own and what it     *)
(* read is carried in `ctl`, so an admission can commit in between.        *)
(***************************************************************************)
EXTENDS SchedulingPolicy

CONSTANTS
  Ingress,       \* the client operations that may be submitted
  MaxIngress,    \* bound on client batches
  MaxSurprises,  \* bound on crashes, failed turns and turns that need feedback
  Deferred       \* TRUE: RunScheduler.resolve asks for external permission

ASSUME IngressAssumption ==
  /\ Ingress \subseteq (Kinds \ {"resume"}) \cup {"stop+resume"}
  /\ MaxIngress \in Nat
  /\ MaxSurprises \in Nat
  /\ Deferred \in BOOLEAN

VARIABLES
  st,         \* the durable log, folded: survives a crash
  exec,       \* ExecutionState: the turn fiber the control fiber owns
  ctl,        \* where the control fiber is, and what it read to get there
  owed,       \* an admission has committed and not yet offered its wake-up
  sig,        \* ingressSignals, a sliding queue of one
  grant,      \* a granted run whose turn has not been started yet
  delivery,   \* id of the reservation being delivered, or 0
  wakeup,     \* the durable host alarm that retries delivery
  offered,    \* reservations the external scheduler has received
  ingress, surprises   \* how much of the two bounds is used

vars == <<st, exec, ctl, owed, sig, grant, delivery, wakeup, offered, ingress, surprises>>
external == <<delivery, offered>>
bounds == <<ingress, surprises>>

Outcomes  == {"ok", "failed", "defect", "interrupted"}
NoExec    == [tag |-> "Idle", cmd |-> 0, run |-> 0, turn |-> 0,
              fiber |-> "none", exited |-> FALSE]
Running(c, r, t) == [tag |-> "Running", cmd |-> c, run |-> r, turn |-> t,
                     fiber |-> "live", exited |-> FALSE]

\* cmd: the command handled; active, run: the execution it acts on; msgs: what was read.
Place(at, c, active, r, msgs) ==
  [at |-> at, cmd |-> c, active |-> active, run |-> r, msgs |-> msgs]
Free(at) == Place(at, 0, 0, 0, {})
NoGrant == Free("none")

\* The control fiber holds controlGate everywhere but here.
Ungated == {"ready", "park", "waitSignal", "waitTurn"}
Positions == Ungated \cup
  {"boot", "hydrated", "dead", "recovered", "start", "startResume", "turn", "inactiveStop", "steer",
   "cancel", "promote", "stopRequest", "stopClose", "interruption", "stopApply",
   "defer", "failControl", "boundary", "complete", "failRun", "cancelRun", "closeWaiting"}

Init ==
  /\ st = InitialState /\ exec = NoExec /\ ctl = Free("boot")
  /\ owed = FALSE /\ sig = FALSE /\ grant = NoGrant
  /\ delivery = 0 /\ wakeup = FALSE /\ offered = {}
  /\ ingress = 0 /\ surprises = 0

-----------------------------------------------------------------------------
(* Admission: submitBatch commits under admissionGate, then wakes the loop *)
(* before the gate is released.                                            *)

\* The client's explicit approval to replace the paused queue: its messages are
\* cancelled, and their commands if they have neither started nor ended.
PausedQueueCleared(s) ==
  LET paused == PausedQueue(s) IN
  [s EXCEPT
     !.msg = [m \in Cmd |-> IF m \in paused THEN [s.msg[m] EXCEPT !.cancelled = TRUE]
                                            ELSE s.msg[m]],
     !.cmd = [c \in Cmd |-> IF c \in paused \cap PendingCommands(s)
                              THEN [s.cmd[c] EXCEPT !.terminal = "Cancelled"] ELSE s.cmd[c]]]

\* A queue submission is refused while a paused queue exists, unless it clears it.
SubmitAdmitted(s, disposition, clear) ==
  LET admitted == CommandAdmitted(s, disposition, {})
      cleared  == IF clear THEN PausedQueueCleared(admitted) ELSE admitted
  IN UserMessageSubmitted(cleared, s.ncmd + 1, disposition)

Admit(s1) ==
  /\ ~owed /\ ingress < MaxIngress /\ st.ncmd < MaxCmd - 1
  /\ st' = s1
  /\ owed' = TRUE
  /\ ingress' = ingress + 1
  /\ UNCHANGED <<exec, ctl, sig, grant, external, wakeup, surprises>>

AdmitSubmit ==
  \E d \in Ingress \cap {"queue", "steer"}, clear \in BOOLEAN :
    /\ clear => PausedQueue(st) # {}
    /\ d = "queue" /\ PausedQueue(st) # {} => clear
    /\ Admit(SubmitAdmitted(st, d, clear))

AdmitControl ==
  \E k \in Ingress \cap {"interrupt", "stop"} : Admit(CommandAdmitted(st, k, {}))

KnownMessages == {m \in Cmd : st.msg[m].known}

AdmitTargeted ==
  \E k \in Ingress \cap {"cancel", "promote"}, m \in KnownMessages :
    Admit(CommandAdmitted(st, k, {m}))

\* The host's Stop and Resume of one message, in one batch.
AdmitStopAndResume ==
  /\ "stop+resume" \in Ingress
  /\ \E m \in PendingSteers(st) :
       Admit(CommandAdmitted(CommandAdmitted(st, "stop", {}), "resume", {m}))

OfferSignal ==
  /\ owed
  /\ owed' = FALSE /\ sig' = TRUE
  /\ UNCHANGED <<st, exec, ctl, grant, external, wakeup, bounds>>

-----------------------------------------------------------------------------
(* Helpers of the control fiber.                                           *)

UnchangedByControl == UNCHANGED <<owed, sig, grant, external, bounds>>

Goto(place) == ctl' = place

\* What reconcileSchedulingWakeup sets the alarm to.
Undelivered == st.req.id # 0 /\ ~st.req.delivered

\* Where a turn is started: startTurn of command c's run r with these inputs.
TurnPlace(c, r, inputs) == Place("turn", c, c, r, inputs)

\* inspectExecutionState: an exited fiber is first observed by a drain.
Observed == IF exec.exited /\ exec.fiber \in {"ok", "failed"}
              THEN [exec EXCEPT !.tag = "Completed"] ELSE exec

\* A drain takes controlGate, so it waits for a grant to finish.
Drain == ctl.at = "ready" /\ grant = NoGrant
DrainNormally == Drain /\ (exec.exited => exec.fiber \in {"ok", "failed"})

Working  == exec.tag # "Idle"
Reserved == ~Working /\ st.req.id # 0

\* The control command this drain acts on, or 0.
Chosen == IF Reserved THEN WaitingControl(st) ELSE NextControl(st)
ChosenKind == IF Chosen = 0 THEN "none" ELSE st.cmd[Chosen].kind

-----------------------------------------------------------------------------
(* Startup recovery and its continuation.                                  *)

\* A new runtime folds the log and sets the alarm by what it finds (makeLiveSessionState).
Hydrate ==
  /\ ctl.at = "boot"
  /\ Goto(Free("hydrated"))
  /\ wakeup' = Undelivered
  /\ UnchangedByControl /\ UNCHANGED <<st, exec>>

\* recoverSession, which excludes admissions by admissionGate; the alarm is set before a
\* replacement run's reservation is appended.
Recover ==
  /\ ctl.at = "hydrated" /\ ~owed
  /\ st.ncmd < MaxCmd /\ st.nrun < MaxRun
  /\ LET s1 == RecoveryBatch(st, Deferred)
         c  == ContinuationCommand(st)
     IN /\ st' = s1
        /\ IF ~RecoveryReachedFixedPoint(st, s1, Deferred) THEN Goto(Free("dead"))
           ELSE IF c # 0 /\ ~Deferred
             THEN Goto(Place("recovered", c, c, s1.nrun, ContinuationInputs(st)))
             ELSE Goto(Free("ready"))
        /\ wakeup' = (wakeup \/ (c # 0 /\ Deferred))
  /\ UnchangedByControl /\ UNCHANGED exec

\* resumeRecoveredCommand drops the inputs that are no longer pending.
ResumeRecovered ==
  /\ ctl.at = "recovered"
  /\ Goto(TurnPlace(ctl.cmd, ctl.run, {m \in ctl.msgs : Unconsumed(st, m)}))
  /\ UnchangedByControl /\ UNCHANGED <<st, exec, wakeup>>

-----------------------------------------------------------------------------
(* Starting work.                                                          *)

StartTurn ==
  /\ ctl.at = "turn" /\ st.nturn < MaxTurn
  /\ st' = TurnStarted(st, ctl.run, ctl.msgs)
  /\ exec' = Running(ctl.cmd, ctl.run, st.nturn + 1)
  /\ Goto(Free("ready"))
  /\ UnchangedByControl /\ UNCHANGED wakeup

\* startSubmitCommand, resolved locally.
StartSubmit ==
  /\ ctl.at = "start" /\ ~Deferred /\ st.nrun < MaxRun
  /\ LET c  == ctl.cmd
         s1 == CommandStarted(st, c)
         s2 == IF st.msg[c].known THEN s1 ELSE UserMessageCommitted(s1, c)
     IN st' = RunStarted(s2, {c}) /\ Goto(TurnPlace(c, st.nrun + 1, {c}))
  /\ UnchangedByControl /\ UNCHANGED <<exec, wakeup>>

\* startResumePendingMessages, resolved locally, with the messages read earlier.
StartResume ==
  /\ ctl.at = "startResume" /\ ~Deferred /\ st.nrun < MaxRun
  /\ st' = RunStarted(CommandStarted(st, ctl.cmd), {ctl.cmd} \cup ctl.msgs)
  /\ Goto(TurnPlace(ctl.cmd, st.nrun + 1, ctl.msgs))
  /\ UnchangedByControl /\ UNCHANGED <<exec, wakeup>>

\* Mutant: delivery is left to the worker forked in memory.
SetNoWakeup ==
  /\ ctl.at \in {"start", "startResume"} /\ Deferred
  /\ Goto(Place("defer", ctl.cmd, 0, 0, {}))
  /\ UnchangedByControl /\ UNCHANGED <<st, exec, wakeup>>

\* Deferred: the wake-up is set before the request is appended (deferRun).
SetWakeup ==
  /\ ctl.at \in {"start", "startResume"} /\ Deferred
  /\ wakeup' = TRUE
  /\ Goto(Place("defer", ctl.cmd, 0, 0, {}))
  /\ UnchangedByControl /\ UNCHANGED <<st, exec>>

Defer ==
  /\ ctl.at = "defer"
  /\ st' = RunSchedulingRequested(st, "Command", ctl.cmd, 0, {})
  /\ Goto(Free("park"))
  /\ UnchangedByControl /\ UNCHANGED <<exec, wakeup>>
-----------------------------------------------------------------------------
(* One drain: inspect the execution, decide, begin.                        *)

\* inspectExecutionState: a turn fiber that died fails its run (failRunAndCommandWithError).
DrainDefect ==
  /\ Drain /\ exec.exited /\ exec.fiber = "defect"
  /\ exec' = NoExec
  /\ Goto(Place("failRun", 0, exec.cmd, exec.run, MessagesToResume(st)))
  /\ UnchangedByControl /\ UNCHANGED <<st, wakeup>>

\* Mutant: the turn of an interrupted fiber is left open.
DrainInterruptedOnly ==
  /\ Drain /\ exec.exited /\ exec.fiber = "interrupted"
  /\ exec' = NoExec
  /\ Goto(Place("cancelRun", 0, exec.cmd, exec.run, MessagesToResume(st)))
  /\ UnchangedByControl /\ UNCHANGED <<st, wakeup>>

\* failInterruptedTurnIfOpen, then interruptRunAndCommand.
DrainInterrupted ==
  /\ Drain /\ exec.exited /\ exec.fiber = "interrupted"
  /\ st' = IF st.turn[exec.turn].status = "open"
             THEN TurnTerminal(st, exec.turn, "Failed", FALSE) ELSE st
  /\ exec' = NoExec
  /\ Goto(Place("cancelRun", 0, exec.cmd, exec.run, MessagesToResume(st)))
  /\ UnchangedByControl /\ UNCHANGED wakeup

\* What a guarded control commits first: its CommandStarted.
Begin(c, place) ==
  /\ st' = CommandStarted(st, c)
  /\ exec' = Observed
  /\ Goto(place)
  /\ UnchangedByControl

Target(c) == CHOOSE m \in Cmd : st.cmd[c].targets = {m}

\* Mutants: the checks on the message and on its command are dropped.
AnyMessage(m) == st.msg[m].known /\ st.msg[m].disposition # "unset"
AnyOrigin(c)  == st.cmd[c].targets

\* What cancelPendingMessage reads: a pending message, and its command if it never started.
Cancellable(m)     == Unconsumed(st, m) /\ st.msg[m].disposition # "unset"
UnstartedOrigin(c) == st.cmd[c].targets \cap PendingCommands(st)

\* cancelPendingMessage: `msgs` carries the origin command to cancel, as read here.
DrainCancel ==
  /\ DrainNormally /\ ChosenKind = "cancel"
  /\ LET m == Target(Chosen)
         replaced == st.req.id # 0 /\ st.req.work = "Recovery"
                     /\ m \in RequestInputs(st) /\ RequestInputs(st) # {m}
     IN /\ Begin(Chosen, IF Cancellable(m)
                           THEN Place("cancel", Chosen, 0, 0, UnstartedOrigin(Chosen))
                           ELSE Place("failControl", Chosen, 0, 0, {}))
        /\ wakeup' = (wakeup \/ (Cancellable(m) /\ replaced))

\* promotePendingMessage: `msgs` carries the message a new resume command must own.
DrainPromote ==
  /\ DrainNormally /\ ChosenKind = "promote"
  /\ LET m == Target(Chosen)
         pending == Unconsumed(st, m) /\ st.msg[m].disposition = "queue"
         resumed == {k \in st.cmd[Chosen].targets : PromotionNeedsResume(st, k)}
     IN Begin(Chosen, IF pending THEN Place("promote", Chosen, 0, 0, resumed)
                                ELSE Place("failControl", Chosen, 0, 0, {}))
  /\ UNCHANGED wakeup

\* stopActiveCommand, stopCompletedCommand
DrainStop ==
  /\ DrainNormally /\ Working /\ ChosenKind = "stop"
  /\ Begin(Chosen, Place("stopRequest", Chosen, exec.cmd, exec.run, {}))
  /\ UNCHANGED wakeup

\* steerActiveCommand: the message stays pending for the next turn boundary.
DrainSteer ==
  /\ DrainNormally /\ Working /\ ChosenKind \in {"queue", "steer"}
  /\ Begin(Chosen, Place("steer", Chosen, 0, 0, {}))
  /\ UNCHANGED wakeup

\* An interrupt closes the turn scope, which kills the turn fiber, and reads what to pause.
DrainInterrupt ==
  /\ DrainNormally /\ Working /\ ChosenKind = "interrupt"
  /\ exec' = NoExec
  /\ Goto(Place("interruption", Chosen, exec.cmd, exec.run, MessagesToPause(st)))
  /\ UnchangedByControl /\ UNCHANGED <<st, wakeup>>

\* No control: a completed turn goes on to its boundary, a running one is awaited.
DrainNothing ==
  /\ DrainNormally /\ Chosen = 0 /\ (Working \/ Reserved)
  /\ exec' = Observed
  /\ Goto(IF Observed.tag = "Completed" THEN Place("boundary", 0, exec.cmd, exec.run, {})
                                        ELSE Free("park"))
  /\ UnchangedByControl /\ UNCHANGED <<st, wakeup>>

\* interruptWaitingRun reads what to pause.
DrainWaiting ==
  /\ DrainNormally /\ Reserved /\ ChosenKind \in {"stop", "interrupt"}
  /\ Goto(Place("closeWaiting", Chosen, 0, 0, MessagesToPause(st) \ {Chosen}))
  /\ UnchangedByControl /\ UNCHANGED <<st, exec, wakeup>>

\* Neither an execution nor a reservation: start something, or wait.
IdleDrain ==
  DrainNormally /\ ~Working /\ ~Reserved /\ ChosenKind \notin {"cancel", "promote"}

DrainInactiveStop ==
  /\ IdleDrain /\ ActiveCommand(st) = 0 /\ ChosenKind = "stop"
  /\ Begin(Chosen, Place("inactiveStop", Chosen, 0, 0, {}))
  /\ UNCHANGED wakeup

\* dieLiveInvariantViolation, or steers that nothing will ever start, stop the loop for good.
\* A resume whose messages are all gone is handled like an inactive stop.
DrainStart ==
  /\ IdleDrain /\ ~(ActiveCommand(st) = 0 /\ ChosenKind = "stop")
  /\ LET c == NextIdle(st)
         pending == {m \in st.cmd[c].targets : Unconsumed(st, m)}
         begins == ActiveCommand(st) = 0 /\ c \in Cmd
     IN /\ Goto(IF ActiveCommand(st) # 0 \/ c = Orphaned THEN Free("dead")
                ELSE IF c = 0 THEN Free("park")
                ELSE IF st.cmd[c].kind # "resume" THEN Place("start", c, 0, 0, {})
                ELSE IF pending # {} THEN Place("startResume", c, 0, 0, pending)
                ELSE Place("inactiveStop", c, 0, 0, {}))
        /\ st' = IF begins /\ st.cmd[c].kind = "resume" /\ pending = {}
                   THEN CommandStarted(st, c) ELSE st
  /\ UnchangedByControl /\ UNCHANGED <<exec, wakeup>>

-----------------------------------------------------------------------------
(* The appends that finish what a drain began.                             *)

Finish(s1, next) ==
  /\ st' = s1
  /\ Goto(next)
  /\ UnchangedByControl

CompleteSteer ==
  /\ ctl.at = "steer"
  /\ Finish(CommandTerminal(st, ctl.cmd, "Completed"), Free("ready"))
  /\ UNCHANGED <<exec, wakeup>>

FailControl ==
  /\ ctl.at = "failControl"
  /\ Finish(CommandTerminal(st, ctl.cmd, "Failed"), Free("ready"))
  /\ UNCHANGED <<exec, wakeup>>

CancelInactiveStop ==
  /\ ctl.at = "inactiveStop"
  /\ Finish(CommandTerminal(st, ctl.cmd, "Cancelled"), Free("ready"))
  /\ UNCHANGED <<exec, wakeup>>

\* Mutant: the reservation keeps the slot for a message that is gone.
ReservationKept(s, m) == s

\* planRunSchedulingCancellation, on the state the message is about to leave.
ReservationWithout(s, m) ==
  LET rest == RequestInputs(s) \ {m} IN
  IF s.req.id = 0 \/ m \notin RequestInputs(s) THEN s
  ELSE IF s.req.work = "Command" THEN RunSchedulingClosed(s, s.req.id)
  ELSE IF rest = {} THEN CommandTerminal(RunSchedulingClosed(s, s.req.id), s.req.cmd, "Cancelled")
  ELSE RunSchedulingRequested(s, "Recovery", s.req.cmd, s.req.run, rest)

\* reconcileSchedulingWakeup, after a cancellation that touched the reservation.
StillReserved(s) == s.req.id # 0

CommitCancel ==
  /\ ctl.at = "cancel"
  /\ LET m  == Target(ctl.cmd)
         s1 == ReservationWithout(st, m)
         s2 == UserMessageCancelled(s1, m)
         s3 == IF ctl.msgs = {} THEN s2 ELSE CommandTerminal(s2, m, "Cancelled")
     IN /\ Finish(CommandTerminal(s3, ctl.cmd, "Completed"), Free("ready"))
        /\ wakeup' = IF s1 = st THEN wakeup ELSE StillReserved(s1)
  /\ UNCHANGED exec

CommitPromote ==
  /\ ctl.at = "promote" /\ st.ncmd < MaxCmd
  /\ LET s1 == UserMessagePromoted(st, Target(ctl.cmd))
         s2 == IF ctl.msgs = {} THEN s1 ELSE CommandAdmitted(s1, "resume", ctl.msgs)
     IN Finish(CommandTerminal(s2, ctl.cmd, "Completed"), Free("ready"))
  /\ UNCHANGED <<exec, wakeup>>

RequestStop ==
  /\ ctl.at = "stopRequest"
  /\ LET r == LastRunOf(st, ctl.active)
         t == IF r = 0 THEN 0 ELSE LastTurnOf(st, r)
         \* activeTurnIdentityForCommand is undefined unless it finds a turn.
     IN Finish(StopTurnRequested(st, ctl.cmd, IF t = 0 THEN 0 ELSE r, t),
               [ctl EXCEPT !.at = "stopClose"])
  /\ UNCHANGED <<exec, wakeup>>

\* Closing the turn scope kills the turn fiber; only then is the pause planned.
CloseStoppedTurn ==
  /\ ctl.at = "stopClose"
  /\ exec' = NoExec
  /\ Goto([ctl EXCEPT !.at = "interruption", !.msgs = MessagesToPause(st)])
  /\ UnchangedByControl /\ UNCHANGED <<st, wakeup>>

\* appendUserInterruption, for a stop and for an interrupting message.
CommitInterruption ==
  /\ ctl.at = "interruption"
  /\ LET t  == LastTurnOf(st, ctl.run)
         s1 == IF st.turn[t].status = "open" THEN TurnTerminal(st, t, "Failed", FALSE) ELSE st
         s2 == CommandTerminal(RunTerminal(s1, ctl.run, "Failed"), ctl.active, "Cancelled")
     IN Finish(PendingMessagesPaused(s2, ctl.msgs),
               IF st.cmd[ctl.cmd].kind = "stop" THEN Place("stopApply", ctl.cmd, 0, 0, {})
                                                ELSE Place("start", ctl.cmd, 0, 0, {}))
  /\ UNCHANGED <<exec, wakeup>>

ApplyStop ==
  /\ ctl.at = "stopApply"
  /\ Finish(CommandTerminal(StopTurnApplied(st, ctl.cmd), ctl.cmd, "Completed"), Free("ready"))
  /\ UNCHANGED <<exec, wakeup>>

CloseWaitingRun ==
  /\ ctl.at = "closeWaiting"
  /\ LET c == ctl.cmd
         released(s) == CommandTerminal(PendingMessagesPaused(RunSchedulingClosed(s, s.req.id),
                                                              ctl.msgs),
                                        s.req.cmd, "Cancelled")
     IN IF st.cmd[c].kind = "stop"
          THEN Finish(CommandTerminal(released(CommandStarted(st, c)), c, "Completed"),
                      Free("ready"))
          ELSE Finish(released(st), Place("start", c, 0, 0, {}))
  /\ wakeup' = FALSE
  /\ UNCHANGED exec

\* continueOrFinishRunAfterTurn reads the state again.
DecideBoundary ==
  /\ ctl.at = "boundary"
  /\ LET t == exec.turn
         c == ctl.active
         next == Continuation(st, t)
     IN CASE exec.fiber = "failed" ->
               Goto(Place("failRun", 0, c, ctl.run, MessagesToResume(st)))
          [] exec.fiber # "failed" /\ next = "steering" ->
               Goto(TurnPlace(c, ctl.run, PendingSteers(st)))
          [] exec.fiber # "failed" /\ next = "feedback" -> Goto(TurnPlace(c, ctl.run, {}))
          [] exec.fiber # "failed" /\ next = "complete" -> Goto([ctl EXCEPT !.at = "complete"])
  /\ UnchangedByControl /\ UNCHANGED <<st, exec, wakeup>>

\* completeRunAndCommand, after compaction has had its chance.
CompleteRun ==
  /\ ctl.at = "complete"
  /\ Finish(CommandTerminal(RunTerminal(st, ctl.run, "Completed"), ctl.active, "Completed"),
            Free("ready"))
  /\ exec' = NoExec
  /\ UNCHANGED wakeup

\* Mutant: the steers of a failed run are left without a command.
CloseFailedRunOnly ==
  /\ ctl.at \in {"failRun", "cancelRun"}
  /\ LET outcome == IF ctl.at = "failRun" THEN "Failed" ELSE "Cancelled"
     IN Finish(CommandTerminal(RunTerminal(st, ctl.run, "Failed"), ctl.active, outcome),
               Free("ready"))
  /\ exec' = NoExec
  /\ UNCHANGED wakeup

\* failRunAndCommandWithError, interruptRunAndCommand
CloseFailedRun ==
  /\ ctl.at \in {"failRun", "cancelRun"} /\ st.ncmd < MaxCmd
  /\ LET outcome == IF ctl.at = "failRun" THEN "Failed" ELSE "Cancelled"
         s1 == CommandTerminal(RunTerminal(st, ctl.run, "Failed"), ctl.active, outcome)
     IN Finish(IF ctl.msgs = {} THEN s1 ELSE CommandAdmitted(s1, "resume", ctl.msgs),
               Free("ready"))
  /\ exec' = NoExec
  /\ UNCHANGED wakeup

-----------------------------------------------------------------------------
(* Waiting for the next signal.                                            *)

Park ==
  /\ ctl.at = "park"
  /\ Goto(Free(CASE exec.tag = "Running" -> "waitTurn"
                 [] exec.tag = "Completed" -> "ready"
                 [] exec.tag = "Idle" -> "waitSignal"))
  /\ UnchangedByControl /\ UNCHANGED <<st, exec, wakeup>>

WakeOnSignal ==
  /\ ctl.at \in {"waitSignal", "waitTurn"} /\ sig
  /\ sig' = FALSE
  /\ Goto(Free("ready"))
  /\ UNCHANGED <<st, exec, owed, grant, external, wakeup, bounds>>

\* Mutant: a finished turn is noticed only when something else happens.
WakeOnExitIfSignalled ==
  /\ ctl.at = "waitTurn" /\ exec.exited /\ sig
  /\ Goto(Free("ready"))
  /\ UnchangedByControl /\ UNCHANGED <<st, exec, wakeup>>

WakeOnExit ==
  /\ ctl.at = "waitTurn" /\ exec.exited
  /\ Goto(Free("ready"))
  /\ UnchangedByControl /\ UNCHANGED <<st, exec, wakeup>>

-----------------------------------------------------------------------------
(* The turn fiber, as the control fiber sees it.                           *)

FiberStep == exec.tag = "Running" /\ ~exec.exited
UnchangedByFiber == UNCHANGED <<ctl, owed, sig, grant, external, wakeup, ingress>>

\* TurnCompleted; with feedback, the run needs another turn to report tool results.
TurnCompletes(feedback) ==
  /\ FiberStep /\ exec.fiber = "live"
  /\ st' = TurnTerminal(st, exec.turn, "Completed", feedback)
  /\ exec' = [exec EXCEPT !.fiber = "ok"]
  /\ UnchangedByFiber

\* TurnFailed, after which the fiber reports the failure or dies of it.
TurnFails(outcome) ==
  /\ FiberStep /\ exec.fiber = "live"
  /\ st' = TurnTerminal(st, exec.turn, "Failed", FALSE)
  /\ exec' = [exec EXCEPT !.fiber = outcome]
  /\ UnchangedByFiber

TurnExits ==
  /\ FiberStep /\ exec.fiber # "live"
  /\ exec' = [exec EXCEPT !.exited = TRUE]
  /\ UnchangedByFiber /\ UNCHANGED <<st, surprises>>

\* The fiber is interrupted from within: it exits without a terminal of its own.
TurnInterrupted ==
  /\ FiberStep /\ exec.fiber = "live"
  /\ exec' = [exec EXCEPT !.fiber = "interrupted", !.exited = TRUE]
  /\ UnchangedByFiber /\ UNCHANGED st

-----------------------------------------------------------------------------
(* Reserved runs: delivery to the external scheduler, and its grants.      *)

GateFree == ctl.at \in Ungated /\ grant = NoGrant

UnchangedByScheduling == UNCHANGED <<ctl, owed, bounds>>

\* retryRunSchedulingDelivery, by the host alarm or the forked worker.
BeginDelivery ==
  /\ GateFree /\ delivery = 0 /\ wakeup
  /\ delivery' = IF Undelivered THEN st.req.id ELSE 0
  /\ wakeup' = Undelivered
  /\ UnchangedByScheduling /\ UNCHANGED <<st, exec, sig, grant, offered>>

\* RunScheduler.deliver reaches the external scheduler.
OfferRun ==
  /\ delivery # 0 /\ delivery \notin offered
  /\ offered' = offered \cup {delivery}
  /\ UnchangedByScheduling /\ UNCHANGED <<st, exec, sig, grant, delivery, wakeup>>

EndDelivery ==
  /\ GateFree /\ delivery \in offered
  /\ st' = RunSchedulingDelivered(st, delivery)
  /\ delivery' = 0
  /\ wakeup' = (st'.req.id # 0 /\ ~st'.req.delivered)
  /\ UnchangedByScheduling /\ UNCHANGED <<exec, sig, grant, offered>>

\* The delivery fails or times out, whether or not the scheduler received it.
DeliveryFails ==
  /\ GateFree /\ delivery # 0
  /\ delivery' = 0
  /\ wakeup' = Undelivered
  /\ UNCHANGED <<st, exec, ctl, owed, sig, grant, offered, ingress>>

\* grantRun: any reservation the scheduler ever received, early, late or again.
\* A permission that no longer applies is answered Stale and changes nothing.
Grant(id) ==
  /\ GateFree /\ CanGrant(st, id) /\ st.nrun < MaxRun
  /\ LET c        == st.req.cmd
         late     == st.req.work = "Command" /\ LateMessage(st, c)
         inputs   == RequestInputs(st) \cup (IF late THEN {c} ELSE {})
         of       == IF st.req.work = "Recovery" THEN st.run[st.req.run].of
                     ELSE {c} \cup (IF st.cmd[c].kind = "resume" THEN inputs ELSE {})
         s1       == IF st.req.work = "Command" THEN CommandStarted(st, c) ELSE st
         s2       == IF late THEN UserMessageCommitted(s1, c) ELSE s1
     IN /\ st' = RunStarted(RunSchedulingClosed(s2, id), of)
        /\ grant' = TurnPlace(c, st.nrun + 1, inputs)
  /\ wakeup' = FALSE
  /\ UnchangedByScheduling /\ UNCHANGED <<exec, sig, external>>

\* Mutant: the control fiber is not told of the granted turn.
StartGrantedTurnSilently ==
  /\ grant # NoGrant /\ st.nturn < MaxTurn
  /\ st' = TurnStarted(st, grant.run, grant.msgs)
  /\ exec' = Running(grant.cmd, grant.run, st.nturn + 1)
  /\ grant' = NoGrant
  /\ UnchangedByScheduling /\ UNCHANGED <<sig, external, wakeup>>

\* The rest of grantRun: startTurn, then wake the control fiber.
StartGrantedTurn ==
  /\ grant # NoGrant /\ st.nturn < MaxTurn
  /\ st' = TurnStarted(st, grant.run, grant.msgs)
  /\ exec' = Running(grant.cmd, grant.run, st.nturn + 1)
  /\ grant' = NoGrant /\ sig' = TRUE
  /\ UnchangedByScheduling /\ UNCHANGED <<external, wakeup>>

-----------------------------------------------------------------------------
(* The process dies, and everything in memory with it.                     *)

Crash ==
  /\ exec' = NoExec /\ ctl' = Free("boot")
  /\ owed' = FALSE /\ sig' = FALSE /\ grant' = NoGrant /\ delivery' = 0
  /\ UNCHANGED <<st, wakeup, offered>>

Surprise == surprises < MaxSurprises /\ surprises' = surprises + 1

Admission == AdmitSubmit \/ AdmitControl \/ AdmitTargeted \/ AdmitStopAndResume

Control ==
  \/ Hydrate \/ Recover \/ ResumeRecovered \/ StartTurn \/ StartSubmit \/ StartResume
  \/ SetWakeup \/ Defer
  \/ DrainDefect \/ DrainInterrupted \/ DrainCancel \/ DrainPromote \/ DrainStop
  \/ DrainSteer \/ DrainInterrupt \/ DrainNothing \/ DrainWaiting
  \/ DrainInactiveStop \/ DrainStart
  \/ CompleteSteer \/ FailControl \/ CancelInactiveStop \/ CommitCancel \/ CommitPromote
  \/ RequestStop \/ CloseStoppedTurn \/ CommitInterruption \/ ApplyStop
  \/ CloseWaitingRun \/ DecideBoundary \/ CompleteRun \/ CloseFailedRun
  \/ Park \/ WakeOnSignal \/ WakeOnExit

TurnFiber == (TurnCompletes(FALSE) /\ UNCHANGED surprises) \/ TurnExits

TurnSurprise ==
  Surprise /\ (TurnCompletes(TRUE) \/ TurnFails("failed") \/ TurnFails("defect")
               \/ TurnInterrupted)

Scheduling == BeginDelivery \/ OfferRun \/ EndDelivery \/ StartGrantedTurn

Next ==
  \/ Admission
  \/ OfferSignal
  \/ Control
  \/ TurnFiber
  \/ TurnSurprise
  \/ Scheduling
  \/ (Surprise /\ DeliveryFails)
  \/ \E id \in offered : Grant(id)
  \/ (Surprise /\ Crash /\ UNCHANGED ingress)

Spec == Init /\ [][Next]_vars
\* The runtime keeps scheduling its fibers, turns end, the host delivers its alarm, and the
\* external scheduler answers the requests it received.  Clients and surprises owe nothing.
Fairness ==
  /\ WF_vars(OfferSignal)
  /\ WF_vars(Control)
  /\ WF_vars(TurnFiber)
  /\ WF_vars(BeginDelivery) /\ WF_vars(OfferRun) /\ WF_vars(EndDelivery)
  /\ WF_vars(StartGrantedTurn)
  /\ WF_vars(\E id \in offered : Grant(id))

FairSpec == Spec /\ Fairness

-----------------------------------------------------------------------------
(* Properties.                                                             *)

ExecType == [tag : {"Idle", "Running", "Completed"}, cmd : Cmd \cup {0}, run : Run \cup {0},
             turn : Turn \cup {0}, fiber : Outcomes \cup {"none", "live"}, exited : BOOLEAN]

PlaceType(P) == [at : P, cmd : Cmd \cup {0}, active : Cmd \cup {0}, run : Run \cup {0},
                 msgs : SUBSET Cmd]

\* Positions on the way to a new run, which always have a command to run.
Starting == {"start", "startResume", "defer", "stopRequest", "stopClose", "interruption",
             "closeWaiting"}

\* Every variable keeps its type; a reservation and a position that needs a command have one.
TypeOK ==
  /\ st \in State
  /\ exec \in ExecType
  /\ ctl \in PlaceType(Positions) /\ (ctl.at \in Starting => ctl.cmd # 0)
  /\ grant \in PlaceType({"none", "turn"})
  /\ owed \in BOOLEAN /\ sig \in BOOLEAN /\ wakeup \in BOOLEAN
  /\ delivery \in Nat /\ offered \subseteq Nat \ {0}
  /\ ingress \in Nat /\ surprises \in Nat

\* A session has one run slot: at most one run is open, or one reservation holds the slot,
\* and an open turn belongs to the open run.
OneRunSlot ==
  /\ \A r1, r2 \in OpenRuns(st) : r1 = r2
  /\ \A t1, t2 \in OpenTurns(st) : t1 = t2 /\ st.turn[t1].run \in OpenRuns(st)
  /\ st.req.id # 0 => OpenRuns(st) = {}

\* The control fiber never stops on a live invariant violation, on steers without an owner
\* or on a recovery that did not reach a fixed point.
LoopAlive == ctl.at # "dead"

\* The execution in memory is the one the log says is open, and the control fiber at rest
\* never leaves an open run without an owner.
ExecutionOwned ==
  /\ exec.tag # "Idle" => /\ OpenRuns(st) = {exec.run} /\ exec.cmd \in ActiveCommands(st)
                          /\ exec.cmd \in st.run[exec.run].of
  /\ exec.tag = "Idle" /\ ctl.at \in Ungated /\ grant = NoGrant => OpenRuns(st) = {}

\* The run slot has one holder, and it is the execution that the process knows of.
OneOwnedRun == OneRunSlot /\ ExecutionOwned

\* An undelivered reservation always has the durable wake-up that retries its delivery.
ReservationRetried == st.req.id # 0 /\ ~st.req.delivered => wakeup

\* What is settled stays settled: a command ends once and is not started after it ended, and a
\* consumed message is neither cancelled nor promoted (docs/message-steering.md, invariant 6).
SettledIsFinal ==
  [][\A c \in Cmd :
       /\ st.cmd[c].terminal # "none" => /\ st'.cmd[c].terminal = st.cmd[c].terminal
                                         /\ st'.cmd[c].started = st.cmd[c].started
       /\ st.msg[c].consumed > 0 => /\ st'.msg[c].cancelled = st.msg[c].cancelled
                                    /\ st'.msg[c].disposition = st.msg[c].disposition]_vars

\* A message paused by the user is consumed only by a run that a resume command opened for it.
PausedNeedsResume ==
  [][\A m \in Cmd :
       st.msg[m].paused /\ Unconsumed(st, m) /\ st'.msg[m].consumed > st.msg[m].consumed =>
         \E c \in st'.run[st'.turn[st'.nturn].run].of :
           st'.cmd[c].kind = "resume" /\ m \in st'.cmd[c].targets]_vars

CommandsSettled ==
  \A c \in 1 .. st.ncmd : st.cmd[c].terminal # "none" \/ c \in PausedQueue(st)
MessagesSettled == \A m \in PendingMessages(st) : m \in PausedQueue(st)

\* Nothing that was admitted is forgotten: every command ends, and every message is consumed
\* or cancelled, unless it waits in the paused queue.
EverythingSettles == []<>(CommandsSettled /\ MessagesSettled)
=============================================================================
