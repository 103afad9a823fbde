--------------------------- MODULE TurnExecution ---------------------------
(***************************************************************************)
(* The body of a turn: one inference, the tool calls it decides, and what  *)
(* stops, defects, crashes and recovery make of them                       *)
(* (services/turn-runner.ts, inference-runner.ts, tool-executor.ts,        *)
(* started-boundary-guard.ts, and the parts of session-state.ts that start *)
(* a turn, observe its end, interrupt it and re-invoke its tool calls).    *)
(*                                                                         *)
(* One action is one durable append, or one thing a provider, a handler or *)
(* the owner of the fiber does.  A tool call is named by its turn and by   *)
(* the provider's part; a part that is streamed twice decides one call.    *)
(***************************************************************************)
EXTENDS Integers, Sequences, FiniteSets

CONSTANTS
  Parts,                      \* the tool calls a model may ask for in one turn
  Reinvoked,                  \* those whose tool declares ToolRecovery "reinvoke"
  MaxToolCallsPerRun,
  MaxToolRejectionCorrections,
  MaxToolCallAttempts,
  MaxTurns, MaxCrashes, MaxFaults   \* bounds; a fault is a stop, a defect or a self-interrupt

ASSUME TurnAssumption ==
  /\ IsFiniteSet(Parts)
  /\ Reinvoked \subseteq Parts
  /\ {MaxToolCallsPerRun, MaxToolRejectionCorrections, MaxTurns, MaxCrashes, MaxFaults} \subseteq Nat
  /\ MaxToolCallAttempts \in Nat \ {0}

VARIABLES
  turn,     \* durable: for each turn its run, its inference, what was said, its calls, its end
  run,      \* durable: the last run, and whether it is open
  fiber,    \* the turn fiber: where it is, what it was given, what it has read, how it exits
  work,     \* what the executor of each call is doing: a turn's, or recovery's
  process,  \* "live", "dead" (the control fiber), "down", "reinvoking"
  ran,      \* how often the handler of each call was invoked
  used      \* crashes and faults so far

turnVars == <<turn, run, fiber, work, process, ran, used>>

NoCall == [made |-> "none", attempt |-> 0, end |-> "none"]
NoTurn == [run |-> 0, inference |-> "none", said |-> {}, call |-> [p \in Parts |-> NoCall],
           end |-> "open"]
Undecided == [p \in Parts |-> "none"]
NoFiber == [at |-> "none", decided |-> Undecided, text |-> FALSE,
            remaining |-> 0, corrections |-> 0, ends |-> "none", cut |-> "no", exit |-> "none"]

Calls == (1 .. MaxTurns) \X Parts
Now   == Len(turn)
Call(c) == turn[c[1]].call[c[2]]
Made(c, how) == c[1] <= Now /\ Call(c).made = how

TurnInit ==
  /\ turn = <<>> /\ run = [id |-> 0, open |-> FALSE]
  /\ fiber = NoFiber /\ work = [c \in Calls |-> "none"]
  /\ process = "live" /\ ran = [c \in Calls |-> 0]
  /\ used = [crashes |-> 0, faults |-> 0]

Fault == used.faults < MaxFaults /\ used' = [used EXCEPT !.faults = @ + 1]

-----------------------------------------------------------------------------
(* Starting a turn.                                                        *)

\* remainingToolCallsForRun, remainingToolRejectionCorrectionsForRun: both from the log.
Remaining(limit, spent) == IF limit > spent THEN limit - spent ELSE 0
CallsOf(r, how) == {c \in Calls : Made(c, how) /\ turn[c[1]].run = r}
RejectedTurns(r) == {c[1] : c \in CallsOf(r, "Rejected")}

\* validateToolCallPairing: a committed tool call is followed by its results, which
\* sort behind the last message of their inference.
Paired ==
  \A t \in DOMAIN turn : LET asked == {p \in Parts : turn[t].call[p].made # "none"} IN
    asked # {} =>
      /\ "partial" \notin turn[t].said
      /\ \A p \in asked : turn[t].call[p].made = "Rejected" \/ turn[t].call[p].end # "none"

OpenRun ==
  /\ process = "live" /\ ~run.open /\ fiber.at = "none" /\ Now < MaxTurns
  /\ run' = [id |-> run.id + 1, open |-> TRUE]
  /\ UNCHANGED <<turn, fiber, work, process, ran, used>>

\* Mutant: the budget of a run starts anew with every turn.
StartTurnAfresh ==
  /\ process = "live" /\ run.open /\ fiber.at = "none" /\ Now < MaxTurns
  /\ turn' = Append(turn, [NoTurn EXCEPT !.run = run.id])
  /\ IF Paired
       THEN /\ fiber' = [NoFiber EXCEPT !.at = "starting", !.remaining = MaxToolCallsPerRun,
                           !.corrections = MaxToolRejectionCorrections]
            /\ UNCHANGED process
       ELSE process' = "dead" /\ UNCHANGED fiber
  /\ UNCHANGED <<run, work, ran, used>>

\* startTurn: TurnStarted is appended, then the prompt is built; a transcript that
\* does not pair is a defect of the control fiber.
StartTurn ==
  /\ process = "live" /\ run.open /\ fiber.at = "none" /\ Now < MaxTurns
  /\ turn' = Append(turn, [NoTurn EXCEPT !.run = run.id])
  /\ IF Paired
       THEN /\ fiber' = [NoFiber EXCEPT !.at = "starting",
                 !.remaining = Remaining(MaxToolCallsPerRun, Cardinality(CallsOf(run.id, "Created"))),
                 !.corrections = Remaining(MaxToolRejectionCorrections,
                                           Cardinality(RejectedTurns(run.id)))]
            /\ UNCHANGED process
       ELSE process' = "dead" /\ UNCHANGED fiber
  /\ UNCHANGED <<run, work, ran, used>>

-----------------------------------------------------------------------------
(* The inference.                                                          *)

At(place) == process = "live" /\ fiber.at = place
Inference(end) == [turn EXCEPT ![Now].inference = end]
InferenceStep == UNCHANGED <<run, work, process, ran>>

BeginInference ==
  /\ At("starting")
  /\ turn' = Inference("open") /\ fiber' = [fiber EXCEPT !.at = "streaming"]
  /\ InferenceStep /\ UNCHANGED used

\* upsertDecision: a part that was decided before is decided anew.
Decided(p, decision) == [fiber.decided EXCEPT ![p] = decision]

\* recordTextDelta, recordReasoningDelta
WithText == [fiber EXCEPT !.text = TRUE]

\* A text or reasoning delta; a tool-call part, valid or not.
ReceiveText ==
  /\ At("streaming") /\ ~fiber.text
  /\ fiber' = WithText
  /\ InferenceStep /\ UNCHANGED <<turn, used>>
ReceiveToolCall ==
  /\ At("streaming")
  /\ \E p \in Parts, decision \in {"Created", "Rejected"} :
       fiber' = [fiber EXCEPT !.decided = Decided(p, decision)]
  /\ InferenceStep /\ UNCHANGED <<turn, used>>

\* finalizeInference
Sealed == [p \in Parts |-> [NoCall EXCEPT !.made = fiber.decided[p]]]

\* finish: the assistant message, the decisions and InferenceCompleted in one batch.
Finish ==
  /\ At("streaming")
  /\ LET asked == \E p \in Parts : fiber.decided[p] # "none"
     IN turn' = [Inference("Completed") EXCEPT
                   ![Now].said = IF asked \/ fiber.text THEN {"message"} ELSE {},
                   ![Now].call = Sealed]
  /\ fiber' = [fiber EXCEPT !.at = "sealed", !.decided = Undecided, !.ends = "Completed"]
  /\ InferenceStep /\ UNCHANGED used

\* What a failure or an interruption keeps of the text; tool calls are dropped from it.
FailedInference ==
  [Inference("Failed") EXCEPT ![Now].said = IF fiber.text THEN @ \cup {"partial"} ELSE @]

\* An error part, a provider-executed tool or a stream that ends without a finish part.
FailInference ==
  /\ At("streaming")
  /\ turn' = FailedInference
  /\ fiber' = [fiber EXCEPT !.at = "sealed", !.decided = Undecided, !.ends = "Failed"]
  /\ InferenceStep /\ UNCHANGED used

\* finishTurnAfterInference, up to its first append.
Created  == {p \in Parts : turn[Now].call[p].made = "Created"}
Rejected == {p \in Parts : turn[Now].call[p].made = "Rejected"}
TurnEnd  == IF fiber.ends = "Completed" /\ Rejected # {} /\ fiber.corrections = 0
              THEN "Failed" ELSE fiber.ends

StreamEnds ==
  /\ At("sealed") /\ fiber.cut = "no"
  /\ fiber' = IF Created = {} THEN [fiber EXCEPT !.at = "ending", !.ends = TurnEnd]
              ELSE IF Cardinality(Created) > fiber.remaining THEN [fiber EXCEPT !.at = "refusing"]
              ELSE [fiber EXCEPT !.at = "tools"]
  /\ work' = IF fiber'.at # "tools" THEN work
             ELSE [c \in Calls |-> IF c[1] = Now /\ c[2] \in Created THEN "queued" ELSE work[c]]
  /\ UNCHANGED <<turn, run, process, ran, used>>

\* The stream dies of a defect, after the finish part too: release, then TurnFailed.
StreamBreaks ==
  /\ fiber.at \in {"streaming", "sealed"} /\ process = "live" /\ fiber.cut = "no" /\ Fault
  /\ turn' = FailedInference
  /\ fiber' = [NoFiber EXCEPT !.at = "ending", !.ends = "defect"]
  /\ InferenceStep

-----------------------------------------------------------------------------
(* Tool calls, of a turn or of recovery.                                   *)

Executing == (At("tools") \/ process = "reinvoking")
Halting   == fiber.cut # "no"
WithCall(c, call) == [turn EXCEPT ![c[1]].call[c[2]] = call]
Does(c, next) == work' = [work EXCEPT ![c] = next]
ToolStep == UNCHANGED <<run, process>>

\* Interrupted before it began, a call may still reach its start.
StartTool(c) ==
  /\ Executing /\ work[c] = "queued"
  /\ turn' = WithCall(c, [Call(c) EXCEPT !.attempt = @ + 1]) /\ Does(c, "started")
  /\ ToolStep /\ UNCHANGED <<fiber, ran, used>>

InvokeHandler(c) ==
  /\ Executing /\ work[c] = "started" /\ ~Halting
  /\ ran' = [ran EXCEPT ![c] = @ + 1] /\ Does(c, "running")
  /\ ToolStep /\ UNCHANGED <<turn, fiber, used>>

\* The handler answers, fails or dies; the append of its outcome is on its way.
HandlerEnds(c) ==
  /\ Executing /\ work[c] = "running" /\ Does(c, "answered")
  /\ ToolStep /\ UNCHANGED <<turn, fiber, ran, used>>

\* An interruption that arrived meanwhile is noticed when the append returns.
AppendOutcome(c) ==
  /\ Executing /\ work[c] = "answered"
  /\ \E how \in {"Completed", "Failed"} : turn' = WithCall(c, [Call(c) EXCEPT !.end = how])
  /\ Does(c, IF Halting THEN "overruled" ELSE "done")
  /\ ToolStep /\ UNCHANGED <<fiber, ran, used>>

\* Mutant: an interrupted call leaves no terminal.
HaltToolSilently(c) ==
  /\ Executing /\ Halting /\ work[c] \in {"started", "running", "answered", "overruled"}
  /\ Does(c, "done")
  /\ ToolStep /\ UNCHANGED <<turn, fiber, ran, used>>

\* The guard's release: a ToolCallFailed, over an outcome already appended as well.
HaltTool(c) ==
  /\ Executing /\ Halting /\ work[c] \in {"started", "running", "answered", "overruled"}
  /\ turn' = WithCall(c, [Call(c) EXCEPT !.end = "Failed"]) /\ Does(c, "done")
  /\ ToolStep /\ UNCHANGED <<fiber, ran, used>>

\* A handler that interrupts itself takes its siblings with it.
InterruptItself(c) ==
  /\ Executing /\ work[c] = "running" /\ ~Halting /\ Fault
  /\ turn' = WithCall(c, [Call(c) EXCEPT !.end = "Failed"]) /\ Does(c, "done")
  /\ fiber' = [fiber EXCEPT !.cut = "self"]
  /\ ToolStep /\ UNCHANGED ran

Settled(states) == \A c \in Calls : work[c] \in {"none", "done"} \cup states

ToolsDone ==
  /\ At("tools") /\ ~Halting /\ Settled({})
  /\ fiber' = [fiber EXCEPT !.at = "ending", !.ends = TurnEnd]
  /\ UNCHANGED <<turn, run, work, process, ran, used>>

\* failUnexecutedToolCalls
RefuseTools ==
  /\ At("refusing")
  /\ turn' = [turn EXCEPT ![Now].call = [p \in Parts |->
                IF p \in Created THEN [@[p] EXCEPT !.end = "Failed"] ELSE @[p]]]
  /\ fiber' = [fiber EXCEPT !.at = "ending", !.ends = "Failed"]
  /\ UNCHANGED <<run, work, process, ran, used>>

-----------------------------------------------------------------------------
(* The end of the fiber.                                                   *)

\* The turn's terminal.  After a defect it is appended uninterruptibly.
EndTurn ==
  /\ At("ending")
  /\ turn' = [turn EXCEPT ![Now].end = IF fiber.ends = "Completed" THEN "Completed" ELSE "Failed"]
  /\ fiber' = [NoFiber EXCEPT !.at = "exited", !.cut = fiber.cut,
       !.exit = IF fiber.ends = "defect" THEN "defect"
                ELSE IF Halting THEN "interrupted"
                ELSE IF fiber.ends = "Completed" THEN "ok" ELSE "failed"]
  /\ UNCHANGED <<run, work, process, ran, used>>

\* Interrupted: the inference's release, failRemainingOpen, or nothing at all.
HaltTurn ==
  /\ process = "live" /\ Halting
  /\ \/ fiber.at \in {"streaming", "sealed"} /\ turn' = FailedInference
     \/ /\ fiber.at = "tools" /\ Settled({"queued"})
        /\ turn' = [turn EXCEPT ![Now].call = [p \in Parts |->
              IF work[<<Now, p>>] = "queued" THEN [@[p] EXCEPT !.end = "Failed"] ELSE @[p]]]
     \/ fiber.at \in {"starting", "refusing", "ending"} /\ fiber.ends # "defect" /\ UNCHANGED turn
  /\ fiber' = [NoFiber EXCEPT !.at = "exited", !.cut = fiber.cut, !.exit = "interrupted"]
  /\ UNCHANGED <<run, work, process, ran, used>>

\* stopActiveCommand and an interrupting submission close the turn's scope, and wait;
\* stopCompletedCommand finds the fiber at its end.
Stop ==
  /\ process = "live" /\ fiber.at # "none" /\ fiber.cut # "user" /\ Fault
  /\ fiber' = [fiber EXCEPT !.cut = "user"]
  /\ UNCHANGED <<turn, run, work, process, ran>>

-----------------------------------------------------------------------------
(* The control fiber.                                                      *)

Closing == [turn EXCEPT ![Now].end = IF @ = "open" THEN "Failed" ELSE @]
Released == fiber' = NoFiber /\ work' = [c \in Calls |-> "none"]

\* decideRunContinuation: a turn with feedback for the model is followed by another.
FeedbackReady ==
  Rejected # {} \/ \E p \in Created : turn[Now].call[p].end # "none"

\* Mutant: a fiber that interrupted itself leaves its turn open.
ObserveExitOnly ==
  /\ At("exited") /\ Released
  /\ IF fiber.exit = "ok" /\ fiber.cut = "no"
       THEN /\ \/ UNCHANGED run
               \/ ~FeedbackReady /\ run' = [run EXCEPT !.open = FALSE]
            /\ UNCHANGED turn
       ELSE /\ turn' = IF fiber.cut = "user" THEN Closing ELSE turn
            /\ run' = [run EXCEPT !.open = FALSE]
  /\ UNCHANGED <<process, ran, used>>

\* inspectExecutionState and continueOrFinishRunAfterTurn, or the rest of the stop:
\* an interruption closes the turn it left open and fails the run; so does a failure.
\* Without feedback the run ends, unless steering messages continue it.
ObserveExit ==
  /\ At("exited") /\ Released
  /\ IF fiber.exit = "ok" /\ fiber.cut = "no"
       THEN /\ \/ UNCHANGED run
               \/ ~FeedbackReady /\ run' = [run EXCEPT !.open = FALSE]
            /\ UNCHANGED turn
       ELSE /\ turn' = IF fiber.exit = "interrupted" \/ fiber.cut = "user" THEN Closing ELSE turn
            /\ run' = [run EXCEPT !.open = FALSE]
  /\ UNCHANGED <<process, ran, used>>

-----------------------------------------------------------------------------
(* Crash and recovery.                                                     *)

Crash ==
  /\ process # "down" /\ used.crashes < MaxCrashes
  /\ used' = [used EXCEPT !.crashes = @ + 1]
  /\ process' = "down" /\ Released
  /\ UNCHANGED <<turn, run, ran>>

\* Mutant: an attempt more than there are.
PlannedOnceMore ==
  {c \in Calls : /\ Made(c, "Created") /\ Call(c).end = "none" /\ c[2] \in Reinvoked
                 /\ Call(c).attempt # 0 /\ Call(c).attempt <= MaxToolCallAttempts}

\* plannedReinvocations: started, still open, and attempts left.
Planned ==
  {c \in Calls : /\ Made(c, "Created") /\ Call(c).end = "none" /\ c[2] \in Reinvoked
                 /\ Call(c).attempt # 0 /\ Call(c).attempt + 1 <= MaxToolCallAttempts}

\* recoverSession: one batch closes every open call, inference, turn and run.
Repaired ==
  [t \in DOMAIN turn |-> [turn[t] EXCEPT
     !.call = [p \in Parts |-> IF @[p].made = "Created" /\ @[p].end = "none"
                                 THEN [@[p] EXCEPT !.end = "Failed"] ELSE @[p]],
     !.inference = IF @ = "open" THEN "Failed" ELSE @,
     !.end = IF @ = "open" THEN "Failed" ELSE @]]
Recover ==
  /\ turn' = Repaired /\ run' = [run EXCEPT !.open = FALSE] /\ process' = "live"
  /\ Released /\ UNCHANGED <<ran, used>>

\* Startup recovers at once, or re-invokes in the background and recovers then.
RecoverAtOnce == process = "down" /\ Planned = {} /\ Recover
Reinvoke ==
  /\ process = "down" /\ Planned # {}
  /\ process' = "reinvoking"
  /\ work' = [c \in Calls |-> IF c \in Planned THEN "queued" ELSE "none"]
  /\ UNCHANGED <<turn, run, fiber, ran, used>>
RecoverAfterwards ==
  process = "reinvoking" /\ ~Halting /\ Settled({}) /\ Recover

\* A re-invoked handler that interrupts itself fails the background recovery for good.
RecoveryDies ==
  /\ process = "reinvoking" /\ Halting /\ Settled({"queued"})
  /\ process' = "dead" /\ Released
  /\ UNCHANGED <<turn, run, ran, used>>

-----------------------------------------------------------------------------
ToolCalls == \E c \in Calls :
  \/ StartTool(c) \/ InvokeHandler(c) \/ HandlerEnds(c) \/ AppendOutcome(c)
  \/ HaltTool(c) \/ InterruptItself(c)

TurnNext ==
  \/ OpenRun \/ StartTurn
  \/ BeginInference \/ ReceiveText \/ ReceiveToolCall \/ Finish \/ FailInference
  \/ StreamEnds \/ StreamBreaks
  \/ ToolCalls \/ ToolsDone \/ RefuseTools
  \/ EndTurn \/ HaltTurn \/ Stop \/ ObserveExit
  \/ Crash \/ RecoverAtOnce \/ Reinvoke \/ RecoverAfterwards \/ RecoveryDies

TurnSpec == TurnInit /\ [][TurnNext]_turnVars

-----------------------------------------------------------------------------
(* Properties. *)

\* Over any turns and crashes, tools stay within their limits: a run never starts more calls
\* than its budget, never completes more turns with rejected calls than it has corrections
\* (turn-runner.ts against the counts startTurn takes from the log), and the handler of a call is
\* invoked at most as often as its policy allows, each time with the log knowing of it before
\* (plannedReinvocations, executeCreated).
ToolLimitsKept ==
  /\ \A r \in 1 .. run.id :
       /\ Cardinality({c \in CallsOf(r, "Created") : Call(c).attempt > 0}) <= MaxToolCallsPerRun
       /\ Cardinality({t \in RejectedTurns(r) : turn[t].end = "Completed"})
            <= MaxToolRejectionCorrections
  /\ \A c \in Calls : ran[c] > 0 =>
       /\ ran[c] <= Call(c).attempt
       /\ ran[c] <= IF c[2] \in Reinvoked THEN MaxToolCallAttempts ELSE 1

\* docs/spec.md, rule 7: between turns of a live process, after stops, defects and
\* recoveries, everything that was started has a terminal.
StartedAreClosed ==
  process = "live" /\ fiber.at = "none" =>
    \A t \in DOMAIN turn :
      /\ turn[t].end # "open" /\ turn[t].inference # "open"
      /\ \A p \in Parts : turn[t].call[p].attempt > 0 => turn[t].call[p].end # "none"

\* The turn and its owner implement what SessionControl assumes of a turn fiber.
FiberStatus ==
  CASE fiber.at = "none" \/ process # "live" -> "none"
    [] fiber.at = "exited" /\ process = "live" -> fiber.exit
    [] fiber.at \notin {"none", "exited"} /\ process = "live" -> "live"
Contract == INSTANCE TurnContract WITH ends <- [t \in DOMAIN turn |-> turn[t].end],
                                       fiber <- FiberStatus
TurnImplemented == Contract!ContractSpec
=============================================================================
