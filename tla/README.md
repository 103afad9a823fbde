# Formal model of effect-durable-agent

`effect-durable-agent` runs one agent session per durable object. A session is a
durable, append-only event log; everything else is either folded from the log
or lost with the process. Clients admit commands into the log, one control fiber
turns them into runs and turns, and a crash at any point is repaired from the log
alone. This directory holds TLA+ models of that machinery, TLC configurations
that check them on small instances, and TLAPS proofs for all sizes.

    tlc -config local_safety.cfg MCSession.tla      # a run
    tlc -config windows.cfg MCSockets.tla           # the modules are in section 3
    tlapm SessionControlProofs.tla                  # a proof module

Paths below are relative to `src/packages/effect-durable-agent/src/` (the core)
or, marked *host*, `src/packages/effect-durable-agent-cloudflare/src/`.

## 1. Inventory

| Part | State | Operations | Hard because |
| --- | --- | --- | --- |
| Reduced state, command queues (`domain/reduced-state.ts`, `command-queues.ts`) | commands, messages, runs, turns, stop requests, the current reservation | one fold per durable event; derived queues | folds must be total: recovery, retries and late admissions produce unusual orders |
| Policies (`domain/*-policy.ts`, `run-scheduling.ts`) | none | `decideDispatch`, `decideRunContinuation`, `planRunFailure`, `planUserInterruption`, `canGrantRun`, `planRunSchedulingCancellation`, `planSessionRecovery` | priorities interact; every path that ends a run must leave its steers an owner |
| Control plane (`services/session-state.ts`) | `executionState`, `ingressSignals`, three gates, the log | `submitBatch`, the drain loop, `startTurn`, `stopActiveCommand`, `cancelPendingMessage`, `grantRun`, delivery, `recoverSession` | admission interleaves with a decision and its append; crashes between appends; stale reads |
| Run scheduling (`services/run-scheduler.ts`, `run-scheduling-wakeup.ts`) | the host's alarm; the scheduler's own queue | `resolve`, `deliver`, `grantRun` | at-least-once delivery, late and duplicated grants |
| Turn execution (`services/turn-runner.ts`, `inference-runner.ts`, `tool-executor.ts`, `domain/inference-state.ts`) | the inference and tool calls of one turn | inference, tool calls, budgets, corrections, re-invocation after a crash | partial failure of concurrent tools; a stop between the last part and the end of the stream; limits counted over turns and restarts |
| Session log, live bus, queries (`session-store.ts`, `live-event-bus.ts`, `session-query.ts`, `reducer-registry.ts`) | the log, checkpoints, subscribers, replay of the active turn | append, publish, `eventsAfter`, hydrate | fold and publication after the commit, a seam between replay and live |
| Durable sinks (`sink-registry.ts`, `sink-inbox.ts`) | a cursor per sink, an inbox | drain, stage, checkpoint | at-least-once, staged events before the cursor, a bounded inbox |
| Compaction and prompts (`services/compaction.ts`, `prompt-projector.ts`, `domain/message-transcript.ts`, `context-projection.ts`) | open and committed compactions, the context's summary and cut | start, commit, fail at a turn boundary or by command; project a prompt | planned on a snapshot, committed after a model call; calls, results and messages are cut at different positions |
| WebSocket delivery (`websocket/delivery.ts`, *host* `websocket/connection-manager.ts`) | frames in flight, acknowledged seq, suppressed receipts, buffered ephemerals | deliver, acknowledge, suppress, restore, lag | cumulative acknowledgements mixed with exact receipts; hibernation loses buffers |
| Transcript (`transcript/`, *host* `durable-object-transcript*.ts`, `websocket/transcript-sockets.ts`; `websocket/transcript-*.ts`) | stored versions of a derived read model, the builder's lease; a subscription per socket, an accumulator of live content | interpret, maintain on append, build in slices, activate, freeze; window reads, patches, transfers | two writers of one version over releases and rollbacks; a window is read before its commit is published |
| Host alarms, keep-alive (*host* `durable-object-alarm*.ts`, `durable-object-keepalive.ts`) | recorded wake-ups, one platform alarm, leases | `setRunSchedulingPending`, `runEDASessionAlarm`, `sync` | two owners of one alarm, a crash inside the handler |
| Object and runtime lifecycle (*host* `durable-object.ts`, `session-controller.ts`, `runtime/`) | the loaded runtime | activate, reset, shut down | concurrent activations and resets |
| Store (*host* `durable-object-store.ts`) | SQL tables: the log, rows beside it that hold bodies and indices, checkpoints | append, page, look up an admission, decode | a body lives in a row that a later event may overwrite |
| Providers, RPC, tracing, ids, examples, test kits | nothing | I/O, construction of events | not modelled |

The parts meet in few places. Every change goes through the append gate of
`session-state.ts`, which commits to the store, folds, publishes on the live bus
and notifies the sinks. The control fiber reads the folded state. The turn fiber
appends its own events and reports only by exiting. The external scheduler is
called with a reservation and calls back `grantRun`. The host owns the alarm that
keeps all of this alive.

What makes the system correct: one run at a time; a log that always says
what the process was doing; no admitted command or message forgotten; an outcome
never undone; what the user paused, cancelled or stopped stays so; a
reservation that is retried until it is delivered; a reader who misses and
repeats nothing. `PROJECT.json` lists the hazards, each at its line.

## 2. Modules

| Module | Models | Kind |
| --- | --- | --- |
| `ReducedState` | the folded state, the fold of each durable event, the derived queues | operators |
| `StateCheckpoint` | the checkpoint codec of that state: bodies dropped, read back through positions, the tail folded | state machine |
| `SchedulingPolicy` | the pure decisions, on that state | operators |
| `SessionControl` | the control plane, the turn fiber as its owner sees it, the scheduler, crashes | state machine |
| `TurnContract` | what the control plane relies on about a turn | abstract specification |
| `TurnExecution` | the body of a turn: inference, tool calls, stops, defects, crashes, re-invocation | state machine, implements `TurnContract` |
| `ContextCompaction` | prompts, and the compaction of the context they are projected from | state machine |
| `EventStore` | the SQL log and the rows beside it | operators |
| `EventStream` | what a log promises its followers and its clients | abstract specification |
| `SessionLog` | the append gate, folds, live bus, readers, checkpoints, repeated submissions | state machine, implements `EventStream` |
| `SinkRunners` | the sinks, on `SessionLog` | state machine, composed |
| `HostAlarm` | the one platform alarm, keep-alive, the alarm handler, the life of the object | state machine |
| `DeliveryWindow` | the pure delivery machine of one event socket | operators |
| `WebSocketDelivery` | the connection manager that interprets it, the runtime's build and publications, hibernation, an honest client | state machine |
| `TranscriptBuilder` | the stored versions of a transcript over appends, slices, releases and failures | state machine |
| `TranscriptWindows` | the projection, windows of it, subscriptions and patches | operators |
| `TranscriptSockets` | a transcript socket from commit to client, on `TranscriptWindows` | state machine |
| `MCSession` `MCTurn` `MCCompaction` `MCLog` `MCSinks` `MCAlarms` `MCTranscript` `MCSockets` | small instances | TLC instances |
| `SessionControlProofs` | every fold and every plan keeps the state well formed: `TypeOK`, `ReservationRetried`; the slot invariant: `OneOwnedRun`, `SettledIsFinal`, `PausedNeedsResume` | proofs |
| `LoopProofs` | the owners invariant: `LoopAlive` | proofs |
| `TurnExecutionProofs` | the turn invariant: `StartedAreClosed`, `ToolLimitsKept`, `TurnImplemented` | proofs |
| `HostAlarmProofs` | the host invariant: `WorkIsScheduled`, `NoWakeupPostponed` | proofs |
| `LogAndSinkProofs` | the invariants of the log, of its stream and of the sinks: `FoldIsLog`, `LogReadable`, `EventsOrdered`, `AtLeastOnce`, `SinkStateExact` | proofs |
| `WebSocketDeliveryProofs` | the delivery invariant: `FrameAccounting`, `HonestClientKept`, `NothingSkipped`, `NothingLeftBehind` | proofs |
| `TranscriptBuilderProofs` | the builder invariant: `RowsAreThePrefix`, `PendingIsScheduled`, `ServedNeverRegresses` | proofs |
| `ContextCompactionProofs` | the context's invariant: `NothingForgotten`, `PromptsPaired`, `PrefixesKept` | proofs |

The models meet where the code does. `SessionControl` takes a turn to be a fiber
that ends in one of four ways; `TurnContract` says so and `TurnExecution`
implements it. It takes the wake-up of a reservation to survive; `HostAlarm` is
that wake-up. It takes an append to be atomic and its fold exact; `SessionLog` is
that append, and `EventStream` what is left of it for everyone else. `SessionLog` in
turn takes a checkpoint to be the fold it was made of; `StateCheckpoint` is that.
`WebSocketDelivery` and `TranscriptSockets` are two followers of the stream,
`SinkRunners` a third, composed with it state by state because a sink appends too.

### State and code

`ReducedState.State` is the part of `ReducedState` that scheduling reads. A
message has the number of its command (a `SubmitMessage` has one message) and
command numbers are admission order, so `admittedSeq` needs no variable. `at` is
the effective position, which a promotion renews. `consumed` counts the
`TurnStarted` events that list the message: the code keeps only the last one, and
the count is what lets a property ask whether there was more than one. `"Failed"`
as the status of a run or turn stands for failed, interrupted and stopped, which
no decision tells apart.

`SessionControl` has these variables:

| Variable | Code |
| --- | --- |
| `st` | the durable log, folded. Survives a crash |
| `exec` | `executionState`, with the turn fiber's fate (`fiber`, `exited`) before the control fiber has polled it |
| `ctl` | where the control fiber is between two appends, and the snapshot it decided on |
| `owed`, `sig` | an admission committed and its `wakeAfterCommandAdmission` not yet done; `ingressSignals`, a sliding queue of one |
| `grant` | a `grantRun` between `RunStarted` and `startTurn`, holding the control gate |
| `delivery`, `wakeup`, `offered` | the delivery in progress, the durable alarm, and what the external scheduler has received |
| `ingress`, `surprises` | how much of the two bounds is used |

One action is one store append with the in-memory changes next to it. When the
code decides on a snapshot and appends later, the decision is an action of its
own, and an admission, the turn fiber, or a crash may come between. The controls
that `startedBoundaryGuard` brackets are two appends: `CommandStarted`, then their
effect. `Hydrate` is the construction of a runtime, `Recover` is
`recoverSession`'s one batch with its fixed-point check, and a crash
(`Crash`) clears every variable but `st`, `wakeup` and `offered`.

`Deferred` is `RunScheduler.resolve`: FALSE answers "now", TRUE asks for external
permission. An admission takes neither the control gate nor the drain's snapshot,
so it interleaves with everything but recovery (`admissionGate`).

`DeliveryWindow` has one operator per function of `websocket/delivery.ts`; each
answers the new delivery state and the actions the host must interpret.
`WebSocketDelivery` interprets them:

| Variable | Code |
| --- | --- |
| `log`, `unpublished` | the committed events, TRUE where the projection hides one; what `publishFreshDurables` still has to publish, under the append gate |
| `runtime` | `EDASessionRuntime`: nothing, one build that every caller waits for, or ready (`isReady`) |
| `socket` | `EventWebSocketState`: the delivery state `d`, `head`, `deferred` (`catchUpDeferred`); `saved` is the attachment; `held` is membership of `this.sockets`, which hibernation empties; `from` is the `afterSeq` of the connection; `overdue` is the last frame whose deadline has passed |
| `ops`, `running`, `todo` | `state.queue`, the promise chain; the operation that runs; the actions it has not interpreted. A nested `interpret` puts its actions in front |
| `wire`, `acks` | frames sent and not applied, in order; acknowledgements. They reach the queue in any order, because each waits for `prepare` first |
| `client` | the frame and cursor it applied, the last frame it acknowledged, the durable events it saw |

Receipts in flight and suppressed ranges are sets, ordered by their frame numbers as
the code's arrays are. A batch collects what its hidden frames ask for: sends and closes in
order (`follow`), and the cursors of page reads (`reads`), of which `coalesceFollowUpActions`
keeps the furthest. Every `await` of an operation is a step boundary, so commits, acknowledgements, further
publications and the platform come between. A publication waits for the
operations it queued (`Promise.all`), and the append gate is held meanwhile: that is
`GateFree`, and what makes a blocked operation block the session.

`TurnExecution` follows one session over several turns. A tool call is named by its
turn and by the provider's part (a part that is streamed twice decides one
call). `turn` and `run` are the log, folded; `fiber` is the turn fiber with what
`startTurn` gave it (`remaining`, `corrections`) and the interruption on its way (`cut`); `work` is
what the executor of each call does, a turn's or the recovery's; `process` is
live, has lost its control fiber (`dead`), is down, or re-invokes in the background;
`ran` counts the invocations of each handler.

In the log, a fold is stood for by the sequence of event ids folded, so that "the
fold is exact" can be said without reducers. A position is `<<seq, sub>>`, as in the
code. `gate` says what the holder of the append gate still has to do: commit, fold,
announce to the bus, deliver to subscribers, tell the sinks. A reader goes
through the stages of `eventsAfter`: subscribed, head read, pages replayed, ephemerals
of the open turn read, merged, following. In `SinkRunners`, `row` is the durable
cursor with the sink's own state in one row, `inbox` what `sink-inbox.ts` holds,
`runner` the fiber of `runLoop`, and `past` records what each sink was called with.

In `StateCheckpoint` a record has a field only when the code's has, because the codec
spreads what it saved over what it reads back; a body is named by the position of the
event that carried it, wherever the code keeps `content`, `command`, `params`, `result`
or a prompt part. The log is any sequence in which identities are minted once and
nothing is answered before it exists: a superset of what the control plane appends.

In `HostAlarm` the recorded wake-ups (`row`, `failures`) and the platform's alarm
(`platform`) are durable, `keep` (`durable-object-keepalive.ts`), `runtime`, `doing` and `handler`
are memory. `strikes` counts failed builder alarms independently of the code's own
count, and `doomed` remembers a destruction under way; both only serve the properties.

A version of the transcript is a slot `[version, role, cursor, rows, ok, failures]`.
An event projects to one row, named by its position, which is enough to see an event
applied twice, skipped or out of order. `Refuses` are the events that a version's
projection throws on, `Undecodable` those a release cannot read. `announced` says
whether the last step told connected clients to read again.

What the model sees of a context is a sequence of items: a user's message, an
answer or a tool result, named by the position that brought it into the log. In
`ContextCompaction` the sizes are left open: `Plans` is every plan that some sizes
give. `context` has the version, the cut and the items that reached the current
summary; `told` is everything the model was sent or has produced.

In `TranscriptWindows` a record is named by the event that created it and stands at
the event that made it history. `TranscriptSockets` has the log with the
projection of every cut, the version served (a frozen one is degraded), how far
publication is, the accumulator of live content (`active`), the delivery and volatile state of one
socket, the operation that runs, the cadence timer, the wire in both directions and
the reference client. `socket.withheld` is a history variable: the revision of the
live content that went out empty.

### What the models leave out

- **Control plane.** Compaction at the boundary, inferences and tool calls inside a
  turn (they have modules of their own), legacy `Steering` messages and their
  `targetRunId`, the idempotent retry of an admission (`SessionLog`), and the terminals that
  a graceful shutdown writes through `startedBoundaryGuard`'s `onInterrupt` (a shutdown
  is treated as a crash, the stronger case). A bare `ResumePendingMessages` is not
  client ingress (`src/docs/spec.md:105`): the model has the resumes the runtime makes
  and the documented `[StopTurn, ResumePendingMessages]` batch. Startup with
  interrupted tool calls recovers in the background; admissions while
  `ctl.at = "boot"` are that case. `recoverSession` sets the alarm and appends its batch;
  the model does both at once, because a crash in between leaves an alarm without a
  reservation, which `SetWakeup` and `Defer` explore on the other path to a reservation and
  `Hydrate` resets. The decision to fail a run after a completed turn (`FailRun`,
  `run-continuation-policy.ts:44`) is no outcome of `Continuation`: the turn fiber makes the same check
  first and fails, and a failed fiber closes its run the same way.
- **Turns.** Text, arguments and results have no content. A turn makes one
  inference, as in the code. The owner of an interrupted fiber closes its turn and
  then its run; `ObserveExit` does both, `SessionControl` has them apart. Which
  messages a turn consumes is `SessionControl`'s.
- **Compaction.** Sizes, rendering, usage accounting; the interrupting submission (a
  stop and a submission). A summariser keeps what it is given. The steers that a
  recovered run was resumed for are completed by the drain that follows. A response
  asks for one call at most. A turn that ends closes its tool calls; the exception is
  `TurnExecution`'s (section 3).
- **Checkpoints.** Records that are saved as they are (runs, turns, inferences, stop
  requests, compactions, usage), the queues, which are derived anew, and timings.
  Another schema version means an empty start, which is in `SessionLog`.
- **Log and store.** Columns, encodings, the projections only listings read;
  `runRequestOutcome`, a pure query; the in-memory store. A refused transaction is chosen
  freely, as is a body that no longer decodes.
- **Sinks.** A callback stages a note, saves a state, fails or dies of a defect.
- **Alarms.** The alarm is not delivered before the earliest recorded wake-up, and a
  session is not destroyed while its runtime is being built (both below). A destruction
  counts against `MaxCrashes`. What one turn of the event loop writes is committed
  together, which is what the platform promises: hence no crash between the end of a recovery and
  the delivery it forks.
- **Event sockets.** Transcript sockets and pings, attachments and messages that do
  not decode, oversized frames and failing sends (all of which close the socket,
  as `Disconnect` does), the wording of lagged and error frames, several sockets
  (each has its own queue; a publication waits for all). Frames carry one event, the
  only policy in the code (`maxFrameEvents: 1`); a projection's own state is left
  out, it only says which events are hidden.
- **Builder.** The content of rows; the size limits of a slice are counts.
- **Windows and sockets.** Record bodies and body references, application
  mappings, run groups and compaction markers, `hasOlder`, records too large for a
  frame, `destroySession`, hello and ping, failing sends. A store read is
  synchronous, but reading and serving are two steps and a page's two reads are apart; what a newer
  page evicts (`evictOldest`) is looked up with the first of them, since settled records never change order. An honest client
  never has more requests than `MaxPendingRequests`. A frame may wait on the wire past any drain.
  An object hibernates only when nothing streams, is queued or timed. One message
  waits at a time.

## 3. Runs

`CHECK_DEADLOCK FALSE` everywhere: a quiescent session waits for its next client
for ever, and the bounds end a trace as well.

### The control plane (`MCSession`)

| Run | Bounds (batches/surprises; commands, runs, turns) | Checks |
| --- | --- | --- |
| `local_safety` | 3/1; 6, 5, 5; submit, steer, interrupt, cancel, stop and resume | `OneOwnedRun` `LoopAlive` `SettledIsFinal` `PausedNeedsResume` |
| `local_liveness` | 2/1; 5, 5, 5; every operation; fair | `EverythingSettles` |
| `deferred` | 3/1; 6, 5, 5; submit, stop, cancel; permission; fair | `TypeOK` `OneOwnedRun` `ReservationRetried` `EverythingSettles` |

A *surprise* is a crash, a turn that fails, dies, is interrupted or needs another
turn, or a delivery that fails. Three batches are what the interesting orders
need: a message that runs, one that waits for it, and a control on either. One
surprise makes every append the last one before a crash. Promotions and bare stops,
which `local_safety` does not offer, meet every other operation in the two batches
of `local_liveness`. The bounds on commands, runs and turns stay above what
batches and surprises can use up; they guard the actions that allocate, and the
proofs hold for all of them. `deferred` offers only queued work and what a user does
to it, because `EverythingSettles` is false of the rest (below).

### Turns and the context

| Run | Bounds | Checks |
| --- | --- | --- |
| `turn` (`MCTurn`) | two calls a turn, one re-invoked; budget 2, one correction, two attempts; 2 turns, 2 crashes, 1 fault | `ToolLimitsKept` `StartedAreClosed` `TurnImplemented` |
| `compaction` (`MCCompaction`) | 2 submissions, 2 turns, 2 compactions, 1 control, 1 crash; three pairings of policy and executor | `NothingForgotten` `PromptsPaired` `PrefixesKept` |

A fault is a stop, a defect of the stream or a handler that interrupts itself. A
budget of two is spent by one turn and overdrawn by the next; the second crash is what
distinguishes two attempts from one more (the code allows three; the count is a
constant). Two compactions are the smallest chain; a second submission is what can be consumed
out of order. The pairings are a tail with an executor that reads messages (the built-in one), and
`last-response` and "nothing" with one that reads the prompt (`compaction.test.ts`, the
providers' native compaction); the theorems hold for every pairing.

### Log, sinks, alarms

| Run | Bounds | Checks |
| --- | --- | --- |
| `log` (`MCLog`) | two commands that share a key, apart or in one batch; three engine batches; an append starts from at most 2 events; 2 ephemerals, 2 crashes or failures; pages of 2, a replay of 2, a checkpoint; beside it the codec: a command, a message, a tool call, logs of 4 events, any number of checkpoints and restarts | `FoldIsLog` `EventsOrdered` `LogReadable` `HydrationIsReplay` `StreamImplemented` |
| `sinks` (`MCSinks`) | one projected, staging, hearing sink; batches of 2, an inbox of 1; 1 save, 2 ephemerals, 1 crash; two reducer versions, a checkpoint | `AtLeastOnce` `SinkStateExact` `LaneExact` `CaughtUp` |
| `alarms` (`MCAlarms`) | a heartbeat of 1, 1 platform retry, 2 builder failures, a backlog of 2 slices; time 2, 1 crash, 3 faults | `WorkIsScheduled` `NoWakeupPostponed` |

A log of two events plus a batch of two spans two pages and a turn with its
ephemerals before, inside and after the seam. Two ephemerals overflow an inbox of
one; a sink's own note is an event it is not interested in, and one that it is comes
before or after it. Sinks share nothing but the log, so one is enough. A history of
`log` is one of the log or one of the codec, which need nothing of each other. Four events make,
change, prune and revive a record (a message submitted, paused, promoted and rebased; a call
created, started, started again and answered), with a checkpoint between any two, and
records never read each other: one of each kind is enough. In `alarms` two
time steps are a heartbeat and the retry after it, three faults the builder's limit and one more.

### Readers

| Run | Bounds | Checks |
| --- | --- | --- |
| `projected_delivery` (`WebSocketDelivery`) | window 2, buffer 1; 2 durable, 2 ephemeral, 1 surprise; any event may be hidden | `NothingSkipped` `FrameAccounting` `HonestClientKept` `NothingLeftBehind` |
| `raw_delivery` (`WebSocketDelivery`) | window 1, buffer 1; 2 durable, 2 ephemeral, 1 surprise; nothing hidden; fair | `CatchesUp` `PublicationsReturn` |
| `transcript` (`MCTranscript`) | two releases and a rollback; 4 events, 3 starts, 2 faults; slices of 2 events, 2 failures | `RowsAreThePrefix` `PendingIsScheduled` `ServedNeverRegresses` `ChangesAnnounced` |
| `windows` (`MCSockets`) | windows of 2 records, 4 with dependencies; 2 frames in flight, 3 records a frame; a log of 6 events, 2 more commits; of deltas, requests and faults at most one each and two in all | `HoldsACompleteCut` `LiveIsOfTheCut` `NothingOwed` `HonestSocketKept` |

For an event socket a surprise is a hibernation, a crash, a disconnect, a deadline
that passes or a build that fails. A window of two is the smallest where
frames in flight can be acknowledged separately and a hidden frame can lie between two
visible ones; a buffer of one overflows at the second ephemeral event; two durable
events make a batch, and, with ephemeral ones in the window, a gap that only the
log can fill. The histories of `projected_delivery` in which nothing is hidden are
those of a raw socket; what is left to `raw_delivery` is the attachment, which a
raw socket saves once per transition and not per batch, and a connection made
while the session loads.

In `transcript` the older release can neither decode nor project one kind of event,
so that a rollback freezes, serves and rebuilds a version. In `windows` the six
events are a finished turn with a tool and a message that waits: a window of two
records does not hold them all, a patch of it takes two frames, and two more commits
start and stream an answer.

### Fairness

`SessionControl!FairSpec` adds weak fairness of: the admission's wake-up (`OfferSignal`, the same
uninterruptible effect as the append), the control fiber and the turn fiber (the
Effect runtime runs every runnable fiber; a turn ends because providers and tools
have time limits), the delivery (`BeginDelivery`, `OfferRun`, `EndDelivery`: the
contract of `run-scheduling-wakeup.ts` is that a pending wake-up keeps retrying, and
`deliver` has a ten-second timeout), the granted turn, and the grants of the external
scheduler (`run-scheduler.ts`: a successful delivery means durable acceptance
and retries of the grant). Clients, crashes and failures have no fairness. Weak
fairness of `Control` also restarts a crashed session, so the liveness properties read
"once the host has loaded the session again".

For a socket, `FairSpec` has weak fairness of the host's steps (promises settle once
what they wait for has happened), of a wake that a message or a connection
asks for, of the end of a build, and of the client's obligations
(`src/docs/websocket-protocol.md`): it applies, acknowledges and reconnects. Nothing else
loads a hibernated object, commits or publishes. `PublicationsReturn` is claimed only
of sockets that show every event.

`SinksFairness` has weak fairness of the steps under the append gate (folding,
announcing, delivering, telling the sinks: one uninterruptible effect), of every step of
a runner, and strong fairness of appending what a sink staged: the runner waits for a
semaphore that others take as well, and its queue is first come, first served.

### Disagreements with the documentation

Traces that TLC found while the models were written, each against a sentence of the
documentation. No run claims them; each says what a property above leaves out.

Control plane:

- A promoted message whose own command is still pending is consumed by a recovered
  run and then again by that command (`session-state.ts:1326`). `message-steering.md:107`:
  "A message is consumed at most once."
- A submission that clears the paused queue commits between a resume's read and
  its append, and the resume runs the cancelled message (`session-state.ts:1382`).
  `message-steering.md:108`: "A cancelled message is never consumed."
- With external permission, a resume of a message that its own batch paused
  reserves a run whose inputs exclude paused messages: it is never granted
  (`run-scheduling.ts:111`).
- With external permission, an interrupt that is pending when a steer's reservation
  is made leaves the loop waiting for a signal while no grant is eligible
  (`session-state.ts:1301`); and a steer consumed by a turn that dies of a defect
  leaves its own command pending, whose reservation has nothing unconsumed and is
  never granted.

Turns and context:

- A stop, or a defect of the stream, after the finish part's batch and before the stream
  ends (`inference-runner.ts:540`) leaves created tool calls without an end and an
  `InferenceFailed` over an `InferenceCompleted`. `spec.md`, rule 7: every started
  operation gets a terminal. The next prompt cannot be built ("Prompt transcript contains
  assistant tool-call(s) without matching tool result(s)", `message-transcript.ts`) and the control
  loop dies until a restart. In `TurnExecution` this is `StartTurn` with `~Paired`.
- A message that waits is pruned when a compaction cuts after its submission
  (`reduced-state.ts:1439`). `message-steering.md:706`: "Prompt/context compaction
  applies only after consumption." While its command is pending, that command commits it again. But
  a steer that is dispatched after its turn has completed has its command completed first, then
  the boundary may compact (`session-state.ts:2458`): the run ends without it, and nothing
  is left to start it. Asked that a rebase drops no pending message but those that a command still
  owes, TLC answers with nine states of `ContextCompaction`: a message, a steer before the response,
  the response, the turn's end, the steer's command, and a compaction that retains the
  response. `NothingForgotten` is about what the model was told.
- Pruning goes by the position of submission (`messagePruneSeq`, `reduced-state.ts:1494`), the
  prompt by that of consumption. A message submitted before a response and consumed behind it, by
  a turn that fails, is pruned by the `last-response` policy, which "keeps exactly the latest
  assistant response and what followed it" (`compaction.ts:70`). Asked that a rebase keeps what is
  in context at or behind its cut, TLC answers with eleven states. `transcript-history.md:584`
  lists "One seq rule for user messages across prune, planner and summary" among later changes.
- So a summary may lack such a message, which is then in neither part: one made from the
  messages of the range because it was submitted before the range, one made from a prompt because it
  was consumed behind the cut (`compaction.ts:608`). Only a summary of the whole prompt, with nothing
  retained, holds all: `context.exact` in `NothingForgotten`.
- A compaction amid a run prunes the record of the turn that has ended, so that an
  interrupt or a stop appends `TurnFailed` for a completed turn; it also
  prunes its tool calls, so that the tool budget starts again.

Sockets:

- Start-up recovery publishes to a hibernated socket whose projection hides the event,
  and the page its receipt asks for waits for the runtime that is being built: the session
  never loads (`websocket/delivery.ts:250`, *host* `websocket/connection-manager.ts:300`). `spec.md:427`:
  "Slow subscribers are closed independently; they do not backpressure `SessionState`,
  the durable append path". `PublicationsReturn` is claimed of sockets that show every event.
- Two hidden frames of one batch reopen the window twice; what the first reopening
  sends may itself be hidden and reopen it again, and those frames leave before the
  second's, which have smaller ids. "Each connection has monotonically increasing frame
  ids." It takes six buffered ephemeral events.
- A capture that waited a second for its publication is served without live content and
  records the current revision as sent (*host* `websocket/transcript-sockets.ts:532`), so that the
  publication, when it comes, has nothing to send. The comment at `:530`: "it is
  retried when the revision changes or a commit arrives". The client's live
  content stays empty until the next delta: `socket.withheld` in `NothingOwed`.

Alarms:

- The platform may deliver an alarm early, and a session may be destroyed while its runtime is being
  built (*host* `runtime/session-runtime.ts:139`), which leaves a runtime over wiped storage. `EarlyAlarms`
  and the guard of `Destroy` say where the model stops.
- A crash between a recorded wake-up and the platform's alarm is not repaired at the
  restart (`adoptUnrecordedAlarm` looks at the opposite case); the platform commits both
  together.
- A builder retry shorter than the heartbeat would postpone the builder: a session destroyed
  amid the alarm handler, rebuilt with its heartbeat armed, followed by a failing slice and a
  crash, leaves the builder's wake-up before the platform's alarm. The proof of `NoWakeupPostponed` found it.
  Both delays are 30 s in the code (*host* `durable-object-keepalive.ts:5`,
  `durable-object.ts:186`), two constants that nothing ties together; `HostAssumption` does.
- The handler clears the wake-up of an undelivered reservation when it runs between
  the release of a recovery's lease and the delivery that recovery forks
  (`session-state.ts:2719`); `Forking` excludes a crash at that point only.

An ephemeral event may reach a reader twice in a row at the seam between replay and live
(`EventsOrdered` allows it), a durable one never. A batch that is committed and that the decoder then refuses
(`session-store.ts:532`) stops the session until it is restarted.

## 4. Proofs

TLAPS proves for every value of the constants, which the modules constrain only by
their assumptions: `BoundsAssumption` (positive bounds; for the log, also that a client's
command ids are not positions, so that what the log mints never meets what a client
chose), `IngressAssumption` (a set of known operations, natural bounds, a Boolean),
`TurnAssumption` (natural limits, finitely many parts in an answer), `HostAssumption`
(natural bounds, a builder retry no shorter than the heartbeat), `NoneAssumption` (the
absent key is no position), `BuilderAssumption` (positive sizes, a first release),
`CompactionAssumption` (known policies and executors, natural bounds) and `SinksAssumption`
(positive capacities; a sink that stages notes is not interested in notes).

**Types** (`TypeCorrect`). One lemma per event of the fold and one per policy,
then one per action. It is more than types: a
reservation has a command, and a run when it is for recovery, so `RequestInputs` and
`CanGrant` are never asked about nothing; positions on the way to a run carry a
command; numbers in the log are within what was allocated.

**The reservation's retry** (`UndeliveredIsRetried`). The property is not inductive: `Defer`
appends a reservation relying on an alarm set one step earlier. The strengthening is
`SetBeforeRequest` (at position `defer` the alarm is set): the control gate keeps a
delivery or a grant from resetting the alarm in that window.

**The run slot** (`SlotInvariantHolds`). `SlotInvariant` has two halves.

- `LogInvariant` speaks of the log: one open run and turn, and they are the last ones
  (`OneSlot`); a reservation only while nothing is open, for a command that can
  still start (`Reservable`); commands and messages that agree on what is settled.
- `Memory` speaks of the process: who holds the slot, by the position of the control
  fiber, the execution and the grant (`SlotHeld`); what each of them remembers of the run
  (`ExecHolds`, `CtlHolds`, `GrantHolds`); and that what was read before an append is still true
  at the append (`TakenCommand`, `TargetUnconsumed`, `InputsResumed`).

The difficulty is the second half. A decision and its append are two steps; the
gate keeps everything out between them but admissions, the turn fiber and crashes. So each
fold is shown to leave undisturbed what a decision may rely on (`AdmittedIsUndisturbed`
for admissions), and each action to keep both halves and to settle nothing twice
(`Kept`). From the invariant follow `SlotIsOwned` (`OneOwnedRun`) and `SettledStays`
(`SettledIsFinal`, an action property, from `Lasting`, which `Kept` proves along). `PausedStay`
(`PausedNeedsResume`) needs one more fact, that only the start of a turn consumes a
message (`OnlyTurnsConsume`, a lemma per action); what a turn consumes was resumed by its
run's command (`InputsResumed`).

**The loop stays alive** (`LoopStaysAlive`). The code dies on three states: an idle drain that
finds an active command, steers that no command will start, a recovery whose batch leaves
something to recover. None of them is about the slot; all are about who will go on with what
was left. `LoopInvariant` adds owners to `SlotInvariant` (`OwnersHold`):

- of the log, `SteersOwned`: while no run is open, every pending steer is backed by a
  pending command (its own, or a resume that names it) or is an input of a reserved
  recovery; `ResumesHeld`: a resume that has started belongs to the open run or the
  reservation, or all it names is gone; `Sound`: resumes name messages that exist;
- of the process, `ActiveHeld`: every active command is the execution's, the grant's, a reserved
  recovery's, or in the hands of the control fiber;
- of what was read, `SteersRead`: what the control fiber carries to the append that ends a
  run still covers every steer that nothing else will start, whatever was admitted since.

Each fold is shown once to pass ownership on (`Passes`: no backing command is lost but those it
names, nothing becomes active but those it starts; `Settles`: no message becomes a steer),
composed along a batch, and each action gets one lemma. Recovery is the hard case:
`BatchSettles` and `SteersKeepOwners` show that the repair and its resume leave nothing unowned,
`ReservedIsFixed` and `ReplacedIsFixed` that a second recovery would plan nothing, or the same
continuation again.

**Turns** (`TurnInvariantHolds`). Only the fiber's own turn is open (`Owned`); everything else
of it is closed, but for what the fiber is doing (`ClosedButForFiber`); tool calls stay
within their attempts; the budget the fiber carries is what the log says is left of the run's
(`Budgeted`). From it follow `EverythingIsClosed` and `LimitsAreKept`, and the refinement
`TurnImplementsContract`: the initial state maps to the contract's, and each action to a start,
an end, a crash or a stutter.

**Alarms** (`HostInvariantHolds`). The platform's alarm covers every recorded wake-up
outside the handler, and inside it one set meanwhile does (`Waking`); the builder's wake-up
carries its failures (`Building`); what the handler clears is behind what was re-armed
(`Clearing`); the leases are the work in progress (`Living`); an undelivered reservation
keeps the keep-alive pending, save while a recovered delivery is forked (`Delivering`). The theorems
take the hypothesis `~EarlyAlarms`: a platform that delivers alarms early breaks
`NoWakeupPostponed` (section 3), so nothing weaker would do. With it, `NoneIsPostponed`
and `WorkStaysScheduled`.

**The log** (`LogInvariantHolds`). An event is its position (`IsLog`: `rows[p].id = p`), so a
fold of the first `k` events is `Count(k)`, and "the fold is exact" is arithmetic. `Durable`
says that the log is one whose bodies read back and whose commands are admitted once, and
that every checkpoint is a count no longer than the log. `Folded` says that what is
in memory is a count, and that the holder of the gate has in hand
exactly what is not folded yet. The work is the batch: an append is a
transaction over its entries, each inserted or found, whose upserts may replace a row
another event's body lives in; none does, because no event is about another's command,
message or summary (`AboutItself`, `MintedFor`). That a transaction ends in a log is an induction over its
entries, done by the first entry after which it would not (`TransactionUnfolds`,
`EntryKeepsLog`); that what a submission prepares, with its repetitions of itself and of what
is in the log, is such a batch is the same argument over its commands
(`AdmissionsAreBatch`). `AnswersWhatItAdded` says that the log only grows. From the invariant
follow `FoldsAreOfTheLog` and `LogStaysReadable`. An earlier form of the model minted the
same id for a new entry as for one already in its batch, for batches no run had; the proof
showed it, and `Prepared` now takes an id past the batch as well.

**The stream** (`OrderInvariantHolds`), over the log's invariant. `Top` is the position of the last event
folded, or of the last ephemeral behind it; a publication starts above it (`Raised`: a fold
moves the first component, an ephemeral the second). So what the holder of the gate has in hand
rises, above all it delivered (`IsDelivered`), and at or above what the replay buffer was given
(`IsAnnounced`: the event between its two halves is in the buffer and not yet in the queues). `InOrder`
says what a reader makes of it: the queue rises, what it was given lies below what it will be, except
what the head it read excludes; and from the moment it reads the open turn's buffer, that and its queue
and what is in hand cover the buffer. The merge is `Sorted`, by the number of
smaller members, which orders any finite set of positions without repetition (`SortedRises`). From it
follows `EventsStayOrdered`.

**The sinks** (`SinksInvariantHolds`), over the log's invariant, which every step of a sink keeps. A live
runner's cursor and state are those of its row; a batch in hand lies behind the cursor and
within the log; from the callback's return until the commit, everything the batch has of interest has been
called (`RunnerKept`). What was staged is in the log, or still in hand while the cursor has not
moved, or belongs to a runner that failed before its cursor moved (`StagedKept`): that is
why the append must precede the cursor. A projection is the count up to where its
runner is (`UpTo`), through a page cut anywhere, a rebuild from the beginning and a
restart at the head. `GatePlaced` and `InboxKept` bound what a publication tells an inbox by
the log. No runner is awake in a process that is down (`DownTogether`). From it follow
`DeliveredAtLeastOnce` and `SinkStatesAreExact`; what the sinks may do to the log is covered
too, since `AppendStaged` commits through the same gate.

**The builder** (`BuilderInvariantHolds`). A slot is followed through the whole transaction of a slice:
reconciling (`ReconciledSlots`), pages (`AdvancedKeeps`: a page that is cut short ends before
the first event its version refuses), activation (`SwitchedKeeps`: what is replaced is not ahead of
the head) and cleanup (`CleanedKeeps`: what is left is what was not retired, in its order;
`UndeletedIsRest`). Each keeps every live version a prefix (`SlotsKept`) and passes on what is served
(`Serves`), so that the action property `NeverRegresses` is the composition. For `PendingIsScheduled`
the point is what leaves the wake-up alone: an append whose reconciling changed nothing leaves pending only
what was pending (`AppendLeavesQuiet`), and so does a failure that froze nothing (`ChargeStaysQuiet`).

**The context** (`CompactionInvariantHolds`). What the model was told must be in the current summary or
in a message that is visible (`ToldHeld`); a rebase replaces both at once, so the invariant needs the promise
made when the compaction starts (`CutHeld`): all of it is in what the executor reads, or shown
by a message that is recorded at or behind the cut. `ReadOrKept` makes the promise (a plan cuts at one position,
and the first message of a range is the first of the prompt: `PlanCuts`, `OrderedHolds`); every step
until the commit keeps it (`Carries`: what takes the place of a message shows what it did; an admission
during the summary only adds); `RebaseKeeps` redeems it. `CallsKept` says that calls end no earlier than behind
their response and no later than their turn, so that a cut never separates a retained response from its
results: `PromptsStayPaired`. The recursion of `Prompt` is an induction over the positions of the order (`PromptShows`).

**Prompts** (`PromptsOnlyGrow`). `SentHeld`: while the version is the same, what was sent is the prompt of what
is visible up to some position, as it stands now. Only what is in no prompt yet is promoted, paused,
cancelled or consumed, and what is consumed or answered stands behind that position, so those messages
and their places stay (`EarlyStays`, `PartIsFirst`), and the next prompt begins with theirs
(`PromptsGrow`). That calls are closed before a prompt is built is what keeps a result from
appearing amid the part that was sent.

**Event sockets** (`DeliveryInvariantHolds`). The four properties are one argument, in four parts.

- *Frames* (`Counted`): every number between the acknowledged frame and the next one is in
  flight or in one suppressed range; ranges never touch, or they would have been joined. One lemma per
  function of `delivery.ts` keeps it. The attachment is the same record, or is
  about to be (`SavedInTime`), so a hibernation restores a state that was counted.
- *Receipts* (`Agreed`): what the client applied, said and is being sent agrees with what is in flight
  wherever the frame numbers meet, and a higher frame never carries a lower position. That is why an
  acknowledgement that was overtaken is ignored, and one that a hidden frame passed is still valid: it can
  never be rejected.
- *Events on their way* (`OnTheWay`): a visible event the client has not got, at or below what was sent, is
  carried by a frame of `Line` (the wire, what is encoded, what is about to be sent), ahead of every frame that
  would count it. So no cursor passes it, the client's or the server's. The order of `Line` is
  the hard part: a hidden frame frees the window, and what that
  sends is appended behind the rest of its batch (`Following`); `Plan` is the order in which things will
  be done.
- *Events to be read* (`Followed`): what lies above what was sent is still to be
  published or queued (`Shown`), or will be read: by the connection's first read, a planned one or a page in
  hand (`Reading`); or else the window is full, and what opens it reads.

The runs check the same properties on small instances. Model-checked only:

- liveness (`EverythingSettles`, `CatchesUp`, `PublicationsReturn`, `CaughtUp`): out of the
  prover's reach;
- `HydrationIsReplay`: that a fold over the whole log, saved and resumed anywhere, is the fold of the
  log is an induction over what the fold computes, which the provers cannot instantiate (the
  inductions above are over positions, with a least counterexample);
- `LaneExact`, about a sequence as long as the history, and the refinement `StreamImplemented`;
- the transcript sockets (`HoldsACompleteCut`, `LiveIsOfTheCut`, `NothingOwed`, `HonestSocketKept`), whose
  invariants relate windows of a projection at several cuts, and the builder's `ChangesAnnounced`. No attempt
  has been made to prove these.

## 5. Plan, and what is not modelled

Next, in this order:

1. Theorems about the transcript sockets, `HoldsACompleteCut` first; the step
   simulation of `StreamImplemented`, which `OrderInvariant` and `AnswersWhatItAdded` prepare; that
   `Decode(Encode(mem)) = mem` is kept by every event.
2. `RunSlot`: an abstract specification of a session's single slot and of a
   command's life, implemented by `SessionControl`; `SlotInvariant` is what its step simulation needs.
3. `LaneExact` of the sinks, with what an inbox holds ordered behind the lane.
4. Graceful shutdown in `SessionControl` (`onInterrupt` of `startedBoundaryGuard`),
   legacy steering, application mappings and record bodies of the transcript.

Not modelled, because there is nothing to check: providers (network I/O; their
outcomes are inputs of `TurnExecution` and `ContextCompaction`), the event factory,
identifiers and tracing (stateless), RPC and celld (pass-through), examples and test kits.
`session-controller.ts` forwards requests to the runtime, whose life is in `WebSocketDelivery`
and `HostAlarm`. The in-memory store has no behaviour that the SQL store lacks.
