---------------------------- MODULE SinkRunners ----------------------------
(* The application's sinks: each has a runner that drains the log behind a     *)
(* durable cursor and hears ephemerals in between (services/sink-registry.ts), *)
(* an inbox the append gate notifies (sink-inbox.ts), and a row that holds the *)
(* cursor with the sink's own state (sink-checkpoint-store.ts, the host's      *)
(* durable-object-sink-checkpoints.ts).  The log under them is SessionLog's.   *)
EXTENDS SessionLog

CONSTANTS
    Sinks,              \* the registered sinks
    Wants,              \* the types of durable event each is interested in
    Projected,          \* the sinks that are handed a projection
    Hearing,            \* the sinks with an ephemeral callback
    Staging,            \* the sinks that stage a "Note" for a batch
    BatchSize,          \* durable events in one delivery
    EphemeralCapacity,  \* ephemerals an inbox holds
    MaxSaves            \* bound: states a sink saves

ASSUME SinksAssumption ==
    /\ Projected \cup Hearing \cup Staging \subseteq Sinks
    /\ \A s \in Staging : "Note" \notin Wants[s]
    /\ {BatchSize, EphemeralCapacity} \subseteq Nat \ {0} /\ MaxSaves \in Nat

VARIABLES
    row,        \* the durable row of each sink: its cursor and its state
    inbox,      \* what each runner has been told of
    runner,     \* the fiber of each sink
    past        \* what each sink has been called with, and has saved

sinkVars == <<row, inbox, runner, past>>

-----------------------------------------------------------------------------
NoProjection == <<-1>>
Asleep == [at |-> "down", cursor |-> 0, state |-> 0, fold |-> NoProjection, through |-> 0]
Quiet(head) == [head |-> head, pending |-> <<>>, wake |-> FALSE]

Interested(s, from, through) ==
    {q \in from + 1 .. through : store.rows[q].type \in Wants[s]}

RunnerStep(s, new) == runner' = [runner EXCEPT ![s] = new]

\* Mutant: a durable head moves the inbox, and wakes nobody.
NotifySinksSilently ==
    LET p == gate.last
    IN  inbox' = [s \in Sinks |->
          IF p[2] = 0 THEN [inbox[s] EXCEPT !.head = p[1]]
          ELSE IF s \in Hearing /\ Len(inbox[s].pending) < EphemeralCapacity
          THEN [inbox[s] EXCEPT !.pending = Append(@, p), !.wake = TRUE]
          ELSE inbox[s]]

\* inbox.notify and inbox.offerEphemeral, the last things done under the gate.  A
\* full inbox drops the newest ephemeral.
NotifySinks ==
    LET p == gate.last
    IN  inbox' = [s \in Sinks |->
          IF p[2] = 0 THEN [inbox[s] EXCEPT !.head = p[1], !.wake = TRUE]
          ELSE IF s \in Hearing /\ Len(inbox[s].pending) < EphemeralCapacity
          THEN [inbox[s] EXCEPT !.pending = Append(@, p), !.wake = TRUE]
          ELSE inbox[s]]

-----------------------------------------------------------------------------
(* One turn of runLoop. *)

\* Mutant: durable work first, ephemerals when there is none.
DurableFirst(s, waiting) ==
    IF runner[s].cursor < inbox[s].head
    THEN [runner[s] EXCEPT !.at = "draining", !.through = inbox[s].head]
    ELSE IF waiting # <<>> THEN [runner[s] EXCEPT !.at = "hearing"]
    ELSE [runner[s] EXCEPT !.at = "waiting"]

\* Mutant: an ephemeral does not wait for the durable events before it.
HearAtOnce(s, waiting) ==
    IF waiting # <<>> THEN [runner[s] EXCEPT !.at = "hearing"]
    ELSE IF runner[s].cursor < inbox[s].head
    THEN [runner[s] EXCEPT !.at = "draining", !.through = inbox[s].head]
    ELSE [runner[s] EXCEPT !.at = "waiting"]

\* inbox.poll: an ephemeral holds durable events behind it back, and waits itself
\* for those up to its anchor.
Work(s, waiting) ==
    LET cursor == runner[s].cursor
    IN  IF waiting # <<>> /\ waiting[1][1] > cursor
        THEN [runner[s] EXCEPT !.at = "draining", !.through = waiting[1][1]]
        ELSE IF waiting # <<>> THEN [runner[s] EXCEPT !.at = "hearing"]
        ELSE IF cursor < inbox[s].head
        THEN [runner[s] EXCEPT !.at = "draining", !.through = inbox[s].head]
        ELSE [runner[s] EXCEPT !.at = "waiting"]

\* The ephemerals left once the stale ones are off the front.
Waiting(s) ==
    LET pending == inbox[s].pending
        fresh == {i \in DOMAIN pending : pending[i][1] >= runner[s].cursor}
    IN  IF fresh = {} THEN <<>> ELSE SubSeq(pending, Min(fresh), Len(pending))

Poll(s) ==
    /\ mem.up /\ runner[s].at = "polling"
    /\ LET waiting == Waiting(s)
       IN  /\ RunnerStep(s, Work(s, waiting))
           /\ inbox' = [inbox EXCEPT ![s].pending =
                          IF runner'[s].at = "hearing" THEN Tail(waiting) ELSE waiting]
           /\ past' = [past EXCEPT ![s].lane =
                         IF runner'[s].at = "hearing" THEN Append(@, waiting[1]) ELSE @]
    /\ UNCHANGED row

\* The wake-up queue slides: it holds one signal.
AwaitWork(s) ==
    /\ mem.up /\ runner[s].at = "waiting" /\ inbox[s].wake
    /\ inbox' = [inbox EXCEPT ![s].wake = FALSE]
    /\ RunnerStep(s, [runner[s] EXCEPT !.at = "polling"])
    /\ UNCHANGED <<row, past>>

\* The ephemeral callback returns, or its defect is logged.
Heard(s) ==
    /\ mem.up /\ runner[s].at = "hearing"
    /\ RunnerStep(s, [runner[s] EXCEPT !.at = "polling"])
    /\ UNCHANGED <<row, inbox, past>>

\* ensureProjection, and the projection folded through the batch.
Projection(s, through) ==
    IF s \notin Projected THEN NoProjection
    ELSE LET behind == IF runner[s].fold = NoProjection THEN SubSeq(Ids, 1, runner[s].cursor)
                       ELSE runner[s].fold
         IN  behind \o SubSeq(Ids, runner[s].cursor + 1, through)

\* Mutant: the cursor moves first, the callback is called then.
DrainThenDeliver(s) ==
    LET cursor == runner[s].cursor
        last == Page(cursor, runner[s].through, BatchSize).last
    IN  /\ mem.up /\ runner[s].at = "draining"
        /\ RunnerStep(s, [runner[s] EXCEPT !.through = last, !.fold = Projection(s, last),
             !.at = IF Interested(s, cursor, last) # {} THEN "delivering" ELSE "committing"])
        /\ past' = [past EXCEPT ![s].lane =
                      @ \o Sorted({<<q, 0>> : q \in Interested(s, cursor, last)}, Before)]
        /\ row' = [row EXCEPT ![s].after = last]
        /\ UNCHANGED inbox

\* readCursorBatchThrough: the callback is called if anything in the batch is of
\* interest, and the cursor moves in any case.
Drain(s) ==
    LET cursor == runner[s].cursor
        last == Page(cursor, runner[s].through, BatchSize).last
    IN  /\ mem.up /\ runner[s].at = "draining"
        /\ RunnerStep(s, [runner[s] EXCEPT !.through = last, !.fold = Projection(s, last),
             !.at = IF Interested(s, cursor, last) # {} THEN "delivering" ELSE "committing"])
        /\ past' = [past EXCEPT ![s].lane =
                      @ \o Sorted({<<q, 0>> : q \in Interested(s, cursor, last)}, Before)]
        /\ UNCHANGED <<row, inbox>>

\* The callback returns; what it staged is appended before the cursor moves.
Delivered(s) ==
    /\ mem.up /\ runner[s].at = "delivering"
    /\ RunnerStep(s, [runner[s] EXCEPT !.at = IF s \in Staging THEN "staging" ELSE "committing"])
    /\ past' = [past EXCEPT ![s].done = @ \cup Interested(s, runner[s].cursor, runner[s].through),
                            ![s].staged = IF s \in Staging THEN @ \cup {runner[s].through} ELSE @]
    /\ UNCHANGED <<row, inbox>>

\* It dies: logged, what it staged is dropped, and the cursor moves all the same.
Defected(s) ==
    /\ mem.up /\ runner[s].at = "delivering"
    /\ RunnerStep(s, [runner[s] EXCEPT !.at = "committing"])
    /\ past' = [past EXCEPT ![s].done = @ \cup Interested(s, runner[s].cursor, runner[s].through)]
    /\ UNCHANGED <<row, inbox>>

\* Through the session's append gate, like any other batch.
AppendStaged(s) ==
    /\ Live /\ gate = Free /\ runner[s].at = "staging"
    /\ Committed(Appended(store, <<[id |-> Fresh(1), type |-> "Note", key |-> None,
                                    ref |-> runner[s].through]>>))
    /\ RunnerStep(s, [runner[s] EXCEPT !.at = "appending"])
    /\ UNCHANGED <<checkpoints, version, mem, bus, snapshot, reader, answers, used, row, inbox, past>>

\* The batch is published, and the sink that appended it goes on.
ReleaseToSinks ==
    /\ Release
    /\ NotifySinks
    /\ runner' = [s \in Sinks |-> IF runner[s].at = "appending"
                                  THEN [runner[s] EXCEPT !.at = "committing"] ELSE runner[s]]
    /\ UNCHANGED <<row, past>>

\* Mutant: the cursor with the state there was when the runner started.
CommitCursorWithOldState(s) ==
    /\ mem.up /\ runner[s].at = "committing"
    /\ row' = [row EXCEPT ![s] = [after |-> runner[s].through, state |-> 0]]
    /\ RunnerStep(s, [runner[s] EXCEPT !.cursor = runner[s].through, !.at = "polling"])
    /\ UNCHANGED <<inbox, past>>

\* commitSinkCheckpoint: the cursor with the state that is current now.
CommitCursor(s) ==
    /\ mem.up /\ runner[s].at = "committing"
    /\ row' = [row EXCEPT ![s] = [after |-> runner[s].through, state |-> runner[s].state]]
    /\ RunnerStep(s, [runner[s] EXCEPT !.cursor = runner[s].through, !.at = "polling"])
    /\ UNCHANGED <<inbox, past>>

\* checkpoint.save, from the callback or from work it left running.
Save(s) ==
    /\ mem.up /\ runner[s].at # "down" /\ past[s].saved < MaxSaves
    /\ past' = [past EXCEPT ![s].saved = @ + 1]
    /\ row' = [row EXCEPT ![s].state = past'[s].saved]
    /\ RunnerStep(s, [runner[s] EXCEPT !.state = past'[s].saved])
    /\ UNCHANGED inbox

\* A store error, in the log or the row, ends the runner until the restart.
RunnerFails(s) ==
    /\ mem.up
    /\ \/ runner[s].at = "staging" /\ mem.fatal /\ used' = used
       \/ runner[s].at \in {"draining", "staging", "committing"} /\ Crashable
            /\ used' = [used EXCEPT !.crashes = @ + 1]
    /\ RunnerStep(s, [runner[s] EXCEPT !.at = "failed"])
    /\ UNCHANGED <<store, checkpoints, version, mem, gate, bus, snapshot, reader, answers,
                   row, inbox, past>>

-----------------------------------------------------------------------------
\* Mutant: whatever the cursor, the projection is the session's own.
SharedProjection(s, head) == IF s \in Projected THEN SubSeq(Ids, 1, head) ELSE NoProjection

\* makeSinkRunner: the session's projection where the cursor is its head, the
\* initial one at the beginning of the log, none yet otherwise.
InitialProjection(s, head) ==
    IF s \notin Projected \/ row[s].after \notin {0, head} THEN NoProjection
    ELSE IF row[s].after = head THEN SubSeq(Ids, 1, head) ELSE <<>>

StartRunners ==
    /\ Restart
    /\ runner' = [s \in Sinks |->
         [at |-> "polling", cursor |-> row[s].after, state |-> row[s].state,
          fold |-> InitialProjection(s, LogHead(store)), through |-> 0]]
    /\ inbox' = [s \in Sinks |-> Quiet(LogHead(store))]
    /\ UNCHANGED <<row, past>>

StopRunners ==
    /\ Crash
    /\ runner' = [s \in Sinks |-> Asleep]
    /\ inbox' = [s \in Sinks |-> Quiet(0)]
    /\ past' = [s \in Sinks |-> [past[s] EXCEPT !.lane = <<>>,
                                              !.staged = {t \in @ : t <= row[s].after}]]
    /\ UNCHANGED row

-----------------------------------------------------------------------------
SinksInit ==
    /\ LogInit
    /\ row = [s \in Sinks |-> [after |-> 0, state |-> 0]]
    /\ inbox = [s \in Sinks |-> Quiet(0)]
    /\ runner = [s \in Sinks |-> [at |-> "polling", cursor |-> 0, state |-> 0,
                                  fold |-> InitialProjection(s, 0), through |-> 0]]
    /\ past = [s \in Sinks |-> [done |-> {}, staged |-> {}, lane |-> <<>>, saved |-> 0]]

\* What moves the runner of s, its gate apart.
Turn(s) == Poll(s) \/ AwaitWork(s) \/ Heard(s) \/ Drain(s) \/ Delivered(s) \/ CommitCursor(s)

SinkNext(s) ==
    \/ (Turn(s) \/ Defected(s) \/ Save(s)) /\ UNCHANGED logVars
    \/ AppendStaged(s)
    \/ RunnerFails(s)

SinksNext ==
    \/ LogStep /\ UNCHANGED sinkVars
    \/ ReleaseToSinks
    \/ \E s \in Sinks : SinkNext(s)
    \/ StartRunners \/ StopRunners

sinksVars == <<logVars, sinkVars>>

\* Fibers run when they can, and nothing under the gate waits for ever.
SinksFairness ==
    /\ WF_sinksVars((Fold \/ Announce \/ Deliver) /\ UNCHANGED sinkVars)
    /\ WF_sinksVars(ReleaseToSinks)
    /\ \A s \in Sinks :
         /\ WF_sinksVars(Turn(s) /\ UNCHANGED logVars)
         /\ SF_sinksVars(AppendStaged(s))
         /\ WF_sinksVars(runner[s].at = "staging" /\ mem.fatal /\ RunnerFails(s))

SinksSpec == SinksInit /\ [][SinksNext]_sinksVars /\ SinksFairness

-----------------------------------------------------------------------------
(* Properties. *)

\* At least once: whatever a saved cursor is past and the sink wants, the sink was
\* called with, over crashes, restarts and defects; and what it staged for a batch
\* it finished is in the log by then (processDurableBatch appends the staged events,
\* and commits the cursor last).
Noted(t) == \E i \in DOMAIN store.rows : store.rows[i].type = "Note" /\ store.rows[i].ref = t
AtLeastOnce ==
    \A s \in Sinks :
      /\ Interested(s, 0, row[s].after) \subseteq past[s].done
      /\ \A t \in past[s].staged : t <= row[s].after => Noted(t)

\* What a sink saved is in its row: neither a cursor commit that was under way nor a
\* restart brings an older state back (SynchronizedRef in makeSinkCheckpoint).  And a
\* projected sink folds exactly up to its cursor, or up to the end of the batch in
\* hand, wherever its row was when the runner started (ensureProjection).
StateKept(s) == row[s].state = past[s].saved
ProjectionExact(s) ==
    LET upTo == IF runner[s].at \in {"delivering", "staging", "appending", "committing"}
                THEN runner[s].through ELSE runner[s].cursor
    IN  runner[s].fold # NoProjection /\ runner[s].at # "failed"
          => runner[s].fold = SubSeq(Ids, 1, upTo)
SinkStateExact ==
    /\ \A s \in Sinks : StateKept(s)
    /\ \A s \in Projected : ProjectionExact(s)

\* In one process a sink is called in the order of the log, with every ephemeral
\* behind the durable events it is anchored to, and never twice with one event; and
\* what its inbox accepted leaves it by being called, so that no ephemeral goes stale
\* behind a runner that lags (inbox.poll drains no further than its anchor first).
LaneOrdered ==
    \A s \in Sinks : \A i \in 1 .. Len(past[s].lane) - 1 :
      Before(past[s].lane[i], past[s].lane[i + 1])
AcceptedIsCalled ==
    [][\A s \in Sinks :
         Len(inbox'[s].pending) < Len(inbox[s].pending) /\ mem'.up
           => past'[s].lane = Append(past[s].lane, inbox[s].pending[1])]_sinksVars
LaneExact == []LaneOrdered /\ AcceptedIsCalled

\* Nothing accepted into an inbox is left there while its runner waits: the runner
\* of a session that stays up reaches the head of the log (the sliding wake-up).
CaughtUp ==
    \A s \in Sinks :
      <>[](mem.up /\ ~mem.fatal =>
             \/ runner[s].at = "failed"
             \/ row[s].after = LogHead(store) /\ inbox[s].pending = <<>>)
=============================================================================
