----------------------------- MODULE SessionLog -----------------------------
(* The log of a session in a live process: the append gate of SessionState     *)
(* (services/session-state.ts), under which a batch is committed to the store, *)
(* folded, and published event by event on the live bus                        *)
(* (live-event-bus.ts); the readers of EDASessionQuery.eventsAfter, who        *)
(* subscribe, replay and follow; reducer checkpoints and the restart that      *)
(* hydrates from them; and clients who repeat a submission.                    *)
(*                                                                             *)
(* A fold is stood for by the sequence of event ids folded.  A position is     *)
(* <<seq, sub>>: sub is 0 for a durable event.                                 *)
EXTENDS EventStore

CONSTANTS
    Readers,            \* followers of the event stream
    Commands,           \* [id, key, submits]: what clients submit, and submit again
    Submissions,        \* sequences of them, each submitted as one batch
    Batches,            \* the batches of event types the engine appends
    Reducers,           \* application reducers
    ReplayCapacity,     \* ephemerals of the open turn the bus keeps
    PageRows,           \* rows in one page of a replay
    MaxLog,             \* bound: log length a new append may start from
    MaxEphemerals,      \* bound: ephemeral events
    MaxCrashes,         \* bound: crashes, failed transactions included
    MaxSnapshots,       \* bound: checkpoints requested
    MaxVersion          \* bound: schema versions of a reducer

ASSUME BoundsAssumption ==
    /\ Submissions \subseteq Seq(Commands) \ {<<>>} /\ Batches \subseteq Seq(STRING)
    /\ \A c \in Commands : c.id \notin Nat /\ c.submits \in BOOLEAN
    /\ {PageRows, ReplayCapacity} \subseteq Nat \ {0} /\ MaxVersion \in Nat \ {0}
    /\ {MaxLog, MaxEphemerals, MaxCrashes, MaxSnapshots} \subseteq Nat
    /\ "framework" \notin Reducers

VARIABLES
    store,          \* the log and its sidecar rows
    checkpoints,    \* the saved checkpoint of each reducer
    version,        \* the schema version deployed of each reducer
    mem,            \* SessionStateData and the fatal cause of the live process
    gate,           \* what the holder of the append gate still has to do
    bus,            \* the live bus: what is kept of the open turn's ephemerals
    snapshot,       \* the folds waiting to be saved as checkpoints
    reader,         \* the readers of the event stream
    answers,        \* positions each command was answered with
    used            \* how much of the bounds is used

logVars == <<store, checkpoints, version, mem, gate, bus, snapshot, reader, answers, used>>

-----------------------------------------------------------------------------
\* The members of a finite set, in the order lt.
Sorted(S, lt(_, _)) ==
    [i \in 1 .. Cardinality(S) |->
       CHOOSE x \in S : Cardinality({y \in S : lt(y, x)}) = i - 1]

Names == Reducers \cup {"framework"}
Ids == [i \in DOMAIN store.rows |-> store.rows[i].id]
Free == [at |-> "free"]
NoCheckpoint == [version |-> 0, through |-> 0, folded |-> <<>>]
Nothing == <<>>
EmptyBus == [turn |-> 0, events |-> <<>>]
Off(from) == [at |-> "off", from |-> from, head |-> 0, through |-> 0, cursor |-> from,
              active |-> {}, queue |-> <<>>, got |-> <<>>]

\* state.reduced.lastSeq: how far the framework's own fold has come.
LastSeq == Len(mem.folded["framework"])
Live == mem.up /\ ~mem.fatal
Crashable == used.crashes < MaxCrashes

\* Mutant: every reducer replays from where the framework's checkpoint stopped.
SeedOfFramework(n) ==
    [(IF checkpoints[n].version = version'[n] THEN checkpoints[n] ELSE NoCheckpoint)
       EXCEPT !.through = checkpoints["framework"].through]
\* What a reducer starts from: its checkpoint, unless another version wrote it.
Seed(n) == IF checkpoints[n].version = version'[n] THEN checkpoints[n] ELSE NoCheckpoint

\* hydrateFrameworkReducedState and hydrateAppReducerStates.
Hydrated ==
    [n \in Names |-> Seed(n).folded \o SubSeq(Ids, Seed(n).through + 1, Len(Ids))]

-----------------------------------------------------------------------------
(* Appending.  Commit, Fold, Announce, Deliver and Release are one section     *)
(* under the append gate: no other append runs in between, but readers do.     *)

Fresh(n) == LogHead(store) + n      \* makeEventId

\* Mutant: a command is admitted whatever the log holds.
PreparedAfresh(batch, command) ==
    LET n == Fresh(Len(batch) + 1)
    IN  Append(batch, [id |-> n, type |-> "CommandAdmitted", key |-> command.key,
                       ref |-> IF command.id = None THEN n ELSE command.id])

\* prepareCommandAdmission: an admission this batch or the log already has is
\* appended again, and a new one gets an id above those of the log and the batch.
Prepared(batch, command) ==
    LET key == {e \in ToSet(batch) : command.key # None /\ e.key = command.key}
        id  == {e \in ToSet(batch) : command.id # None /\ e.ref = command.id}
        old == FindAdmission(store, command)
        n   == Max({LogHead(store)} \cup {e.id : e \in ToSet(batch)}) + 1
    IN  IF key \cup id # {}
        THEN Append(batch, IF key # {} THEN CHOOSE e \in key : TRUE ELSE CHOOSE e \in id : TRUE)
        ELSE IF old # None THEN Append(batch, AdmissionAt(store, old))
        ELSE Append(batch, [id |-> n, type |-> "CommandAdmitted", key |-> command.key,
                            ref |-> IF command.id = None THEN n ELSE command.id])
             \o (IF command.submits
                 THEN <<[id |-> n + 1, type |-> "UserMessageSubmitted", ref |-> n + 1, key |-> None]>>
                 ELSE <<>>)

\* The batch after each of the commands submitted together.
Preparation(commands) ==
    LET batch[i \in 0 .. Len(commands)] ==
          IF i = 0 THEN <<>> ELSE Prepared(batch[i - 1], commands[i])
    IN  batch

Admissions(commands) == Preparation(commands)[Len(commands)]

\* An engine batch: each event is about itself, a rebase about the summary before it.
Events(types) ==
    [i \in DOMAIN types |->
       [id |-> Fresh(i), type |-> types[i], key |-> None,
        ref |-> IF types[i] = "ContextRebased" THEN Fresh(i - 1) ELSE Fresh(i)]]

\* The committed transaction, whose fold comes next.
Committed(tx) ==
    /\ tx.ok
    /\ store' = tx.store
    /\ gate' = [at |-> "committed", seqs |-> ToSet(tx.seqs)]

MayAppend == Live /\ gate = Free /\ LogHead(store) < MaxLog

\* submitBatch: the answer to its first command is committed[0].
Submit(commands) ==
    /\ MayAppend
    /\ LET tx == Appended(store, Admissions(commands))
       IN  /\ Committed(tx)
           /\ answers' = [answers EXCEPT ![commands[1]] = @ \cup {tx.seqs[1]}]
    /\ UNCHANGED <<checkpoints, version, mem, bus, snapshot, reader, used>>

\* The engine starts a turn when none is open, and ends the open one.
InTurn == LET marks == {i \in DOMAIN store.rows : store.rows[i].type \in {"TurnStarted", "TurnEnded"}}
          IN  marks # {} /\ store.rows[CHOOSE i \in marks : \A j \in marks : j <= i].type = "TurnStarted"
Timely(types) == /\ "TurnStarted" \in ToSet(types) => ~InTurn
                 /\ "TurnEnded" \in ToSet(types) => InTurn

EngineAppend(types) ==
    /\ MayAppend /\ Timely(types)
    /\ Committed(Appended(store, Events(types)))
    /\ UNCHANGED <<checkpoints, version, mem, bus, snapshot, reader, answers, used>>

Failed == mem' = [mem EXCEPT !.fatal = TRUE] /\ used' = [used EXCEPT !.crashes = @ + 1]

\* The transaction rolls back (a full disk, an oversized column): the store's
\* error is recorded, and no later append begins.
TransactionFails ==
    /\ MayAppend /\ Crashable
    /\ Failed
    /\ UNCHANGED <<store, checkpoints, version, gate, bus, snapshot, reader, answers>>

\* The batch is committed, but what the log retained is not what was decoded before
\* the append and the application's decoder refuses it: the same error, with events
\* in the log that this process never folds.
DecodeFails(types) ==
    /\ MayAppend /\ Crashable /\ Timely(types)
    /\ LET tx == Appended(store, Events(types)) IN tx.ok /\ store' = tx.store
    /\ Failed
    /\ UNCHANGED <<checkpoints, version, gate, bus, snapshot, reader, answers>>

\* Mutant: everything the store answered is folded, duplicates included.
PublishingAll(seqs) ==
    LET fresh == Sorted(seqs, <)
    IN  /\ mem' = [mem EXCEPT !.folded =
                     [n \in Names |-> @[n] \o [i \in DOMAIN fresh |-> Ids[fresh[i]]]]]
        /\ gate' = [at |-> "publishing", half |-> FALSE,
                    todo |-> [i \in DOMAIN fresh |-> <<fresh[i], 0>>],
                    last |-> <<fresh[Len(fresh)], 0>>]

\* publishFreshDurables: only what is past the folded head counts, in log order.
Publishing(seqs) ==
    LET fresh == Sorted({s \in seqs : s > LastSeq}, <)
    IN  IF fresh = <<>>
        THEN gate' = Free /\ mem' = mem
        ELSE /\ mem' = [mem EXCEPT !.folded =
                          [n \in Names |-> @[n] \o [i \in DOMAIN fresh |-> Ids[fresh[i]]]]]
             /\ gate' = [at |-> "publishing", half |-> FALSE,
                         todo |-> [i \in DOMAIN fresh |-> <<fresh[i], 0>>],
                         last |-> <<fresh[Len(fresh)], 0>>]

Fold ==
    /\ gate.at = "committed"
    /\ Publishing(gate.seqs)
    /\ UNCHANGED <<store, checkpoints, version, bus, snapshot, reader, answers, used>>

\* publishEphemeral: positioned behind the folded head.
NextSub == IF mem.anchor = LastSeq THEN mem.sub + 1 ELSE 1

PublishEphemeral ==
    /\ Live /\ gate = Free /\ used.ephemerals < MaxEphemerals
    /\ mem' = [mem EXCEPT !.anchor = LastSeq, !.sub = NextSub]
    /\ gate' = [at |-> "publishing", half |-> FALSE,
                todo |-> <<<<LastSeq, NextSub>>>>, last |-> <<LastSeq, NextSub>>]
    /\ used' = [used EXCEPT !.ephemerals = @ + 1]
    /\ UNCHANGED <<store, checkpoints, version, bus, snapshot, reader, answers>>

\* nextActiveTurnReplay.
Kept(events) ==
    SubSeq(events, IF Len(events) > ReplayCapacity THEN Len(events) - ReplayCapacity + 1 ELSE 1,
           Len(events))
AfterEvent(b, p) ==
    IF p[2] = 0
    THEN CASE store.rows[p[1]].type = "TurnStarted" -> [turn |-> p[1], events |-> <<>>]
           [] store.rows[p[1]].type = "TurnEnded" -> EmptyBus
           [] OTHER -> b
    ELSE IF b.turn = 0 THEN b ELSE [b EXCEPT !.events = Kept(Append(@, p))]

\* liveBus.publish: first the replay buffer and the host's observer, who may
\* take its time ...
Announce ==
    /\ gate.at = "publishing" /\ gate.todo # <<>> /\ ~gate.half
    /\ bus' = AfterEvent(bus, gate.todo[1])
    /\ gate' = [gate EXCEPT !.half = TRUE]
    /\ UNCHANGED <<store, checkpoints, version, mem, snapshot, reader, answers, used>>

\* ... then every subscription.
Deliver ==
    /\ gate.at = "publishing" /\ gate.half
    /\ reader' = [r \in Readers |-> IF reader[r].at = "off" THEN reader[r]
                    ELSE [reader[r] EXCEPT !.queue = Append(@, gate.todo[1])]]
    /\ gate' = [gate EXCEPT !.half = FALSE, !.todo = Tail(@)]
    /\ UNCHANGED <<store, checkpoints, version, mem, bus, snapshot, answers, used>>

\* The sinks hear of it and the gate opens.
Release ==
    /\ gate.at = "publishing" /\ gate.todo = <<>>
    /\ gate' = Free
    /\ UNCHANGED <<store, checkpoints, version, mem, bus, snapshot, reader, answers, used>>

-----------------------------------------------------------------------------
(* eventsAfter: subscribe, read the head, replay, merge, follow.               *)

Step(r, new) ==
    /\ mem.up
    /\ reader' = [reader EXCEPT ![r] = new]
    /\ UNCHANGED <<store, checkpoints, version, mem, gate, bus, snapshot, answers, used>>

Subscribe(r) ==
    /\ reader[r].at = "off"
    /\ Step(r, [reader[r] EXCEPT !.at = "subscribed"])

\* The head comes from the folded state, not from the store.
ReadHead(r) ==
    /\ reader[r].at = "subscribed"
    /\ Step(r, [reader[r] EXCEPT !.at = "replaying", !.head = LastSeq])

\* A page of the store's log, whose own bound is its head at the first page.
ReadPage(r) ==
    LET rd == reader[r]
        through == IF rd.through = 0 THEN LogHead(store) ELSE rd.through
        page == Page(rd.cursor, through, PageRows)
    IN  /\ rd.at = "replaying"
        /\ Step(r, [rd EXCEPT !.through = through, !.cursor = page.last,
                      !.at = IF page.last < through THEN "replaying" ELSE "replayed"])

ReadActiveTurn(r) ==
    /\ reader[r].at = "replayed"
    /\ Step(r, [reader[r] EXCEPT !.at = "merging", !.active = ToSet(bus.events)])

\* Mutant: whatever the subscription buffered is emitted.
EmitAll(p, head) == TRUE

ShouldEmit(p, head) == p[2] > 0 \/ p[1] > head
Before(p, q) == p[1] < q[1] \/ (p[1] = q[1] /\ p[2] < q[2])

\* The replay, the open turn's ephemerals and what the subscription buffered.
Replayed(rd) == {<<s, 0>> : s \in rd.from + 1 .. rd.head}
Buffered(rd) == {p \in ToSet(rd.queue) : ShouldEmit(p, rd.head)}

\* Mutant: one after the other, as they were read.
Concatenated(rd) ==
    Sorted(Replayed(rd), Before) \o Sorted(rd.active, Before)
      \o Sorted(Buffered(rd) \ rd.active, Before)
\* Mutant: the open turn's ephemerals are left to the subscription.
BufferedOnly(rd) == Sorted(Replayed(rd) \cup Buffered(rd), Before)

\* Each once, in order of position.
Merged(rd) == Sorted(Replayed(rd) \cup rd.active \cup Buffered(rd), Before)

Merge(r) ==
    LET rd == reader[r]
    IN  /\ rd.at = "merging"
        /\ Step(r, [rd EXCEPT !.at = "following", !.queue = <<>>, !.active = {}, !.got = Merged(rd)])

Follow(r) ==
    LET rd == reader[r]
    IN  /\ rd.at = "following" /\ rd.queue # <<>>
        /\ Step(r, [rd EXCEPT !.queue = Tail(@),
                      !.got = IF ShouldEmit(rd.queue[1], rd.head)
                              THEN Append(@, rd.queue[1]) ELSE @])

-----------------------------------------------------------------------------
(* Checkpoints, crash and restart. *)

\* At a turn boundary and after start-up recovery.  The queue keeps the newest.
RequestSnapshot ==
    /\ mem.up /\ LastSeq > 0 /\ used.snapshots < MaxSnapshots
    /\ snapshot' = mem.folded
    /\ used' = [used EXCEPT !.snapshots = @ + 1]
    /\ UNCHANGED <<store, checkpoints, version, mem, gate, bus, reader, answers>>

\* A checkpoint's row, which replaces the reducer's older one.
Saved(n) ==
    [version |-> version[n], through |-> Len(snapshot["framework"]), folded |-> snapshot[n]]

\* saveReducerCheckpoints: all of them in one transaction, through one position.
WriteSnapshot ==
    /\ mem.up /\ snapshot # Nothing
    /\ checkpoints' = [n \in Names |-> Saved(n)]
    /\ snapshot' = Nothing
    /\ UNCHANGED <<store, version, mem, gate, bus, reader, answers, used>>

\* A reader resumes behind the last durable event it was given.
Resumed(rd) ==
    Off(LET durable == {p \in ToSet(rd.got) : p[2] = 0}
        IN  IF durable = {} THEN rd.from ELSE (CHOOSE p \in durable : \A q \in durable : q[1] <= p[1])[1])

Crash ==
    /\ mem.up /\ (Crashable \/ mem.fatal)
    /\ mem' = [mem EXCEPT !.up = FALSE]
    /\ gate' = Free /\ bus' = EmptyBus
    /\ snapshot' = Nothing
    /\ reader' = [r \in Readers |-> Resumed(reader[r])]
    /\ used' = [used EXCEPT !.crashes = IF mem.fatal THEN @ ELSE @ + 1]
    /\ UNCHANGED <<store, checkpoints, version, answers>>

\* The runtime that starts may carry reducers of other versions.
Restart ==
    /\ ~mem.up
    /\ version' \in [Names -> 1 .. MaxVersion]
    /\ mem' = [up |-> TRUE, fatal |-> FALSE, folded |-> Hydrated, anchor |-> 0, sub |-> 0]
    /\ UNCHANGED <<store, checkpoints, gate, bus, snapshot, reader, answers, used>>

-----------------------------------------------------------------------------
LogInit ==
    /\ store = EmptyStore
    /\ checkpoints = [n \in Names |-> NoCheckpoint]
    /\ version = [n \in Names |-> 1]
    /\ mem = [up |-> TRUE, fatal |-> FALSE, folded |-> [n \in Names |-> <<>>], anchor |-> 0, sub |-> 0]
    /\ gate = Free /\ bus = EmptyBus
    /\ snapshot = Nothing
    /\ reader = [r \in Readers |-> Off(0)]
    /\ answers = [c \in Commands |-> {}]
    /\ used = [ephemerals |-> 0, crashes |-> 0, snapshots |-> 0]

ReaderNext(r) ==
    \/ Subscribe(r) \/ ReadHead(r) \/ ReadPage(r) \/ ReadActiveTurn(r) \/ Merge(r) \/ Follow(r)

\* What leaves the sinks alone.
LogStep ==
    \/ \E s \in Submissions : Submit(s)
    \/ \E b \in Batches : EngineAppend(b) \/ DecodeFails(b)
    \/ TransactionFails \/ Fold \/ PublishEphemeral \/ Announce \/ Deliver
    \/ \E r \in Readers : ReaderNext(r)
    \/ RequestSnapshot \/ WriteSnapshot

LogNext == LogStep \/ Release \/ Crash \/ Restart

LogSpec == LogInit /\ [][LogNext]_logVars

-----------------------------------------------------------------------------
(* Properties. *)

\* Every fold of a live process, the application's reducers' included and however
\* old the checkpoint it was hydrated from, is exactly the fold of the log up to
\* one position; and that position is the head of the log, except between a commit
\* and its fold and after a failure that stops the session (publishFreshDurables,
\* hydrateFrameworkReducedState, hydrateAppReducerStates).
FoldIsLog ==
    mem.up =>
      /\ LastSeq <= LogHead(store)
      /\ \A n \in Names : mem.folded[n] = SubSeq(Ids, 1, LastSeq)
      /\ gate.at # "committed" /\ ~mem.fatal => LastSeq = LogHead(store)

\* What a subscription receives is strictly increasing: no two events of one
\* process share a position, ephemerals between two durables included
\* (publishEphemeralCore, publishFreshDurables).  A reader is given them in that
\* order, at the seam between replay and the live bus too (eventsAfter), where one
\* ephemeral may come twice in a row; and whenever it subscribed, it was given or
\* is about to be given every ephemeral of the open turn that the bus still keeps
\* (getActiveTurnEvents, read with the subscription open since before the log).
InHand == IF gate.at = "publishing" THEN ToSet(gate.todo) ELSE {}
EventsOrdered ==
    \A r \in Readers :
      /\ \A i \in 1 .. Len(reader[r].queue) - 1 :
           Before(reader[r].queue[i], reader[r].queue[i + 1])
      /\ \A i \in 1 .. Len(reader[r].got) - 1 :
           ~Before(reader[r].got[i + 1], reader[r].got[i])
      /\ reader[r].at = "following" =>
           ToSet(bus.events) \subseteq ToSet(reader[r].got) \cup ToSet(reader[r].queue) \cup InHand

\* Every row of the log is read back with the body it was appended with: no later
\* append overwrites the sidecar row it is joined to (readLogicalPayload and the
\* upserts of writeSidecars).
LogReadable == \A s \in DOMAIN store.rows : ReadBody(store, s) = store.rows[s].id

\* The log, the readers and the answers implement EventStream: over crashes and
\* resumptions a reader sees each durable event once and in the log's order, and a
\* repeated submission is answered with the position of its first admission
\* (eventsAfter, appendBatch, findCommandAdmissionRow).
SeenBy(r) ==
    LET durables == SelectSeq(reader[r].got, LAMBDA p : p[2] = 0)
    IN  SubSeq(Ids, 1, reader[r].from) \o [i \in DOMAIN durables |-> Ids[durables[i][1]]]

Stream == INSTANCE EventStream WITH
    Followers <- Readers, Clients <- Commands, log <- Ids, answer <- answers,
    seen <- [r \in Readers |-> SeenBy(r)]

StreamImplemented == Stream!StreamSpec
=============================================================================
