-------------------------- MODULE TranscriptBuilder --------------------------
(***************************************************************************)
(* The stored versions of a session's transcript: the append hook that     *)
(* maintains them, the builder slices that build a new version behind the  *)
(* log, activation, freezing and cleanup, over releases that carry         *)
(* different definitions (durable-object-transcript-maintenance.ts,        *)
(* durable-object-transcript-tables.ts, durable-object-transcript.ts).     *)
(*                                                                         *)
(* Every operation is one storage transaction.  An event projects to one   *)
(* row, named by its sequence number; which versions can project it, and   *)
(* which releases can decode it, is given by its kind.                     *)
(***************************************************************************)
EXTENDS Integers, Sequences, FiniteSetsExt

CONSTANTS
  Kinds,           \* of log events
  Releases,        \* the definitions each carries: [current, previous]
  Refuses,         \* version -> the kinds its projection throws on
  Undecodable,     \* release -> the kinds it cannot decode, nor write
  MaxEvents, PageEvents, MaxDeletedRows, MaxSliceFailures,   \* of a slice
  MaxBuilderFailures,                                        \* of the builder's alarm
  MaxLog, MaxStarts, MaxFaults                              \* bounds

ASSUME BuilderAssumption ==
  /\ {MaxEvents, PageEvents, MaxDeletedRows, MaxSliceFailures, MaxBuilderFailures}
       \subseteq Nat \ {0}
  /\ {MaxLog, MaxStarts, MaxFaults} \subseteq Nat /\ 1 \in DOMAIN Releases

VARIABLES
  log,        \* the kinds of the committed events
  slots,      \* the stored versions, in the order of their creation
  release,    \* the release that runs, or ran last
  up, enabled,
  wake,       \* the builder's wake-up, and its failed alarms: [on, failures]
  announced,  \* whether the last step told connected clients to read again
  used        \* starts and faults; whether the builder gave up

builder == <<log, slots, release, up, enabled, wake, announced, used>>

New(v, role) == [version |-> v, role |-> role, cursor |-> 0, rows |-> <<>>, ok |-> TRUE,
                 failures |-> 0]
Awake == [on |-> TRUE, failures |-> wake.failures]
Asleep == [on |-> FALSE, failures |-> 0]

BuilderInit ==
  /\ \E n \in 0..1, k \in Kinds : log = [i \in 1..n |-> k]   \* older than its transcripts
  /\ slots = <<>> /\ release = 1 /\ up = FALSE /\ enabled = FALSE
  /\ wake = Asleep /\ announced = FALSE
  /\ used = [starts |-> 0, faults |-> 0, stopped |-> FALSE]

LogHead == Len(log)
Current == Releases[release].current
Carried(v) == v \in {Releases[release].current, Releases[release].previous}
With(ss, role) == {i \in DOMAIN ss : ss[i].role = role}
Live(ss) == With(ss, "active") \cup With(ss, "building")

-----------------------------------------------------------------------------
(* Metadata: which versions there are.                                     *)

\* reconcileTranscriptSlots: what it retires or starts needs the builder.
Reconciled(ss) ==
  LET superseded == {i \in With(ss, "building") : ss[i].version # Current}
      kept == [i \in DOMAIN ss |->
                 IF i \in superseded THEN [ss[i] EXCEPT !.role = "retired"] ELSE ss[i]]
      started == \/ \E i \in With(ss, "active") : ss[i].version = Current
                 \/ With(kept, "building") # {}
  IN IF Live(ss) = {} THEN Append(ss, New(Current, IF LogHead = 0 THEN "active" ELSE "building"))
     ELSE IF started THEN kept ELSE Append(kept, New(Current, "building"))

\* buildTarget: the building version, else an active one that is behind.
Targets(ss) ==
  LET healthy == {i \in Live(ss) : ss[i].ok /\ Carried(ss[i].version)}
      builds == healthy \cap With(ss, "building")
  IN IF builds # {} THEN builds ELSE {i \in healthy : ss[i].cursor < LogHead}

\* hasPendingTranscriptWork
Pending(ss) ==
  \/ With(ss, "retired") # {}
  \/ Live(ss) = {} /\ LogHead > 0
  \/ Live(ss) # {} /\ Reconciled(ss) # ss
  \/ Targets(ss) # {}

\* Mutant: a start leaves the wake-up as it found it.
ScheduledNever == wake

\* The wake-up that a start or a slice out of turn leaves.
Scheduled == IF Pending(slots)' THEN Awake ELSE wake

\* onPendingWork: kick, when reconciling has left work.
Kicked == wake' = IF Reconciled(slots) # slots THEN Scheduled ELSE wake

-----------------------------------------------------------------------------
(* Rows: what a version has projected.                                     *)

Refused(v, seqs) == {q \in seqs : log'[q] \in Refuses[v]}
Projected(s, to) ==
  [s EXCEPT !.rows = @ \o [i \in 1..(to - s.cursor) |-> s.cursor + i], !.cursor = to]
Frozen(s) == [s EXCEPT !.ok = FALSE]

\* A frozen active version reads as degraded; so does a failed build when nothing is served.
Unserved(ss, i) == ss[i].role = "active" \/ With(ss, "active") = {}

\* Mutant: the hook maintains a version that is behind as well.
MaintainedAnyway(ss) ==
  [i \in DOMAIN ss |->
     IF i \in Live(ss) /\ ss[i].ok /\ Carried(ss[i].version)
       THEN IF Refused(ss[i].version, LogHead + 1..Len(log')) # {} THEN Frozen(ss[i])
            ELSE [ss[i] EXCEPT !.rows = @ \o [q \in 1..(Len(log') - LogHead) |-> LogHead + q],
                               !.cursor = Len(log')]
       ELSE ss[i]]

\* maintainTranscriptsOnAppend: the versions that the new events are all they miss; each fails
\* on its own.
Maintained(ss) ==
  [i \in DOMAIN ss |->
     IF i \in Live(ss) /\ ss[i].ok /\ Carried(ss[i].version) /\ ss[i].cursor = LogHead
       THEN IF Refused(ss[i].version, LogHead + 1..Len(log')) # {} THEN Frozen(ss[i])
            ELSE Projected(ss[i], Len(log'))
       ELSE ss[i]]

\* The append transaction; it publishes what it appends.
AppendBatch ==
  /\ up /\ LogHead < MaxLog /\ UNCHANGED <<release, up, enabled, used>>
  /\ \E n \in 1..2 : \E batch \in [1..n -> Kinds \ Undecodable[release]] :
       LogHead + n <= MaxLog /\ log' = log \o batch
  /\ IF enabled THEN /\ slots' = Maintained(Reconciled(slots))
                     /\ Kicked
                ELSE UNCHANGED <<slots, wake>>
  /\ announced' = TRUE

\* The pages of a slice: each whole or not at all; one with an event that cannot be read or
\* projected freezes the version before it.
Advanced(s) ==
  LET limit == Min({LogHead, s.cursor + MaxEvents})
      bad == {q \in s.cursor + 1..limit : log[q] \in Refuses[s.version] \cup Undecodable[release]}
      pages == (Min(bad) - 1 - s.cursor) \div PageEvents
  IN IF bad = {} THEN Projected(s, limit)
     ELSE Frozen(Projected(s, s.cursor + pages * PageEvents))

\* The slots that are left, in their order.
Undeleted(ss) ==
  LET left[i \in 0..Len(ss)] ==
        IF i = 0 THEN <<>>
        ELSE IF ss[i].role = "deleted" THEN left[i - 1] ELSE Append(left[i - 1], ss[i])
  IN left[Len(ss)]

\* Cleanup, bounded over all retired versions of a slice.
Cleaned(ss) ==
  LET retired == With(ss, "retired")
      left[i \in 0..Len(ss)] ==
        IF i = 0 THEN MaxDeletedRows
        ELSE IF i \in retired THEN left[i - 1] - Min({left[i - 1], Len(ss[i].rows)})
        ELSE left[i - 1]
      shrunk == [i \in DOMAIN ss |->
                   IF i \notin retired THEN ss[i]
                   ELSE IF left[i] > 0 THEN [ss[i] EXCEPT !.role = "deleted"]
                   ELSE [ss[i] EXCEPT !.rows = SubSeq(@, 1 + left[i - 1], Len(@))]]
  IN Undeleted(shrunk)

-----------------------------------------------------------------------------
(* runTranscriptSlice.                                                     *)

\* Mutant: a build whose slice ends is activated, at the head or not.
ActivatedEarly(ss, i) == ss[i].role = "building" /\ ss[i].ok

\* A build is activated by the slice that brings it to the head.
Activated(ss, i) == ss[i].role = "building" /\ ss[i].ok /\ ss[i].cursor = LogHead

Switched(ss, i) ==
  [j \in DOMAIN ss |-> IF j = i THEN [ss[j] EXCEPT !.role = "active"]
                       ELSE IF ss[j].role = "active" THEN [ss[j] EXCEPT !.role = "retired"]
                       ELSE ss[j]]

\* Mutant: a version that was behind is brought up to date in silence.
ServedChangedLess(before, after, i) ==
  \/ Activated(after, i)
  \/ before[i].ok /\ ~after[i].ok /\ Unserved(before, i)

\* What reads serve changed: an activation, a freeze, an active version that caught up.
ServedChanged(before, after, i) ==
  \/ Activated(after, i)
  \/ before[i].ok /\ ~after[i].ok /\ Unserved(before, i)
  \/ before[i].role = "active" /\ after[i].ok /\ after[i].cursor = LogHead

RunSlice ==
  LET reconciled == Reconciled(slots)
      targets == Targets(reconciled)
      advanced == [i \in DOMAIN reconciled |->
                     IF i \in targets THEN [Advanced(reconciled[i]) EXCEPT !.failures = 0]
                     ELSE reconciled[i]]
      activated == {i \in targets : Activated(advanced, i)}
  IN /\ slots' = Cleaned(IF activated = {} THEN advanced
                         ELSE Switched(advanced, Min(activated)))
     /\ announced' = \E i \in targets : ServedChanged(reconciled, advanced, i)

\* A slice that throws is rolled back; the failure is recorded, and at the limit freezes the
\* target.  Recording may fail as well, or find no target to charge.
Charged ==
  LET reconciled == Reconciled(slots)
      targets == Targets(reconciled)
      frozen == {i \in targets : reconciled[i].failures + 1 >= MaxSliceFailures}
  IN /\ slots' = [i \in DOMAIN reconciled |->
                    IF i \notin targets THEN reconciled[i]
                    ELSE [reconciled[i] EXCEPT !.failures = @ + 1, !.ok = i \notin frozen]]
     /\ announced' = \E i \in frozen : Unserved(reconciled, i)
Uncharged == UNCHANGED slots /\ announced' = FALSE
FrozeOne == \E i \in DOMAIN slots : slots[i].ok /\ ~slots'[i].ok

-----------------------------------------------------------------------------
(* Who runs slices.                                                        *)

Working == up /\ enabled /\ UNCHANGED <<log, release, up, enabled>>

\* An alarm of one slice.
AlarmSlice ==
  /\ wake.on /\ Working /\ RunSlice
  /\ wake' = IF Pending(slots)' THEN [on |-> TRUE, failures |-> 0] ELSE Asleep
  /\ UNCHANGED used
AlarmFails ==
  /\ wake.on /\ Working /\ used.faults < MaxFaults
  /\ \/ Charged \/ Uncharged
  /\ LET failures == wake.failures + 1
         stops == ~FrozeOne /\ failures >= MaxBuilderFailures
     IN /\ wake' = IF FrozeOne
                     THEN IF Pending(slots)' THEN [on |-> TRUE, failures |-> 0] ELSE Asleep
                   ELSE IF stops THEN Asleep ELSE [on |-> TRUE, failures |-> failures]
        /\ used' = [used EXCEPT !.faults = @ + 1, !.stopped = stops]
AlarmOfDisabled ==
  /\ wake.on /\ up /\ ~enabled
  /\ wake' = Asleep /\ announced' = FALSE
  /\ UNCHANGED <<log, slots, release, up, enabled, used>>

\* transcriptStatus: a slice, and a wake-up for the rest.
StatusSlice ==
  /\ Working /\ RunSlice
  /\ wake' = Scheduled
  /\ used' = [used EXCEPT !.stopped = @ /\ ~Pending(slots)']
StatusFails ==
  /\ Working /\ used.faults < MaxFaults
  /\ used' = [used EXCEPT !.faults = @ + 1]
  /\ Charged \/ Uncharged
  /\ wake' = IF FrozeOne THEN Scheduled ELSE wake

\* A window or a status is read after reconciling.
Read ==
  /\ Working /\ Reconciled(slots) # slots
  /\ slots' = Reconciled(slots) /\ Kicked /\ announced' = FALSE
  /\ UNCHANGED used

\* The object starts, with this release or another, and schedules what is pending.
Start ==
  /\ ~up /\ up' = TRUE /\ used.starts < MaxStarts
  /\ release' \in DOMAIN Releases /\ enabled' \in BOOLEAN
  /\ used' = [used EXCEPT !.starts = @ + 1, !.stopped = FALSE]
  /\ UNCHANGED <<log, slots, announced>>
  /\ wake' = IF enabled' THEN Scheduled ELSE wake
Stop ==
  /\ up /\ up' = FALSE /\ announced' = FALSE
  /\ UNCHANGED <<log, slots, release, enabled, wake, used>>

BuilderNext ==
  \/ AppendBatch \/ AlarmSlice \/ AlarmFails \/ AlarmOfDisabled
  \/ StatusSlice \/ StatusFails \/ Read \/ Start \/ Stop

BuilderSpec == BuilderInit /\ [][BuilderNext]_builder

-----------------------------------------------------------------------------
(* Properties.                                                             *)

\* At most one version is served and at most one is built (a second would violate the unique
\* index inside the append), and every one of them holds exactly the projection of the log up
\* to its cursor, whoever wrote it, hook or builder; it passed no event its definition refuses.
RowsAreThePrefix ==
  /\ \A role \in {"active", "building"} : \A i, j \in With(slots, role) : i = j
  /\ \A i \in Live(slots) :
       LET s == slots[i]
       IN /\ s.rows = [q \in 1..s.cursor |-> q] /\ s.cursor <= LogHead
          /\ \A q \in 1..s.cursor : log[q] \notin Refuses[s.version]

\* Reads never go back in the log: a build takes over only where it is not behind.
ServedNeverRegresses ==
  [][\A i \in With(slots, "active") : \E j \in With(slots', "active") :
       slots'[j].cursor >= slots[i].cursor]_builder

\* What a window read says of the history it returns.
Readiness(ss) ==
  LET reconciled == Reconciled(ss)
      active == With(reconciled, "active")
      frozen == \E i \in With(reconciled, "building") : ~reconciled[i].ok
  IN IF active = {} THEN IF frozen THEN "Unreadable" ELSE "Building"
     ELSE LET s == reconciled[Min(active)]
          IN IF ~Carried(s.version) THEN "UpdatingHistory"
             ELSE IF ~s.ok THEN "Degraded"
             ELSE IF s.cursor < LogHead THEN "UpdatingHistory" ELSE "Ready"
Served(ss) == <<Readiness(ss), {Reconciled(ss)[i].version : i \in With(Reconciled(ss), "active")}>>

\* A client that stays connected learns of every change of what reads serve: by the events
\* published with it, or by an explicit announcement.
ChangesAnnounced ==
  [][up /\ enabled /\ up' /\ Served(slots)' # Served(slots) => announced']_builder

\* Work that an append, a read, a restart or another release leaves to the builder has a wake-up
\* to do it, unless the builder gave up on it.
PendingIsScheduled == up /\ enabled /\ Pending(slots) => wake.on \/ used.stopped
=============================================================================
