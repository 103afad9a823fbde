------------------------------ MODULE HostAlarm ------------------------------
(***************************************************************************)
(* The one alarm that the platform gives a session object, shared by two   *)
(* owners: the runtime (keep-alive heartbeat and redelivery of a run       *)
(* reservation) and the transcript builder (durable-object-alarms.ts,      *)
(* durable-object-alarm-handler.ts, durable-object-keepalive.ts,           *)
(* runtime/session-runtime.ts and the object's constructor).               *)
(*                                                                         *)
(* Each owner's wake-up is a durable row; sync points the platform alarm   *)
(* at the earliest.  The platform fires the alarm at or after its time,    *)
(* retries a handler that threw or died, and gives up after MaxRetries.    *)
(* What one turn of the event loop writes is committed together.           *)
(***************************************************************************)
EXTENDS Integers, Sequences, FiniteSets, FiniteSetsExt

CONSTANTS
  None,
  Interval,              \* of the heartbeat
  MaxRetries,            \* of the platform
  MaxBuilderFailures,
  BuilderRetryDelay,
  MaxSlices,             \* builder slices of one alarm
  Backlog,               \* slices that a new release makes necessary
  EarlyAlarms,           \* whether the platform may fire before the earliest wake-up recorded
  MaxTime, MaxCrashes, MaxFaults   \* bounds

ASSUME HostAssumption ==
  /\ {MaxRetries, MaxTime, MaxCrashes, MaxFaults, Backlog} \subseteq Nat
  /\ {Interval, MaxBuilderFailures, BuilderRetryDelay, MaxSlices} \subseteq Nat \ {0}
  /\ Interval <= BuilderRetryDelay    \* both are 30 s
  /\ None \notin Nat /\ EarlyAlarms \in BOOLEAN

Owners == {"runtime", "transcript"}

VARIABLES
  now,
  row,        \* durable: the wake-up of each owner
  failures,   \* durable, in the builder's row: its consecutive failed alarms
  platform,   \* the platform's alarm: its time, and failed attempts since it was set
  keep,       \* keep-alive: leases, whether a delivery is pending, shut down
  object,     \* "up", "down"; "shutdown" while the session is destroyed
  runtime,    \* "none", "building", "ready"
  doing,      \* what the ready runtime does: a delivery, a reservation, a turn, recovery
  session,    \* durable: an undelivered reservation, builder work; whether it has a transcript
  handler,    \* the alarm handler
  used,       \* crashes and faults so far
  strikes,    \* history: failed builder alarms in a row since its wake-up was last asked for
  doomed      \* history: the session was to be destroyed, and is not yet

host == <<now, row, failures, platform, keep, object, runtime, doing, session, handler, used,
          strikes, doomed>>
alarms == <<row, failures, platform>>
ghosts == <<used, strikes, doomed>>

Resting == [at |-> "idle", due |-> [o \in Owners |-> None], failed |-> FALSE, left |-> 0]
Idle    == [offering |-> FALSE, forked |-> "no", reserving |-> FALSE, turn |-> FALSE,
            recovering |-> FALSE]

HostInit ==
  /\ now = 0 /\ row = [o \in Owners |-> None] /\ failures = 0
  /\ \E at \in {None, 1}, undelivered \in BOOLEAN :    \* armed by an earlier release, or not
       /\ undelivered => at # None
       /\ platform = [at |-> at, tries |-> 0]
       /\ session = [undelivered |-> undelivered, backlog |-> 0, enabled |-> FALSE]
  /\ keep = [leases |-> 0, pending |-> FALSE, shutdown |-> FALSE]
  /\ object = "down" /\ runtime = "none" /\ doing = Idle /\ handler = Resting
  /\ used = [crashes |-> 0, faults |-> 0] /\ strikes = 0 /\ doomed = FALSE

Fault == used.faults < MaxFaults /\ used' = [used EXCEPT !.faults = @ + 1]

-----------------------------------------------------------------------------
(* DurableObjectAlarmScheduler.                                            *)

\* sync: the earliest wake-up, or none.  Its awaits are of the storage and close the object's
\* input gate: a row and the alarm that follows it are written in one step.
EarliestOf(wakeups) ==
  LET times == {wakeups[o] : o \in Owners} \ {None}
  IN IF times = {} THEN None ELSE Min(times)
Synced(wakeups) ==
  platform' = IF platform.at = EarliestOf(wakeups) THEN platform
              ELSE [at |-> EarliestOf(wakeups), tries |-> 0]

\* owner("runtime").getAlarm: a wake-up whose time has come does not look armed.
ArmedSoon ==
  row["runtime"] # None /\ row["runtime"] > now /\ row["runtime"] <= now + Interval

\* request: no later than now; an earlier wake-up is kept, and so are its failures.
Requested(wakeups) ==
  IF wakeups["transcript"] # None /\ wakeups["transcript"] <= now THEN wakeups
  ELSE [wakeups EXCEPT !["transcript"] = now]
Strikes == IF row["transcript"] = None THEN 0 ELSE strikes

\* clearThrough: a later wake-up, armed since, is kept.
ClearedThrough(o, at) ==
  IF row[o] # None /\ row[o] <= at THEN [row EXCEPT ![o] = None] ELSE row

-----------------------------------------------------------------------------
(* DurableObjectKeepAlive.                                                 *)

\* reschedule: arm while there is work, unless an earlier alarm is armed; when there is
\* none, clear only if asked to.  Calls are served in order, with nothing but storage between.
Reschedule(k, clear) ==
  /\ keep' = k
  /\ IF ~k.shutdown /\ (k.leases > 0 \/ k.pending)
       THEN IF ArmedSoon THEN UNCHANGED <<row, platform>>
            ELSE row' = [row EXCEPT !["runtime"] = now + Interval] /\ Synced(row')
       ELSE IF clear \/ k.shutdown
            THEN row' = [row EXCEPT !["runtime"] = None] /\ Synced(row')
            ELSE UNCHANGED <<row, platform>>
  /\ UNCHANGED failures

Acquired == [keep EXCEPT !.leases = @ + 1]
Released == [keep EXCEPT !.leases = IF @ > 0 THEN @ - 1 ELSE 0]

-----------------------------------------------------------------------------
(* EDASessionRuntime, and what a ready runtime asks of its host.           *)

Up == object = "up"
Outside == UNCHANGED <<now, object, strikes, doomed>>

\* get: a session is destroyed only while nothing builds its runtime.
BeginBuild ==
  /\ Up /\ runtime = "none"
  /\ runtime' = "building" /\ keep' = [keep EXCEPT !.shutdown = FALSE]
  /\ UNCHANGED <<alarms, doing, session, handler, used>> /\ Outside

\* start: a delivery is forked, or background recovery goes first and holds a lease.
BecomeReady ==
  /\ Up /\ runtime = "building" /\ runtime' = "ready"
  /\ \/ doing' = [Idle EXCEPT !.forked = "start"] /\ UNCHANGED <<alarms, keep>>
     \/ doing' = [Idle EXCEPT !.recovering = TRUE] /\ Reschedule(Acquired, FALSE)
  /\ UNCHANGED <<session, handler, used>> /\ Outside
BuildFails ==
  /\ Up /\ runtime = "building" /\ Fault /\ runtime' = "none"
  /\ handler' = IF handler.at = "runtime" THEN [handler EXCEPT !.at = "builder", !.failed = TRUE]
                ELSE handler
  /\ UNCHANGED <<alarms, keep, doing, session>> /\ Outside

RuntimeStep == runtime = "ready" /\ ~keep.shutdown /\ UNCHANGED <<runtime, handler, used>> /\ Outside
Gate == ~doing.reserving /\ ~doing.recovering

RecoveryEnds ==
  /\ RuntimeStep /\ doing.recovering
  /\ doing' = [doing EXCEPT !.recovering = FALSE, !.forked = "recovery"]
  /\ Reschedule(Released, FALSE) /\ UNCHANGED session

\* A turn, a drain or a sink: finite work that holds a lease.
TurnBegins ==
  /\ RuntimeStep /\ ~doing.turn /\ ~doing.recovering
  /\ doing' = [doing EXCEPT !.turn = TRUE]
  /\ Reschedule(Acquired, FALSE) /\ UNCHANGED session
TurnEnds ==
  /\ RuntimeStep /\ doing.turn
  /\ doing' = [doing EXCEPT !.turn = FALSE]
  /\ Reschedule(Released, FALSE) /\ UNCHANGED session

\* Mutant: the reservation is appended before its wake-up is recorded.
ReserveUnarmed ==
  /\ RuntimeStep /\ Gate /\ ~session.undelivered
  /\ doing' = [doing EXCEPT !.reserving = TRUE]
  /\ UNCHANGED <<alarms, keep, session>>

\* prepareRunSchedulingRequest: the wake-up is recorded before the reservation is appended.
Reserve ==
  /\ RuntimeStep /\ Gate /\ ~session.undelivered
  /\ doing' = [doing EXCEPT !.reserving = TRUE]
  /\ Reschedule([keep EXCEPT !.pending = TRUE], FALSE) /\ UNCHANGED session
AppendReservation ==
  /\ RuntimeStep /\ doing.reserving
  /\ session' = [session EXCEPT !.undelivered = TRUE]
  /\ doing' = [doing EXCEPT !.reserving = FALSE, !.forked = "append"]
  /\ UNCHANGED <<alarms, keep>>

\* A grant consumes the reservation, delivered or not; the wake-up is reconciled later.
Granted ==
  /\ RuntimeStep /\ Gate /\ session.undelivered
  /\ session' = [session EXCEPT !.undelivered = FALSE]
  /\ UNCHANGED <<alarms, keep, doing>>

\* retryRunSchedulingDelivery: reconcile, then offer under a lease of its own.
Deliver ==
  /\ Gate /\ ~doing.offering
  /\ LET offering == session.undelivered /\ ~keep.shutdown
     IN /\ doing' = [doing EXCEPT !.offering = offering, !.forked = "no"]
        /\ Reschedule([keep EXCEPT !.pending = session.undelivered,
                                   !.leases = @ + IF offering THEN 1 ELSE 0], FALSE)
ForkedDelivery == RuntimeStep /\ doing.forked # "no" /\ Deliver /\ UNCHANGED session
OfferEnds ==
  /\ RuntimeStep /\ doing.offering /\ ~doing.reserving
  /\ doing' = [doing EXCEPT !.offering = FALSE]
  /\ \E delivered \in BOOLEAN : session' = [session EXCEPT !.undelivered = @ /\ ~delivered]
  /\ Reschedule([Released EXCEPT !.pending = session'.undelivered], FALSE)

-----------------------------------------------------------------------------
(* The alarm handler: runEDASessionAlarm.                                  *)

\* due: every wake-up whose time has come, and always the earliest.
Due == [o \in Owners |->
          IF row[o] # None /\ (row[o] <= now \/ row[o] = EarliestOf(row)) THEN row[o] ELSE None]

\* With no wake-up recorded, the alarm is the runtime's.
Fire ==
  /\ Up /\ handler.at = "idle" /\ platform.at # None /\ platform.at <= now
  /\ ~EarlyAlarms /\ EarliestOf(row) # None => EarliestOf(row) <= now
  /\ platform' = [platform EXCEPT !.at = None]
  /\ handler' = [Resting EXCEPT
       !.at = IF Due["runtime"] # None \/ EarliestOf(row) = None THEN "runtime" ELSE "builder",
       !.due = IF EarliestOf(row) = None THEN [Due EXCEPT !["runtime"] = now] ELSE Due,
       !.left = MaxSlices]
  /\ UNCHANGED <<now, row, failures, keep, object, runtime, doing, session, ghosts>>

HandlerStep(place) ==
  /\ object # "down" /\ handler.at = place
  /\ UNCHANGED <<now, object, runtime, doomed>>

\* A delivery in flight, or background recovery, is not waited for.
Retry ==
  /\ HandlerStep("runtime") /\ runtime = "ready"
  /\ \/ /\ doing.recovering \/ doing.offering
        /\ handler' = [handler EXCEPT !.at = "alarm"] /\ UNCHANGED <<alarms, keep, doing>>
     \/ handler' = [handler EXCEPT !.at = "delivery"] /\ Deliver
  /\ UNCHANGED <<session, used, strikes>>
Retried ==
  /\ HandlerStep("delivery") /\ ~doing.offering
  /\ handler' = [handler EXCEPT !.at = "alarm"]
  /\ UNCHANGED <<alarms, keep, doing, session, used, strikes>>

\* The session is fatal.
RuntimeFails ==
  /\ HandlerStep("delivery") /\ Fault
  /\ handler' = [handler EXCEPT !.at = "builder", !.failed = TRUE]
  /\ UNCHANGED <<alarms, keep, doing, session, strikes>>

\* The runtime's part ends: the keep-alive re-arms or clears, and what was due is cleared.
KeepAliveAlarm ==
  /\ HandlerStep("alarm")
  /\ handler' = [handler EXCEPT !.at = "clearing"] /\ Reschedule(keep, TRUE)
  /\ UNCHANGED <<doing, session, used, strikes>>

RuntimeDone ==
  /\ HandlerStep("clearing")
  /\ row' = ClearedThrough("runtime", handler.due["runtime"])
  /\ handler' = [handler EXCEPT !.at = "builder"]
  /\ UNCHANGED <<failures, platform, keep, doing, session, used, strikes>>

BuilderStep ==
  /\ HandlerStep("builder") /\ handler.due["transcript"] # None
  /\ UNCHANGED <<platform, keep, doing>>
NoBuilder ==
  /\ HandlerStep("builder") /\ handler.due["transcript"] = None
  /\ handler' = [handler EXCEPT !.at = "ending"]
  /\ UNCHANGED <<alarms, keep, doing, session, used, strikes>>
BuilderDisabled ==
  /\ BuilderStep /\ ~session.enabled
  /\ row' = [row EXCEPT !["transcript"] = None] /\ failures' = 0
  /\ handler' = [handler EXCEPT !.at = "ending"]
  /\ UNCHANGED <<session, used, strikes>>

\* A slice; after the last, the wake-up is kept while work remains.
Slice ==
  /\ BuilderStep /\ session.enabled
  /\ session' = [session EXCEPT !.backlog = IF @ > 0 THEN @ - 1 ELSE 0]
  /\ IF session'.backlog > 0 /\ handler.left > 1
       THEN handler' = [handler EXCEPT !.left = @ - 1] /\ UNCHANGED <<row, failures, strikes>>
       ELSE /\ row' = IF session'.backlog > 0 THEN [row EXCEPT !["transcript"] = now]
                      ELSE ClearedThrough("transcript", handler.due["transcript"])
            /\ failures' = 0 /\ strikes' = 0
            /\ handler' = [handler EXCEPT !.at = "ending"]
  /\ UNCHANGED used

\* Mutant: the failures are counted in memory, and an alarm starts from none.
SliceFailsUncounted ==
  /\ BuilderStep /\ session.enabled /\ Fault
  /\ strikes' = strikes + 1
  /\ row' = [row EXCEPT !["transcript"] = now + BuilderRetryDelay]
  /\ handler' = [handler EXCEPT !.at = "ending"]
  /\ UNCHANGED <<session, failures>>

\* A failed builder backs off, and stops scheduling itself at the limit.
SliceFails ==
  /\ BuilderStep /\ session.enabled /\ Fault
  /\ strikes' = strikes + 1
  /\ IF failures + 1 >= MaxBuilderFailures
       THEN row' = [row EXCEPT !["transcript"] = None] /\ failures' = 0
       ELSE /\ row' = [row EXCEPT !["transcript"] = now + BuilderRetryDelay]
            /\ failures' = failures + 1
  /\ handler' = [handler EXCEPT !.at = "ending"]
  /\ UNCHANGED session

\* Mutant: only the runtime's part sets the alarm anew.
HandlerReturnsUnsynced ==
  /\ HandlerStep("ending") /\ ~handler.failed
  /\ handler' = Resting /\ platform' = [platform EXCEPT !.tries = 0]
  /\ UNCHANGED <<row, failures, keep, doing, session, used, strikes>>

HandlerReturns ==
  /\ HandlerStep("ending") /\ ~handler.failed
  /\ handler' = Resting /\ platform' = [at |-> EarliestOf(row), tries |-> 0]
  /\ UNCHANGED <<row, failures, keep, doing, session, used, strikes>>

\* The platform's retry; an alarm set meanwhile takes its place.
HandlerThrows ==
  /\ HandlerStep("ending") /\ handler.failed
  /\ handler' = Resting
  /\ platform' = IF platform.at # None THEN platform
                 ELSE [at |-> IF platform.tries < MaxRetries THEN now ELSE None,
                       tries |-> platform.tries + 1]
  /\ UNCHANGED <<row, failures, keep, doing, session, used, strikes>>

-----------------------------------------------------------------------------
(* The object.                                                             *)

\* The constructor: adopt an alarm that no owner recorded, then wake the builder for the
\* work that it finds, or that this release makes.
Start ==
  /\ object = "down" /\ object' = "up"
  /\ \E enabled \in BOOLEAN, released \in BOOLEAN :
       session' = [session EXCEPT !.enabled = enabled,
                     !.backlog = IF enabled /\ released THEN Backlog ELSE @]
  /\ LET adopted == IF EarliestOf(row) = None THEN [row EXCEPT !["runtime"] = platform.at]
                    ELSE row
     IN IF session'.enabled /\ session'.backlog > 0
          THEN row' = Requested(adopted) /\ Synced(row') /\ strikes' = Strikes
          ELSE row' = adopted /\ UNCHANGED <<platform, strikes>>
  /\ UNCHANGED <<now, failures, keep, runtime, doing, handler, used, doomed>>

\* transcriptStatus runs a slice, and wakes the builder for the rest.
TranscriptStatus ==
  /\ Up /\ session.enabled /\ session.backlog > 0
  /\ session' = [session EXCEPT !.backlog = @ - 1]
  /\ IF session'.backlog > 0
       THEN row' = Requested(row) /\ Synced(row') /\ strikes' = Strikes
       ELSE UNCHANGED <<row, platform, strikes>>
  /\ UNCHANGED <<now, failures, keep, object, runtime, doing, handler, used, doomed>>

\* destroySession: shut the keep-alive down, dispose of the runtime, wipe the storage.
Destroy ==
  /\ Up /\ runtime # "building" /\ used.crashes < MaxCrashes
  /\ used' = [used EXCEPT !.crashes = @ + 1]
  /\ object' = "shutdown" /\ doomed' = TRUE
  /\ Reschedule([leases |-> 0, pending |-> FALSE, shutdown |-> TRUE], TRUE)
  /\ UNCHANGED <<now, runtime, doing, session, handler, strikes>>
Wipe ==
  /\ object = "shutdown" /\ object' = "up"
  /\ runtime' = "none" /\ doing' = Idle /\ doomed' = FALSE
  /\ row' = [o \in Owners |-> None] /\ failures' = 0 /\ strikes' = 0
  /\ platform' = [at |-> None, tries |-> 0]
  /\ session' = [session EXCEPT !.undelivered = FALSE, !.backlog = 0]
  /\ handler' = IF handler.at = "delivery" THEN [handler EXCEPT !.at = "builder", !.failed = TRUE]
                ELSE handler
  /\ UNCHANGED <<now, keep, used>>

\* The delivery that recovery forks begins, with its wake-up, in the same turn of the loop.
Forking == doing.forked = "recovery"

\* The alarm of a handler that dies is retried.
Crash ==
  /\ object # "down" /\ used.crashes < MaxCrashes /\ ~Forking
  /\ used' = [used EXCEPT !.crashes = @ + 1]
  /\ object' = "down" /\ runtime' = "none" /\ doing' = Idle /\ handler' = Resting
  /\ keep' = [leases |-> 0, pending |-> FALSE, shutdown |-> FALSE]
  /\ platform' = IF handler.at # "idle" /\ platform.at = None
                   THEN [platform EXCEPT !.at = now] ELSE platform
  /\ UNCHANGED <<now, row, failures, session, strikes, doomed>>

Tick ==
  /\ now < MaxTime /\ now' = now + 1
  /\ UNCHANGED <<alarms, keep, object, runtime, doing, session, handler, ghosts>>

Runtime  == \/ BeginBuild \/ BecomeReady \/ BuildFails \/ RecoveryEnds \/ TurnBegins \/ TurnEnds
            \/ Reserve \/ AppendReservation \/ Granted \/ ForkedDelivery \/ OfferEnds
Handling == \/ Fire \/ Retry \/ Retried \/ RuntimeFails \/ KeepAliveAlarm \/ RuntimeDone
            \/ NoBuilder \/ BuilderDisabled \/ Slice \/ SliceFails
            \/ HandlerReturns \/ HandlerThrows
HostNext == Runtime \/ Handling \/ Start \/ TranscriptStatus \/ Destroy \/ Wipe \/ Crash \/ Tick
HostSpec == HostInit /\ [][HostNext]_host

-----------------------------------------------------------------------------
(* Properties. *)

AtRest == ~Forking /\ handler.at = "idle" /\ object \in {"up", "down"}
GaveUp == platform.tries > MaxRetries

\* Work that must not be forgotten keeps the object's alarm armed: a reservation that no
\* platform accepted yet, over crashes too, a turn in progress (the heartbeat must be delivered,
\* docs/spec.md), and builder work that is left, unless the builder failed too often in a row,
\* counted over evictions.  Only a platform that gave up retrying, or destroying the session,
\* ends the first two.
WorkIsScheduled ==
  /\ AtRest /\ ~doomed /\ (session.undelivered \/ keep.leases > 0) => platform.at # None \/ GaveUp
  /\ AtRest /\ object = "up" /\ session.enabled /\ session.backlog > 0 =>
       row["transcript"] # None \/ strikes = MaxBuilderFailures
  /\ strikes <= MaxBuilderFailures

\* No owner deletes or postpones the other's wake-up.
NoWakeupPostponed ==
  AtRest => \A o \in Owners : row[o] # None =>
    GaveUp \/ (platform.at # None /\ platform.at <= Max({now, row[o]}))
=============================================================================
