--------------------------- MODULE HostAlarmProofs ---------------------------
(***************************************************************************)
(* The alarm of a session object, proved for every heartbeat, retry limit  *)
(* and delay, provided that the platform is never early: no owner's        *)
(* wake-up is lost or postponed by the other, and what must not be         *)
(* forgotten stays scheduled.                                              *)
(***************************************************************************)
EXTENDS HostAlarm, TLAPS

Times  == Nat \cup {None}
Places == {"idle", "runtime", "delivery", "alarm", "clearing", "builder", "ending"}

KeepType    == [leases : Nat, pending : BOOLEAN, shutdown : BOOLEAN]
DoingType   == [offering : BOOLEAN, forked : {"no", "start", "recovery", "append"},
                reserving : BOOLEAN, turn : BOOLEAN, recovering : BOOLEAN]
SessionType == [undelivered : BOOLEAN, backlog : Nat, enabled : BOOLEAN]
HandlerType == [at : Places, due : [Owners -> Times], failed : BOOLEAN, left : Int]

HostTypeOK ==
  /\ now \in Nat /\ row \in [Owners -> Times] /\ failures \in Nat /\ strikes \in Nat
  /\ platform \in [at : Times, tries : Nat] /\ keep \in KeepType
  /\ object \in {"up", "down", "shutdown"} /\ runtime \in {"none", "building", "ready"}
  /\ doing \in DoingType /\ session \in SessionType /\ handler \in HandlerType
  /\ used \in [crashes : Nat, faults : Nat] /\ doomed \in BOOLEAN

\* An alarm at this time comes no later than any recorded wake-up, or at once.
Covers(at) ==
  \A o \in Owners : row[o] # None => at # None /\ (at <= now \/ at <= row[o])

\* Outside the handler the platform's alarm covers the wake-ups, unless the platform gave
\* up; inside, an alarm that was set meanwhile does.  Nobody asks for more than a delay.
Waking ==
  /\ handler.at = "idle" => GaveUp \/ Covers(platform.at)
  /\ handler.at # "idle" /\ platform.at # None => Covers(platform.at)
  /\ platform.at # None => platform.at <= now + BuilderRetryDelay
  /\ \A o \in Owners : row[o] # None => row[o] <= now + BuilderRetryDelay

\* The builder's wake-up carries its failures, and is only dropped without work or at the
\* limit.  While the alarm fired for it, it is still there, or the session was wiped.
BeforeBuilder == handler.at \in {"runtime", "delivery", "alarm", "clearing", "builder"}
Building ==
  /\ BeforeBuilder /\ handler.due["transcript"] # None =>
       /\ strikes = failures
       /\ \/ row["transcript"] # None /\ row["transcript"] <= now
          \/ row["transcript"] = None /\ session.backlog = 0
  /\ row["transcript"] # None => strikes = failures
  /\ row["transcript"] = None => failures = 0
  /\ failures < MaxBuilderFailures /\ strikes <= MaxBuilderFailures
  /\ object = "up" /\ session.enabled /\ session.backlog > 0 =>
       row["transcript"] # None \/ strikes = MaxBuilderFailures

\* The leases are those of the work in progress, and end with the object.
One(held) == IF held THEN 1 ELSE 0
Leases    == One(doing.offering) + One(doing.turn) + One(doing.recovering)
Living ==
  /\ object = "down" => /\ handler.at = "idle" /\ runtime = "none"
                        /\ keep = [leases |-> 0, pending |-> FALSE, shutdown |-> FALSE]
  /\ object = "shutdown" => doomed /\ keep.shutdown
  /\ runtime # "ready" => doing = Idle
  /\ keep.shutdown => keep.leases = 0 /\ runtime # "building" /\ (doomed \/ runtime = "none")
  /\ ~keep.shutdown => keep.leases = Leases
  /\ doing.recovering => doing.forked = "no" /\ ~doing.reserving
  /\ doing.forked = "start" => ~doing.offering
  /\ doing.reserving /\ ~keep.shutdown => keep.pending /\ row["runtime"] # None

\* What the runtime's part of the handler clears is behind what it re-armed.
InRuntime == handler.at \in {"runtime", "delivery", "alarm", "clearing"}
Clearing ==
  /\ InRuntime => handler.due["runtime"] # None /\ handler.due["runtime"] <= now
  /\ handler.at = "clearing" => row["runtime"] = None \/ row["runtime"] > handler.due["runtime"]

\* That part only finds nothing to keep when no reservation is undelivered, save while the
\* delivery that recovery forks begins.
Delivering ==
  /\ handler.at \in {"delivery", "alarm"} /\ session.undelivered /\ ~doomed =>
       runtime = "ready" /\ doing.forked # "start"
  /\ ~doomed /\ runtime = "ready" /\ doing.forked \in {"no", "append"} /\ ~doing.recovering
       /\ session.undelivered => keep.pending
  /\ ~doomed /\ object = "up" /\ ~Forking /\ (session.undelivered \/ keep.leases > 0) =>
       row["runtime"] # None
  /\ ~doomed /\ object = "down" /\ session.undelivered =>
       \/ row["runtime"] # None
       \/ (\A o \in Owners : row[o] = None) /\ platform.at # None

HostInvariant == HostTypeOK /\ Waking /\ Building /\ Clearing /\ Living /\ Delivering

-----------------------------------------------------------------------------
(* The earliest wake-up. *)

LEMMA OwnersAre == \A o \in Owners : o = "runtime" \/ o = "transcript"
BY DEF Owners

LEMMA EarliestIs ==
  ASSUME NEW w \in [Owners -> Times]
  PROVE  /\ EarliestOf(w) \in Times
         /\ EarliestOf(w) # None => \E o \in Owners : EarliestOf(w) = w[o]
         /\ \A o \in Owners : w[o] # None => EarliestOf(w) # None /\ EarliestOf(w) <= w[o]
<1> DEFINE times == {w[o] : o \in Owners} \ {None}
<1>1. None \notin Nat
  BY HostAssumption
<1>2. times \subseteq Nat
  BY DEF Times
<1>3. CASE times = {}
  BY <1>3 DEF EarliestOf, Times
<1>4. CASE times # {}
  <2>1. \E x \in times : \A y \in times : x <= y
    <3>1. CASE w["runtime"] = None
      <4>1. times \subseteq {w["transcript"]}
        BY <3>1, OwnersAre
      <4> QED BY <4>1, <1>2, <1>4
    <3>2. CASE w["transcript"] = None
      <4>1. times \subseteq {w["runtime"]}
        BY <3>2, OwnersAre
      <4> QED BY <4>1, <1>2, <1>4
    <3>3. CASE w["runtime"] # None /\ w["transcript"] # None
      <4>1. times = {w["runtime"], w["transcript"]}
        BY <3>3, OwnersAre DEF Owners
      <4> HIDE DEF times
      <4>2. w["runtime"] \in Nat /\ w["transcript"] \in Nat
        BY <4>1, <1>2
      <4>3. CASE w["runtime"] <= w["transcript"]
        BY <4>1, <4>2, <4>3
      <4>4. CASE w["transcript"] <= w["runtime"]
        BY <4>1, <4>2, <4>4
      <4> QED BY <4>2, <4>3, <4>4
    <3> QED BY <3>1, <3>2, <3>3
  <2>2. EarliestOf(w) = Min(times)
    BY <1>4 DEF EarliestOf
  <2> HIDE DEF times
  <2>3. Min(times) \in times /\ \A y \in times : Min(times) <= y
    BY <2>1 DEF Min
  <2>4. \A o \in Owners : w[o] # None => w[o] \in times
    BY DEF times
  <2>5. \A x \in times : \E o \in Owners : x = w[o]
    BY DEF times
  <2> QED BY <1>1, <1>2, <2>2, <2>3, <2>4, <2>5 DEF Times
<1> QED BY <1>3, <1>4
LEMMA SyncedAt ==
  ASSUME HostTypeOK, NEW w \in [Owners -> Times], Synced(w)
  PROVE  /\ platform' \in [at : Times, tries : Nat] /\ platform'.at = EarliestOf(w)
         /\ platform' = platform \/ platform'.tries = 0
BY EarliestIs DEF Synced, HostTypeOK

-----------------------------------------------------------------------------
(* What the keep-alive may do to the alarm. *)

Rearmed ==
  \/ UNCHANGED <<row, platform>>
  \/ /\ \/ row' = [row EXCEPT !["runtime"] = None]
        \/ row' = [row EXCEPT !["runtime"] = now + Interval]
     /\ Synced(row')

LEMMA RowUpdate ==
  ASSUME HostTypeOK, NEW o \in Owners, NEW at \in Times
  PROVE  /\ [row EXCEPT ![o] = at] \in [Owners -> Times]
         /\ [row EXCEPT ![o] = at][o] = at
         /\ \A other \in Owners : other # o => [row EXCEPT ![o] = at][other] = row[other]
BY DEF HostTypeOK

LEMMA Clocks ==
  ASSUME HostTypeOK
  PROVE  /\ now \in Nat /\ now + Interval \in Nat /\ now + Interval > now
         /\ now + BuilderRetryDelay \in Nat /\ now + BuilderRetryDelay > now
         /\ now + Interval <= now + BuilderRetryDelay
         /\ now \in Times /\ now + Interval \in Times /\ now + BuilderRetryDelay \in Times
         /\ None \in Times /\ now # None /\ now + Interval # None /\ now + BuilderRetryDelay # None
         /\ "runtime" \in Owners /\ "transcript" \in Owners /\ None \notin Nat
BY HostAssumption DEF HostTypeOK, Times, Owners

LEMMA RescheduleRearms ==
  ASSUME HostTypeOK, NEW k, NEW clear, Reschedule(k, clear)
  PROVE  Rearmed /\ keep' = k /\ failures' = failures
BY DEF Reschedule, Rearmed

LEMMA RearmedRows ==
  ASSUME HostTypeOK, Rearmed
  PROVE  /\ row' \in [Owners -> Times] /\ platform' \in [at : Times, tries : Nat]
         /\ row'["transcript"] = row["transcript"]
         /\ \/ row'["runtime"] = row["runtime"] \/ row'["runtime"] = None
            \/ row'["runtime"] = now + Interval
<1>1. CASE UNCHANGED <<row, platform>>
  BY <1>1 DEF HostTypeOK
<1>2. CASE Synced(row') /\ row' = [row EXCEPT !["runtime"] = None]
  BY <1>2, RowUpdate, Clocks, SyncedAt
<1>3. CASE Synced(row') /\ row' = [row EXCEPT !["runtime"] = now + Interval]
  BY <1>3, RowUpdate, Clocks, SyncedAt
<1> QED BY <1>1, <1>2, <1>3 DEF Rearmed

\* Work keeps the runtime's wake-up, and nothing drops it unless told to.
LEMMA RescheduleArms ==
  ASSUME HostTypeOK, NEW k, NEW clear, Reschedule(k, clear)
  PROVE  /\ ~k.shutdown /\ (k.leases > 0 \/ k.pending) =>
              row'["runtime"] # None /\ row'["runtime"] > now
         /\ row'["runtime"] = None => row["runtime"] = None \/ clear \/ k.shutdown
         /\ clear \/ k.shutdown => row'["runtime"] = None \/ row'["runtime"] > now
BY RowUpdate, Clocks DEF Reschedule, ArmedSoon, HostTypeOK, Times

LEMMA RearmedWakes ==
  ASSUME HostTypeOK, Waking, Rearmed, now' = now, (handler.at = "idle") = (handler'.at = "idle")
  PROVE  Waking'
<1>1. CASE UNCHANGED <<row, platform>>
  BY <1>1 DEF Waking, Covers, GaveUp
<1>2. CASE Synced(row')
  <2>1. row' \in [Owners -> Times] /\ platform'.at = EarliestOf(row')
    BY <1>2, RearmedRows, SyncedAt
  <2>2. Covers(platform.at)'
    BY <2>1, EarliestIs DEF Covers
  <2>3. \A o \in Owners : row'[o] # None => row'[o] <= now + BuilderRetryDelay
    BY RearmedRows, Clocks, OwnersAre DEF Waking
  <2>4. platform'.at # None => platform'.at <= now + BuilderRetryDelay
    BY <2>1, <2>3, EarliestIs
  <2> QED BY <2>2, <2>3, <2>4 DEF Waking
<1> QED BY <1>1, <1>2 DEF Rearmed
LEMMA KeepAliveStep ==
  ASSUME HostInvariant, Rearmed, UNCHANGED <<now, failures, strikes>>,
         object' = object \/ object' = "shutdown",
         handler'.due = handler.due, (handler.at = "idle") = (handler'.at = "idle"),
         BeforeBuilder' => BeforeBuilder,
         session'.backlog = session.backlog, session'.enabled = session.enabled
  PROVE  Waking' /\ Building'
<1>1. Waking'
  BY RearmedWakes DEF HostInvariant
<1>2. row'["transcript"] = row["transcript"]
  BY RearmedRows DEF HostInvariant
<1>3. Building'
  BY <1>2 DEF HostInvariant, Building
<1> QED BY <1>1, <1>3

LEMMA Numbers ==
  ASSUME HostTypeOK
  PROVE  /\ keep.leases \in Nat /\ \A at \in Times : at # None => at \in Nat
         /\ \A o \in Owners : row[o] \in Times /\ handler.due[o] \in Times
         /\ handler.at \in Places
BY DEF HostTypeOK, KeepType, HandlerType, Times

LEMMA ClearingStep ==
  ASSUME HostTypeOK, Clearing, Rearmed, now' = now,
         handler'.due = handler.due, InRuntime' => InRuntime,
         handler'.at = "clearing" => handler.at = "clearing"
  PROVE  Clearing'
<1>1. handler.at = "clearing" =>
        row'["runtime"] = None \/ row'["runtime"] > handler.due["runtime"]
  <2>1. handler.at = "clearing" =>
          handler.due["runtime"] \in Nat /\ handler.due["runtime"] <= now
    BY Numbers, Clocks DEF Clearing, InRuntime
  <2> QED BY <2>1, RearmedRows, Clocks DEF Clearing
<1> QED BY <1>1 DEF Clearing

-----------------------------------------------------------------------------
(* The runtime. *)

LEMMA BeginBuildKeeps ==
  ASSUME HostInvariant, BeginBuild
  PROVE  HostInvariant'
<1> USE DEF BeginBuild, Outside, Up, alarms
<1>1. Rearmed
  BY DEF Rearmed
<1>2. HostTypeOK'
  BY DEF HostInvariant, HostTypeOK, KeepType
<1>3. Waking' /\ Building' /\ Clearing'
  BY <1>1, KeepAliveStep, ClearingStep DEF BeforeBuilder, InRuntime, HostInvariant
<1>4. Living'
  BY DEF HostInvariant, HostTypeOK, KeepType, Living, Leases, One, Idle
<1>5. Delivering'
  BY DEF HostInvariant, HostTypeOK, KeepType, Living, Delivering, Forking
<1> QED BY <1>2, <1>3, <1>4, <1>5 DEF HostInvariant

LEMMA LeasesAre ==
  ASSUME HostTypeOK
  PROVE  /\ Acquired \in KeepType /\ Acquired.leases = keep.leases + 1
         /\ Acquired.pending = keep.pending /\ Acquired.shutdown = keep.shutdown
         /\ Released \in KeepType
         /\ Released.leases = IF keep.leases > 0 THEN keep.leases - 1 ELSE 0
         /\ Released.pending = keep.pending /\ Released.shutdown = keep.shutdown
BY DEF HostTypeOK, KeepType, Acquired, Released

LEMMA IdleIs ==
  /\ Idle \in DoingType /\ Idle.forked = "no"
  /\ ~Idle.offering /\ ~Idle.turn /\ ~Idle.recovering /\ ~Idle.reserving
BY DEF Idle, DoingType

LEMMA BecomeReadyKeeps ==
  ASSUME HostInvariant, BecomeReady
  PROVE  HostInvariant'
<1> USE DEF HostInvariant
<1>1. /\ runtime = "building" /\ runtime' = "ready" /\ object = "up" /\ ~keep.shutdown
      /\ UNCHANGED <<now, object, strikes, doomed, session, handler, used>>
  BY DEF BecomeReady, Outside, Up, Living
<1>2. /\ Rearmed /\ failures' = failures /\ keep' \in KeepType /\ doing' \in DoingType
      /\ Living' /\ Delivering'
  <2>1. CASE doing' = [Idle EXCEPT !.forked = "start"] /\ UNCHANGED <<alarms, keep>>
    <3>1. /\ doing' \in DoingType /\ doing = Idle
          /\ ~doing'.offering /\ ~doing'.turn /\ ~doing'.recovering /\ ~doing'.reserving
          /\ doing'.forked = "start" /\ ~Forking
      <4>1. doing = Idle
        BY <1>1 DEF Living
      <4>2. [Idle EXCEPT !.forked = "start"] \in DoingType
        BY IdleIs DEF DoingType
      <4> QED BY <2>1, <4>1, <4>2, IdleIs DEF DoingType, Forking
    <3>2. keep.leases = 0
      BY <1>1, <3>1 DEF Living, Leases, One, Idle
    <3>3. Living'
      BY <1>1, <2>1, <3>1, <3>2 DEF Living, Leases, One, alarms
    <3>4. Delivering'
      BY <1>1, <2>1, <3>1, <3>2 DEF Delivering, Forking, alarms
    <3> QED BY <2>1, <3>1, <3>3, <3>4 DEF Rearmed, alarms, HostTypeOK
  <2>2. CASE doing' = [Idle EXCEPT !.recovering = TRUE] /\ Reschedule(Acquired, FALSE)
    <3>1. /\ Rearmed /\ failures' = failures /\ keep' = Acquired
      BY <2>2, RescheduleRearms
    <3>2. row'["runtime"] # None /\ row'["runtime"] > now
      <4>1. Acquired.leases > 0 /\ ~Acquired.shutdown
        BY <1>1, LeasesAre, Numbers
      <4> QED BY <2>2, <4>1, RescheduleArms
    <3>3. /\ doing' \in DoingType /\ doing = Idle
          /\ ~doing'.offering /\ ~doing'.turn /\ doing'.recovering /\ ~doing'.reserving
          /\ doing'.forked = "no" /\ ~Forking
      <4>1. doing = Idle
        BY <1>1 DEF Living
      <4>2. [Idle EXCEPT !.recovering = TRUE] \in DoingType
        BY IdleIs DEF DoingType
      <4> QED BY <2>2, <4>1, <4>2, IdleIs DEF DoingType, Forking
    <3>4. keep.leases = 0
      BY <1>1, <3>3 DEF Living, Leases, One, Idle
    <3>5. Living'
      BY <1>1, <3>1, <3>2, <3>3, <3>4, LeasesAre DEF Living, Leases, One
    <3>6. Delivering'
      BY <1>1, <3>1, <3>2, <3>3, <3>4 DEF Delivering, Forking
    <3> QED BY <3>1, <3>3, <3>5, <3>6, LeasesAre
  <2> QED BY <2>1, <2>2 DEF BecomeReady
<1>3. HostTypeOK'
  BY <1>1, <1>2, RearmedRows DEF HostTypeOK
<1>4. Waking' /\ Building' /\ Clearing'
  BY <1>1, <1>2, KeepAliveStep, ClearingStep DEF BeforeBuilder, InRuntime
<1> QED BY <1>2, <1>3, <1>4
LEMMA BuildFailsKeeps ==
  ASSUME HostInvariant, BuildFails
  PROVE  HostInvariant'
<1> USE DEF HostInvariant
<1>1. /\ runtime = "building" /\ runtime' = "none" /\ object = "up" /\ Rearmed
      /\ UNCHANGED <<now, row, failures, platform, keep, object, doing, session, strikes, doomed>>
      /\ used' \in [crashes : Nat, faults : Nat]
  BY DEF BuildFails, Outside, Up, Fault, Rearmed, alarms, HostTypeOK
<1>2. /\ handler' \in HandlerType /\ handler'.due = handler.due
      /\ \/ handler'.at = handler.at
         \/ handler.at = "runtime" /\ handler'.at = "builder"
  BY DEF BuildFails, HostTypeOK, HandlerType, Places
<1>3. HostTypeOK'
  BY <1>1, <1>2 DEF HostTypeOK
<1>4. Waking' /\ Building' /\ Clearing'
  BY <1>1, <1>2, KeepAliveStep, ClearingStep DEF BeforeBuilder, InRuntime
<1>5. Living'
  BY <1>1, <1>2 DEF Living, Leases
<1>6. Delivering'
  BY <1>1, <1>2 DEF Delivering, Forking
<1> QED BY <1>3, <1>4, <1>5, <1>6
LEMMA RuntimeStepIs ==
  ASSUME HostInvariant, RuntimeStep
  PROVE  /\ runtime = "ready" /\ ~keep.shutdown /\ object = "up" /\ keep.leases = Leases
         /\ UNCHANGED <<runtime, handler, used, now, object, strikes, doomed>>
BY DEF HostInvariant, HostTypeOK, RuntimeStep, Outside, Living

\* A step of the runtime that leaves the builder's work alone keeps what is not its own.
LEMMA RuntimeStepKeeps ==
  ASSUME HostInvariant, RuntimeStep, Rearmed, failures' = failures, keep' \in KeepType,
         doing' \in DoingType, session' \in SessionType,
         session'.backlog = session.backlog, session'.enabled = session.enabled
  PROVE  HostTypeOK' /\ Waking' /\ Building' /\ Clearing'
<1>1. UNCHANGED <<runtime, handler, used, now, object, strikes, doomed>>
  BY RuntimeStepIs
<1>2. HostTypeOK'
  BY <1>1, RearmedRows DEF HostTypeOK, HostInvariant
<1>3. Waking' /\ Building' /\ Clearing'
  BY <1>1, KeepAliveStep, ClearingStep DEF BeforeBuilder, InRuntime, HostInvariant
<1> QED BY <1>2, <1>3

LEMMA RecoveryEndsKeeps ==
  ASSUME HostInvariant, RecoveryEnds
  PROVE  HostInvariant'
<1> USE DEF HostInvariant
<1>1. /\ doing.recovering /\ RuntimeStep /\ session' = session
      /\ Rearmed /\ failures' = failures /\ keep' = Released
      /\ row'["runtime"] = None => row["runtime"] = None
  BY RescheduleRearms, RescheduleArms, LeasesAre, RuntimeStepIs DEF RecoveryEnds
<1>2. /\ doing' \in DoingType /\ ~doing'.recovering /\ doing'.forked = "recovery"
      /\ doing'.offering = doing.offering /\ doing'.turn = doing.turn
      /\ doing'.reserving = doing.reserving
  BY DEF RecoveryEnds, HostTypeOK, DoingType
<1>3. HostTypeOK' /\ Waking' /\ Building' /\ Clearing'
  BY <1>1, <1>2, RuntimeStepKeeps, LeasesAre DEF HostTypeOK
<1>4. Living'
  BY <1>1, <1>2, RuntimeStepIs, LeasesAre DEF Living, Leases, One
<1>5. Delivering'
  BY <1>1, <1>2, RuntimeStepIs DEF Delivering, Forking
<1> QED BY <1>3, <1>4, <1>5

LEMMA TurnBeginsKeeps ==
  ASSUME HostInvariant, TurnBegins
  PROVE  HostInvariant'
<1> USE DEF HostInvariant
<1>1. /\ ~doing.turn /\ RuntimeStep /\ session' = session
      /\ Rearmed /\ failures' = failures /\ keep' = Acquired
  BY RescheduleRearms DEF TurnBegins
<1>2. /\ doing' \in DoingType /\ doing'.turn
      /\ doing'.offering = doing.offering /\ doing'.recovering = doing.recovering
      /\ doing'.reserving = doing.reserving /\ doing'.forked = doing.forked
  BY DEF TurnBegins, HostTypeOK, DoingType
<1>3. row'["runtime"] # None
  <2>1. Acquired.leases > 0 /\ ~Acquired.shutdown
    BY <1>1, RuntimeStepIs, LeasesAre, Numbers
  <2> QED BY <2>1, RescheduleArms DEF TurnBegins
<1>4. HostTypeOK' /\ Waking' /\ Building' /\ Clearing'
  BY <1>1, <1>2, RuntimeStepKeeps, LeasesAre DEF HostTypeOK
<1>5. Living'
  BY <1>1, <1>2, <1>3, RuntimeStepIs, LeasesAre DEF Living, Leases, One
<1>6. Delivering'
  BY <1>1, <1>2, <1>3, RuntimeStepIs, LeasesAre DEF Delivering, Forking
<1> QED BY <1>4, <1>5, <1>6

LEMMA TurnEndsKeeps ==
  ASSUME HostInvariant, TurnEnds
  PROVE  HostInvariant'
<1> USE DEF HostInvariant
<1>1. /\ doing.turn /\ RuntimeStep /\ session' = session
      /\ Rearmed /\ failures' = failures /\ keep' = Released
      /\ row'["runtime"] = None => row["runtime"] = None
  BY RescheduleRearms, RescheduleArms, LeasesAre, RuntimeStepIs DEF TurnEnds
<1>2. /\ doing' \in DoingType /\ ~doing'.turn
      /\ doing'.offering = doing.offering /\ doing'.recovering = doing.recovering
      /\ doing'.reserving = doing.reserving /\ doing'.forked = doing.forked
  BY DEF TurnEnds, HostTypeOK, DoingType
<1>3. HostTypeOK' /\ Waking' /\ Building' /\ Clearing'
  BY <1>1, <1>2, RuntimeStepKeeps, LeasesAre DEF HostTypeOK
<1>4. Living'
  BY <1>1, <1>2, RuntimeStepIs, LeasesAre DEF Living, Leases, One
<1>5. Delivering'
  BY <1>1, <1>2, RuntimeStepIs, LeasesAre, Numbers DEF Delivering, Forking
<1> QED BY <1>3, <1>4, <1>5

LEMMA ReserveKeeps ==
  ASSUME HostInvariant, Reserve
  PROVE  HostInvariant'
<1> USE DEF HostInvariant
<1> DEFINE k == [keep EXCEPT !.pending = TRUE]
<1>1. /\ RuntimeStep /\ Gate /\ ~session.undelivered /\ session' = session
      /\ Rearmed /\ failures' = failures /\ keep' = k
  BY RescheduleRearms DEF Reserve
<1>2. k \in KeepType /\ k.pending /\ k.leases = keep.leases /\ k.shutdown = keep.shutdown
  BY DEF HostTypeOK, KeepType
<1>3. row'["runtime"] # None
  <2>1. Reschedule(k, FALSE)
    BY DEF Reserve
  <2> HIDE DEF k
  <2> QED BY <1>1, <1>2, <2>1, RescheduleArms, RuntimeStepIs
<1> HIDE DEF k
<1>4. /\ doing' \in DoingType /\ doing'.turn = doing.turn
      /\ doing'.offering = doing.offering /\ doing'.recovering = doing.recovering
      /\ doing'.forked = doing.forked /\ ~doing.recovering
  BY DEF Reserve, Gate, HostTypeOK, DoingType
<1>5. HostTypeOK' /\ Waking' /\ Building' /\ Clearing'
  BY <1>1, <1>2, <1>4, RuntimeStepKeeps DEF HostTypeOK
<1>6. Living'
  BY <1>1, <1>2, <1>3, <1>4, RuntimeStepIs DEF Living, Leases, One
<1>7. Delivering'
  BY <1>1, <1>2, <1>3, <1>4, RuntimeStepIs DEF Delivering, Forking
<1> QED BY <1>5, <1>6, <1>7

LEMMA AppendReservationKeeps ==
  ASSUME HostInvariant, AppendReservation
  PROVE  HostInvariant'
<1> USE DEF HostInvariant
<1>1. /\ doing.reserving /\ RuntimeStep /\ Rearmed
      /\ UNCHANGED <<row, failures, platform, keep>>
  BY DEF AppendReservation, alarms, Rearmed
<1>2. /\ doing' \in DoingType /\ ~doing'.reserving /\ doing'.forked = "append"
      /\ doing'.offering = doing.offering /\ doing'.recovering = doing.recovering
      /\ doing'.turn = doing.turn
      /\ session' \in SessionType /\ session'.undelivered
      /\ session'.backlog = session.backlog /\ session'.enabled = session.enabled
  BY DEF AppendReservation, HostTypeOK, DoingType, SessionType
<1>3. HostTypeOK' /\ Waking' /\ Building' /\ Clearing'
  BY <1>1, <1>2, RuntimeStepKeeps DEF HostTypeOK
<1>4. ~doing.recovering
  BY <1>1 DEF Living
<1>5. Living'
  BY <1>1, <1>2, <1>4, RuntimeStepIs DEF Living, Leases, One
<1>6. Delivering'
  BY <1>1, <1>2, RuntimeStepIs DEF Delivering, Forking, Living
<1> QED BY <1>3, <1>5, <1>6

LEMMA GrantedKeeps ==
  ASSUME HostInvariant, Granted
  PROVE  HostInvariant'
<1> USE DEF HostInvariant
<1>1. /\ RuntimeStep /\ Rearmed /\ UNCHANGED <<row, failures, platform, keep, doing>>
  BY DEF Granted, alarms, Rearmed
<1>2. /\ session' \in SessionType /\ ~session'.undelivered
      /\ session'.backlog = session.backlog /\ session'.enabled = session.enabled
  BY DEF Granted, HostTypeOK, SessionType
<1>3. HostTypeOK' /\ Waking' /\ Building' /\ Clearing'
  BY <1>1, <1>2, RuntimeStepKeeps DEF HostTypeOK
<1>4. Living'
  BY <1>1, <1>2, RuntimeStepIs DEF Living, Leases
<1>5. Delivering'
  BY <1>1, <1>2, RuntimeStepIs DEF Delivering, Forking
<1> QED BY <1>3, <1>4, <1>5
LEMMA DeliverIs ==
  ASSUME HostInvariant, Deliver, runtime = "ready", UNCHANGED <<runtime, session, object, doomed, now>>
  PROVE  /\ Rearmed /\ failures' = failures /\ keep' \in KeepType /\ doing' \in DoingType
         /\ Living' /\ Delivering'
<1> USE DEF HostInvariant
<1> DEFINE offering == session.undelivered /\ ~keep.shutdown
           k == [keep EXCEPT !.pending = session.undelivered,
                             !.leases = @ + IF offering THEN 1 ELSE 0]
<1>1. Reschedule(k, FALSE) /\ doing' = [doing EXCEPT !.offering = offering, !.forked = "no"]
      /\ ~doing.offering /\ ~doing.reserving /\ ~doing.recovering
  BY DEF Deliver, Gate
<1>2. /\ k \in KeepType /\ k.pending = session.undelivered /\ k.shutdown = keep.shutdown
      /\ k.leases = keep.leases + One(offering)
  <2>1. keep \in KeepType /\ session.undelivered \in BOOLEAN /\ keep.leases \in Nat
    BY DEF HostTypeOK, KeepType, SessionType
  <2>2. keep.leases + One(offering) \in Nat
    BY <2>1 DEF One
  <2>3. k = [keep EXCEPT !.pending = session.undelivered, !.leases = keep.leases + One(offering)]
    BY DEF One
  <2> HIDE DEF k, offering
  <2> QED BY <2>1, <2>2, <2>3 DEF KeepType
<1>3. /\ offering \in BOOLEAN /\ session.undelivered \in BOOLEAN
      /\ offering = (session.undelivered /\ ~keep.shutdown)
  BY DEF HostTypeOK, KeepType, SessionType
<1> HIDE DEF k, offering
<1>4. Rearmed /\ failures' = failures /\ keep' = k
  BY <1>1, RescheduleRearms
<1>5. /\ doing' \in DoingType /\ doing'.offering = offering /\ doing'.forked = "no"
      /\ doing'.turn = doing.turn /\ ~doing'.recovering /\ ~doing'.reserving
  BY <1>1, <1>3 DEF HostTypeOK, DoingType
<1>6. ~k.shutdown /\ (session.undelivered \/ k.leases > 0) => row'["runtime"] # None
  BY <1>1, <1>2, RescheduleArms
<1>7. Living'
  <2>1. CASE keep.shutdown
    <3>1. ~offering
      BY <1>3, <2>1
    <3>2. One(offering) = 0
      BY <3>1 DEF One
    <3>3. k.leases = 0 /\ k.shutdown
      BY <1>2, <2>1, <3>2 DEF Living
    <3> QED BY <1>4, <1>5, <2>1, <3>1, <3>3 DEF Living
  <2>2. CASE ~keep.shutdown
    BY <1>1, <1>2, <1>3, <1>4, <1>5, <2>2, Numbers DEF Living, Leases, One
  <2> QED BY <2>1, <2>2
<1>8. Delivering'
  <2>1. CASE keep.shutdown
    BY <1>2, <1>3, <1>4, <1>5, <2>1, Numbers DEF Living, Delivering, Forking
  <2>2. CASE ~keep.shutdown
    BY <1>1, <1>2, <1>3, <1>4, <1>5, <1>6, <2>2, Numbers DEF Living, Delivering, Forking
  <2> QED BY <2>1, <2>2
<1> QED BY <1>2, <1>4, <1>5, <1>7, <1>8

LEMMA ForkedDeliveryKeeps ==
  ASSUME HostInvariant, ForkedDelivery
  PROVE  HostInvariant'
<1>1. RuntimeStep /\ Deliver /\ session' = session
  BY DEF ForkedDelivery
<1>2. /\ Rearmed /\ failures' = failures /\ keep' \in KeepType /\ doing' \in DoingType
      /\ Living' /\ Delivering'
  BY <1>1, RuntimeStepIs, DeliverIs
<1>3. HostTypeOK' /\ Waking' /\ Building' /\ Clearing'
  BY <1>1, <1>2, RuntimeStepKeeps DEF HostInvariant, HostTypeOK
<1> QED BY <1>2, <1>3 DEF HostInvariant

LEMMA OfferEndsKeeps ==
  ASSUME HostInvariant, OfferEnds
  PROVE  HostInvariant'
<1> USE DEF HostInvariant
<1> DEFINE k == [Released EXCEPT !.pending = session'.undelivered]
<1>1. /\ RuntimeStep /\ doing.offering /\ ~doing.reserving /\ Reschedule(k, FALSE)
      /\ doing' = [doing EXCEPT !.offering = FALSE]
  BY DEF OfferEnds
<1>2. /\ session' \in SessionType /\ (session'.undelivered => session.undelivered)
      /\ session'.backlog = session.backlog /\ session'.enabled = session.enabled
  BY DEF OfferEnds, HostTypeOK, SessionType
<1>3. /\ k \in KeepType /\ k.pending = session'.undelivered /\ k.shutdown = keep.shutdown
      /\ k.leases = Released.leases
  BY <1>2, LeasesAre DEF KeepType, SessionType
<1> HIDE DEF k
<1>4. Rearmed /\ failures' = failures /\ keep' = k
  BY <1>1, RescheduleRearms
<1>5. /\ doing' \in DoingType /\ ~doing'.offering /\ doing'.forked = doing.forked
      /\ doing'.turn = doing.turn /\ doing'.recovering = doing.recovering /\ ~doing'.reserving
  BY <1>1 DEF HostTypeOK, DoingType
<1>6. session'.undelivered \/ k.leases > 0 => row'["runtime"] # None
  BY <1>1, <1>3, RescheduleArms, RuntimeStepIs
<1>7. HostTypeOK' /\ Waking' /\ Building' /\ Clearing'
  BY <1>1, <1>2, <1>3, <1>4, <1>5, RuntimeStepKeeps
<1>8. Living'
  BY <1>1, <1>3, <1>4, <1>5, RuntimeStepIs, LeasesAre DEF Living, Leases, One
<1>9. Delivering'
  BY <1>1, <1>2, <1>3, <1>4, <1>5, <1>6, RuntimeStepIs DEF Delivering, Forking
<1> QED BY <1>7, <1>8, <1>9
-----------------------------------------------------------------------------
(* The alarm handler. *)

LEMMA FireKeeps ==
  ASSUME HostInvariant, Fire, ~EarlyAlarms
  PROVE  HostInvariant'
<1> USE DEF HostInvariant
<1>1. /\ object = "up" /\ handler.at = "idle" /\ platform.at # None
      /\ EarliestOf(row) # None => EarliestOf(row) <= now
      /\ platform' = [platform EXCEPT !.at = None]
      /\ UNCHANGED <<now, row, failures, keep, object, runtime, doing, session, used, strikes, doomed>>
  BY DEF Fire, Up, ghosts
<1>2. row \in [Owners -> Times] /\ None \in Times /\ now \in Times
  BY Clocks DEF HostTypeOK
<1>3. Due \in [Owners -> Times] /\ \A o \in Owners : Due[o] # None => Due[o] = row[o] /\ row[o] <= now
  BY <1>1, <1>2 DEF Due
<1> DEFINE due == IF EarliestOf(row) = None THEN [Due EXCEPT !["runtime"] = now] ELSE Due
           at  == IF Due["runtime"] # None \/ EarliestOf(row) = None THEN "runtime" ELSE "builder"
<1>4. handler' = [Resting EXCEPT !.at = at, !.due = due, !.left = MaxSlices]
  BY DEF Fire
<1>5. due \in [Owners -> Times] /\ at \in {"runtime", "builder"}
  BY <1>2, <1>3
<1>6. due["transcript"] # None => row["transcript"] # None /\ row["transcript"] <= now
  BY <1>2, <1>3, Clocks
<1>7. at = "runtime" => due["runtime"] # None /\ due["runtime"] <= now
  BY <1>2, <1>3, Clocks
<1> HIDE DEF due, at
<1>8. handler' \in HandlerType /\ handler'.at = at /\ handler'.due = due
  <2>1. Resting \in HandlerType /\ MaxSlices \in Int /\ at \in Places
    BY <1>5, Clocks, HostAssumption DEF Resting, HandlerType, Places, Times
  <2> QED BY <1>4, <1>5, <2>1 DEF HandlerType
<1>9. platform' \in [at : Times, tries : Nat] /\ platform'.at = None
  BY <1>1, <1>2 DEF HostTypeOK
<1>10. HostTypeOK'
  BY <1>1, <1>8, <1>9 DEF HostTypeOK
<1>11. Waking'
  BY <1>1, <1>5, <1>8, <1>9 DEF Waking
<1>12. Building'
  BY <1>1, <1>5, <1>6, <1>8 DEF Building, BeforeBuilder
<1>13. Clearing'
  BY <1>1, <1>5, <1>7, <1>8 DEF Clearing, InRuntime
<1>14. Living'
  BY <1>1 DEF Living, Leases
<1>15. Delivering'
  BY <1>1, <1>5, <1>8 DEF Delivering, Forking
<1> QED BY <1>10, <1>11, <1>12, <1>13, <1>14, <1>15

LEMMA Placed ==
  ASSUME HostTypeOK, NEW at \in Places
  PROVE  /\ [handler EXCEPT !.at = at] \in HandlerType
         /\ [handler EXCEPT !.at = at].at = at /\ [handler EXCEPT !.at = at].due = handler.due
         /\ [handler EXCEPT !.at = at, !.failed = TRUE] \in HandlerType
         /\ [handler EXCEPT !.at = at, !.failed = TRUE].at = at
         /\ [handler EXCEPT !.at = at, !.failed = TRUE].due = handler.due
BY DEF HostTypeOK, HandlerType

\* A step of the handler in the runtime's part, that moves on.
LEMMA PartKeeps ==
  ASSUME HostInvariant, Rearmed, failures' = failures, keep' \in KeepType, doing' \in DoingType,
         NEW at \in Places \ {"idle"}, handler' \in HandlerType, handler'.at = at,
         handler'.due = handler.due, handler.at # "idle",
         at \in {"delivery", "alarm"} => handler.at \in {"runtime", "delivery"},
         at # "clearing", at # "runtime",
         at = "builder" => BeforeBuilder,
         used' \in [crashes : Nat, faults : Nat],
         UNCHANGED <<now, object, runtime, session, strikes, doomed>>
  PROVE  HostTypeOK' /\ Waking' /\ Building' /\ Clearing'
<1>1. HostTypeOK'
  BY RearmedRows DEF HostInvariant, HostTypeOK
<1>2. Waking' /\ Building' /\ Clearing'
  <2>1. BeforeBuilder' => BeforeBuilder
    BY DEF BeforeBuilder, Places
  <2>2. (InRuntime' => InRuntime) /\ (handler'.at = "clearing" => handler.at = "clearing")
    BY DEF InRuntime, Places
  <2> QED BY <2>1, <2>2, KeepAliveStep, ClearingStep DEF HostInvariant
<1> QED BY <1>1, <1>2

LEMMA RetryKeeps ==
  ASSUME HostInvariant, Retry
  PROVE  HostInvariant'
<1> USE DEF HostInvariant
<1>1. /\ handler.at = "runtime" /\ runtime = "ready"
      /\ UNCHANGED <<now, object, runtime, session, used, strikes, doomed>>
  BY DEF Retry, HandlerStep
<1>2. CASE /\ doing.recovering \/ doing.offering
           /\ handler' = [handler EXCEPT !.at = "alarm"] /\ UNCHANGED <<alarms, keep, doing>>
  <2>1. /\ Rearmed /\ UNCHANGED <<row, failures, platform, keep, doing>> /\ "alarm" \in Places
        /\ used' \in [crashes : Nat, faults : Nat]
    BY <1>1, <1>2 DEF alarms, Rearmed, Places, HostTypeOK
  <2>2. handler' \in HandlerType /\ handler'.at = "alarm" /\ handler'.due = handler.due
    BY <1>2, <2>1, Placed
  <2>3. HostTypeOK' /\ Waking' /\ Building' /\ Clearing'
    BY <1>1, <2>1, <2>2, PartKeeps DEF HostTypeOK
  <2>4. Living'
    BY <1>1, <2>1, <2>2 DEF Living, Leases
  <2>5. Delivering'
    BY <1>1, <1>2, <2>1, <2>2 DEF Delivering, Living, Forking
  <2> QED BY <2>3, <2>4, <2>5
<1>3. CASE handler' = [handler EXCEPT !.at = "delivery"] /\ Deliver
  <2>1. /\ Rearmed /\ failures' = failures /\ keep' \in KeepType /\ doing' \in DoingType
        /\ Living' /\ Delivering' /\ "delivery" \in Places
        /\ used' \in [crashes : Nat, faults : Nat]
    BY <1>1, <1>3, DeliverIs DEF Places, HostTypeOK
  <2>2. handler' \in HandlerType /\ handler'.at = "delivery" /\ handler'.due = handler.due
    BY <1>3, <2>1, Placed
  <2>3. HostTypeOK' /\ Waking' /\ Building' /\ Clearing'
    BY <1>1, <2>1, <2>2, PartKeeps
  <2> QED BY <2>1, <2>3
<1> QED BY <1>2, <1>3 DEF Retry

LEMMA RetriedKeeps ==
  ASSUME HostInvariant, Retried
  PROVE  HostInvariant'
<1> USE DEF HostInvariant
<1>1. /\ handler.at = "delivery" /\ Rearmed
      /\ UNCHANGED <<now, row, failures, platform, keep, object, runtime, doing, session, used,
                     strikes, doomed>>
      /\ used' \in [crashes : Nat, faults : Nat] /\ "alarm" \in Places
  BY DEF Retried, HandlerStep, alarms, Rearmed, HostTypeOK, Places
<1>2. handler' \in HandlerType /\ handler'.at = "alarm" /\ handler'.due = handler.due
  BY <1>1, Placed DEF Retried
<1>3. HostTypeOK' /\ Waking' /\ Building' /\ Clearing'
  BY <1>1, <1>2, PartKeeps DEF HostTypeOK
<1>4. Living'
  BY <1>1, <1>2 DEF Living, Leases
<1>5. Delivering'
  BY <1>1, <1>2 DEF Delivering, Forking
<1> QED BY <1>3, <1>4, <1>5

LEMMA RuntimeFailsKeeps ==
  ASSUME HostInvariant, RuntimeFails
  PROVE  HostInvariant'
<1> USE DEF HostInvariant
<1>1. /\ handler.at = "delivery" /\ Rearmed
      /\ UNCHANGED <<now, row, failures, platform, keep, object, runtime, doing, session,
                     strikes, doomed>>
      /\ used' \in [crashes : Nat, faults : Nat] /\ "builder" \in Places
  BY DEF RuntimeFails, HandlerStep, alarms, Rearmed, HostTypeOK, Places, Fault
<1>2. handler' \in HandlerType /\ handler'.at = "builder" /\ handler'.due = handler.due
  BY <1>1, Placed DEF RuntimeFails
<1>3. HostTypeOK' /\ Waking' /\ Building' /\ Clearing'
  BY <1>1, <1>2, PartKeeps DEF HostTypeOK, BeforeBuilder
<1>4. Living'
  BY <1>1, <1>2 DEF Living, Leases
<1>5. Delivering'
  BY <1>1, <1>2 DEF Delivering, Forking
<1> QED BY <1>3, <1>4, <1>5
\* The heart of the matter: with a reservation undelivered, or any lease, the keep-alive
\* finds work and re-arms what the handler is about to clear.
LEMMA KeepAliveAlarmKeeps ==
  ASSUME HostInvariant, KeepAliveAlarm
  PROVE  HostInvariant'
<1> USE DEF HostInvariant
<1>1. /\ handler.at = "alarm" /\ Reschedule(keep, TRUE)
      /\ Rearmed /\ failures' = failures /\ keep' = keep /\ "clearing" \in Places
      /\ UNCHANGED <<now, object, runtime, doing, session, used, strikes, doomed>>
  BY RescheduleRearms DEF KeepAliveAlarm, HandlerStep, Places
<1>2. handler' \in HandlerType /\ handler'.at = "clearing" /\ handler'.due = handler.due
  BY <1>1, Placed DEF KeepAliveAlarm
<1>3. HostTypeOK'
  BY <1>1, <1>2, RearmedRows DEF HostTypeOK
<1>4. Waking' /\ Building'
  BY <1>1, <1>2, KeepAliveStep DEF BeforeBuilder
<1>5. row'["runtime"] = None \/ row'["runtime"] > now
  BY <1>1, RescheduleArms
<1>6. ~keep.shutdown /\ (keep.leases > 0 \/ keep.pending) => row'["runtime"] # None
  BY <1>1, RescheduleArms
<1>7. Clearing'
  <2>1. /\ handler.due["runtime"] # None /\ handler.due["runtime"] <= now
    BY <1>1 DEF Clearing, InRuntime
  <2>2. /\ handler.due["runtime"] \in Nat
        /\ row'["runtime"] # None => row'["runtime"] \in Nat
    BY <2>1, Numbers, Clocks, RearmedRows, <1>1
  <2> QED BY <1>1, <1>2, <1>5, <2>1, <2>2, Clocks DEF Clearing
<1>8. Living'
  BY <1>1, <1>2, <1>6 DEF Living, Leases
<1>9. Delivering'
  <2>1. ASSUME ~doomed, object = "up", ~Forking, session.undelivered \/ keep.leases > 0
        PROVE  row'["runtime"] # None
    <3>1. CASE keep.leases > 0
      BY <1>6, <2>1, <3>1 DEF Living
    <3>2. CASE session.undelivered
      <4>1. runtime = "ready" /\ doing.forked # "start"
        BY <1>1, <2>1, <3>2 DEF Delivering
      <4>2. ~keep.shutdown
        BY <2>1, <4>1 DEF Living
      <4>3. doing.forked \in {"no", "append"}
        BY <2>1, <4>1 DEF Forking, HostTypeOK, DoingType
      <4>4. CASE doing.recovering
        <5>1. keep.leases > 0
          BY <4>2, <4>4 DEF Living, Leases, One
        <5> QED BY <1>6, <4>2, <5>1
      <4>5. CASE ~doing.recovering
        BY <1>6, <2>1, <3>2, <4>1, <4>2, <4>3, <4>5 DEF Delivering
      <4> QED BY <4>4, <4>5
    <3> QED BY <2>1, <3>1, <3>2
  <2> QED BY <1>1, <1>2, <2>1 DEF Delivering, Living, Forking
<1> QED BY <1>3, <1>4, <1>7, <1>8, <1>9

\* What the handler clears of the runtime's is nothing by now.
LEMMA RuntimeDoneKeeps ==
  ASSUME HostInvariant, RuntimeDone
  PROVE  HostInvariant'
<1> USE DEF HostInvariant
<1>1. /\ handler.at = "clearing" /\ "builder" \in Places /\ "runtime" \in Owners
      /\ row' = ClearedThrough("runtime", handler.due["runtime"])
      /\ UNCHANGED <<now, failures, platform, keep, object, runtime, doing, session, used,
                     strikes, doomed>>
  BY DEF RuntimeDone, HandlerStep, Places, Owners
<1>2. handler' \in HandlerType /\ handler'.at = "builder" /\ handler'.due = handler.due
  BY <1>1, Placed DEF RuntimeDone
<1>3. row' = row
  <2>1. handler.due["runtime"] # None /\ handler.due["runtime"] <= now
    BY <1>1 DEF Clearing, InRuntime
  <2>2. /\ handler.due["runtime"] \in Nat
        /\ row["runtime"] # None => row["runtime"] \in Nat
    BY <1>1, <2>1, Numbers
  <2> QED BY <1>1, <2>1, <2>2 DEF ClearedThrough, Clearing
<1>4. Rearmed /\ used' \in [crashes : Nat, faults : Nat]
  BY <1>1, <1>3 DEF Rearmed, HostTypeOK
<1>5. HostTypeOK' /\ Waking' /\ Building' /\ Clearing'
  BY <1>1, <1>2, <1>4, PartKeeps DEF HostTypeOK, BeforeBuilder
<1>6. Living'
  BY <1>1, <1>2, <1>3 DEF Living, Leases
<1>7. Delivering'
  BY <1>1, <1>2, <1>3 DEF Delivering, Forking
<1> QED BY <1>5, <1>6, <1>7

LEMMA NoBuilderKeeps ==
  ASSUME HostInvariant, NoBuilder
  PROVE  HostInvariant'
<1> USE DEF HostInvariant
<1>1. /\ handler.at = "builder" /\ Rearmed
      /\ UNCHANGED <<now, row, failures, platform, keep, object, runtime, doing, session, used,
                     strikes, doomed>>
      /\ used' \in [crashes : Nat, faults : Nat] /\ "ending" \in Places
  BY DEF NoBuilder, HandlerStep, alarms, Rearmed, HostTypeOK, Places
<1>2. handler' \in HandlerType /\ handler'.at = "ending" /\ handler'.due = handler.due
  BY <1>1, Placed DEF NoBuilder
<1>3. HostTypeOK' /\ Waking' /\ Building' /\ Clearing'
  BY <1>1, <1>2, PartKeeps DEF HostTypeOK, BeforeBuilder
<1>4. Living'
  BY <1>1, <1>2 DEF Living, Leases
<1>5. Delivering'
  BY <1>1, <1>2 DEF Delivering, Forking
<1> QED BY <1>3, <1>4, <1>5

\* The builder's part: its wake-up is dropped, set to now, or put off by a delay.
LEMMA BuilderKeeps ==
  ASSUME HostInvariant, handler.at = "builder", handler.due["transcript"] # None,
         UNCHANGED <<now, object, runtime, platform, keep, doing, doomed>>,
         handler' \in HandlerType, handler'.at \in {"builder", "ending"},
         handler'.due = handler.due,
         NEW at \in Times, at \in {None, now, now + BuilderRetryDelay} \/ at = row["transcript"],
         row' = [row EXCEPT !["transcript"] = at],
         at = now => row["transcript"] # None,
         session' \in SessionType, session'.undelivered = session.undelivered,
         failures' \in Nat, strikes' \in Nat, used' \in [crashes : Nat, faults : Nat]
  PROVE  HostTypeOK' /\ Waking' /\ Clearing' /\ Living' /\ Delivering'
<1> USE DEF HostInvariant
<1>1. /\ row' \in [Owners -> Times] /\ row'["transcript"] = at /\ row'["runtime"] = row["runtime"]
  BY RowUpdate, Clocks
<1>2. HostTypeOK'
  BY <1>1 DEF HostTypeOK
<1>3. Waking'
  <2>1. platform.at # None => Covers(platform.at)
    BY DEF Waking
  <2>2. platform.at # None => platform.at \in Nat /\ platform.at <= now + BuilderRetryDelay
    BY DEF Waking, HostTypeOK, Times
  <2>3. handler'.at # "idle"
    OBVIOUS
  <2>4. platform.at # None => Covers(platform.at)'
    <3> SUFFICES ASSUME platform.at # None, NEW o \in Owners, row'[o] # None
                 PROVE  platform.at <= now \/ platform.at <= row'[o]
      BY DEF Covers
    <3>1. CASE o = "runtime"
      BY <1>1, <2>1, <3>1 DEF Covers
    <3>2. CASE o = "transcript"
      <4>1. CASE at = now
        <5>1. row["transcript"] # None /\ row["transcript"] <= now
          BY <4>1 DEF Building, BeforeBuilder
        <5>2. row["transcript"] \in Nat
          BY <5>1, Numbers, Clocks
        <5> QED BY <2>1, <2>2, <5>1, <5>2, Clocks DEF Covers
      <4>2. CASE at = now + BuilderRetryDelay
        BY <1>1, <2>2, <3>2, <4>2
      <4>3. CASE at = row["transcript"]
        BY <1>1, <2>1, <3>2, <4>3 DEF Covers
      <4> QED BY <1>1, <3>2, <4>1, <4>2, <4>3
    <3> QED BY <3>1, <3>2, OwnersAre
  <2>5. \A o \in Owners : row'[o] # None => row'[o] <= now + BuilderRetryDelay
    <3> SUFFICES ASSUME NEW o \in Owners, row'[o] # None
                 PROVE  row'[o] <= now + BuilderRetryDelay
      OBVIOUS
    <3>1. CASE o = "runtime"
      BY <1>1, <3>1 DEF Waking
    <3>2. CASE o = "transcript"
      BY <1>1, <3>2, Clocks DEF Waking
    <3> QED BY <3>1, <3>2, OwnersAre
  <2> QED BY <2>2, <2>3, <2>4, <2>5 DEF Waking
<1>4. Clearing'
  BY <1>1 DEF Clearing, InRuntime
<1>5. Living'
  BY <1>1 DEF Living, Leases
<1>6. Delivering'
  <2>1. object # "down"
    BY DEF Living
  <2> QED BY <1>1, <2>1 DEF Delivering, Forking
<1> QED BY <1>2, <1>3, <1>4, <1>5, <1>6
LEMMA BuilderStepIs ==
  ASSUME HostInvariant, BuilderStep
  PROVE  /\ handler.at = "builder" /\ handler.due["transcript"] # None
         /\ UNCHANGED <<now, object, runtime, platform, keep, doing, doomed>>
         /\ strikes = failures /\ failures \in Nat /\ session.backlog \in Nat
         /\ \/ row["transcript"] # None /\ row["transcript"] <= now
            \/ row["transcript"] = None /\ session.backlog = 0
         /\ row["transcript"] \in Times
         /\ row = [row EXCEPT !["transcript"] = row["transcript"]]
         /\ used \in [crashes : Nat, faults : Nat]
         /\ "builder" \in Places /\ "ending" \in Places
BY Numbers, Clocks DEF HostInvariant, Building, BeforeBuilder, BuilderStep, HandlerStep,
                       HostTypeOK, SessionType, Places

LEMMA BuilderDisabledKeeps ==
  ASSUME HostInvariant, BuilderDisabled
  PROVE  HostInvariant'
<1>1. /\ handler.at = "builder" /\ handler.due["transcript"] # None
      /\ row' = [row EXCEPT !["transcript"] = None] /\ failures' = 0 /\ ~session.enabled
      /\ UNCHANGED <<now, object, runtime, platform, keep, doing, doomed, session, used, strikes>>
  BY BuilderStepIs DEF BuilderDisabled
<1>2. handler' \in HandlerType /\ handler'.at = "ending" /\ handler'.due = handler.due
  BY BuilderStepIs, Placed DEF BuilderDisabled, HostInvariant
<1>3. None \in Times /\ None # now /\ row'["transcript"] = None
  BY <1>1, Clocks, RowUpdate DEF HostInvariant
<1>4. HostTypeOK' /\ Waking' /\ Clearing' /\ Living' /\ Delivering'
  BY <1>1, <1>2, <1>3, BuilderKeeps DEF HostInvariant, HostTypeOK
<1>5. Building'
  BY <1>1, <1>2, <1>3, HostAssumption DEF HostInvariant, Building, BeforeBuilder
<1> QED BY <1>4, <1>5 DEF HostInvariant

LEMMA SliceKeeps ==
  ASSUME HostInvariant, Slice
  PROVE  HostInvariant'
<1>1. /\ session' \in SessionType /\ session'.undelivered = session.undelivered
      /\ session'.enabled = session.enabled
      /\ session'.backlog \in Nat /\ session'.backlog <= session.backlog
      /\ session.enabled
  <2>1. session \in SessionType /\ session.backlog \in Nat
    BY DEF HostInvariant, HostTypeOK, SessionType
  <2>2. /\ session' = [session EXCEPT !.backlog = IF @ > 0 THEN @ - 1 ELSE 0]
        /\ session.enabled
    BY DEF Slice
  <2> DEFINE left == IF session.backlog > 0 THEN session.backlog - 1 ELSE 0
  <2>3. left \in Nat /\ left <= session.backlog /\ session' = [session EXCEPT !.backlog = left]
    BY <2>1, <2>2
  <2> HIDE DEF left
  <2> QED BY <2>1, <2>2, <2>3 DEF SessionType
<1>2. used' \in [crashes : Nat, faults : Nat]
  BY BuilderStepIs DEF Slice
<1>3. CASE /\ session'.backlog > 0 /\ handler.left > 1
           /\ handler' = [handler EXCEPT !.left = @ - 1] /\ UNCHANGED <<row, failures, strikes>>
  <2>1. handler' \in HandlerType /\ handler'.at = "builder" /\ handler'.due = handler.due
    BY <1>3, BuilderStepIs DEF Slice, HostInvariant, HostTypeOK, HandlerType
  <2>2. row["transcript"] # None /\ row["transcript"] <= now
    BY <1>1, <1>3, BuilderStepIs DEF Slice
  <2>3. HostTypeOK' /\ Waking' /\ Clearing' /\ Living' /\ Delivering'
    BY <1>1, <1>2, <1>3, <2>1, <2>2, BuilderStepIs, BuilderKeeps DEF Slice, HostInvariant, HostTypeOK
  <2>4. Building'
    BY <1>1, <1>3, <2>1, <2>2, BuilderStepIs DEF Slice, HostInvariant, Building, BeforeBuilder
  <2> QED BY <2>3, <2>4 DEF HostInvariant
<1>4. CASE /\ row' = IF session'.backlog > 0 THEN [row EXCEPT !["transcript"] = now]
                     ELSE ClearedThrough("transcript", handler.due["transcript"])
           /\ failures' = 0 /\ strikes' = 0 /\ handler' = [handler EXCEPT !.at = "ending"]
  <2>1. handler' \in HandlerType /\ handler'.at = "ending" /\ handler'.due = handler.due
    BY <1>4, BuilderStepIs, Placed DEF Slice, HostInvariant
  <2>2. PICK at \in Times :
          /\ at \in {None, now} \/ at = row["transcript"]
          /\ row' = [row EXCEPT !["transcript"] = at]
          /\ at = now => row["transcript"] # None
          /\ session'.backlog > 0 => at # None
    <3>1. CASE session'.backlog > 0
      <4>1. row["transcript"] # None /\ row' = [row EXCEPT !["transcript"] = now]
        BY <1>1, <1>4, <3>1, BuilderStepIs DEF Slice
      <4> QED BY <4>1, Clocks DEF HostInvariant
    <3>2. CASE ~(session'.backlog > 0)
      <4>1. row' = [row EXCEPT !["transcript"] = None] \/ row' = row
        BY <1>4, <3>2 DEF ClearedThrough
      <4>2. CASE row' = [row EXCEPT !["transcript"] = None]
        BY <4>2, <3>2, Clocks DEF HostInvariant
      <4>3. CASE row' = row
        <5>1. row["transcript"] = now => row["transcript"] # None
          BY Clocks DEF HostInvariant
        <5> QED BY <4>3, <5>1, <3>2, BuilderStepIs DEF Slice
      <4> QED BY <4>1, <4>2, <4>3
    <3> QED BY <3>1, <3>2
  <2>3. row'["transcript"] = at
    BY <2>2, RowUpdate, Clocks DEF HostInvariant
  <2>4. HostTypeOK' /\ Waking' /\ Clearing' /\ Living' /\ Delivering'
    BY <1>1, <1>2, <1>4, <2>1, <2>2, BuilderStepIs, BuilderKeeps DEF Slice
  <2>5. Building'
    BY <1>1, <1>4, <2>1, <2>2, <2>3, HostAssumption DEF Building, BeforeBuilder
  <2> QED BY <2>4, <2>5 DEF HostInvariant
<1> QED BY <1>3, <1>4 DEF Slice

LEMMA SliceFailsKeeps ==
  ASSUME HostInvariant, SliceFails
  PROVE  HostInvariant'
<1>1. /\ strikes' = strikes + 1 /\ session' = session
      /\ handler' \in HandlerType /\ handler'.at = "ending" /\ handler'.due = handler.due
  BY BuilderStepIs, Placed DEF SliceFails, HostInvariant
<1>2. strikes' \in Nat /\ used' \in [crashes : Nat, faults : Nat] /\ session' \in SessionType
  BY DEF SliceFails, Fault, HostInvariant, HostTypeOK
<1>3. failures + 1 <= MaxBuilderFailures /\ failures \in Nat /\ strikes = failures
  BY BuilderStepIs, HostAssumption DEF SliceFails, HostInvariant, Building
<1>4. CASE /\ failures + 1 >= MaxBuilderFailures
           /\ row' = [row EXCEPT !["transcript"] = None] /\ failures' = 0
  <2>1. None \in Times /\ None # now /\ row'["transcript"] = None
    BY <1>4, Clocks, RowUpdate DEF HostInvariant
  <2>2. HostTypeOK' /\ Waking' /\ Clearing' /\ Living' /\ Delivering'
    BY <1>1, <1>2, <1>4, <2>1, BuilderStepIs, BuilderKeeps DEF SliceFails
  <2>3. strikes' = MaxBuilderFailures
    BY <1>1, <1>3, <1>4, HostAssumption
  <2>4. Building'
    BY <1>1, <1>4, <2>1, <2>3, HostAssumption DEF Building, BeforeBuilder
  <2> QED BY <2>2, <2>4 DEF HostInvariant
<1>5. CASE /\ ~(failures + 1 >= MaxBuilderFailures) /\ failures' = failures + 1
           /\ row' = [row EXCEPT !["transcript"] = now + BuilderRetryDelay]
  <2>1. /\ now + BuilderRetryDelay \in Times /\ now + BuilderRetryDelay # now
        /\ row'["transcript"] # None
    BY <1>5, Clocks, RowUpdate DEF HostInvariant
  <2>2. failures' \in Nat
    BY <1>3, <1>5
  <2>3. HostTypeOK' /\ Waking' /\ Clearing' /\ Living' /\ Delivering'
    BY <1>1, <1>2, <1>5, <2>1, <2>2, BuilderStepIs, BuilderKeeps DEF SliceFails
  <2>4. Building'
    BY <1>1, <1>3, <1>5, <2>1, HostAssumption DEF Building, BeforeBuilder
  <2> QED BY <2>3, <2>4 DEF HostInvariant
<1> QED BY <1>4, <1>5 DEF SliceFails

LEMMA HandlerReturnsKeeps ==
  ASSUME HostInvariant, HandlerReturns
  PROVE  HostInvariant'
<1> USE DEF HostInvariant
<1>1. /\ handler.at = "ending" /\ object # "down" /\ handler' = Resting
      /\ platform' = [at |-> EarliestOf(row), tries |-> 0]
      /\ UNCHANGED <<now, row, failures, keep, object, runtime, doing, session, used, strikes,
                     doomed>>
  BY DEF HandlerReturns, HandlerStep
<1>2. row \in [Owners -> Times] /\ EarliestOf(row) \in Times
  BY EarliestIs DEF HostTypeOK
<1>3. /\ handler' \in HandlerType /\ handler'.at = "idle"
      /\ platform'.at = EarliestOf(row) /\ platform' \in [at : Times, tries : Nat]
  BY <1>1, <1>2, Clocks DEF Resting, HandlerType, Places
<1>4. HostTypeOK'
  BY <1>1, <1>3 DEF HostTypeOK
<1>5. Waking'
  <2>1. Covers(platform.at)'
    BY <1>1, <1>2, <1>3, EarliestIs DEF Covers
  <2>2. platform'.at # None => platform'.at <= now + BuilderRetryDelay
    BY <1>2, <1>3, EarliestIs DEF Waking
  <2> QED BY <1>1, <1>3, <2>1, <2>2 DEF Waking
<1>6. Building' /\ Clearing'
  BY <1>1, <1>3 DEF Building, BeforeBuilder, Clearing, InRuntime
<1>7. Living' /\ Delivering'
  BY <1>1, <1>3 DEF Living, Leases, Delivering, Forking
<1> QED BY <1>4, <1>5, <1>6, <1>7

LEMMA HandlerThrowsKeeps ==
  ASSUME HostInvariant, HandlerThrows
  PROVE  HostInvariant'
<1> USE DEF HostInvariant
<1>1. /\ handler.at = "ending" /\ object # "down" /\ handler' = Resting
      /\ UNCHANGED <<now, row, failures, keep, object, runtime, doing, session, used, strikes,
                     doomed>>
  BY DEF HandlerThrows, HandlerStep
<1>2. handler' \in HandlerType /\ handler'.at = "idle"
  BY <1>1, Clocks DEF Resting, HandlerType, Places
<1>3. platform' \in [at : Times, tries : Nat] /\ Waking'
  <2>1. CASE platform.at # None
    <3>1. platform' = platform
      BY <2>1 DEF HandlerThrows
    <3> QED BY <1>1, <1>2, <2>1, <3>1 DEF Waking, Covers, HostTypeOK
  <2>2. CASE platform.at = None
    <3> DEFINE at == IF platform.tries < MaxRetries THEN now ELSE None
    <3>1. platform' = [at |-> at, tries |-> platform.tries + 1]
      BY <2>2 DEF HandlerThrows
    <3>2. platform.tries \in Nat /\ MaxRetries \in Nat /\ at \in Times /\ platform.tries + 1 \in Nat
      BY HostAssumption, Clocks DEF HostTypeOK
    <3>3. platform' \in [at : Times, tries : Nat]
      BY <3>1, <3>2
    <3>4. CASE platform.tries < MaxRetries
      <4>1. platform'.at = now
        BY <3>1, <3>4
      <4> QED BY <1>1, <1>2, <3>3, <4>1, Clocks DEF Waking, Covers
    <3>5. CASE ~(platform.tries < MaxRetries)
      <4>1. GaveUp' /\ platform'.at = None
        BY <3>1, <3>2, <3>5 DEF GaveUp
      <4> QED BY <1>1, <1>2, <3>3, <4>1 DEF Waking
    <3> QED BY <3>3, <3>4, <3>5
  <2> QED BY <2>1, <2>2
<1>4. HostTypeOK'
  BY <1>1, <1>2, <1>3 DEF HostTypeOK
<1>5. Building' /\ Clearing'
  BY <1>1, <1>2 DEF Building, BeforeBuilder, Clearing, InRuntime
<1>6. Living' /\ Delivering'
  BY <1>1, <1>2 DEF Living, Leases, Delivering, Forking
<1> QED BY <1>3, <1>4, <1>5, <1>6
-----------------------------------------------------------------------------
(* The object. *)

LEMMA SyncedWakes ==
  ASSUME HostTypeOK, row' \in [Owners -> Times], Synced(row'), now' = now,
         \A o \in Owners : row'[o] # None => row'[o] <= now + BuilderRetryDelay
  PROVE  platform' \in [at : Times, tries : Nat] /\ Waking'
<1>1. platform' \in [at : Times, tries : Nat] /\ platform'.at = EarliestOf(row')
  BY SyncedAt
<1>2. Covers(platform.at)'
  BY <1>1, EarliestIs DEF Covers
<1>3. platform'.at # None => platform'.at <= now + BuilderRetryDelay
  BY <1>1, EarliestIs
<1> QED BY <1>1, <1>2, <1>3 DEF Waking

LEMMA RequestedIs ==
  ASSUME HostTypeOK, NEW w \in [Owners -> Times],
         \A o \in Owners : w[o] # None => w[o] <= now + BuilderRetryDelay
  PROVE  /\ Requested(w) \in [Owners -> Times]
         /\ Requested(w)["runtime"] = w["runtime"]
         /\ Requested(w)["transcript"] # None /\ Requested(w)["transcript"] <= now
         /\ \A o \in Owners : Requested(w)[o] # None => Requested(w)[o] <= now + BuilderRetryDelay
<1>1. CASE w["transcript"] # None /\ w["transcript"] <= now
  BY <1>1 DEF Requested
<1>2. CASE ~(w["transcript"] # None /\ w["transcript"] <= now)
  <2>1. Requested(w) = [w EXCEPT !["transcript"] = now]
    BY <1>2 DEF Requested
  <2>2. /\ Requested(w) \in [Owners -> Times] /\ Requested(w)["transcript"] = now
        /\ Requested(w)["runtime"] = w["runtime"]
    BY <2>1, Clocks
  <2> QED BY <2>2, Clocks, OwnersAre
<1> QED BY <1>1, <1>2

LEMMA StartKeeps ==
  ASSUME HostInvariant, Start
  PROVE  HostInvariant'
<1> USE DEF HostInvariant
<1> DEFINE adopted == IF EarliestOf(row) = None THEN [row EXCEPT !["runtime"] = platform.at]
                      ELSE row
<1>1. /\ object = "down" /\ object' = "up" /\ handler.at = "idle" /\ runtime = "none"
      /\ keep.leases = 0 /\ ~keep.pending /\ ~keep.shutdown /\ doing = Idle
      /\ UNCHANGED <<now, failures, keep, runtime, doing, handler, used, doomed>>
  BY DEF Start, Living
<1>2. /\ session' \in SessionType /\ session'.undelivered = session.undelivered
  BY HostAssumption DEF Start, HostTypeOK, SessionType
<1>3. row \in [Owners -> Times] /\ platform.at \in Times
  BY DEF HostTypeOK
<1>4. /\ adopted \in [Owners -> Times] /\ adopted["transcript"] = row["transcript"]
      /\ adopted["runtime"] = IF \A o \in Owners : row[o] = None THEN platform.at
                              ELSE row["runtime"]
  <2>1. (EarliestOf(row) = None) <=> \A o \in Owners : row[o] = None
    BY <1>3, EarliestIs
  <2>2. CASE EarliestOf(row) = None
    BY <1>3, <2>1, <2>2, RowUpdate, Clocks, OwnersAre
  <2>3. CASE EarliestOf(row) # None
    BY <1>3, <2>1, <2>3
  <2> QED BY <2>2, <2>3
<1>5. IF session'.enabled /\ session'.backlog > 0
        THEN row' = Requested(adopted) /\ Synced(row') /\ strikes' = Strikes
        ELSE row' = adopted /\ UNCHANGED <<platform, strikes>>
  BY DEF Start
<1> HIDE DEF adopted
<1>6. \A o \in Owners : adopted[o] # None => adopted[o] <= now + BuilderRetryDelay
  <2>1. adopted["runtime"] # None => adopted["runtime"] <= now + BuilderRetryDelay
    BY <1>4, Clocks DEF Waking
  <2>2. adopted["transcript"] # None => adopted["transcript"] <= now + BuilderRetryDelay
    BY <1>4, Clocks DEF Waking
  <2> QED BY <2>1, <2>2, OwnersAre
<1>7. /\ row' \in [Owners -> Times] /\ platform' \in [at : Times, tries : Nat] /\ Waking'
      /\ row'["runtime"] = adopted["runtime"] /\ Building' /\ strikes' \in Nat
  <2>1. CASE session'.enabled /\ session'.backlog > 0
    <3>1. /\ row' = Requested(adopted) /\ Synced(row') /\ strikes' = Strikes
      BY <1>5, <2>1
    <3>2. /\ row' \in [Owners -> Times] /\ row'["runtime"] = adopted["runtime"]
          /\ row'["transcript"] # None
          /\ \A o \in Owners : row'[o] # None => row'[o] <= now + BuilderRetryDelay
      BY <1>4, <1>6, <3>1, RequestedIs
    <3>3. platform' \in [at : Times, tries : Nat] /\ Waking'
      BY <1>1, <3>1, <3>2, SyncedWakes
    <3>4. strikes' = failures /\ strikes' \in Nat
      BY <3>1 DEF Strikes, Building, HostTypeOK
    <3>5. Building'
      BY <1>1, <3>2, <3>4, HostAssumption DEF Building, BeforeBuilder, HostTypeOK
    <3> QED BY <3>2, <3>3, <3>4, <3>5
  <2>2. CASE ~(session'.enabled /\ session'.backlog > 0)
    <3>1. /\ row' = adopted /\ platform' = platform /\ strikes' = strikes
      BY <1>5, <2>2
    <3>2. Covers(platform.at)' \/ GaveUp'
      <4>1. CASE \A o \in Owners : row[o] = None
        <5> SUFFICES ASSUME NEW o \in Owners, row'[o] # None
                     PROVE  platform'.at # None /\ platform'.at <= row'[o]
          BY DEF Covers
        <5>1. o = "runtime" /\ row'[o] = platform.at
          BY <1>4, <3>1, <4>1, Clocks, OwnersAre
        <5>2. platform.at \in Nat
          BY <1>3, <5>1 DEF Times
        <5> QED BY <3>1, <5>1, <5>2
      <4>2. CASE ~\A o \in Owners : row[o] = None
        <5>1. \A o \in Owners : row'[o] = row[o]
          BY <1>4, <3>1, <4>2, OwnersAre
        <5> QED BY <1>1, <3>1, <5>1 DEF Waking, Covers, GaveUp
      <4> QED BY <4>1, <4>2
    <3>3. Waking'
      BY <1>1, <1>6, <3>1, <3>2 DEF Waking
    <3>4. Building'
      BY <1>1, <1>4, <2>2, <3>1 DEF Building, BeforeBuilder
    <3> QED BY <1>4, <3>1, <3>3, <3>4 DEF HostTypeOK
  <2> QED BY <2>1, <2>2
<1>8. HostTypeOK'
  BY <1>1, <1>2, <1>7 DEF HostTypeOK
<1>9. Clearing'
  BY <1>1 DEF Clearing, InRuntime
<1>10. Living'
  BY <1>1, IdleIs DEF Living, Leases
<1>11. Delivering'
  <2>1. ~doomed /\ session.undelivered => row'["runtime"] # None
    <3>1. (\A o \in Owners : row[o] = None) => row["runtime"] = None
      BY Clocks
    <3> QED BY <1>1, <1>4, <1>7, <3>1 DEF Delivering
  <2> QED BY <1>1, <1>2, <2>1 DEF Delivering
<1> QED BY <1>7, <1>8, <1>9, <1>10, <1>11

LEMMA TranscriptStatusKeeps ==
  ASSUME HostInvariant, TranscriptStatus
  PROVE  HostInvariant'
<1> USE DEF HostInvariant
<1>1. /\ object = "up" /\ session.enabled /\ session.backlog > 0
      /\ UNCHANGED <<now, failures, keep, object, runtime, doing, handler, used, doomed>>
  BY DEF TranscriptStatus, Up
<1>2. /\ session' \in SessionType /\ session'.undelivered = session.undelivered
      /\ session'.enabled /\ session'.backlog \in Nat
  BY DEF TranscriptStatus, HostTypeOK, SessionType
<1>3. /\ row \in [Owners -> Times]
      /\ \A o \in Owners : row[o] # None => row[o] <= now + BuilderRetryDelay
  BY DEF HostTypeOK, Waking
<1>4. CASE session'.backlog > 0 /\ row' = Requested(row) /\ Synced(row') /\ strikes' = Strikes
  <2>1. /\ row' \in [Owners -> Times] /\ row'["runtime"] = row["runtime"]
        /\ row'["transcript"] # None /\ row'["transcript"] <= now
        /\ \A o \in Owners : row'[o] # None => row'[o] <= now + BuilderRetryDelay
    BY <1>3, <1>4, RequestedIs
  <2>2. platform' \in [at : Times, tries : Nat] /\ Waking'
    BY <1>1, <1>4, <2>1, SyncedWakes
  <2>3. strikes' = failures /\ strikes' \in Nat
    BY <1>4 DEF Strikes, Building, HostTypeOK
  <2>4. HostTypeOK'
    BY <1>1, <1>2, <2>1, <2>2, <2>3 DEF HostTypeOK
  <2>5. Building'
    BY <1>1, <2>1, <2>3, HostAssumption DEF Building, BeforeBuilder, HostTypeOK
  <2>6. Clearing' /\ Living' /\ Delivering'
    BY <1>1, <1>2, <2>1 DEF Clearing, InRuntime, Living, Leases, Delivering, Forking
  <2> QED BY <2>2, <2>4, <2>5, <2>6
<1>5. CASE ~(session'.backlog > 0) /\ UNCHANGED <<row, platform, strikes>>
  <2>1. HostTypeOK'
    BY <1>1, <1>2, <1>5 DEF HostTypeOK
  <2>2. Waking'
    BY <1>1, <1>5 DEF Waking, Covers, GaveUp
  <2>3. session'.backlog = 0
    BY <1>2, <1>5
  <2>4. Building'
    BY <1>1, <1>5, <2>3 DEF Building, BeforeBuilder
  <2>5. Clearing' /\ Living' /\ Delivering'
    BY <1>1, <1>2, <1>5 DEF Clearing, InRuntime, Living, Leases, Delivering, Forking
  <2> QED BY <2>1, <2>2, <2>4, <2>5
<1> QED BY <1>4, <1>5 DEF TranscriptStatus

LEMMA DestroyKeeps ==
  ASSUME HostInvariant, Destroy
  PROVE  HostInvariant'
<1> USE DEF HostInvariant
<1> DEFINE k == [leases |-> 0, pending |-> FALSE, shutdown |-> TRUE]
<1>1. /\ object = "up" /\ runtime # "building" /\ object' = "shutdown" /\ doomed' = TRUE
      /\ used' \in [crashes : Nat, faults : Nat] /\ Reschedule(k, TRUE)
      /\ UNCHANGED <<now, runtime, doing, session, handler, strikes>>
  <2>1. used' = [used EXCEPT !.crashes = @ + 1] /\ used \in [crashes : Nat, faults : Nat]
    BY DEF Destroy, HostTypeOK
  <2>2. used' \in [crashes : Nat, faults : Nat]
    BY <2>1
  <2>3. Reschedule(k, TRUE)
    BY DEF Destroy
  <2> QED BY <2>2, <2>3 DEF Destroy, Up
<1>2. k \in KeepType /\ k.leases = 0 /\ k.shutdown
  BY DEF KeepType
<1> HIDE DEF k
<1>3. Rearmed /\ failures' = failures /\ keep' = k
  BY <1>1, RescheduleRearms
<1>4. HostTypeOK'
  BY <1>1, <1>2, <1>3, RearmedRows DEF HostTypeOK
<1>5. Waking' /\ Building' /\ Clearing'
  BY <1>1, <1>3, KeepAliveStep, ClearingStep DEF BeforeBuilder, InRuntime
<1>6. Living'
  BY <1>1, <1>2, <1>3 DEF Living
<1>7. Delivering'
  BY <1>1 DEF Delivering
<1> QED BY <1>4, <1>5, <1>6, <1>7

LEMMA WipeKeeps ==
  ASSUME HostInvariant, Wipe
  PROVE  HostInvariant'
<1> USE DEF HostInvariant
<1>1. /\ object = "shutdown" /\ object' = "up" /\ runtime' = "none" /\ doing' = Idle
      /\ doomed' = FALSE /\ failures' = 0 /\ strikes' = 0
      /\ keep.shutdown /\ keep.leases = 0 /\ UNCHANGED <<now, keep, used>>
      /\ platform' = [at |-> None, tries |-> 0]
  BY DEF Wipe, Living
<1>2. row' \in [Owners -> Times] /\ \A o \in Owners : row'[o] = None
  BY Clocks DEF Wipe
<1>3. session' \in SessionType /\ ~session'.undelivered /\ session'.backlog = 0
  BY DEF Wipe, HostTypeOK, SessionType
<1>4. /\ handler' \in HandlerType /\ handler'.due = handler.due
      /\ \/ handler'.at = handler.at /\ handler.at # "delivery"
         \/ handler.at = "delivery" /\ handler'.at = "builder"
  <2>1. "builder" \in Places
    BY DEF Places
  <2> QED BY <2>1, Placed DEF Wipe, HostTypeOK
<1>5. platform' \in [at : Times, tries : Nat] /\ platform'.at = None
  BY <1>1, Clocks
<1>6. HostTypeOK'
  BY <1>1, <1>2, <1>3, <1>4, <1>5, IdleIs DEF HostTypeOK
<1>7. Waking'
  BY <1>2, <1>5 DEF Waking, Covers
<1>8. Building'
  BY <1>1, <1>2, <1>3, Clocks, HostAssumption DEF Building
<1>9. Clearing'
  BY <1>1, <1>2, <1>4, Clocks DEF Clearing, InRuntime
<1>10. Living'
  BY <1>1, IdleIs DEF Living
<1>11. Delivering'
  BY <1>1, <1>3, <1>4 DEF Delivering
<1> QED BY <1>6, <1>7, <1>8, <1>9, <1>10, <1>11

LEMMA CrashKeeps ==
  ASSUME HostInvariant, Crash
  PROVE  HostInvariant'
<1> USE DEF HostInvariant
<1>1. /\ object # "down" /\ ~Forking /\ object' = "down" /\ runtime' = "none" /\ doing' = Idle
      /\ handler' = Resting /\ keep' = [leases |-> 0, pending |-> FALSE, shutdown |-> FALSE]
      /\ used' \in [crashes : Nat, faults : Nat]
      /\ UNCHANGED <<now, row, failures, session, strikes, doomed>>
  BY DEF Crash, HostTypeOK
<1>2. handler' \in HandlerType /\ handler'.at = "idle" /\ keep' \in KeepType
      /\ keep'.leases = 0 /\ ~keep'.shutdown
  BY <1>1, Clocks DEF Resting, HandlerType, Places, KeepType
<1>3. platform' \in [at : Times, tries : Nat] /\ Waking'
  <2>1. CASE handler.at # "idle" /\ platform.at = None
    <3>1. platform' \in [at : Times, tries : Nat] /\ platform'.at = now
      BY <2>1, Clocks DEF Crash, HostTypeOK
    <3>2. Covers(platform.at)'
      BY <1>1, <3>1, Clocks DEF Covers
    <3> QED BY <1>1, <1>2, <3>1, <3>2, Clocks DEF Waking
  <2>2. CASE ~(handler.at # "idle" /\ platform.at = None)
    <3>1. platform' = platform
      BY <2>2 DEF Crash
    <3> QED BY <1>1, <1>2, <2>2, <3>1 DEF Waking, Covers, GaveUp, HostTypeOK
  <2> QED BY <2>1, <2>2
<1>4. HostTypeOK'
  BY <1>1, <1>2, <1>3, IdleIs DEF HostTypeOK
<1>5. Building' /\ Clearing'
  BY <1>1, <1>2 DEF Building, BeforeBuilder, Clearing, InRuntime
<1>6. Living'
  BY <1>1, <1>2, IdleIs DEF Living, Leases, One
<1>7. Delivering'
  BY <1>1, <1>2 DEF Delivering, Living, HostTypeOK
<1> QED BY <1>3, <1>4, <1>5, <1>6, <1>7

LEMMA TickKeeps ==
  ASSUME HostInvariant, Tick
  PROVE  HostInvariant'
<1> USE DEF HostInvariant
<1>1. /\ now \in Nat /\ now' = now + 1
      /\ UNCHANGED <<row, failures, platform, keep, object, runtime, doing, session, handler,
                     used, strikes, doomed>>
  BY DEF Tick, alarms, ghosts, HostTypeOK
<1>2. /\ platform.at # None => platform.at \in Nat
      /\ \A o \in Owners : (row[o] # None => row[o] \in Nat)
                        /\ (handler.due[o] # None => handler.due[o] \in Nat)
      /\ BuilderRetryDelay \in Nat /\ "transcript" \in Owners /\ "runtime" \in Owners
  BY Numbers, Clocks, HostAssumption DEF HostTypeOK
<1>3. HostTypeOK'
  BY <1>1 DEF HostTypeOK
<1>4. Waking'
  BY <1>1, <1>2 DEF Waking, Covers, GaveUp
<1>5. Building'
  BY <1>1, <1>2 DEF Building, BeforeBuilder
<1>6. Clearing'
  BY <1>1, <1>2 DEF Clearing, InRuntime
<1>7. Living' /\ Delivering'
  BY <1>1 DEF Living, Leases, Delivering, Forking
<1> QED BY <1>3, <1>4, <1>5, <1>6, <1>7
-----------------------------------------------------------------------------
(* The theorems. *)

LEMMA HostInitHolds ==
  ASSUME HostInit
  PROVE  HostInvariant
<1>1. /\ now = 0 /\ row = [o \in Owners |-> None] /\ failures = 0 /\ strikes = 0
      /\ keep = [leases |-> 0, pending |-> FALSE, shutdown |-> FALSE]
      /\ object = "down" /\ runtime = "none" /\ doing = Idle /\ handler = Resting
      /\ used = [crashes |-> 0, faults |-> 0] /\ doomed = FALSE
  BY DEF HostInit
<1>2. None \in Times /\ 1 \in Times /\ None \notin Nat /\ BuilderRetryDelay \in Nat \ {0}
  BY HostAssumption DEF Times
<1>3. PICK at \in {None, 1}, undelivered \in BOOLEAN :
        /\ undelivered => at # None
        /\ platform = [at |-> at, tries |-> 0]
        /\ session = [undelivered |-> undelivered, backlog |-> 0, enabled |-> FALSE]
  BY DEF HostInit
<1>4. /\ platform \in [at : Times, tries : Nat] /\ platform.at = at /\ session \in SessionType
      /\ session.undelivered = undelivered /\ session.backlog = 0
  BY <1>2, <1>3 DEF SessionType
<1>5. /\ row \in [Owners -> Times] /\ \A o \in Owners : row[o] = None
      /\ "runtime" \in Owners /\ "transcript" \in Owners
  BY <1>1, <1>2 DEF Owners
<1>6. handler \in HandlerType /\ handler.at = "idle" /\ keep \in KeepType /\ keep.leases = 0
  BY <1>1, <1>2 DEF Resting, HandlerType, Places, KeepType
<1>7. HostTypeOK
  BY <1>1, <1>4, <1>5, <1>6, IdleIs DEF HostTypeOK
<1>8. Waking
  <2>1. at # None => at <= now + BuilderRetryDelay
    BY <1>1, <1>2, <1>3
  <2> QED BY <1>4, <1>5, <1>6, <2>1 DEF Waking, Covers
<1>9. Building /\ Clearing
  BY <1>1, <1>4, <1>5, <1>6, HostAssumption DEF Building, BeforeBuilder, Clearing, InRuntime
<1>10. Living
  BY <1>1, <1>6, IdleIs DEF Living, Leases, One
<1>11. Delivering
  BY <1>1, <1>3, <1>4, <1>5, <1>6 DEF Delivering
<1> QED BY <1>7, <1>8, <1>9, <1>10, <1>11 DEF HostInvariant

LEMMA HostNextKeeps ==
  ASSUME HostInvariant, [HostNext]_host, ~EarlyAlarms
  PROVE  HostInvariant'
<1>1. CASE UNCHANGED host
  BY <1>1 DEF host, HostInvariant, HostTypeOK, Waking, Covers, GaveUp, Building, BeforeBuilder,
              Clearing, InRuntime, Living, Leases, One, Delivering, Forking
<1>2. CASE Runtime
  BY <1>2, BeginBuildKeeps, BecomeReadyKeeps, BuildFailsKeeps, RecoveryEndsKeeps,
     TurnBeginsKeeps, TurnEndsKeeps, ReserveKeeps, AppendReservationKeeps, GrantedKeeps,
     ForkedDeliveryKeeps, OfferEndsKeeps DEF Runtime
<1>3. CASE Handling
  BY <1>3, FireKeeps, RetryKeeps, RetriedKeeps, RuntimeFailsKeeps, KeepAliveAlarmKeeps,
     RuntimeDoneKeeps, NoBuilderKeeps, BuilderDisabledKeeps, SliceKeeps, SliceFailsKeeps,
     HandlerReturnsKeeps, HandlerThrowsKeeps DEF Handling
<1>4. CASE Start \/ TranscriptStatus \/ Destroy \/ Wipe \/ Crash \/ Tick
  BY <1>4, StartKeeps, TranscriptStatusKeeps, DestroyKeeps, WipeKeeps, CrashKeeps, TickKeeps
<1> QED BY <1>1, <1>2, <1>3, <1>4 DEF HostNext

\* The inductive invariant of the alarm, the object and its work.
THEOREM HostInvariantHolds ==
  ASSUME ~EarlyAlarms
  PROVE  HostSpec => []HostInvariant
<1>1. HostInit => HostInvariant
  BY HostInitHolds
<1>2. HostInvariant /\ [HostNext]_host => HostInvariant'
  BY HostNextKeeps
<1> QED BY <1>1, <1>2, PTL DEF HostSpec

\* No owner deletes or postpones the other's wake-up: whenever the object is at rest, the
\* platform's alarm comes at once or by the earliest recorded wake-up (sync, request, retain).
THEOREM NoneIsPostponed ==
  ASSUME ~EarlyAlarms
  PROVE  HostSpec => []NoWakeupPostponed
<1>1. HostInvariant => NoWakeupPostponed
  <2> SUFFICES ASSUME HostInvariant, AtRest, NEW o \in Owners, row[o] # None, ~GaveUp
               PROVE  platform.at # None /\ platform.at <= Max({now, row[o]})
    BY DEF NoWakeupPostponed
  <2>1. /\ platform.at # None /\ (platform.at <= now \/ platform.at <= row[o])
    BY DEF AtRest, HostInvariant, Waking, Covers
  <2>2. platform.at \in Nat /\ now \in Nat /\ row[o] \in Nat
    BY <2>1 DEF HostInvariant, HostTypeOK, Times
  <2>3. Max({now, row[o]}) >= now /\ Max({now, row[o]}) >= row[o] /\ Max({now, row[o]}) \in Nat
    <3>1. \E x \in {now, row[o]} : \A y \in {now, row[o]} : x >= y
      <4>1. CASE now >= row[o]
        BY <2>2, <4>1
      <4>2. CASE row[o] >= now
        BY <2>2, <4>2
      <4> QED BY <2>2, <4>1, <4>2
    <3> DEFINE both == {now, row[o]}
    <3>2. now \in both /\ row[o] \in both /\ both \subseteq Nat
      BY <2>2
    <3>3. \E x \in both : \A y \in both : x >= y
      BY <3>1
    <3> HIDE DEF both
    <3>4. Max(both) \in both /\ \A y \in both : Max(both) >= y
      BY <3>3 DEF Max
    <3>5. Max(both) \in Nat /\ Max(both) >= now /\ Max(both) >= row[o]
      BY <3>2, <3>4
    <3> QED BY <3>5 DEF both
  <2> QED BY <2>1, <2>2, <2>3
<1> QED BY <1>1, HostInvariantHolds, PTL

\* An undelivered reservation and a turn in progress keep the alarm armed, over crashes and
\* failed handlers, unless the platform gave up or the session is being destroyed; the
\* builder's work keeps its wake-up unless it failed too often in a row, evictions included.
THEOREM WorkStaysScheduled ==
  ASSUME ~EarlyAlarms
  PROVE  HostSpec => []WorkIsScheduled
<1>1. HostInvariant => WorkIsScheduled
  <2> SUFFICES ASSUME HostInvariant
               PROVE  WorkIsScheduled
    OBVIOUS
  <2> USE DEF HostInvariant
  <2>1. ASSUME AtRest, ~doomed, session.undelivered \/ keep.leases > 0, ~GaveUp
        PROVE  platform.at # None
    <3>1. CASE object = "up"
      <4>1. row["runtime"] # None
        BY <2>1, <3>1 DEF AtRest, Delivering
      <4> QED BY <2>1, <4>1, Clocks DEF AtRest, Waking, Covers
    <3>2. CASE object = "down"
      <4>1. session.undelivered
        BY <2>1, <3>2 DEF Living
      <4>2. CASE row["runtime"] # None
        BY <2>1, <4>2, Clocks DEF AtRest, Waking, Covers
      <4>3. CASE platform.at # None
        BY <4>3
      <4> QED BY <2>1, <3>2, <4>1, <4>2, <4>3 DEF Delivering
    <3> QED BY <2>1, <3>1, <3>2 DEF AtRest
  <2>2. AtRest /\ object = "up" /\ session.enabled /\ session.backlog > 0 =>
          row["transcript"] # None \/ strikes = MaxBuilderFailures
    BY DEF Building
  <2>3. strikes <= MaxBuilderFailures
    BY DEF Building
  <2> QED BY <2>1, <2>2, <2>3 DEF WorkIsScheduled
<1> QED BY <1>1, HostInvariantHolds, PTL
=============================================================================
