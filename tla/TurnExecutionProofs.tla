------------------------- MODULE TurnExecutionProofs -------------------------
(***************************************************************************)
(* What holds of the turns of a session for every value of the constants:  *)
(* whatever was started is closed, tools stay within their limits, and a   *)
(* turn implements the contract the control plane relies on.  All three    *)
(* rest on one inductive invariant, TurnInvariant.                         *)
(***************************************************************************)
EXTENDS TurnExecution, FiniteSetTheorems, TLAPS

-----------------------------------------------------------------------------
(* The inductive invariant. *)

CallType == [made : {"none", "Created", "Rejected"}, attempt : Nat,
             end : {"none", "Completed", "Failed"}]
TurnType == [run : Nat, inference : {"none", "open", "Completed", "Failed"},
             said : SUBSET {"message", "partial"}, call : [Parts -> CallType],
             end : {"open", "Completed", "Failed"}]
Places == {"none", "starting", "streaming", "sealed", "refusing", "tools", "ending", "exited"}
FiberType == [at : Places, decided : [Parts -> {"none", "Created", "Rejected"}], text : BOOLEAN,
              remaining : Nat, corrections : Nat, ends : {"none", "Completed", "Failed", "defect"},
              cut : {"no", "self", "user"},
              exit : {"none", "ok", "failed", "defect", "interrupted"}]
WorkType == {"none", "queued", "started", "running", "answered", "overruled", "done"}

TypeOK ==
  /\ turn \in Seq(TurnType) /\ Now <= MaxTurns
  /\ run \in [id : Nat, open : BOOLEAN]
  /\ fiber \in FiberType
  /\ work \in [Calls -> WorkType]
  /\ process \in {"live", "dead", "down", "reinvoking"}
  /\ ran \in [Calls -> Nat]
  /\ used \in [crashes : 0 .. MaxCrashes, faults : 0 .. MaxFaults]

\* A fiber belongs to the last turn, of the last run; only its calls, or recovery's, are at work.
Owned ==
  /\ fiber.at # "none" => process = "live" /\ Now > 0 /\ turn[Now].run = run.id
  /\ fiber.at = "exited" => fiber.exit # "none"
  /\ \A t \in 1 .. Now : turn[t].run <= run.id
  /\ \A t \in 1 .. MaxTurns, p \in Parts : work[<<t, p>>] # "none" =>
       /\ t <= Now /\ turn[t].call[p].made = "Created"
       /\ process = "reinvoking" \/ (fiber.at \in {"tools", "ending", "exited"} /\ t = Now)

\* In a live process, what is not closed is what the fiber is about to close.
ClosedButForFiber ==
  /\ fiber.at \notin {"none", "exited"} => turn[Now].end = "open"
  /\ process = "live" => \A t \in 1 .. Now :
       /\ turn[t].end = "open" =>
            t = Now /\ fiber.at # "none" /\ (fiber.at = "exited" => fiber.exit = "interrupted")
       /\ turn[t].inference = "open" => t = Now /\ fiber.at = "streaming"
       /\ \A p \in Parts : turn[t].call[p].attempt > 0 /\ turn[t].call[p].end = "none" =>
            /\ t = Now /\ fiber.at = "tools"
            /\ work[<<t, p>>] \in {"started", "running", "answered"}

\* The handler of a call runs behind its attempt in the log, and attempts are counted.
AttemptLimit(p) == IF p \in Reinvoked THEN MaxToolCallAttempts ELSE 1
Attempted ==
  /\ \A t \in 1 .. MaxTurns, p \in Parts : t > Now => ran[<<t, p>>] = 0
  /\ \A t \in 1 .. Now, p \in Parts :
       /\ turn[t].call[p].attempt > 0 => turn[t].call[p].made = "Created"
       /\ ran[<<t, p>>] <= turn[t].call[p].attempt
       /\ turn[t].call[p].attempt <= AttemptLimit(p)
       /\ work[<<t, p>>] = "started" => ran[<<t, p>>] < turn[t].call[p].attempt
       /\ work[<<t, p>>] = "queued" =>
            /\ turn[t].call[p].attempt < AttemptLimit(p)
            /\ process = "reinvoking" => turn[t].call[p].attempt > 0
  /\ fiber.at \in {"starting", "streaming", "sealed"} =>
       \A p \in Parts : turn[Now].call[p].attempt = 0

\* What a run started and completed, and what the turns before the last one decided.
StartedCalls(r)    == {c \in CallsOf(r, "Created") : Call(c).attempt > 0}
CorrectedTurns(r)  == {t \in RejectedTurns(r) : turn[t].end = "Completed"}
EarlierCalls(how)  == {c \in CallsOf(run.id, how) : c[1] < Now}
EarlierRejections  == {c[1] : c \in EarlierCalls("Rejected")}

\* No run ever exceeded its limits on tool calls and on corrected rejections.
WithinLimits ==
  \A r \in 1 .. run.id : /\ Cardinality(StartedCalls(r)) <= MaxToolCallsPerRun
                         /\ Cardinality(CorrectedTurns(r)) <= MaxToolRejectionCorrections

\* The fiber's budget is what the earlier turns of its run left, until it is spent.
Budgeted ==
  /\ WithinLimits
  /\ fiber.at \in {"starting", "streaming", "sealed"} /\ fiber.remaining > 0 =>
       fiber.remaining + Cardinality(EarlierCalls("Created")) <= MaxToolCallsPerRun
  /\ fiber.at \in {"starting", "streaming", "sealed", "tools"} /\ fiber.corrections > 0 =>
       fiber.corrections + Cardinality(EarlierRejections) <= MaxToolRejectionCorrections
  /\ fiber.at = "tools" => Cardinality(CallsOf(run.id, "Created")) <= MaxToolCallsPerRun
  /\ fiber.at = "ending" /\ fiber.ends = "Completed" /\ Rejected # {} =>
       Cardinality(RejectedTurns(run.id)) <= MaxToolRejectionCorrections

TurnInvariant == TypeOK /\ Owned /\ ClosedButForFiber /\ Attempted /\ Budgeted

-----------------------------------------------------------------------------
(* Sequences and records. *)

LEMMA SequenceUpdate ==
  ASSUME NEW S, NEW s \in Seq(S), NEW t \in 1 .. Len(s), NEW x \in S
  PROVE  /\ [s EXCEPT ![t] = x] \in Seq(S) /\ Len([s EXCEPT ![t] = x]) = Len(s)
         /\ \A u \in 1 .. Len(s) : [s EXCEPT ![t] = x][u] = IF u = t THEN x ELSE s[u]
OBVIOUS

LEMMA SequenceAppended ==
  ASSUME NEW S, NEW s \in Seq(S), NEW e \in S, NEW q \in Seq(S), Len(q) = Len(s) + 1,
         q[Len(s) + 1] = e, \A i \in 1 .. Len(s) : q[i] = s[i]
  PROVE  q = Append(s, e)
OBVIOUS

LEMMA TurnFields ==
  ASSUME TypeOK
  PROVE  /\ Now \in Nat /\ Now <= MaxTurns /\ MaxTurns \in Nat
         /\ DOMAIN turn = 1 .. Now
         /\ \A t \in 1 .. Now : turn[t] \in TurnType /\ t \in 1 .. MaxTurns
BY TurnAssumption DEF TypeOK, Now

\* One turn changes.
TurnBecomes(t, x) == turn' = [turn EXCEPT ![t] = x]

LEMMA TurnUpdate ==
  ASSUME TypeOK, NEW t \in 1 .. Now, NEW x \in TurnType, TurnBecomes(t, x)
  PROVE  /\ turn' \in Seq(TurnType) /\ Len(turn') = Now
         /\ \A u \in 1 .. Now : turn'[u] = IF u = t THEN x ELSE turn[u]
BY SequenceUpdate DEF TypeOK, TurnBecomes, Now

LEMMA WorkUpdate ==
  ASSUME TypeOK
  PROVE  /\ \A t \in 1 .. MaxTurns, p \in Parts :
              <<t, p>> \in Calls /\ ran[<<t, p>>] \in Nat /\ work[<<t, p>>] \in WorkType
         /\ \A c \in Calls : /\ c = <<c[1], c[2]>> /\ c[1] \in 1 .. MaxTurns /\ c[2] \in Parts
                             /\ ran[c] \in Nat /\ work[c] \in WorkType
         /\ \A c \in Calls, w \in WorkType :
              /\ [work EXCEPT ![c] = w] \in [Calls -> WorkType]
              /\ \A d \in Calls : [work EXCEPT ![c] = w][d] = IF d = c THEN w ELSE work[d]
         /\ [c \in Calls |-> "none"] \in [Calls -> WorkType]
<1>1. work \in [Calls -> WorkType] /\ ran \in [Calls -> Nat]
  BY DEF TypeOK
<1>2. \A c \in Calls : c = <<c[1], c[2]>> /\ c[1] \in 1 .. MaxTurns /\ c[2] \in Parts
  BY DEF Calls
<1>3. \A t \in 1 .. MaxTurns, p \in Parts : <<t, p>> \in Calls
  BY DEF Calls
<1> QED BY <1>1, <1>2, <1>3 DEF WorkType

LEMMA TypedStep ==
  ASSUME turn' \in Seq(TurnType), Len(turn') <= MaxTurns, run' \in [id : Nat, open : BOOLEAN],
         fiber' \in FiberType, work' \in [Calls -> WorkType],
         process' \in {"live", "dead", "down", "reinvoking"}, ran' \in [Calls -> Nat],
         used' \in [crashes : 0 .. MaxCrashes, faults : 0 .. MaxFaults]
  PROVE  TypeOK'
BY DEF TypeOK, Now, Calls, TurnType, CallType, FiberType, WorkType, Places

LEMMA NextFault ==
  ASSUME TypeOK
  PROVE  /\ Fault => used' \in [crashes : 0 .. MaxCrashes, faults : 0 .. MaxFaults]
         /\ NoFiber \in FiberType
<1>1. Fault => used' \in [crashes : 0 .. MaxCrashes, faults : 0 .. MaxFaults]
  BY SMTT(30), TurnAssumption DEF TypeOK, Fault
<1>2. NoFiber \in FiberType
  BY DEF NoFiber, FiberType, Places, Undecided
<1> QED BY <1>1, <1>2

\* The calls and turns of a run are what its turns decided.
DecisionsKept ==
  /\ Len(turn') = Now /\ run'.id = run.id
  /\ \A t \in 1 .. Now : /\ turn'[t].run = turn[t].run
                         /\ \A p \in Parts : turn'[t].call[p].made = turn[t].call[p].made

LEMMA DecidedSetsKept ==
  ASSUME TypeOK, DecisionsKept
  PROVE  /\ \A r, how : CallsOf(r, how)' = CallsOf(r, how)
         /\ \A r : RejectedTurns(r)' = RejectedTurns(r)
         /\ CallsOf(run.id, "Created")' = CallsOf(run.id, "Created")
         /\ RejectedTurns(run.id)' = RejectedTurns(run.id)
         /\ EarlierCalls("Created")' = EarlierCalls("Created")
         /\ EarlierRejections' = EarlierRejections
         /\ Now > 0 => Rejected' = Rejected /\ Created' = Created
<1> USE DEF DecisionsKept, Now, Made, Call, Calls
<1>1. \A r, how : CallsOf(r, how)' = CallsOf(r, how)
  BY TurnFields DEF CallsOf
<1>2. \A r : RejectedTurns(r)' = RejectedTurns(r)
  BY <1>1 DEF RejectedTurns
<1>3. CallsOf(run.id, "Created")' = CallsOf(run.id, "Created")
  BY TurnFields DEF CallsOf
<1>4. RejectedTurns(run.id)' = RejectedTurns(run.id)
  BY SMTT(30), TurnFields DEF CallsOf, RejectedTurns
<1>5. EarlierCalls("Created")' = EarlierCalls("Created")
  BY <1>3 DEF EarlierCalls
<1>6. EarlierRejections' = EarlierRejections
  BY TurnFields DEF EarlierCalls, EarlierRejections, CallsOf
<1>7. Now > 0 => Rejected' = Rejected /\ Created' = Created
  BY TurnFields DEF Rejected, Created
<1> QED BY <1>1, <1>2, <1>3, <1>4, <1>5, <1>6, <1>7

LEMMA DecidedSetsFinite ==
  /\ \A r, how : IsFiniteSet(CallsOf(r, how))
  /\ \A r : IsFiniteSet(RejectedTurns(r)) /\ RejectedTurns(r) \subseteq 1 .. MaxTurns
  /\ \A r : /\ IsFiniteSet(StartedCalls(r)) /\ IsFiniteSet(CorrectedTurns(r))
            /\ StartedCalls(r) \subseteq CallsOf(r, "Created")
            /\ CorrectedTurns(r) \subseteq RejectedTurns(r)
  /\ \A how : IsFiniteSet(EarlierCalls(how))
  /\ IsFiniteSet(EarlierRejections)
<1>1. IsFiniteSet(1 .. MaxTurns) /\ IsFiniteSet(Parts)
  BY FS_Interval, TurnAssumption
<1>2. IsFiniteSet(Calls)
  BY <1>1, FS_Product DEF Calls
<1>3. \A r, how : CallsOf(r, how) \subseteq Calls
  BY DEF CallsOf
<1>4. \A r : RejectedTurns(r) \subseteq 1 .. MaxTurns
  BY <1>3 DEF RejectedTurns, Calls
<1>5. EarlierRejections \subseteq 1 .. MaxTurns
  BY <1>3 DEF EarlierRejections, EarlierCalls, Calls
<1>6. /\ \A r : StartedCalls(r) \subseteq CallsOf(r, "Created")
      /\ \A r : CorrectedTurns(r) \subseteq RejectedTurns(r)
      /\ \A how : EarlierCalls(how) \subseteq CallsOf(run.id, how)
  BY DEF StartedCalls, CorrectedTurns, EarlierCalls
<1>7. \A S, T : IsFiniteSet(S) /\ T \subseteq S => IsFiniteSet(T)
  BY FS_Subset
<1>8. /\ \A r, how : IsFiniteSet(CallsOf(r, how))
      /\ \A r : IsFiniteSet(RejectedTurns(r))
  BY <1>1, <1>2, <1>3, <1>4, <1>7
<1>9. \A r : IsFiniteSet(StartedCalls(r)) /\ IsFiniteSet(CorrectedTurns(r))
  BY <1>6, <1>7, <1>8
<1>10. \A how : IsFiniteSet(EarlierCalls(how))
  BY <1>6, <1>7, <1>8
<1>11. IsFiniteSet(EarlierRejections)
  BY <1>1, <1>5, <1>7
<1> QED BY <1>4, <1>6, <1>8, <1>9, <1>10, <1>11

LEMMA SmallerSet ==
  ASSUME NEW S, IsFiniteSet(S), NEW T \in SUBSET S, NEW n \in Nat, Cardinality(S) <= n
  PROVE  IsFiniteSet(T) /\ Cardinality(T) \in Nat /\ Cardinality(T) <= n
BY FS_Subset, FS_CardinalityType

\* A step that decides nothing, starts no call and completes no turn.
StartsNothing ==
  /\ DecisionsKept
  /\ \A t \in 1 .. Now :
       /\ turn'[t].end = "Completed" => turn[t].end = "Completed"
       /\ \A p \in Parts : turn'[t].call[p].attempt > 0 => turn[t].call[p].attempt > 0

LEMMA StartedNothing ==
  ASSUME TypeOK, WithinLimits, StartsNothing
  PROVE  WithinLimits'
<1>1. DecisionsKept
  BY DEF StartsNothing
<1>2. \A r : StartedCalls(r)' \subseteq StartedCalls(r)
  <2> SUFFICES ASSUME NEW r, NEW c \in StartedCalls(r)' PROVE c \in StartedCalls(r)
    OBVIOUS
  <2>1. c \in CallsOf(r, "Created") /\ turn'[c[1]].call[c[2]].attempt > 0
    BY <1>1, DecidedSetsKept DEF StartedCalls, Call
  <2>2. c[1] \in 1 .. Now /\ c[2] \in Parts
    BY <2>1, TurnFields DEF CallsOf, Calls, Made
  <2> QED BY <2>1, <2>2 DEF StartsNothing, StartedCalls, Call
<1>3. \A r : CorrectedTurns(r)' \subseteq CorrectedTurns(r)
  <2> SUFFICES ASSUME NEW r, NEW t \in CorrectedTurns(r)' PROVE t \in CorrectedTurns(r)
    OBVIOUS
  <2>1. t \in RejectedTurns(r) /\ turn'[t].end = "Completed"
    BY <1>1, DecidedSetsKept DEF CorrectedTurns
  <2>2. t \in 1 .. Now
    BY <2>1, TurnFields DEF RejectedTurns, CallsOf, Calls, Made
  <2> QED BY <2>1, <2>2 DEF StartsNothing, CorrectedTurns
<1>4. ASSUME NEW r \in 1 .. run.id
      PROVE  /\ Cardinality(StartedCalls(r)') <= MaxToolCallsPerRun
             /\ Cardinality(CorrectedTurns(r)') <= MaxToolRejectionCorrections
  BY <1>2, <1>3, SmallerSet, DecidedSetsFinite, TurnAssumption DEF WithinLimits
<1> QED BY <1>1, <1>4 DEF DecisionsKept, WithinLimits

\* Nor does it grant the fiber a new budget.
SpendsNothing ==
  /\ StartsNothing
  /\ fiber'.at # "none" => Now > 0
  /\ fiber'.at \in {"starting", "streaming", "sealed"} =>
       fiber.at \in {"starting", "streaming", "sealed"} /\ fiber'.remaining = fiber.remaining
  /\ fiber'.at \in {"starting", "streaming", "sealed", "tools"} =>
       /\ fiber.at \in {"starting", "streaming", "sealed", "tools"}
       /\ fiber'.corrections = fiber.corrections
  /\ fiber'.at = "tools" => fiber.at = "tools"
  /\ fiber'.at = "ending" =>
       fiber'.ends # "Completed" \/ (fiber.at = "ending" /\ fiber.ends = "Completed")

LEMMA SpentNothing ==
  ASSUME TypeOK, Budgeted, SpendsNothing
  PROVE  Budgeted'
<1>1. DecisionsKept
  BY DEF SpendsNothing, StartsNothing
<1>2. WithinLimits'
  BY StartedNothing DEF SpendsNothing, Budgeted
<1> QED BY <1>1, <1>2, DecidedSetsKept DEF SpendsNothing, Budgeted

-----------------------------------------------------------------------------
(* Steps that leave the log alone. *)

LEMMA OpenRunKeeps ==
  ASSUME TurnInvariant, OpenRun
  PROVE  TurnInvariant'
<1> USE DEF TurnInvariant, OpenRun, Now
<1>1. TypeOK'
  BY DEF TypeOK, Calls
<1>2. Owned'
  BY TurnFields DEF TypeOK, TurnType, Owned
<1>3. ClosedButForFiber'
  BY DEF ClosedButForFiber
<1>4. Attempted'
  BY DEF Attempted, Calls
<1>5. \A r : StartedCalls(r)' = StartedCalls(r) /\ CorrectedTurns(r)' = CorrectedTurns(r)
  BY DEF StartedCalls, CorrectedTurns, RejectedTurns, CallsOf, Call, Calls, Made
<1>6. \A how : CallsOf(run.id + 1, how) = {}
  <2> SUFFICES ASSUME NEW how, NEW c \in CallsOf(run.id + 1, how) PROVE FALSE
    OBVIOUS
  <2>1. c[1] \in 1 .. Now /\ turn[c[1]].run = run.id + 1
    BY TurnFields DEF CallsOf, Calls, Made
  <2> QED BY <2>1 DEF TypeOK, Owned
<1>7. StartedCalls(run.id + 1) = {} /\ CorrectedTurns(run.id + 1) = {}
  BY <1>6 DEF StartedCalls, CorrectedTurns, RejectedTurns
<1>8. Budgeted'
  <2>1. ASSUME NEW r \in 1 .. run.id + 1
        PROVE  /\ Cardinality(StartedCalls(r)) <= MaxToolCallsPerRun
               /\ Cardinality(CorrectedTurns(r)) <= MaxToolRejectionCorrections
    <3>1. CASE r = run.id + 1
      <4>1. StartedCalls(r) = {} /\ CorrectedTurns(r) = {}
        BY <3>1, <1>7
      <4>2. Cardinality(StartedCalls(r)) = 0 /\ Cardinality(CorrectedTurns(r)) = 0
        BY <4>1, FS_EmptySet
      <4> QED BY <4>2, TurnAssumption
    <3>2. CASE r # run.id + 1
      BY <3>2 DEF TypeOK, Budgeted, WithinLimits
    <3> QED BY <3>1, <3>2
  <2> QED BY <2>1, <1>5 DEF TypeOK, Budgeted, WithinLimits
<1> QED BY <1>1, <1>2, <1>3, <1>4, <1>8

LEMMA ReceiveTextKeeps ==
  ASSUME TurnInvariant, ReceiveText
  PROVE  TurnInvariant'
<1> USE DEF TurnInvariant, ReceiveText, WithText, At, InferenceStep, Now
<1>1. TypeOK'
  BY DEF TypeOK, FiberType, Calls
<1>2. Owned'
  BY DEF TypeOK, FiberType, Owned
<1>3. ClosedButForFiber'
  BY DEF TypeOK, FiberType, ClosedButForFiber
<1>4. Attempted'
  BY DEF TypeOK, FiberType, Attempted, Calls
<1>5. SpendsNothing
  BY DEF TypeOK, FiberType, Owned, SpendsNothing, StartsNothing, DecisionsKept
<1> QED BY <1>1, <1>2, <1>3, <1>4, <1>5, SpentNothing

LEMMA ReceiveToolCallKeeps ==
  ASSUME TurnInvariant, ReceiveToolCall
  PROVE  TurnInvariant'
<1> USE DEF TurnInvariant, ReceiveToolCall, Decided, At, InferenceStep, Now
<1>1. TypeOK'
  <2>1. PICK p \in Parts, decision \in {"Created", "Rejected"} :
               fiber' = [fiber EXCEPT !.decided = Decided(p, decision)]
    OBVIOUS
  <2>2. fiber.decided \in [Parts -> {"none", "Created", "Rejected"}]
    BY DEF TypeOK, FiberType
  <2>3. [fiber.decided EXCEPT ![p] = decision] \in [Parts -> {"none", "Created", "Rejected"}]
    BY <2>2
  <2>4. fiber' \in FiberType
    BY <2>1, <2>3 DEF TypeOK, FiberType
  <2> QED BY <2>4, TypedStep DEF TypeOK
<1>2. Owned'
  BY DEF TypeOK, FiberType, Owned
<1>3. ClosedButForFiber'
  BY DEF TypeOK, FiberType, ClosedButForFiber
<1>4. Attempted'
  BY DEF TypeOK, FiberType, Attempted, Calls
<1>5. SpendsNothing
  BY DEF TypeOK, FiberType, Owned, SpendsNothing, StartsNothing, DecisionsKept
<1> QED BY <1>1, <1>2, <1>3, <1>4, <1>5, SpentNothing

LEMMA StopKeeps ==
  ASSUME TurnInvariant, Stop
  PROVE  TurnInvariant'
<1> USE DEF TurnInvariant, Stop, Now
<1>1. TypeOK'
  <2>1. fiber' \in FiberType
    BY DEF TypeOK, FiberType
  <2> QED BY <2>1, NextFault, TypedStep DEF TypeOK
<1>2. Owned'
  BY DEF TypeOK, FiberType, Owned
<1>3. ClosedButForFiber'
  BY DEF TypeOK, FiberType, ClosedButForFiber
<1>4. Attempted'
  BY DEF TypeOK, FiberType, Attempted
<1>5. SpendsNothing
  BY DEF TypeOK, FiberType, Owned, SpendsNothing, StartsNothing, DecisionsKept
<1> QED BY <1>1, <1>2, <1>3, <1>4, <1>5, SpentNothing

\* Everyone stops working.
LEMMA NobodyWorks ==
  ASSUME TypeOK, Released
  PROVE  /\ work' \in [Calls -> WorkType] /\ fiber' \in FiberType
         /\ \A t \in 1 .. MaxTurns, p \in Parts : work'[<<t, p>>] = "none"
         /\ fiber'.at = "none"
BY WorkUpdate, NextFault DEF Released, NoFiber

LEMMA CrashKeeps ==
  ASSUME TurnInvariant, Crash
  PROVE  TurnInvariant'
<1> USE DEF TurnInvariant, Crash, Now
<1>1. TypeOK'
  <2>1. used' \in [crashes : 0 .. MaxCrashes, faults : 0 .. MaxFaults]
    BY TurnAssumption DEF TypeOK
  <2> QED BY <2>1, NobodyWorks, TypedStep DEF TypeOK
<1>2. Owned'
  BY NobodyWorks DEF Owned
<1>3. ClosedButForFiber'
  BY NobodyWorks DEF ClosedButForFiber
<1>4. Attempted'
  BY NobodyWorks, TurnFields DEF Attempted
<1>5. SpendsNothing
  BY NobodyWorks DEF SpendsNothing, StartsNothing, DecisionsKept
<1> QED BY <1>1, <1>2, <1>3, <1>4, <1>5, SpentNothing

LEMMA RecoveryDiesKeeps ==
  ASSUME TurnInvariant, RecoveryDies
  PROVE  TurnInvariant'
<1> USE DEF TurnInvariant, RecoveryDies, Now
<1>1. TypeOK'
  BY NobodyWorks, TypedStep DEF TypeOK
<1>2. Owned'
  BY NobodyWorks DEF Owned
<1>3. ClosedButForFiber'
  BY NobodyWorks DEF ClosedButForFiber
<1>4. Attempted'
  BY NobodyWorks, TurnFields DEF Attempted
<1>5. SpendsNothing
  BY NobodyWorks DEF SpendsNothing, StartsNothing, DecisionsKept
<1> QED BY <1>1, <1>2, <1>3, <1>4, <1>5, SpentNothing

LEMMA ReinvokeKeeps ==
  ASSUME TurnInvariant, Reinvoke
  PROVE  TurnInvariant'
<1> USE DEF TurnInvariant, Reinvoke, Now
<1>1. work' \in [Calls -> WorkType]
  BY DEF WorkType
<1>2. ASSUME NEW t \in 1 .. MaxTurns, NEW p \in Parts, work'[<<t, p>>] # "none"
      PROVE  /\ work'[<<t, p>>] = "queued"
             /\ t <= Now /\ turn[t].call[p].made = "Created" /\ p \in Reinvoked
             /\ turn[t].call[p].attempt # 0 /\ turn[t].call[p].attempt + 1 <= MaxToolCallAttempts
  BY <1>2, WorkUpdate DEF Planned, Made, Call
<1>3. fiber.at = "none"
  BY DEF Owned
<1>4. TypeOK'
  BY <1>1, TypedStep DEF TypeOK
<1>5. Owned'
  BY <1>2, <1>3 DEF Owned
<1>6. ClosedButForFiber'
  BY <1>3 DEF ClosedButForFiber
<1>7. Attempted'
  <2>1. \A t \in 1 .. Now, p \in Parts : turn[t].call[p].attempt \in Nat
    BY TurnFields DEF TurnType, CallType
  <2>2. ASSUME NEW t \in 1 .. Now, NEW p \in Parts, work'[<<t, p>>] = "queued"
        PROVE  turn[t].call[p].attempt < AttemptLimit(p) /\ turn[t].call[p].attempt > 0
    <3>1. t \in 1 .. MaxTurns
      BY TurnFields
    <3>2. /\ p \in Reinvoked
          /\ turn[t].call[p].attempt # 0 /\ turn[t].call[p].attempt + 1 <= MaxToolCallAttempts
      BY <3>1, <2>2, <1>2
    <3>3. turn[t].call[p].attempt \in Nat /\ MaxToolCallAttempts \in Nat
      BY <2>1, TurnAssumption
    <3> HIDE DEF TurnInvariant, Reinvoke
    <3> QED BY <3>2, <3>3 DEF AttemptLimit
  <2>3. \A t \in 1 .. Now, p \in Parts : work'[<<t, p>>] # "started"
    BY <1>2, TurnFields
  <2> QED BY <1>3, <2>2, <2>3 DEF Attempted
<1>8. SpendsNothing
  BY <1>3 DEF SpendsNothing, StartsNothing, DecisionsKept
<1> QED BY <1>4, <1>5, <1>6, <1>7, <1>8, SpentNothing

-----------------------------------------------------------------------------
(* Steps of a tool call. *)

CallBecomes(t, p, x) == turn' = [turn EXCEPT ![t].call[p] = x]

LEMMA CallUpdate ==
  ASSUME TypeOK, NEW t \in 1 .. Now, NEW p \in Parts, NEW x \in CallType, CallBecomes(t, p, x)
  PROVE  /\ turn' \in Seq(TurnType) /\ Len(turn') = Now
         /\ \A u \in 1 .. Now :
              /\ turn'[u].run = turn[u].run /\ turn'[u].end = turn[u].end
              /\ turn'[u].inference = turn[u].inference
              /\ \A q \in Parts :
                   turn'[u].call[q] = IF u = t /\ q = p THEN x ELSE turn[u].call[q]
<1> DEFINE cs == [turn[t].call EXCEPT ![p] = x]
           y == [turn[t] EXCEPT !.call = cs]
<1>1. turn[t] \in TurnType /\ DOMAIN turn = 1 .. Now
  BY TurnFields
<1>2. cs \in [Parts -> CallType] /\ \A q \in Parts : cs[q] = IF q = p THEN x ELSE turn[t].call[q]
  BY <1>1 DEF TurnType
<1> HIDE DEF cs
<1>3. /\ y \in TurnType /\ y.call = cs /\ y.run = turn[t].run /\ y.end = turn[t].end
      /\ y.inference = turn[t].inference
  BY <1>1, <1>2 DEF TurnType
<1>4. TurnBecomes(t, y)
  BY <1>1 DEF CallBecomes, TurnBecomes, cs
<1> HIDE DEF y
<1>5. /\ turn' \in Seq(TurnType) /\ Len(turn') = Now
      /\ \A u \in 1 .. Now : turn'[u] = IF u = t THEN y ELSE turn[u]
  BY <1>3, <1>4, TurnUpdate
<1>6. ASSUME NEW u \in 1 .. Now
      PROVE  /\ turn'[u].run = turn[u].run /\ turn'[u].end = turn[u].end
             /\ turn'[u].inference = turn[u].inference
             /\ \A q \in Parts :
                  turn'[u].call[q] = IF u = t /\ q = p THEN x ELSE turn[u].call[q]
  <2>1. CASE u = t
    <3>1. turn'[u] = y
      BY <2>1, <1>5
    <3> QED BY <2>1, <3>1, <1>2, <1>3
  <2>2. CASE u # t
    BY <2>2, <1>5
  <2> QED BY <2>1, <2>2
<1> QED BY <1>5, <1>6

\* One call in execution becomes x, its executor w, the count of its handler n.
CallStep(t, p, x, w, n) ==
  /\ turn' \in Seq(TurnType) /\ Len(turn') = Now
  /\ \A u \in 1 .. Now :
       /\ turn'[u].run = turn[u].run /\ turn'[u].end = turn[u].end
       /\ turn'[u].inference = turn[u].inference
       /\ \A q \in Parts : turn'[u].call[q] = IF u = t /\ q = p THEN x ELSE turn[u].call[q]
  /\ work' = [work EXCEPT ![<<t, p>>] = w]
  /\ ran' = [ran EXCEPT ![<<t, p>>] = n]
  /\ fiber' = [fiber EXCEPT !.cut = fiber'.cut] /\ fiber'.cut \in {"no", "self", "user"}
  /\ run' = run /\ process' = process

LEMMA CallStepKeeps ==
  ASSUME TurnInvariant, NEW t \in 1 .. Now, NEW p \in Parts,
         turn[t].call[p].made = "Created", fiber.at \notin {"starting", "streaming", "sealed"},
         NEW x \in CallType, NEW w \in WorkType \ {"none", "queued"}, NEW n \in Nat,
         CallStep(t, p, x, w, n),
         used' \in [crashes : 0 .. MaxCrashes, faults : 0 .. MaxFaults],
         process = "reinvoking" \/ (fiber.at = "tools" /\ t = Now),
         x.made = "Created", x.end = "none" => w \in {"started", "running", "answered"},
         n <= x.attempt, x.attempt <= AttemptLimit(p), w = "started" => n < x.attempt,
         x.attempt > 0 => turn[t].call[p].attempt > 0 \/ fiber.at = "tools"
  PROVE  TurnInvariant'
<1> USE DEF TurnInvariant
<1>1. t \in 1 .. MaxTurns /\ <<t, p>> \in Calls
  BY TurnFields DEF Calls
<1>2. \A u \in 1 .. MaxTurns, q \in Parts :
        /\ work'[<<u, q>>] = IF u = t /\ q = p THEN w ELSE work[<<u, q>>]
        /\ ran'[<<u, q>>] = IF u = t /\ q = p THEN n ELSE ran[<<u, q>>]
  BY <1>1, WorkUpdate DEF CallStep, TypeOK, Calls
<1>3. TypeOK'
  <2>1. fiber' \in FiberType
    BY DEF CallStep, TypeOK, FiberType
  <2>2. work' \in [Calls -> WorkType] /\ ran' \in [Calls -> Nat]
    BY <1>1, WorkUpdate DEF CallStep, TypeOK
  <2> QED BY <2>1, <2>2, TypedStep, TurnFields DEF CallStep, TypeOK
<1>4. fiber'.at = fiber.at /\ fiber'.exit = fiber.exit /\ fiber'.ends = fiber.ends
      /\ fiber'.remaining = fiber.remaining /\ fiber'.corrections = fiber.corrections
  BY DEF CallStep, TypeOK, FiberType
<1>5. Len(turn') = Now /\ Now' = Now
      /\ run' = run /\ process' = process
  BY DEF CallStep, Now
<1>6. \A u \in 1 .. Now :
       /\ turn'[u].run = turn[u].run /\ turn'[u].end = turn[u].end
       /\ turn'[u].inference = turn[u].inference
       /\ \A q \in Parts : turn'[u].call[q] = IF u = t /\ q = p THEN x ELSE turn[u].call[q]
  BY DEF CallStep
<1>7. Owned'
  BY <1>2, <1>4, <1>5, <1>6, TurnFields DEF Owned
<1>8. ClosedButForFiber'
  <2>1. fiber.at \notin {"none", "exited"} => turn'[Now].end = "open"
    BY <1>6, TurnFields DEF Owned, ClosedButForFiber
  <2> QED BY <2>1, <1>1, <1>2, <1>4, <1>5, <1>6 DEF Owned, ClosedButForFiber
<1>9. Attempted'
  <2>1. ASSUME NEW u \in 1 .. MaxTurns, NEW q \in Parts, u > Now
        PROVE  ran'[<<u, q>>] = 0
    BY <2>1, <1>1, <1>2, TurnFields DEF Attempted
  <2>2. ASSUME NEW u \in 1 .. Now, NEW q \in Parts
        PROVE  /\ turn'[u].call[q].attempt > 0 => turn'[u].call[q].made = "Created"
               /\ ran'[<<u, q>>] <= turn'[u].call[q].attempt
               /\ turn'[u].call[q].attempt <= AttemptLimit(q)
               /\ work'[<<u, q>>] = "started" => ran'[<<u, q>>] < turn'[u].call[q].attempt
               /\ work'[<<u, q>>] = "queued" =>
                    /\ turn'[u].call[q].attempt < AttemptLimit(q)
                    /\ process' = "reinvoking" => turn'[u].call[q].attempt > 0
    <3>1. u \in 1 .. MaxTurns
      BY TurnFields
    <3>2. CASE u = t /\ q = p
      BY <3>1, <3>2, <1>2, <1>6
    <3>3. CASE ~(u = t /\ q = p)
      <4>1. /\ turn'[u].call[q] = turn[u].call[q] /\ work'[<<u, q>>] = work[<<u, q>>]
            /\ ran'[<<u, q>>] = ran[<<u, q>>]
        BY <3>1, <3>3, <1>2, <1>6
      <4> QED BY <4>1, <1>5 DEF Attempted
    <3> QED BY <3>2, <3>3
  <2> QED BY <2>1, <2>2, <1>4, <1>5 DEF Attempted, AttemptLimit
<1>10. DecisionsKept
  BY <1>5, <1>6 DEF DecisionsKept
<1>11. Budgeted'
  <2>1. ASSUME NEW r \in 1 .. run.id
        PROVE  Cardinality(StartedCalls(r)') <= MaxToolCallsPerRun
    <3>1. CASE StartedCalls(r)' \subseteq StartedCalls(r)
      BY <3>1, SmallerSet, DecidedSetsFinite, TurnAssumption DEF Budgeted, WithinLimits
    <3>2. CASE fiber.at = "tools" /\ r = run.id
      <4>1. StartedCalls(r)' \subseteq CallsOf(run.id, "Created")
        BY <3>2, <1>10, DecidedSetsKept DEF StartedCalls
      <4> QED BY <4>1, <3>2, SmallerSet, DecidedSetsFinite, TurnAssumption DEF Budgeted, WithinLimits
    <3>3. ASSUME NEW c \in StartedCalls(r)', c \notin StartedCalls(r)
          PROVE  fiber.at = "tools" /\ r = run.id
      <4>1. /\ c \in CallsOf(r, "Created") /\ turn'[c[1]].call[c[2]].attempt > 0
            /\ c[1] \in 1 .. Now /\ c[2] \in Parts /\ turn[c[1]].run = r
        <5>1. c \in CallsOf(r, "Created") /\ turn'[c[1]].call[c[2]].attempt > 0
          BY <3>3, <1>10, DecidedSetsKept DEF StartedCalls, Call
        <5> QED BY <5>1, TurnFields DEF CallsOf, Calls, Made
      <4>2. ~(turn[c[1]].call[c[2]].attempt > 0)
        BY <4>1, <3>3 DEF StartedCalls, Call
      <4>3. c[1] = t /\ c[2] = p
        BY <4>1, <4>2, <1>6
      <4> QED BY <4>1, <4>2, <4>3, <1>6 DEF Owned
    <3> QED BY <3>1, <3>2, <3>3
  <2>2. \A r : CorrectedTurns(r)' \subseteq CorrectedTurns(r)
    <3> SUFFICES ASSUME NEW r, NEW u \in CorrectedTurns(r)' PROVE u \in CorrectedTurns(r)
      OBVIOUS
    <3>1. u \in RejectedTurns(r) /\ turn'[u].end = "Completed"
      BY <1>10, DecidedSetsKept DEF CorrectedTurns
    <3>2. u \in 1 .. Now
      BY <3>1, TurnFields DEF RejectedTurns, CallsOf, Calls, Made
    <3> QED BY <3>1, <3>2, <1>6 DEF CorrectedTurns
  <2>3. ASSUME NEW r \in 1 .. run.id
        PROVE  Cardinality(CorrectedTurns(r)') <= MaxToolRejectionCorrections
    BY <2>2, SmallerSet, DecidedSetsFinite, TurnAssumption DEF Budgeted, WithinLimits
  <2>4. WithinLimits'
    BY <2>1, <2>3, <1>5 DEF WithinLimits
  <2> QED BY <2>4, <1>4, <1>10, DecidedSetsKept, TurnFields DEF Owned, Budgeted
<1> QED BY <1>3, <1>7, <1>8, <1>9, <1>11

\* Whoever works, works on a call that was created, for the turn or for recovery.
LEMMA ToolContext ==
  ASSUME TurnInvariant, NEW c \in Calls, Executing, work[c] # "none"
  PROVE  \E t \in 1 .. Now, p \in Parts :
           /\ c = <<t, p>> /\ c[1] = t /\ c[2] = p /\ Call(c) = turn[t].call[p]
           /\ turn[t].call[p] \in CallType
           /\ turn[t].call[p].made = "Created"
           /\ fiber.at \notin {"starting", "streaming", "sealed"}
           /\ process = "reinvoking" \/ (fiber.at = "tools" /\ t = Now)
           /\ ran[c] \in Nat /\ ran[c] <= turn[t].call[p].attempt
           /\ turn[t].call[p].attempt <= AttemptLimit(p)
           /\ work[c] = "queued" => /\ turn[t].call[p].attempt < AttemptLimit(p)
                                    /\ process = "reinvoking" => turn[t].call[p].attempt > 0
           /\ work[c] = "started" => ran[c] < turn[t].call[p].attempt
<1> USE DEF TurnInvariant
<1>1. c = <<c[1], c[2]>> /\ c[1] \in 1 .. MaxTurns /\ c[2] \in Parts /\ ran[c] \in Nat
  BY WorkUpdate
<1>2. /\ c[1] <= Now /\ turn[c[1]].call[c[2]].made = "Created"
      /\ process = "reinvoking" \/ (fiber.at \in {"tools", "ending", "exited"} /\ c[1] = Now)
  BY <1>1 DEF Owned
<1>3. c[1] \in 1 .. Now
  BY <1>1, <1>2, TurnFields
<1>4. turn[c[1]].call[c[2]] \in CallType
  BY <1>1, <1>3, TurnFields DEF TurnType
<1>5. /\ fiber.at \notin {"starting", "streaming", "sealed"}
      /\ process = "reinvoking" \/ (fiber.at = "tools" /\ c[1] = Now)
  BY <1>2 DEF Executing, At, Owned
<1>6. /\ ran[c] <= turn[c[1]].call[c[2]].attempt
      /\ turn[c[1]].call[c[2]].attempt <= AttemptLimit(c[2])
      /\ work[c] = "queued" => /\ turn[c[1]].call[c[2]].attempt < AttemptLimit(c[2])
                               /\ process = "reinvoking" => turn[c[1]].call[c[2]].attempt > 0
      /\ work[c] = "started" => ran[c] < turn[c[1]].call[c[2]].attempt
  BY <1>1, <1>3 DEF Attempted
<1> QED BY <1>1, <1>2, <1>3, <1>4, <1>5, <1>6 DEF Call

\* A call's step that invokes no handler.
LEMMA LoggedCallStep ==
  ASSUME TypeOK, NEW t \in 1 .. Now, NEW p \in Parts, NEW x \in CallType, NEW w,
         CallBecomes(t, p, x), work' = [work EXCEPT ![<<t, p>>] = w], ran' = ran,
         fiber' = [fiber EXCEPT !.cut = fiber'.cut], fiber'.cut \in {"no", "self", "user"}, ToolStep
  PROVE  CallStep(t, p, x, w, ran[<<t, p>>])
<1>1. ran' = [ran EXCEPT ![<<t, p>>] = ran[<<t, p>>]]
  BY DEF TypeOK
<1>2. /\ turn' \in Seq(TurnType) /\ Len(turn') = Now
      /\ \A u \in 1 .. Now :
           /\ turn'[u].run = turn[u].run /\ turn'[u].end = turn[u].end
           /\ turn'[u].inference = turn[u].inference
           /\ \A q \in Parts : turn'[u].call[q] = IF u = t /\ q = p THEN x ELSE turn[u].call[q]
  BY CallUpdate
<1> QED BY <1>1, <1>2 DEF CallStep, ToolStep

LEMMA SameFiber ==
  ASSUME TypeOK, fiber' = fiber
  PROVE  fiber' = [fiber EXCEPT !.cut = fiber'.cut] /\ fiber'.cut \in {"no", "self", "user"}
BY DEF TypeOK, FiberType

LEMMA StartToolKeeps ==
  ASSUME TurnInvariant, NEW c \in Calls, StartTool(c)
  PROVE  TurnInvariant'
<1>1. PICK t \in 1 .. Now, p \in Parts :
        /\ c = <<t, p>> /\ c[1] = t /\ c[2] = p /\ Call(c) = turn[t].call[p]
        /\ turn[t].call[p] \in CallType
        /\ turn[t].call[p].made = "Created"
        /\ fiber.at \notin {"starting", "streaming", "sealed"}
        /\ process = "reinvoking" \/ (fiber.at = "tools" /\ t = Now)
        /\ ran[c] \in Nat /\ ran[c] <= turn[t].call[p].attempt
        /\ turn[t].call[p].attempt <= AttemptLimit(p)
        /\ turn[t].call[p].attempt < AttemptLimit(p)
        /\ process = "reinvoking" => turn[t].call[p].attempt > 0
  BY ToolContext DEF StartTool
<1> DEFINE x == [turn[t].call[p] EXCEPT !.attempt = @ + 1]
<1>2. /\ x \in CallType /\ x.attempt = turn[t].call[p].attempt + 1 /\ x.made = "Created"
      /\ AttemptLimit(p) \in Nat /\ turn[t].call[p].attempt \in Nat
  BY <1>1, TurnAssumption DEF CallType, AttemptLimit
<1>3. CallBecomes(t, p, x)
  BY <1>1, TurnFields DEF StartTool, WithCall, CallBecomes
<1> HIDE DEF x
<1>4. TypeOK /\ used' \in [crashes : 0 .. MaxCrashes, faults : 0 .. MaxFaults]
  BY DEF TurnInvariant, TypeOK, StartTool
<1>5. CallStep(t, p, x, "started", ran[c])
  BY <1>1, <1>2, <1>3, <1>4, SameFiber, LoggedCallStep DEF StartTool, Does
<1>6. "started" \in WorkType \ {"none", "queued"} /\ x.attempt \in Nat
  BY <1>2 DEF WorkType, CallType
<1> QED BY <1>1, <1>2, <1>4, <1>5, <1>6, CallStepKeeps

LEMMA InvokeHandlerKeeps ==
  ASSUME TurnInvariant, NEW c \in Calls, InvokeHandler(c)
  PROVE  TurnInvariant'
<1>1. PICK t \in 1 .. Now, p \in Parts :
        /\ c = <<t, p>> /\ c[1] = t /\ c[2] = p /\ Call(c) = turn[t].call[p]
        /\ turn[t].call[p] \in CallType
        /\ turn[t].call[p].made = "Created"
        /\ fiber.at \notin {"starting", "streaming", "sealed"}
        /\ process = "reinvoking" \/ (fiber.at = "tools" /\ t = Now)
        /\ ran[c] \in Nat /\ ran[c] <= turn[t].call[p].attempt
        /\ turn[t].call[p].attempt <= AttemptLimit(p)
        /\ ran[c] < turn[t].call[p].attempt
  BY ToolContext DEF InvokeHandler
<1>2. TypeOK /\ used' \in [crashes : 0 .. MaxCrashes, faults : 0 .. MaxFaults]
  BY DEF TurnInvariant, TypeOK, InvokeHandler
<1>3. CallStep(t, p, turn[t].call[p], "running", ran[c] + 1)
  BY <1>1, <1>2, SameFiber DEF InvokeHandler, Does, ToolStep, CallStep, TypeOK, Now
<1>4. "running" \in WorkType \ {"none", "queued"} /\ turn[t].call[p].attempt \in Nat
  BY <1>1 DEF WorkType, CallType
<1> QED BY <1>1, <1>2, <1>3, <1>4, CallStepKeeps

LEMMA HandlerEndsKeeps ==
  ASSUME TurnInvariant, NEW c \in Calls, HandlerEnds(c)
  PROVE  TurnInvariant'
<1>1. PICK t \in 1 .. Now, p \in Parts :
        /\ c = <<t, p>> /\ c[1] = t /\ c[2] = p /\ Call(c) = turn[t].call[p]
        /\ turn[t].call[p] \in CallType
        /\ turn[t].call[p].made = "Created"
        /\ fiber.at \notin {"starting", "streaming", "sealed"}
        /\ process = "reinvoking" \/ (fiber.at = "tools" /\ t = Now)
        /\ ran[c] \in Nat /\ ran[c] <= turn[t].call[p].attempt
        /\ turn[t].call[p].attempt <= AttemptLimit(p)
  BY ToolContext DEF HandlerEnds
<1>2. TypeOK /\ used' \in [crashes : 0 .. MaxCrashes, faults : 0 .. MaxFaults]
  BY DEF TurnInvariant, TypeOK, HandlerEnds
<1>3. CallStep(t, p, turn[t].call[p], "answered", ran[c])
  BY <1>1, <1>2, SameFiber DEF HandlerEnds, Does, ToolStep, CallStep, TypeOK, Now
<1>4. "answered" \in WorkType \ {"none", "queued"} /\ turn[t].call[p].attempt \in Nat
  BY <1>1 DEF WorkType, CallType
<1> QED BY <1>1, <1>2, <1>3, <1>4, CallStepKeeps

\* A call that gets its terminal, and whose executor is done with it.
LEMMA TerminalKeeps ==
  ASSUME TurnInvariant, NEW c \in Calls, Executing, work[c] # "none",
         NEW how \in {"Completed", "Failed"}, NEW w \in {"overruled", "done"},
         turn' = WithCall(c, [Call(c) EXCEPT !.end = how]), Does(c, w), ToolStep, ran' = ran,
         fiber' = [fiber EXCEPT !.cut = fiber'.cut], fiber'.cut \in {"no", "self", "user"},
         used' \in [crashes : 0 .. MaxCrashes, faults : 0 .. MaxFaults]
  PROVE  TurnInvariant'
<1>1. PICK t \in 1 .. Now, p \in Parts :
        /\ c = <<t, p>> /\ c[1] = t /\ c[2] = p /\ Call(c) = turn[t].call[p]
        /\ turn[t].call[p] \in CallType
        /\ turn[t].call[p].made = "Created"
        /\ fiber.at \notin {"starting", "streaming", "sealed"}
        /\ process = "reinvoking" \/ (fiber.at = "tools" /\ t = Now)
        /\ ran[c] \in Nat /\ ran[c] <= turn[t].call[p].attempt
        /\ turn[t].call[p].attempt <= AttemptLimit(p)
  BY ToolContext
<1> DEFINE x == [turn[t].call[p] EXCEPT !.end = how]
<1>2. /\ x \in CallType /\ x.attempt = turn[t].call[p].attempt /\ x.made = "Created"
      /\ x.end # "none" /\ turn[t].call[p].attempt \in Nat
  BY <1>1 DEF CallType
<1>3. CallBecomes(t, p, x)
  BY <1>1, TurnFields DEF WithCall, CallBecomes
<1> HIDE DEF x
<1>4. TypeOK
  BY DEF TurnInvariant
<1>5. CallStep(t, p, x, w, ran[c])
  BY <1>1, <1>2, <1>3, <1>4, LoggedCallStep DEF Does
<1>6. w \in WorkType \ {"none", "queued"} /\ w # "started"
  BY DEF WorkType
<1> QED BY <1>1, <1>2, <1>5, <1>6, CallStepKeeps

LEMMA AppendOutcomeKeeps ==
  ASSUME TurnInvariant, NEW c \in Calls, AppendOutcome(c)
  PROVE  TurnInvariant'
<1>1. PICK how \in {"Completed", "Failed"} : turn' = WithCall(c, [Call(c) EXCEPT !.end = how])
  BY DEF AppendOutcome
<1>2. PICK w \in {"overruled", "done"} : Does(c, w)
  BY DEF AppendOutcome
<1>3. TypeOK
  BY DEF TurnInvariant
<1>4. /\ Executing /\ work[c] # "none" /\ ToolStep /\ ran' = ran /\ fiber' = fiber
      /\ used' \in [crashes : 0 .. MaxCrashes, faults : 0 .. MaxFaults]
  BY <1>3 DEF AppendOutcome, TypeOK
<1> QED BY <1>1, <1>2, <1>3, <1>4, SameFiber, TerminalKeeps

LEMMA HaltToolKeeps ==
  ASSUME TurnInvariant, NEW c \in Calls, HaltTool(c)
  PROVE  TurnInvariant'
<1>1. turn' = WithCall(c, [Call(c) EXCEPT !.end = "Failed"]) /\ Does(c, "done")
  BY DEF HaltTool
<1>2. TypeOK
  BY DEF TurnInvariant
<1>3. /\ Executing /\ work[c] # "none" /\ ToolStep /\ ran' = ran /\ fiber' = fiber
      /\ used' \in [crashes : 0 .. MaxCrashes, faults : 0 .. MaxFaults]
  BY <1>2 DEF HaltTool, TypeOK
<1> QED BY <1>1, <1>2, <1>3, SameFiber, TerminalKeeps

LEMMA InterruptItselfKeeps ==
  ASSUME TurnInvariant, NEW c \in Calls, InterruptItself(c)
  PROVE  TurnInvariant'
<1>1. turn' = WithCall(c, [Call(c) EXCEPT !.end = "Failed"]) /\ Does(c, "done")
  BY DEF InterruptItself
<1>2. TypeOK
  BY DEF TurnInvariant
<1>3. Executing /\ work[c] # "none" /\ ToolStep /\ ran' = ran
  BY DEF InterruptItself
<1>4. fiber' = [fiber EXCEPT !.cut = fiber'.cut] /\ fiber'.cut \in {"no", "self", "user"}
  BY <1>2 DEF InterruptItself, TypeOK, FiberType
<1>5. used' \in [crashes : 0 .. MaxCrashes, faults : 0 .. MaxFaults]
  BY <1>2, NextFault DEF InterruptItself
<1> QED BY <1>1, <1>3, <1>4, <1>5, TerminalKeeps

-----------------------------------------------------------------------------
(* The end of the stream and of the tools. *)

\* The rejections of a run are those of its earlier turns and, at most, of its last.
LEMMA RejectionsCounted ==
  ASSUME TypeOK
  PROVE  /\ Cardinality(EarlierRejections) \in Nat /\ Cardinality(RejectedTurns(run.id)) \in Nat
         /\ Cardinality(RejectedTurns(run.id)) <= Cardinality(EarlierRejections) + 1
<1>1. RejectedTurns(run.id) \subseteq EarlierRejections \cup {Now}
  <2> SUFFICES ASSUME NEW c \in CallsOf(run.id, "Rejected"), c[1] # Now
               PROVE  c[1] \in EarlierRejections
    BY DEF RejectedTurns
  <2>1. c[1] \in 1 .. Now
    BY TurnFields DEF CallsOf, Calls, Made
  <2>2. c[1] < Now
    BY <2>1, TurnFields
  <2> QED BY <2>2 DEF EarlierRejections, EarlierCalls
<1>2. IsFiniteSet(EarlierRejections)
  BY DecidedSetsFinite
<1>3. /\ IsFiniteSet(EarlierRejections \cup {Now})
      /\ Cardinality(EarlierRejections) \in Nat
      /\ Cardinality(EarlierRejections \cup {Now}) <= Cardinality(EarlierRejections) + 1
      /\ Cardinality(EarlierRejections \cup {Now}) \in Nat
  BY <1>2, FS_AddElement, FS_CardinalityType
<1> QED BY <1>1, <1>3, SmallerSet

\* So are the calls it created.
LEMMA CreatedCounted ==
  ASSUME TypeOK, Now > 0
  PROVE  /\ Cardinality(EarlierCalls("Created")) \in Nat /\ Cardinality(Created) \in Nat
         /\ Cardinality(CallsOf(run.id, "Created")) \in Nat
         /\ Cardinality(CallsOf(run.id, "Created"))
              <= Cardinality(EarlierCalls("Created")) + Cardinality(Created)
<1> DEFINE E == EarlierCalls("Created")
           L == {Now} \X Created
<1>1. CallsOf(run.id, "Created") \subseteq E \cup L
  <2> SUFFICES ASSUME NEW c \in CallsOf(run.id, "Created"), c \notin E
               PROVE  c \in L
    OBVIOUS
  <2>1. /\ c = <<c[1], c[2]>> /\ c[1] \in 1 .. Now /\ c[2] \in Parts
        /\ turn[c[1]].call[c[2]].made = "Created"
    BY TurnFields DEF CallsOf, Calls, Made, Call
  <2>2. c[1] = Now
    BY <2>1, TurnFields DEF EarlierCalls
  <2> QED BY <2>1, <2>2 DEF Created
<1>2. IsFiniteSet(E) /\ IsFiniteSet(Created)
  <2>1. Created \subseteq Parts
    BY DEF Created
  <2> QED BY <2>1, DecidedSetsFinite, TurnAssumption, FS_Subset
<1>3. IsFiniteSet({Now}) /\ Cardinality({Now}) = 1
  BY FS_Singleton
<1>4. Cardinality(E) \in Nat /\ Cardinality(Created) \in Nat
  BY <1>2, FS_CardinalityType
<1>5. IsFiniteSet(L) /\ Cardinality(L) = 1 * Cardinality(Created)
  BY <1>2, <1>3, FS_Product
<1>6. IsFiniteSet(L) /\ Cardinality(L) = Cardinality(Created)
  BY <1>4, <1>5
<1> HIDE DEF E, L
<1>7. /\ IsFiniteSet(E \cup L) /\ Cardinality(E \cup L) \in Nat
      /\ Cardinality(E \cup L) <= Cardinality(E) + Cardinality(L)
  <2>1. /\ IsFiniteSet(E \cup L)
        /\ Cardinality(E \cup L) = Cardinality(E) + Cardinality(L) - Cardinality(E \cap L)
    BY <1>2, <1>6, FS_Union
  <2>2. Cardinality(E \cap L) \in Nat
    BY <1>2, FS_Intersection, FS_CardinalityType
  <2>3. Cardinality(E \cup L) \in Nat
    BY <2>1, FS_CardinalityType
  <2> QED BY <2>1, <2>2, <2>3, <1>4, <1>6
<1>8. Cardinality(CallsOf(run.id, "Created")) \in Nat
      /\ Cardinality(CallsOf(run.id, "Created")) <= Cardinality(E \cup L)
  BY <1>1, <1>7, SmallerSet
<1> QED BY <1>4, <1>6, <1>7, <1>8 DEF E

\* A fiber that ends its turn as completed, though it rejected calls, still had a correction.
LEMMA CorrectionLeft ==
  ASSUME TurnInvariant, fiber.at \in {"sealed", "tools"}, TurnEnd = "Completed", Rejected # {}
  PROVE  Cardinality(RejectedTurns(run.id)) <= MaxToolRejectionCorrections
<1>1. TypeOK /\ fiber.corrections \in Nat
  BY DEF TurnInvariant, TypeOK, FiberType
<1>2. fiber.corrections > 0
  BY <1>1 DEF TurnEnd
<1>3. fiber.corrections + Cardinality(EarlierRejections) <= MaxToolRejectionCorrections
  BY <1>2 DEF TurnInvariant, Budgeted
<1> QED BY <1>1, <1>2, <1>3, RejectionsCounted, TurnAssumption

LEMMA ToolsDoneKeeps ==
  ASSUME TurnInvariant, ToolsDone
  PROVE  TurnInvariant'
<1> USE DEF TurnInvariant, ToolsDone, At, Now
<1>1. fiber' \in FiberType /\ fiber'.at = "ending" /\ fiber'.ends = TurnEnd
  BY DEF TypeOK, FiberType, Places, TurnEnd
<1>2. TypeOK'
  BY <1>1, TypedStep DEF TypeOK
<1>3. Owned'
  BY <1>1 DEF Owned
<1>4. ClosedButForFiber'
  <2>1. \A t \in 1 .. Now, p \in Parts : work[<<t, p>>] \in {"none", "done"}
    BY TurnFields, WorkUpdate DEF Settled
  <2> QED BY ZenonT(60), <1>1, <2>1 DEF ClosedButForFiber
<1>5. Attempted'
  BY <1>1 DEF Attempted
<1>6. StartsNothing
  BY DEF StartsNothing, DecisionsKept
<1>7. Budgeted'
  <2>1. WithinLimits'
    BY <1>6, StartedNothing DEF Budgeted
  <2>2. Rejected' = Rejected /\ RejectedTurns(run.id)' = RejectedTurns(run.id)
    BY <1>6, DecidedSetsKept DEF StartsNothing, Owned
  <2> QED BY <1>1, <2>1, <2>2, CorrectionLeft DEF Budgeted
<1> QED BY <1>2, <1>3, <1>4, <1>5, <1>7

LEMMA StreamEndsKeeps ==
  ASSUME TurnInvariant, StreamEnds
  PROVE  TurnInvariant'
<1> USE DEF TurnInvariant, Now
<1>1. /\ At("sealed") /\ Now > 0 /\ Now \in 1 .. Now /\ Now \in 1 .. MaxTurns /\ process = "live"
      /\ UNCHANGED <<turn, run, process, ran, used>>
  BY TurnFields DEF StreamEnds, At, Owned
<1>2. fiber' \in FiberType /\ fiber'.remaining = fiber.remaining /\ fiber'.corrections = fiber.corrections
  BY DEF StreamEnds, TypeOK, FiberType, Places, TurnEnd
<1>3. \/ fiber'.at = "ending" /\ fiber'.ends = TurnEnd
      \/ fiber'.at = "refusing"
      \/ fiber'.at = "tools" /\ Created # {} /\ Cardinality(Created) <= fiber.remaining
  <2>1. Cardinality(Created) \in Nat /\ fiber.remaining \in Nat
    BY <1>1, CreatedCounted DEF TypeOK, FiberType
  <2> QED BY <2>1 DEF StreamEnds, TypeOK, FiberType
<1>4. \A t \in 1 .. MaxTurns, p \in Parts :
        /\ work[<<t, p>>] = "none"
        /\ work'[<<t, p>>] # "none" =>
             work'[<<t, p>>] = "queued" /\ fiber'.at = "tools" /\ t = Now /\ p \in Created
  <2>1. \A t \in 1 .. MaxTurns, p \in Parts : work[<<t, p>>] = "none"
    BY <1>1 DEF Owned, At
  <2> QED BY ZenonT(60), <2>1, WorkUpdate DEF StreamEnds
<1>5. TypeOK'
  <2>1. work' \in [Calls -> WorkType]
    BY WorkUpdate DEF StreamEnds, TypeOK, WorkType
  <2> QED BY <1>1, <1>2, <2>1, TypedStep DEF TypeOK
<1>6. Owned'
  BY <1>1, <1>3, <1>4 DEF Owned, At, Created
<1>7. ClosedButForFiber'
  BY <1>1, <1>3 DEF ClosedButForFiber, At
<1>8. Attempted'
  <2>1. \A p \in Parts : turn[Now].call[p].attempt = 0 /\ AttemptLimit(p) > 0
    BY <1>1, TurnAssumption DEF Attempted, At, AttemptLimit
  <2>2. \A t \in 1 .. Now, p \in Parts : t \in 1 .. MaxTurns
    BY TurnFields
  <2> QED BY <1>1, <1>3, <1>4, <2>1, <2>2 DEF Attempted, AttemptLimit
<1>9. StartsNothing
  BY <1>1 DEF StartsNothing, DecisionsKept
<1>10. Budgeted'
  <2>1. WithinLimits'
    BY <1>9, StartedNothing DEF Budgeted
  <2>2. /\ Rejected' = Rejected /\ RejectedTurns(run.id)' = RejectedTurns(run.id)
        /\ CallsOf(run.id, "Created")' = CallsOf(run.id, "Created")
        /\ EarlierRejections' = EarlierRejections
    BY <1>1, <1>9, DecidedSetsKept DEF StartsNothing
  <2>3. CASE fiber'.at = "tools"
    <3>1. Created # {} /\ Cardinality(Created) <= fiber.remaining
      BY <1>3, <2>3
    <3>2. Cardinality(Created) > 0
      <4>1. IsFiniteSet(Created)
        <5>1. Created \subseteq Parts
          BY DEF Created
        <5> QED BY <5>1, TurnAssumption, FS_Subset
      <4>2. Cardinality(Created) # 0
        BY <3>1, <4>1, FS_EmptySet
      <4> QED BY <4>1, <4>2, FS_CardinalityType
    <3>3. fiber.remaining + Cardinality(EarlierCalls("Created")) <= MaxToolCallsPerRun
      BY <1>1, <3>1, <3>2, CreatedCounted DEF Budgeted, At, TypeOK, FiberType
    <3>4. Cardinality(CallsOf(run.id, "Created")) <= MaxToolCallsPerRun
      BY SMTT(30), <1>1, <3>1, <3>3, CreatedCounted, TurnAssumption DEF TypeOK, FiberType
    <3> QED BY <1>1, <1>2, <2>1, <2>2, <2>3, <3>4 DEF Budgeted, At
  <2>4. CASE fiber'.at = "refusing"
    BY <2>1, <2>4 DEF Budgeted
  <2>5. CASE fiber'.at = "ending" /\ fiber'.ends = TurnEnd
    BY <1>1, <2>1, <2>2, <2>5, CorrectionLeft DEF Budgeted, At
  <2> QED BY <1>3, <2>3, <2>4, <2>5
<1> QED BY <1>5, <1>6, <1>7, <1>8, <1>10

-----------------------------------------------------------------------------
(* Steps of the inference. *)

\* The last turn logs something of its inference.
InferenceLogged ==
  /\ turn' \in Seq(TurnType) /\ Len(turn') = Now
  /\ \A t \in 1 .. Now : /\ turn'[t].run = turn[t].run /\ turn'[t].end = turn[t].end
                         /\ turn'[t].call = turn[t].call
                         /\ t # Now => turn'[t].inference = turn[t].inference

LEMMA BeginLogged ==
  ASSUME TurnInvariant, At("starting"), turn' = Inference("open")
  PROVE  InferenceLogged /\ turn'[Now].inference = "open"
<1> DEFINE x == [turn[Now] EXCEPT !.inference = "open"]
<1>1. TypeOK /\ Now \in 1 .. Now /\ turn[Now] \in TurnType
  BY TurnFields DEF TurnInvariant, Owned, At
<1>2. /\ x \in TurnType /\ x.run = turn[Now].run /\ x.end = turn[Now].end /\ x.call = turn[Now].call
      /\ x.inference = "open"
  BY <1>1 DEF TurnType
<1>3. TurnBecomes(Now, x)
  BY DEF TurnBecomes, Inference
<1> HIDE DEF x
<1> QED BY <1>1, <1>2, <1>3, TurnUpdate DEF InferenceLogged

LEMMA FailureLogged ==
  ASSUME TurnInvariant, fiber.at \in {"streaming", "sealed"}, turn' = FailedInference
  PROVE  InferenceLogged /\ turn'[Now].inference = "Failed"
<1> DEFINE words == IF fiber.text THEN turn[Now].said \cup {"partial"} ELSE turn[Now].said
           x == [turn[Now] EXCEPT !.inference = "Failed", !.said = words]
<1>1. TypeOK /\ Now \in 1 .. Now /\ turn[Now] \in TurnType /\ DOMAIN turn = 1 .. Now
  BY TurnFields DEF TurnInvariant, Owned
<1>2. words \in SUBSET {"message", "partial"}
  BY <1>1 DEF TurnType
<1>3. TurnBecomes(Now, x)
  BY <1>1 DEF TurnBecomes, FailedInference, Inference, TurnType
<1> HIDE DEF words
<1>4. /\ x \in TurnType /\ x.run = turn[Now].run /\ x.end = turn[Now].end /\ x.call = turn[Now].call
      /\ x.inference = "Failed"
  BY <1>1, <1>2 DEF TurnType
<1> HIDE DEF x
<1> QED BY <1>1, <1>3, <1>4, TurnUpdate DEF InferenceLogged

\* What is logged of an inference disturbs neither the calls nor the budgets.
LEMMA InferenceLoggedKeeps ==
  ASSUME TurnInvariant, InferenceLogged, fiber.at \in {"starting", "streaming", "sealed"},
         UNCHANGED <<run, work, process, ran>>, fiber' \in FiberType,
         used' \in [crashes : 0 .. MaxCrashes, faults : 0 .. MaxFaults],
         \/ /\ fiber' = [fiber EXCEPT !.at = fiber'.at, !.decided = fiber'.decided, !.ends = fiber'.ends]
            /\ fiber'.at \in {"streaming", "sealed"}
         \/ fiber'.at = "ending" /\ fiber'.ends # "Completed"
         \/ fiber'.at = "exited" /\ fiber'.exit = "interrupted",
         turn'[Now].inference = "open" => fiber'.at = "streaming"
  PROVE  TurnInvariant'
<1> USE DEF TurnInvariant
<1>1. Now \in 1 .. Now /\ Now > 0 /\ process = "live" /\ Now' = Now /\ Len(turn') = Now
  BY TurnFields DEF Owned, InferenceLogged, Now
<1>2. \A t \in 1 .. Now : /\ turn'[t].run = turn[t].run /\ turn'[t].end = turn[t].end
                          /\ turn'[t].call = turn[t].call
                          /\ t # Now => turn'[t].inference = turn[t].inference
  BY DEF InferenceLogged
<1>3. TypeOK'
  BY TypedStep DEF InferenceLogged, TypeOK
<1>4. fiber'.at \in {"streaming", "sealed"} =>
        fiber'.remaining = fiber.remaining /\ fiber'.corrections = fiber.corrections
  BY DEF TypeOK, FiberType
<1>5. fiber'.at \in {"streaming", "sealed", "ending", "exited"}
  OBVIOUS
<1>6. \A t \in 1 .. MaxTurns, p \in Parts : work'[<<t, p>>] = "none"
  BY DEF Owned
<1>7. Owned'
  BY <1>1, <1>2, <1>5, <1>6 DEF Owned
<1>8. ClosedButForFiber'
  BY <1>1, <1>2, <1>5 DEF ClosedButForFiber
<1>9. Attempted'
  <2>1. \A t \in 1 .. Now, p \in Parts : t \in 1 .. MaxTurns
    BY TurnFields
  <2> QED BY <1>1, <1>2, <1>5, <1>6, <2>1 DEF Attempted
<1>10. SpendsNothing
  BY <1>1, <1>2, <1>4, <1>5 DEF SpendsNothing, StartsNothing, DecisionsKept
<1> QED BY <1>3, <1>7, <1>8, <1>9, <1>10, SpentNothing

LEMMA BeginInferenceKeeps ==
  ASSUME TurnInvariant, BeginInference
  PROVE  TurnInvariant'
<1>1. TypeOK
  BY DEF TurnInvariant
<1>2. /\ fiber' = [fiber EXCEPT !.at = fiber'.at, !.decided = fiber'.decided, !.ends = fiber'.ends]
      /\ fiber' \in FiberType /\ fiber'.at = "streaming"
  BY <1>1 DEF BeginInference, TypeOK, FiberType, Places
<1>3. /\ used' \in [crashes : 0 .. MaxCrashes, faults : 0 .. MaxFaults]
      /\ UNCHANGED <<run, work, process, ran>> /\ fiber.at = "starting"
  BY <1>1 DEF BeginInference, InferenceStep, At, TypeOK
<1>4. InferenceLogged
  BY BeginLogged DEF BeginInference
<1> QED BY <1>2, <1>3, <1>4, InferenceLoggedKeeps

LEMMA FailInferenceKeeps ==
  ASSUME TurnInvariant, FailInference
  PROVE  TurnInvariant'
<1>1. TypeOK
  BY DEF TurnInvariant
<1>2. Undecided \in [Parts -> {"none", "Created", "Rejected"}]
  BY DEF Undecided
<1>3. /\ fiber' = [fiber EXCEPT !.at = fiber'.at, !.decided = fiber'.decided, !.ends = fiber'.ends]
      /\ fiber' \in FiberType /\ fiber'.at = "sealed"
  BY <1>1, <1>2 DEF FailInference, TypeOK, FiberType, Places
<1>4. /\ used' \in [crashes : 0 .. MaxCrashes, faults : 0 .. MaxFaults]
      /\ UNCHANGED <<run, work, process, ran>> /\ fiber.at = "streaming"
      /\ turn' = FailedInference
  BY <1>1 DEF FailInference, InferenceStep, At, TypeOK
<1>5. InferenceLogged /\ turn'[Now].inference = "Failed"
  BY <1>4, FailureLogged
<1> QED BY <1>3, <1>4, <1>5, InferenceLoggedKeeps

LEMMA StreamBreaksKeeps ==
  ASSUME TurnInvariant, StreamBreaks
  PROVE  TurnInvariant'
<1>1. TypeOK
  BY DEF TurnInvariant
<1>2. NoFiber \in FiberType
  BY <1>1, NextFault
<1>3. fiber' \in FiberType /\ fiber'.at = "ending" /\ fiber'.ends = "defect"
  BY <1>2 DEF StreamBreaks, FiberType, Places
<1>4. used' \in [crashes : 0 .. MaxCrashes, faults : 0 .. MaxFaults]
  BY <1>1, NextFault DEF StreamBreaks
<1>5. /\ UNCHANGED <<run, work, process, ran>> /\ fiber.at \in {"streaming", "sealed"}
      /\ turn' = FailedInference
  BY DEF StreamBreaks, InferenceStep
<1>6. InferenceLogged /\ turn'[Now].inference = "Failed"
  BY <1>5, FailureLogged
<1> QED BY <1>3, <1>4, <1>5, <1>6, InferenceLoggedKeeps

LEMMA FinishKeeps ==
  ASSUME TurnInvariant, Finish
  PROVE  TurnInvariant'
<1> USE DEF TurnInvariant
<1> DEFINE words == IF (\E p \in Parts : fiber.decided[p] # "none") \/ fiber.text
                      THEN {"message"} ELSE {}
           x == [turn[Now] EXCEPT !.inference = "Completed", !.said = words, !.call = Sealed]
<1>1. /\ Now \in 1 .. Now /\ Now > 0 /\ turn[Now] \in TurnType /\ DOMAIN turn = 1 .. Now
      /\ process = "live" /\ fiber.at = "streaming" /\ Now \in 1 .. MaxTurns
  BY TurnFields DEF Owned, Finish, At
<1>2. /\ Sealed \in [Parts -> CallType]
      /\ \A p \in Parts : Sealed[p].attempt = 0
  BY DEF Sealed, NoCall, CallType, TypeOK, FiberType
<1>3. TurnBecomes(Now, x)
  BY <1>1 DEF Finish, TurnBecomes, Inference, TurnType
<1>4. words \in SUBSET {"message", "partial"}
  OBVIOUS
<1> HIDE DEF words
<1>5. /\ x \in TurnType /\ x.run = turn[Now].run /\ x.end = turn[Now].end /\ x.call = Sealed
      /\ x.inference = "Completed"
  BY <1>1, <1>2, <1>4 DEF TurnType
<1> HIDE DEF x
<1>6. /\ turn' \in Seq(TurnType) /\ Len(turn') = Now /\ Now' = Now
      /\ turn'[Now] = x
      /\ \A t \in 1 .. Now : t # Now => turn'[t] = turn[t]
  BY <1>1, <1>3, <1>5, TurnUpdate DEF Now
<1>7. /\ fiber' \in FiberType /\ fiber'.at = "sealed" /\ fiber'.remaining = fiber.remaining
      /\ fiber'.corrections = fiber.corrections
  BY DEF Finish, TypeOK, FiberType, Places, Undecided
<1>8. UNCHANGED <<run, work, process, ran, used>>
  BY DEF Finish, InferenceStep
<1>9. TypeOK'
  BY <1>6, <1>7, <1>8, TypedStep DEF TypeOK
<1>10. \A t \in 1 .. MaxTurns, p \in Parts : work'[<<t, p>>] = "none"
  BY <1>1, <1>8 DEF Owned
<1>11. Owned'
  <2>1. \A t \in 1 .. Now : turn'[t].run <= run.id
    BY <1>5, <1>6 DEF Owned
  <2> QED BY <1>1, <1>5, <1>6, <1>7, <1>8, <1>10, <2>1 DEF Owned
<1>12. ClosedButForFiber'
  BY <1>1, <1>2, <1>5, <1>6, <1>7, <1>8 DEF ClosedButForFiber
<1>13. Attempted'
  <2>1. \A p \in Parts : ran[<<Now, p>>] = 0 /\ AttemptLimit(p) \in Nat
    <3> SUFFICES ASSUME NEW p \in Parts PROVE ran[<<Now, p>>] = 0 /\ AttemptLimit(p) \in Nat
      OBVIOUS
    <3>1. turn[Now].call[p].attempt = 0 /\ ran[<<Now, p>>] <= turn[Now].call[p].attempt
      BY <1>1 DEF Attempted
    <3> QED BY <1>1, <3>1, WorkUpdate, TurnAssumption DEF AttemptLimit
  <2>2. \A t \in 1 .. Now : t \in 1 .. MaxTurns
    BY TurnFields
  <2>3. ASSUME NEW t \in 1 .. Now, NEW p \in Parts
        PROVE  /\ turn'[t].call[p].attempt > 0 => turn'[t].call[p].made = "Created"
               /\ ran[<<t, p>>] <= turn'[t].call[p].attempt
               /\ turn'[t].call[p].attempt <= AttemptLimit(p)
    <3>1. CASE t = Now
      BY <3>1, <2>1, <1>1, <1>2, <1>5, <1>6
    <3>2. CASE t # Now
      BY <3>2, <1>6 DEF Attempted
    <3> QED BY <3>1, <3>2
  <2> QED BY <1>2, <1>5, <1>6, <1>7, <1>8, <1>10, <2>2, <2>3 DEF Attempted, AttemptLimit
<1>14. /\ \A r : \A c \in CallsOf(r, "Created")' : c[1] \in 1 .. Now /\ c[2] \in Parts
       /\ \A r, how : \A c \in Calls : c[1] # Now =>
            (c \in CallsOf(r, how)' <=> c \in CallsOf(r, how))
       /\ \A how : \A c \in Calls : c[1] # Now =>
            (c \in CallsOf(run.id, how)' <=> c \in CallsOf(run.id, how))
  <2>1. \A r : \A c \in CallsOf(r, "Created")' : c[1] \in 1 .. Now /\ c[2] \in Parts
    BY <1>6, TurnFields DEF CallsOf, Calls, Made
  <2>2. ASSUME NEW c \in Calls, c[1] # Now
        PROVE  /\ \A r, how : c \in CallsOf(r, how)' <=> c \in CallsOf(r, how)
               /\ \A how : c \in CallsOf(run.id, how)' <=> c \in CallsOf(run.id, how)
    <3>1. CASE c[1] <= Now
      <4>1. turn'[c[1]] = turn[c[1]]
        BY <2>2, <3>1, <1>6, TurnFields DEF Calls
      <4> QED BY <4>1, <3>1, <1>6, <1>8 DEF CallsOf, Made, Call, Calls
    <3>2. CASE ~(c[1] <= Now)
      BY <3>2, <1>6, <1>8 DEF CallsOf, Made, Calls
    <3> QED BY <3>1, <3>2
  <2> QED BY <2>1, <2>2
<1>15. Budgeted'
  <2>1. \A r : StartedCalls(r)' \subseteq StartedCalls(r)
    <3> SUFFICES ASSUME NEW r, NEW c \in StartedCalls(r)' PROVE c \in StartedCalls(r)
      OBVIOUS
    <3>1. c \in CallsOf(r, "Created")' /\ turn'[c[1]].call[c[2]].attempt > 0
      BY DEF StartedCalls, Call
    <3>2. c \in Calls /\ c[1] \in 1 .. Now /\ c[2] \in Parts
      BY <3>1, <1>14 DEF CallsOf, Calls
    <3>3. c[1] # Now
      BY <3>1, <3>2, <1>2, <1>5, <1>6
    <3> QED BY <3>1, <3>2, <3>3, <1>6, <1>14 DEF StartedCalls, Call
  <2>2. \A r : CorrectedTurns(r)' \subseteq CorrectedTurns(r)
    <3> SUFFICES ASSUME NEW r, NEW t \in CorrectedTurns(r)' PROVE t \in CorrectedTurns(r)
      OBVIOUS
    <3>1. PICK c \in CallsOf(r, "Rejected")' : t = c[1] /\ turn'[t].end = "Completed"
      BY DEF CorrectedTurns, RejectedTurns
    <3>2. c \in Calls /\ t \in 1 .. Now
      BY <3>1, <1>6, TurnFields DEF CallsOf, Calls, Made
    <3>3. t # Now
      BY <3>1, <1>1, <1>5, <1>6 DEF ClosedButForFiber
    <3>4. c \in CallsOf(r, "Rejected") /\ turn[t].end = "Completed"
      BY <3>1, <3>2, <3>3, <1>6, <1>14
    <3> QED BY <3>1, <3>4 DEF CorrectedTurns, RejectedTurns
  <2>3. WithinLimits'
    <3>1. ASSUME NEW r \in 1 .. run.id
          PROVE  /\ Cardinality(StartedCalls(r)') <= MaxToolCallsPerRun
                 /\ Cardinality(CorrectedTurns(r)') <= MaxToolRejectionCorrections
      BY <2>1, <2>2, SmallerSet, DecidedSetsFinite, TurnAssumption DEF Budgeted, WithinLimits
    <3> QED BY <3>1, <1>8 DEF WithinLimits
  <2>4. \A how : EarlierCalls(how)' = EarlierCalls(how)
    <3> SUFFICES ASSUME NEW how, NEW c
                 PROVE  c \in EarlierCalls(how)' <=> c \in EarlierCalls(how)
      OBVIOUS
    <3>1. c \in EarlierCalls(how)' => c \in Calls /\ c[1] # Now
      BY <1>1, <1>6, TurnFields DEF EarlierCalls, CallsOf, Calls
    <3>2. c \in EarlierCalls(how) => c \in Calls /\ c[1] # Now
      BY <1>1, TurnFields DEF EarlierCalls, CallsOf, Calls
    <3> QED BY <3>1, <3>2, <1>6, <1>14 DEF EarlierCalls
  <2>5. EarlierRejections' = EarlierRejections
    BY <2>4 DEF EarlierRejections
  <2> QED BY <1>1, <1>7, <2>3, <2>4, <2>5 DEF Budgeted
<1> QED BY <1>9, <1>11, <1>12, <1>13, <1>15

-----------------------------------------------------------------------------
(* The end of the turn. *)

\* Calls of the last turn get their terminals, without having been executed.
FailedCalls(S) == [p \in Parts |-> IF p \in S THEN [turn[Now].call[p] EXCEPT !.end = "Failed"]
                                   ELSE turn[Now].call[p]]

LEMMA CallsFailed ==
  ASSUME TurnInvariant, fiber.at # "none", NEW S,
         TurnBecomes(Now, [turn[Now] EXCEPT !.call = FailedCalls(S)])
  PROVE  /\ turn' \in Seq(TurnType) /\ Len(turn') = Now
         /\ \A t \in 1 .. Now :
              /\ turn'[t].run = turn[t].run /\ turn'[t].end = turn[t].end
              /\ turn'[t].inference = turn[t].inference
              /\ \A p \in Parts :
                   /\ turn'[t].call[p].made = turn[t].call[p].made
                   /\ turn'[t].call[p].attempt = turn[t].call[p].attempt
                   /\ turn'[t].call[p].end = "none" =>
                        turn[t].call[p].end = "none" /\ (t = Now => p \notin S)
<1> DEFINE x == [turn[Now] EXCEPT !.call = FailedCalls(S)]
<1>1. TypeOK /\ Now \in 1 .. Now /\ turn[Now] \in TurnType
  BY TurnFields DEF TurnInvariant, Owned
<1>2. /\ FailedCalls(S) \in [Parts -> CallType]
      /\ \A p \in Parts : /\ FailedCalls(S)[p].made = turn[Now].call[p].made
                          /\ FailedCalls(S)[p].attempt = turn[Now].call[p].attempt
                          /\ FailedCalls(S)[p].end = "none" =>
                               turn[Now].call[p].end = "none" /\ p \notin S
  BY <1>1 DEF FailedCalls, TurnType, CallType
<1>3. /\ x \in TurnType /\ x.run = turn[Now].run /\ x.end = turn[Now].end
      /\ x.inference = turn[Now].inference /\ x.call = FailedCalls(S)
  BY <1>1, <1>2 DEF TurnType
<1> TurnBecomes(Now, x)
  OBVIOUS
<1> HIDE DEF x
<1>4. /\ turn' \in Seq(TurnType) /\ Len(turn') = Now
      /\ \A t \in 1 .. Now : turn'[t] = IF t = Now THEN x ELSE turn[t]
  BY <1>1, <1>3, TurnUpdate
<1>5. ASSUME NEW t \in 1 .. Now
      PROVE  /\ turn'[t].run = turn[t].run /\ turn'[t].end = turn[t].end
             /\ turn'[t].inference = turn[t].inference
             /\ \A p \in Parts :
                  /\ turn'[t].call[p].made = turn[t].call[p].made
                  /\ turn'[t].call[p].attempt = turn[t].call[p].attempt
                  /\ turn'[t].call[p].end = "none" =>
                       turn[t].call[p].end = "none" /\ (t = Now => p \notin S)
  <2>1. CASE t = Now
    BY <2>1, <1>2, <1>3, <1>4
  <2>2. CASE t # Now
    BY <2>2, <1>4
  <2> QED BY <2>1, <2>2
<1> QED BY <1>4, <1>5

\* The fiber goes on to its end, or is interrupted, when none of its calls is under way.
LEMMA FiberLeavesTools ==
  ASSUME TurnInvariant,
         turn' \in Seq(TurnType), Len(turn') = Now,
         \A t \in 1 .. Now :
              /\ turn'[t].run = turn[t].run /\ turn'[t].end = turn[t].end
              /\ turn'[t].inference = turn[t].inference
              /\ \A p \in Parts :
                   /\ turn'[t].call[p].made = turn[t].call[p].made
                   /\ turn'[t].call[p].attempt = turn[t].call[p].attempt
                   /\ turn'[t].call[p].end = "none" => turn[t].call[p].end = "none",
         \A p \in Parts : turn[Now].call[p].attempt > 0 /\ turn'[Now].call[p].end = "none" =>
                            work[<<Now, p>>] \in {"none", "queued", "done"},
         fiber.at \in {"starting", "refusing", "tools", "ending"},
         UNCHANGED <<run, work, process, ran, used>>, fiber' \in FiberType,
         \/ fiber'.at = "ending" /\ fiber'.ends # "Completed"
         \/ fiber'.at = "exited" /\ fiber'.exit = "interrupted"
  PROVE  TurnInvariant'
<1> USE DEF TurnInvariant
<1>1. Now \in 1 .. Now /\ Now > 0 /\ process = "live" /\ Now' = Now
  BY TurnFields DEF Owned, Now
<1>2. TypeOK'
  BY TypedStep DEF TypeOK
<1>3. \A t \in 1 .. Now : t \in 1 .. MaxTurns
  BY TurnFields
<1>4. Owned'
  BY <1>1, <1>3 DEF Owned
<1>5. ClosedButForFiber'
  BY <1>1, <1>3 DEF ClosedButForFiber
<1>6. Attempted'
  BY <1>1, <1>3 DEF Attempted
<1>7. SpendsNothing
  BY <1>1 DEF SpendsNothing, StartsNothing, DecisionsKept
<1> QED BY <1>2, <1>4, <1>5, <1>6, <1>7, SpentNothing

LEMMA RefuseToolsKeeps ==
  ASSUME TurnInvariant, RefuseTools
  PROVE  TurnInvariant'
<1>1. TypeOK
  BY DEF TurnInvariant
<1>2. TurnBecomes(Now, [turn[Now] EXCEPT !.call = FailedCalls(Created)])
  BY DEF RefuseTools, TurnBecomes, FailedCalls
<1>3. fiber' \in FiberType /\ fiber'.at = "ending" /\ fiber'.ends = "Failed"
  BY <1>1 DEF RefuseTools, TypeOK, FiberType, Places
<1>4. fiber.at = "refusing" /\ UNCHANGED <<run, work, process, ran, used>>
  BY DEF RefuseTools, At
<1>5. Now \in 1 .. Now
  BY <1>1, <1>4, TurnFields DEF TurnInvariant, Owned
<1>6. \A p \in Parts : turn[Now].call[p].attempt > 0 => p \in Created
  BY <1>5 DEF TurnInvariant, Attempted, Created
<1>7. /\ turn' \in Seq(TurnType) /\ Len(turn') = Now
      /\ \A t \in 1 .. Now :
           /\ turn'[t].run = turn[t].run /\ turn'[t].end = turn[t].end
           /\ turn'[t].inference = turn[t].inference
           /\ \A p \in Parts :
                /\ turn'[t].call[p].made = turn[t].call[p].made
                /\ turn'[t].call[p].attempt = turn[t].call[p].attempt
                /\ turn'[t].call[p].end = "none" =>
                     turn[t].call[p].end = "none" /\ (t = Now => p \notin Created)
  BY <1>2, <1>4, CallsFailed
<1> QED BY <1>3, <1>4, <1>5, <1>6, <1>7, FiberLeavesTools

LEMMA HaltTurnKeeps ==
  ASSUME TurnInvariant, HaltTurn
  PROVE  TurnInvariant'
<1>1. TypeOK
  BY DEF TurnInvariant
<1>2. fiber' \in FiberType /\ fiber'.at = "exited" /\ fiber'.exit = "interrupted"
  <2>1. NoFiber \in FiberType /\ fiber.cut \in {"no", "self", "user"}
    BY <1>1, NextFault DEF TypeOK, FiberType
  <2> QED BY <2>1 DEF HaltTurn, FiberType, Places
<1>3. /\ UNCHANGED <<run, work, process, ran, used>>
      /\ used' \in [crashes : 0 .. MaxCrashes, faults : 0 .. MaxFaults]
  BY <1>1 DEF HaltTurn, TypeOK
<1>4. CASE fiber.at \in {"streaming", "sealed"} /\ turn' = FailedInference
  <2>1. InferenceLogged /\ turn'[Now].inference = "Failed"
    BY <1>4, FailureLogged
  <2> QED BY <1>2, <1>3, <1>4, <2>1, InferenceLoggedKeeps
<1>5. CASE /\ fiber.at = "tools" /\ Settled({"queued"})
           /\ turn' = [turn EXCEPT ![Now].call = [p \in Parts |->
                IF work[<<Now, p>>] = "queued" THEN [@[p] EXCEPT !.end = "Failed"] ELSE @[p]]]
  <2> DEFINE S == {p \in Parts : work[<<Now, p>>] = "queued"}
  <2>1. TurnBecomes(Now, [turn[Now] EXCEPT !.call = FailedCalls(S)])
    BY <1>5 DEF TurnBecomes, FailedCalls
  <2>2. Now \in 1 .. Now /\ Now \in 1 .. MaxTurns
    BY <1>1, <1>5, TurnFields DEF TurnInvariant, Owned
  <2>3. \A p \in Parts : work[<<Now, p>>] \in {"none", "queued", "done"}
    BY <1>1, <1>5, <2>2, WorkUpdate DEF Settled
  <2> HIDE DEF S
  <2>4. /\ turn' \in Seq(TurnType) /\ Len(turn') = Now
        /\ \A t \in 1 .. Now :
             /\ turn'[t].run = turn[t].run /\ turn'[t].end = turn[t].end
             /\ turn'[t].inference = turn[t].inference
             /\ \A p \in Parts :
                  /\ turn'[t].call[p].made = turn[t].call[p].made
                  /\ turn'[t].call[p].attempt = turn[t].call[p].attempt
                  /\ turn'[t].call[p].end = "none" =>
                       turn[t].call[p].end = "none" /\ (t = Now => p \notin S)
    BY <1>5, <2>1, CallsFailed
  <2> QED BY <1>2, <1>3, <1>5, <2>2, <2>3, <2>4, FiberLeavesTools
<1>6. CASE fiber.at \in {"starting", "refusing", "ending"} /\ UNCHANGED turn
  <2>1. Now \in 1 .. Now
    BY <1>1, <1>6, TurnFields DEF TurnInvariant, Owned
  <2>2. \A p \in Parts : turn[Now].call[p].attempt > 0 => turn[Now].call[p].end # "none"
    BY <1>6, <2>1 DEF TurnInvariant, Owned, ClosedButForFiber
  <2>3. turn' \in Seq(TurnType) /\ Len(turn') = Now
    BY <1>1, <1>6 DEF TypeOK, Now
  <2> QED BY <1>2, <1>3, <1>6, <2>2, <2>3, FiberLeavesTools
<1> QED BY <1>4, <1>5, <1>6 DEF HaltTurn

\* A turn that completes with rejected calls had a correction left for them.
LEMMA EndTurnKeeps ==
  ASSUME TurnInvariant, EndTurn
  PROVE  TurnInvariant'
<1> USE DEF TurnInvariant
<1> DEFINE end == IF fiber.ends = "Completed" THEN "Completed" ELSE "Failed"
           x == [turn[Now] EXCEPT !.end = end]
<1>1. /\ Now \in 1 .. Now /\ Now > 0 /\ turn[Now] \in TurnType /\ Now \in 1 .. MaxTurns
      /\ process = "live" /\ fiber.at = "ending" /\ turn[Now].run = run.id
  BY TurnFields DEF Owned, EndTurn, At
<1>2. TurnBecomes(Now, x)
  BY DEF EndTurn, TurnBecomes
<1>3. /\ x \in TurnType /\ x.run = turn[Now].run /\ x.call = turn[Now].call
      /\ x.inference = turn[Now].inference /\ x.end = end
  BY <1>1 DEF TurnType
<1> HIDE DEF x
<1>4. /\ turn' \in Seq(TurnType) /\ Len(turn') = Now /\ Now' = Now
      /\ turn'[Now] = x /\ \A t \in 1 .. Now : t # Now => turn'[t] = turn[t]
  BY <1>1, <1>2, <1>3, TurnUpdate DEF Now
<1>5. fiber' \in FiberType /\ fiber'.at = "exited" /\ fiber'.exit # "none"
  <2>1. NoFiber \in FiberType /\ fiber.cut \in {"no", "self", "user"}
    BY NextFault DEF TypeOK, FiberType
  <2> QED BY <2>1 DEF EndTurn, FiberType, Places
<1>6. UNCHANGED <<run, work, process, ran, used>>
  BY DEF EndTurn
<1>7. \A t \in 1 .. Now : /\ turn'[t].run = turn[t].run /\ turn'[t].call = turn[t].call
                          /\ turn'[t].inference = turn[t].inference
                          /\ t # Now => turn'[t].end = turn[t].end
  BY <1>3, <1>4
<1>8. turn'[Now].end = end /\ end \in {"Completed", "Failed"}
  BY <1>3, <1>4
<1>9. TypeOK'
  BY <1>4, <1>5, <1>6, TypedStep DEF TypeOK
<1>10. Owned'
  BY <1>1, <1>4, <1>5, <1>6, <1>7 DEF Owned
<1>11. ClosedButForFiber'
  BY <1>1, <1>4, <1>5, <1>6, <1>7, <1>8 DEF ClosedButForFiber
<1>12. Attempted'
  BY <1>1, <1>4, <1>5, <1>6, <1>7 DEF Attempted
<1>13. DecisionsKept
  BY <1>4, <1>6, <1>7 DEF DecisionsKept
<1>14. ASSUME NEW r \in 1 .. run.id
       PROVE  /\ Cardinality(StartedCalls(r)') <= MaxToolCallsPerRun
              /\ Cardinality(CorrectedTurns(r)') <= MaxToolRejectionCorrections
  <2>1. StartedCalls(r)' \subseteq StartedCalls(r)
    <3> SUFFICES ASSUME NEW c \in StartedCalls(r)' PROVE c \in StartedCalls(r)
      OBVIOUS
    <3>1. c \in CallsOf(r, "Created") /\ turn'[c[1]].call[c[2]].attempt > 0
      BY <1>13, DecidedSetsKept DEF StartedCalls, Call
    <3>2. c[1] \in 1 .. Now
      BY <3>1, TurnFields DEF CallsOf, Calls, Made
    <3> QED BY <3>1, <3>2, <1>7 DEF StartedCalls, Call
  <2>2. CASE CorrectedTurns(r)' \subseteq CorrectedTurns(r)
    BY <2>1, <2>2, SmallerSet, DecidedSetsFinite, TurnAssumption DEF Budgeted, WithinLimits
  <2>3. ASSUME NEW t \in CorrectedTurns(r)', t \notin CorrectedTurns(r)
        PROVE  r = run.id /\ Cardinality(RejectedTurns(run.id)) <= MaxToolRejectionCorrections
    <3>1. t \in RejectedTurns(r) /\ turn'[t].end = "Completed"
      BY <2>3, <1>13, DecidedSetsKept DEF CorrectedTurns
    <3>2. PICK c \in CallsOf(r, "Rejected") : t = c[1]
      BY <3>1 DEF RejectedTurns
    <3>3. t \in 1 .. Now /\ c[2] \in Parts /\ turn[t].run = r /\ turn[t].call[c[2]].made = "Rejected"
      BY <3>2, TurnFields DEF CallsOf, Calls, Made, Call
    <3>4. t = Now
      BY <2>3, <3>1, <3>3, <1>7 DEF CorrectedTurns
    <3>5. Rejected # {} /\ fiber.ends = "Completed"
      BY <3>1, <3>3, <3>4, <1>8 DEF Rejected
    <3> QED BY <3>3, <3>4, <3>5, <1>1 DEF Budgeted
  <2>4. CASE ~(CorrectedTurns(r)' \subseteq CorrectedTurns(r))
    <3>1. r = run.id /\ Cardinality(RejectedTurns(run.id)) <= MaxToolRejectionCorrections
      BY <2>3, <2>4
    <3>2. CorrectedTurns(r)' \subseteq RejectedTurns(run.id)
      BY <3>1, <1>13, DecidedSetsKept DEF CorrectedTurns
    <3> QED BY <2>1, <3>1, <3>2, SmallerSet, DecidedSetsFinite, TurnAssumption
            DEF Budgeted, WithinLimits
  <2> QED BY <2>2, <2>4
<1>15. Budgeted'
  BY <1>5, <1>6, <1>14 DEF Budgeted, WithinLimits
<1> QED BY <1>9, <1>10, <1>11, <1>12, <1>15

-----------------------------------------------------------------------------
(* The control fiber and recovery. *)

\* Nobody works any more, and every turn that was left open may have been closed.
LEMMA FiberReleased ==
  ASSUME TurnInvariant, Released, turn' \in Seq(TurnType), Len(turn') = Now,
         \A t \in 1 .. Now :
           /\ turn'[t].run = turn[t].run
           /\ turn'[t].end # turn[t].end => turn'[t].end = "Failed"
           /\ \A p \in Parts : /\ turn'[t].call[p].made = turn[t].call[p].made
                               /\ turn'[t].call[p].attempt = turn[t].call[p].attempt,
         process' = "live",
         \A t \in 1 .. Now : /\ turn'[t].end # "open" /\ turn'[t].inference # "open"
                             /\ \A p \in Parts : turn'[t].call[p].attempt > 0 =>
                                                   turn'[t].call[p].end # "none",
         run' \in [id : Nat, open : BOOLEAN], run'.id = run.id, UNCHANGED <<ran, used>>
  PROVE  TurnInvariant'
<1> USE DEF TurnInvariant
<1>1. /\ work' \in [Calls -> WorkType] /\ fiber' \in FiberType
      /\ \A t \in 1 .. MaxTurns, p \in Parts : work'[<<t, p>>] = "none"
      /\ fiber'.at = "none" /\ Now' = Now
  BY NobodyWorks DEF Now
<1>2. TypeOK'
  BY <1>1, TypedStep DEF TypeOK
<1>3. Owned'
  BY <1>1 DEF Owned
<1>4. ClosedButForFiber'
  BY <1>1 DEF ClosedButForFiber
<1>5. Attempted'
  <2>1. \A t \in 1 .. Now : t \in 1 .. MaxTurns
    BY TurnFields
  <2>2. ASSUME NEW t \in 1 .. Now, NEW p \in Parts
        PROVE  /\ turn'[t].call[p].attempt > 0 => turn'[t].call[p].made = "Created"
               /\ ran[<<t, p>>] <= turn'[t].call[p].attempt
               /\ turn'[t].call[p].attempt <= AttemptLimit(p)
    BY DEF Attempted
  <2> QED BY <1>1, <2>1, <2>2 DEF Attempted, AttemptLimit
<1>6. SpendsNothing
  BY <1>1 DEF SpendsNothing, StartsNothing, DecisionsKept
<1> QED BY <1>2, <1>3, <1>4, <1>5, <1>6, SpentNothing

LEMMA ClosingCloses ==
  ASSUME TurnInvariant, fiber.at # "none", turn' = Closing
  PROVE  /\ turn' \in Seq(TurnType) /\ Len(turn') = Now
         /\ \A t \in 1 .. Now :
              /\ turn'[t].run = turn[t].run /\ turn'[t].call = turn[t].call
              /\ turn'[t].inference = turn[t].inference
              /\ turn'[t].end = IF t = Now /\ turn[t].end = "open" THEN "Failed" ELSE turn[t].end
<1> DEFINE end == IF turn[Now].end = "open" THEN "Failed" ELSE turn[Now].end
           x == [turn[Now] EXCEPT !.end = end]
<1>1. TypeOK /\ Now \in 1 .. Now /\ turn[Now] \in TurnType /\ DOMAIN turn = 1 .. Now
  BY TurnFields DEF TurnInvariant, Owned
<1>2. TurnBecomes(Now, x)
  BY <1>1 DEF Closing, TurnBecomes, TurnType
<1>3. end \in {"open", "Completed", "Failed"}
  BY <1>1 DEF TurnType
<1> HIDE DEF end
<1>4. /\ x \in TurnType /\ x.run = turn[Now].run /\ x.call = turn[Now].call
      /\ x.inference = turn[Now].inference /\ x.end = end
  BY <1>1, <1>3 DEF TurnType
<1> HIDE DEF x
<1>5. /\ turn' \in Seq(TurnType) /\ Len(turn') = Now
      /\ \A t \in 1 .. Now : turn'[t] = IF t = Now THEN x ELSE turn[t]
  BY <1>1, <1>2, <1>4, TurnUpdate
<1> QED BY <1>4, <1>5 DEF end

LEMMA ObserveExitKeeps ==
  ASSUME TurnInvariant, ObserveExit
  PROVE  TurnInvariant'
<1>1. /\ TypeOK /\ fiber.at = "exited" /\ process = "live" /\ Released /\ Now \in 1 .. Now
      /\ UNCHANGED <<process, ran, used>>
  BY TurnFields DEF ObserveExit, At, TurnInvariant, Owned
<1>2. run' \in [id : Nat, open : BOOLEAN] /\ run'.id = run.id
  BY <1>1 DEF ObserveExit, TypeOK
<1>3. \A t \in 1 .. Now :
        /\ turn[t].inference # "open"
        /\ turn[t].end = "open" => t = Now /\ fiber.exit = "interrupted"
        /\ \A p \in Parts : turn[t].call[p].attempt > 0 => turn[t].call[p].end # "none"
  BY <1>1 DEF TurnInvariant, ClosedButForFiber
<1>4. CASE turn' = turn /\ fiber.exit # "interrupted"
  <2>1. turn' \in Seq(TurnType) /\ Len(turn') = Now
    BY <1>1, <1>4 DEF TypeOK, Now
  <2> QED BY <1>1, <1>2, <1>3, <1>4, <2>1, FiberReleased
<1>5. CASE turn' = Closing
  <2>1. /\ turn' \in Seq(TurnType) /\ Len(turn') = Now
        /\ \A t \in 1 .. Now :
             /\ turn'[t].run = turn[t].run /\ turn'[t].call = turn[t].call
             /\ turn'[t].inference = turn[t].inference
             /\ turn'[t].end = IF t = Now /\ turn[t].end = "open" THEN "Failed" ELSE turn[t].end
    BY <1>1, <1>5, ClosingCloses
  <2> QED BY <1>1, <1>2, <1>3, <2>1, FiberReleased
<1> QED BY <1>4, <1>5 DEF ObserveExit

LEMMA RepairedCloses ==
  ASSUME TypeOK, turn' = Repaired
  PROVE  /\ turn' \in Seq(TurnType) /\ Len(turn') = Now
         /\ \A t \in 1 .. Now :
              /\ turn'[t].run = turn[t].run /\ turn'[t].inference # "open"
              /\ turn'[t].end = IF turn[t].end = "open" THEN "Failed" ELSE turn[t].end
              /\ \A p \in Parts :
                   /\ turn'[t].call[p].made = turn[t].call[p].made
                   /\ turn'[t].call[p].attempt = turn[t].call[p].attempt
                   /\ turn[t].call[p].made = "Created" => turn'[t].call[p].end # "none"
<1> DEFINE call(t) == [p \in Parts |->
                         IF turn[t].call[p].made = "Created" /\ turn[t].call[p].end = "none"
                           THEN [turn[t].call[p] EXCEPT !.end = "Failed"] ELSE turn[t].call[p]]
           said(t) == IF turn[t].inference = "open" THEN "Failed" ELSE turn[t].inference
           end(t) == IF turn[t].end = "open" THEN "Failed" ELSE turn[t].end
           x(t) == [turn[t] EXCEPT !.call = call(t), !.inference = said(t), !.end = end(t)]
<1>1. Now \in Nat /\ DOMAIN turn = 1 .. Now /\ \A t \in 1 .. Now : turn[t] \in TurnType
  BY TurnFields
<1>2. \A t \in 1 .. Now :
        /\ call(t) \in [Parts -> CallType]
        /\ \A p \in Parts : /\ call(t)[p].made = turn[t].call[p].made
                            /\ call(t)[p].attempt = turn[t].call[p].attempt
                            /\ turn[t].call[p].made = "Created" => call(t)[p].end # "none"
  <2> SUFFICES ASSUME NEW t \in 1 .. Now, NEW p \in Parts
               PROVE  /\ call(t)[p] \in CallType
                      /\ call(t)[p].made = turn[t].call[p].made
                      /\ call(t)[p].attempt = turn[t].call[p].attempt
                      /\ turn[t].call[p].made = "Created" => call(t)[p].end # "none"
    OBVIOUS
  <2>1. turn[t].call[p] \in CallType
    BY <1>1 DEF TurnType
  <2> QED BY <2>1 DEF CallType
<1>3. \A t \in 1 .. Now :
        /\ said(t) \in {"none", "open", "Completed", "Failed"} /\ said(t) # "open"
        /\ end(t) \in {"open", "Completed", "Failed"}
  BY <1>1 DEF TurnType
<1>4. turn' = [t \in 1 .. Now |-> x(t)]
  BY <1>1 DEF Repaired, TurnType
<1> HIDE DEF call, said
<1>5. \A t \in 1 .. Now : /\ x(t) \in TurnType /\ x(t).run = turn[t].run /\ x(t).call = call(t)
                          /\ x(t).inference = said(t) /\ x(t).end = end(t)
  BY ZenonT(60), <1>1, <1>2, <1>3 DEF TurnType
<1> HIDE DEF x
<1>6. turn' \in Seq(TurnType) /\ Len(turn') = Now /\ \A t \in 1 .. Now : turn'[t] = x(t)
  BY <1>1, <1>4, <1>5
<1> QED BY <1>2, <1>3, <1>5, <1>6

LEMMA RecoverKeeps ==
  ASSUME TurnInvariant, Recover
  PROVE  TurnInvariant'
<1>1. TypeOK /\ turn' = Repaired /\ Released /\ process' = "live" /\ UNCHANGED <<ran, used>>
  BY DEF TurnInvariant, Recover
<1>2. run' \in [id : Nat, open : BOOLEAN] /\ run'.id = run.id
  BY <1>1 DEF Recover, TypeOK
<1>3. /\ turn' \in Seq(TurnType) /\ Len(turn') = Now
      /\ \A t \in 1 .. Now :
           /\ turn'[t].run = turn[t].run /\ turn'[t].inference # "open"
           /\ turn'[t].end = IF turn[t].end = "open" THEN "Failed" ELSE turn[t].end
           /\ \A p \in Parts :
                /\ turn'[t].call[p].made = turn[t].call[p].made
                /\ turn'[t].call[p].attempt = turn[t].call[p].attempt
                /\ turn[t].call[p].made = "Created" => turn'[t].call[p].end # "none"
  BY <1>1, RepairedCloses
<1>4. \A t \in 1 .. Now, p \in Parts : turn[t].call[p].attempt > 0 => turn[t].call[p].made = "Created"
  BY DEF TurnInvariant, Attempted
<1>5. \A t \in 1 .. Now : turn'[t].end # turn[t].end => turn'[t].end = "Failed"
  BY <1>3
<1>6. \A t \in 1 .. Now : /\ turn'[t].end # "open" /\ turn'[t].inference # "open"
                          /\ \A p \in Parts : turn'[t].call[p].attempt > 0 =>
                                                turn'[t].call[p].end # "none"
  BY <1>3, <1>4
<1> QED BY <1>1, <1>2, <1>3, <1>5, <1>6, FiberReleased

\* A turn that has just begun decided nothing; its budgets are what its run has left.
LEMMA StartTurnKeeps ==
  ASSUME TurnInvariant, StartTurn
  PROVE  TurnInvariant'
<1> USE DEF TurnInvariant
<1> DEFINE x == [NoTurn EXCEPT !.run = run.id]
<1>1. /\ process = "live" /\ fiber.at = "none" /\ Now < MaxTurns /\ Now \in Nat
      /\ UNCHANGED <<run, work, ran, used>>
  BY TurnFields DEF StartTurn
<1>2. /\ x \in TurnType /\ x.run = run.id /\ x.end = "open" /\ x.inference = "none"
      /\ \A p \in Parts : x.call[p] = NoCall
      /\ NoCall \in CallType
  <2>1. NoCall \in CallType
    BY DEF NoCall, CallType
  <2> QED BY <2>1 DEF TypeOK, NoTurn, TurnType
<1>3. turn' = Append(turn, x)
  BY DEF StartTurn
<1> HIDE DEF x
<1>4. /\ turn' \in Seq(TurnType) /\ Len(turn') = Now + 1 /\ Now' = Now + 1
      /\ turn'[Now + 1] = x /\ \A t \in 1 .. Now : turn'[t] = turn[t]
  BY <1>2, <1>3 DEF TypeOK, Now
<1>5. \A how \in {"Created", "Rejected"} :
        /\ \A r : CallsOf(r, how)' = CallsOf(r, how)
        /\ EarlierCalls(how)' = CallsOf(run.id, how)
  <2> SUFFICES ASSUME NEW how \in {"Created", "Rejected"}
               PROVE  /\ \A r : CallsOf(r, how)' = CallsOf(r, how)
                      /\ EarlierCalls(how)' = CallsOf(run.id, how)
    OBVIOUS
  <2>1. ASSUME NEW c \in Calls
        PROVE  /\ Made(c, how)' <=> Made(c, how)
               /\ Made(c, how) => turn'[c[1]] = turn[c[1]] /\ c[1] < Now + 1
    <3>1. CASE c[1] = Now + 1
      BY <3>1, <1>1, <1>2, <1>4 DEF Calls, Made, Call, NoCall
    <3>2. CASE c[1] > Now + 1
      BY <3>2, <1>1, <1>4 DEF Calls, Made
    <3>3. CASE c[1] <= Now
      BY <3>3, <1>1, <1>4 DEF Calls, Made, Call
    <3> QED BY <3>1, <3>2, <3>3, <1>1 DEF Calls
  <2>2. Calls' = Calls
    BY DEF Calls
  <2>3. ASSUME NEW r PROVE CallsOf(r, how)' = CallsOf(r, how)
    BY <2>1, <2>2 DEF CallsOf
  <2>4. CallsOf(run.id, how)' = CallsOf(run.id, how)
    BY <1>1, <2>1, <2>2 DEF CallsOf
  <2>5. \A c \in CallsOf(run.id, how) : c[1] < Now + 1
    BY <2>1 DEF CallsOf
  <2> QED BY <1>4, <2>3, <2>4, <2>5 DEF EarlierCalls
<1>6. \A r : StartedCalls(r)' = StartedCalls(r) /\ CorrectedTurns(r)' = CorrectedTurns(r)
  <2>1. \A r : \A c \in CallsOf(r, "Created") : turn'[c[1]] = turn[c[1]]
    BY <1>4, TurnFields DEF CallsOf, Calls, Made
  <2>2. \A r : RejectedTurns(r)' = RejectedTurns(r)
    BY <1>5 DEF RejectedTurns
  <2>3. \A r : \A t \in RejectedTurns(r) : turn'[t] = turn[t]
    BY <1>4, TurnFields DEF RejectedTurns, CallsOf, Calls, Made
  <2> QED BY <1>5, <2>1, <2>2, <2>3 DEF StartedCalls, CorrectedTurns, Call
<1>7. WithinLimits'
  BY <1>1, <1>6 DEF Budgeted, WithinLimits
<1>8. EarlierRejections' = RejectedTurns(run.id)
  BY <1>5 DEF EarlierRejections, RejectedTurns
<1>9. \A t \in 1 .. MaxTurns, p \in Parts : work[<<t, p>>] = "none"
  BY <1>1 DEF Owned
<1>10. \A t \in 1 .. Now + 1 : turn'[t].run <= run.id
  <2>1. run.id \in Nat
    BY DEF TypeOK
  <2> QED BY <2>1, <1>1, <1>2, <1>4 DEF Owned
<1>11. Now + 1 > 0 /\ turn'[Now + 1].run = run.id
  BY <1>1, <1>2, <1>4
<1>12. CASE /\ fiber' = [NoFiber EXCEPT !.at = "starting",
                 !.remaining = Remaining(MaxToolCallsPerRun, Cardinality(CallsOf(run.id, "Created"))),
                 !.corrections = Remaining(MaxToolRejectionCorrections,
                                           Cardinality(RejectedTurns(run.id)))]
            /\ process' = process
  <2>1. \A limit, spent \in Nat : /\ Remaining(limit, spent) \in Nat
                                  /\ Remaining(limit, spent) > 0 => Remaining(limit, spent) + spent <= limit
    BY DEF Remaining
  <2>2. Cardinality(CallsOf(run.id, "Created")) \in Nat /\ Cardinality(RejectedTurns(run.id)) \in Nat
    BY DecidedSetsFinite, FS_CardinalityType
  <2>3. NoFiber \in FiberType
    BY NextFault
  <2> DEFINE calls == Remaining(MaxToolCallsPerRun, Cardinality(CallsOf(run.id, "Created")))
             turns == Remaining(MaxToolRejectionCorrections, Cardinality(RejectedTurns(run.id)))
  <2>4. /\ calls \in Nat /\ turns \in Nat
        /\ calls > 0 => calls + Cardinality(CallsOf(run.id, "Created")) <= MaxToolCallsPerRun
        /\ turns > 0 => turns + Cardinality(RejectedTurns(run.id)) <= MaxToolRejectionCorrections
    BY <2>1, <2>2, TurnAssumption
  <2>5. fiber' = [NoFiber EXCEPT !.at = "starting", !.remaining = calls, !.corrections = turns]
    BY <1>12
  <2> HIDE DEF calls, turns
  <2>6. /\ fiber' \in FiberType /\ fiber'.at = "starting" /\ fiber'.remaining = calls
        /\ fiber'.corrections = turns
    BY <2>3, <2>4, <2>5 DEF FiberType, Places
  <2>7. TypeOK'
    BY <1>1, <1>4, <1>12, <2>6, TurnFields, TypedStep DEF TypeOK
  <2>8. Owned'
    BY <1>1, <1>4, <1>9, <1>12, <1>10, <1>11, <2>6 DEF Owned
  <2>9. ClosedButForFiber'
    BY <1>1, <1>2, <1>4, <1>12, <2>6 DEF ClosedButForFiber, NoCall
  <2>10. Attempted'
    <3>1. /\ \A p \in Parts : AttemptLimit(p) \in Nat /\ Now + 1 \in 1 .. MaxTurns
          /\ \A t \in 1 .. Now : t \in 1 .. MaxTurns
      BY <1>1, TurnFields, TurnAssumption DEF AttemptLimit
    <3>2. ASSUME NEW t \in 1 .. Now + 1, NEW p \in Parts
          PROVE  /\ turn'[t].call[p].attempt > 0 => turn'[t].call[p].made = "Created"
                 /\ ran[<<t, p>>] <= turn'[t].call[p].attempt
                 /\ turn'[t].call[p].attempt <= AttemptLimit(p)
      <4>1. CASE t = Now + 1
        BY <4>1, <1>1, <1>2, <1>4, <3>1 DEF Attempted, NoCall
      <4>2. CASE t \in 1 .. Now
        BY <4>2, <1>4 DEF Attempted
      <4> QED BY <4>1, <4>2, <1>1
    <3> QED BY <3>1, <3>2, <1>1, <1>2, <1>4, <1>9, <2>6 DEF Attempted, AttemptLimit, NoCall
  <2>11. Budgeted'
    BY <1>1, <1>5, <1>7, <1>8, <2>4, <2>6 DEF Budgeted
  <2> QED BY <2>7, <2>8, <2>9, <2>10, <2>11
<1>13. CASE process' = "dead" /\ fiber' = fiber
  <2>1. TypeOK'
    BY <1>1, <1>4, <1>13, TurnFields, TypedStep DEF TypeOK
  <2>2. Owned'
    BY <1>1, <1>4, <1>9, <1>13, <1>10 DEF Owned
  <2>3. ClosedButForFiber'
    BY <1>1, <1>13 DEF ClosedButForFiber
  <2>4. Attempted'
    <3>1. /\ \A p \in Parts : AttemptLimit(p) \in Nat /\ Now + 1 \in 1 .. MaxTurns
          /\ \A t \in 1 .. Now : t \in 1 .. MaxTurns
      BY <1>1, TurnFields, TurnAssumption DEF AttemptLimit
    <3>2. ASSUME NEW t \in 1 .. Now + 1, NEW p \in Parts
          PROVE  /\ turn'[t].call[p].attempt > 0 => turn'[t].call[p].made = "Created"
                 /\ ran[<<t, p>>] <= turn'[t].call[p].attempt
                 /\ turn'[t].call[p].attempt <= AttemptLimit(p)
      <4>1. CASE t = Now + 1
        BY <4>1, <1>1, <1>2, <1>4, <3>1 DEF Attempted, NoCall
      <4>2. CASE t \in 1 .. Now
        BY <4>2, <1>4 DEF Attempted
      <4> QED BY <4>1, <4>2, <1>1
    <3> QED BY <3>1, <3>2, <1>1, <1>4, <1>9, <1>13 DEF Attempted, AttemptLimit
  <2>5. Budgeted'
    BY <1>1, <1>7, <1>13 DEF Budgeted
  <2> QED BY <2>1, <2>2, <2>3, <2>4, <2>5
<1> QED BY <1>12, <1>13 DEF StartTurn

-----------------------------------------------------------------------------
(* The invariant, and what it implies. *)

LEMMA InitInvariant == TurnInit => TurnInvariant
<1> SUFFICES ASSUME TurnInit PROVE TurnInvariant
  OBVIOUS
<1> USE DEF TurnInit
<1>1. Now = 0 /\ fiber.at = "none" /\ fiber.ends = "none" /\ MaxTurns \in Nat
  BY TurnAssumption DEF Now, NoFiber
<1>2. NoFiber \in FiberType
  BY DEF NoFiber, FiberType, Places, Undecided
<1>3. TypeOK
  <2>1. turn \in Seq(TurnType) /\ Now <= MaxTurns
    BY <1>1 DEF Now
  <2>2. used \in [crashes : 0 .. MaxCrashes, faults : 0 .. MaxFaults]
    BY TurnAssumption
  <2>3. work \in [Calls -> WorkType] /\ ran \in [Calls -> Nat]
    BY DEF WorkType
  <2>4. run \in [id : Nat, open : BOOLEAN]
    OBVIOUS
  <2> QED BY <1>2, <2>1, <2>2, <2>3, <2>4 DEF TypeOK
<1>4. Owned /\ ClosedButForFiber
  BY <1>1, <1>3, WorkUpdate DEF Owned, ClosedButForFiber
<1>5. Attempted
  BY <1>1, <1>3, WorkUpdate DEF Attempted, Calls
<1>6. Budgeted
  BY <1>1 DEF Budgeted, WithinLimits
<1> QED BY <1>3, <1>4, <1>5, <1>6 DEF TurnInvariant

LEMMA ToolCallsKeep ==
  ASSUME TurnInvariant, ToolCalls
  PROVE  TurnInvariant'
BY StartToolKeeps, InvokeHandlerKeeps, HandlerEndsKeeps, AppendOutcomeKeeps, HaltToolKeeps,
   InterruptItselfKeeps DEF ToolCalls

LEMMA StepInvariant == TurnInvariant /\ [TurnNext]_turnVars => TurnInvariant'
<1> SUFFICES ASSUME TurnInvariant, [TurnNext]_turnVars PROVE TurnInvariant'
  OBVIOUS
<1>1. CASE TurnNext
  <2>1. RecoverAtOnce \/ RecoverAfterwards => Recover
    BY DEF RecoverAtOnce, RecoverAfterwards
  <2> QED BY <1>1, <2>1, OpenRunKeeps, StartTurnKeeps, BeginInferenceKeeps, ReceiveTextKeeps,
          ReceiveToolCallKeeps, FinishKeeps, FailInferenceKeeps, StreamEndsKeeps,
          StreamBreaksKeeps, ToolCallsKeep, ToolsDoneKeeps, RefuseToolsKeeps, EndTurnKeeps,
          HaltTurnKeeps, StopKeeps, ObserveExitKeeps, CrashKeeps, ReinvokeKeeps, RecoverKeeps,
          RecoveryDiesKeeps DEF TurnNext
<1>2. CASE UNCHANGED turnVars
  <2> USE <1>2 DEF turnVars, TurnInvariant, Now
  <2>1. TypeOK'
    BY TypedStep DEF TypeOK
  <2>2. Owned' /\ ClosedButForFiber'
    BY DEF Owned, ClosedButForFiber
  <2>3. Attempted'
    BY DEF Attempted
  <2>4. SpendsNothing
    BY DEF Owned, SpendsNothing, StartsNothing, DecisionsKept
  <2> QED BY <2>1, <2>2, <2>3, <2>4, SpentNothing
<1> QED BY <1>1, <1>2

\* TurnInvariant is inductive: it relates the fiber, its calls and what the log says of them.
THEOREM TurnInvariantHolds == TurnSpec => []TurnInvariant
<1>1. TurnInit => TurnInvariant
  BY InitInvariant
<1>2. TurnInvariant /\ [TurnNext]_turnVars => TurnInvariant'
  BY StepInvariant
<1> QED BY <1>1, <1>2, PTL DEF TurnSpec

\* Between the turns of a live process everything that was started has a terminal, whatever
\* stops, defects, crashes and re-invocations came before (docs/spec.md, rule 7).
THEOREM EverythingIsClosed == TurnSpec => []StartedAreClosed
<1>1. TurnInvariant => StartedAreClosed
  BY TurnFields DEF TurnInvariant, ClosedButForFiber, StartedAreClosed
<1> QED BY <1>1, TurnInvariantHolds, PTL

\* No run starts more calls than its budget or completes more turns with rejections than it has
\* corrections; no handler runs ahead of its logged attempts, nor oftener than its policy allows.
THEOREM LimitsAreKept == TurnSpec => []ToolLimitsKept
<1>1. TurnInvariant => ToolLimitsKept
  <2> SUFFICES ASSUME TurnInvariant PROVE ToolLimitsKept
    OBVIOUS
  <2>1. \A r \in 1 .. run.id :
          /\ Cardinality({c \in CallsOf(r, "Created") : Call(c).attempt > 0}) <= MaxToolCallsPerRun
          /\ Cardinality({t \in RejectedTurns(r) : turn[t].end = "Completed"})
               <= MaxToolRejectionCorrections
    BY DEF TurnInvariant, Budgeted, WithinLimits, StartedCalls, CorrectedTurns
  <2>2. ASSUME NEW c \in Calls, ran[c] > 0
        PROVE  /\ ran[c] <= Call(c).attempt
               /\ ran[c] <= IF c[2] \in Reinvoked THEN MaxToolCallAttempts ELSE 1
    <3>1. /\ TypeOK /\ c = <<c[1], c[2]>> /\ c[1] \in 1 .. MaxTurns /\ c[2] \in Parts
          /\ ran[c] \in Nat
      BY WorkUpdate DEF TurnInvariant
    <3>2. c[1] \in 1 .. Now
      BY <2>2, <3>1, TurnFields DEF TurnInvariant, Attempted
    <3>3. ran[c] <= Call(c).attempt /\ Call(c).attempt <= AttemptLimit(c[2])
      BY <3>1, <3>2 DEF TurnInvariant, Attempted, Call
    <3>4. Call(c).attempt \in Nat /\ AttemptLimit(c[2]) \in Nat
      BY <3>1, <3>2, TurnFields, TurnAssumption DEF TurnType, CallType, Call, AttemptLimit
    <3> QED BY <3>1, <3>3, <3>4 DEF AttemptLimit
  <2> QED BY <2>1, <2>2 DEF ToolLimitsKept
<1> QED BY <1>1, TurnInvariantHolds, PTL

-----------------------------------------------------------------------------
(* The contract. *)

Ends == [t \in DOMAIN turn |-> turn[t].end]

\* A step that leaves the ends alone and keeps the fiber's status is a stutter of the contract.
LEMMA QuietStep ==
  ASSUME TypeOK, Len(turn') = Now, turn' \in Seq(TurnType),
         \A t \in 1 .. Now : turn'[t].end = turn[t].end, FiberStatus' = FiberStatus
  PROVE  UNCHANGED <<Ends, FiberStatus>>
<1>1. DOMAIN turn = 1 .. Now /\ DOMAIN turn' = 1 .. Now
  BY TurnFields
<1> QED BY <1>1 DEF Ends

LEMMA StatusCases ==
  /\ fiber.at = "none" \/ process # "live" => FiberStatus = "none"
  /\ fiber.at = "exited" /\ process = "live" => FiberStatus = fiber.exit
  /\ fiber.at \notin {"none", "exited"} /\ process = "live" => FiberStatus = "live"
BY DEF FiberStatus

LEMMA NextStatusCases ==
  /\ fiber'.at = "none" \/ process' # "live" => FiberStatus' = "none"
  /\ fiber'.at = "exited" /\ process' = "live" => FiberStatus' = fiber'.exit
  /\ fiber'.at \notin {"none", "exited"} /\ process' = "live" => FiberStatus' = "live"
BY DEF FiberStatus

LEMMA EndsFields ==
  ASSUME TypeOK
  PROVE  /\ Ends \in Seq({"open", "Completed", "Failed"}) /\ Len(Ends) = Now
         /\ DOMAIN Ends = 1 .. Now /\ \A t \in 1 .. Now : Ends[t] = turn[t].end
<1>1. Now \in Nat /\ DOMAIN turn = 1 .. Now /\ \A t \in 1 .. Now : turn[t] \in TurnType
  BY TurnFields
<1>2. \A t \in 1 .. Now : turn[t].end \in {"open", "Completed", "Failed"}
  BY <1>1 DEF TurnType
<1> QED BY <1>1, <1>2 DEF Ends

LEMMA NextEnds ==
  ASSUME turn' \in Seq(TurnType)
  PROVE  Ends' = [t \in 1 .. Len(turn') |-> turn'[t].end]
BY DEF Ends

LEMMA StartIsContract ==
  ASSUME TurnInvariant, StartTurn
  PROVE  Contract!Start
<1> USE DEF TurnInvariant
<1>1. /\ process = "live" /\ fiber.at = "none" /\ Now \in Nat /\ FiberStatus = "none"
      /\ turn' = Append(turn, [NoTurn EXCEPT !.run = run.id])
  BY TurnFields, StatusCases DEF StartTurn
<1>2. \A t \in 1 .. Now : Ends[t] # "open"
  BY <1>1, EndsFields DEF ClosedButForFiber
<1>3. FiberStatus' \in {"live", "none"}
  <2>1. (fiber'.at = "starting" /\ process' = "live") \/ fiber'.at = "none"
    BY <1>1 DEF StartTurn, NoFiber
  <2> QED BY <2>1, NextStatusCases
<1>4. Ends' = Append(Ends, "open")
  <2>1. turn' \in Seq(TurnType) /\ turn \in Seq(TurnType)
    BY StartTurnKeeps DEF TypeOK
  <2>2. /\ Len(turn') = Now + 1 /\ turn'[Now + 1].end = "open"
        /\ \A t \in 1 .. Now : turn'[t] = turn[t]
    BY <1>1, <2>1 DEF Now, NoTurn
  <2>3. /\ Ends' \in Seq({"open", "Completed", "Failed"}) /\ Len(Ends') = Now + 1
        /\ \A t \in 1 .. Now + 1 : Ends'[t] = turn'[t].end
    <3>1. Ends' = [t \in 1 .. Now + 1 |-> turn'[t].end]
      BY <2>1, <2>2, NextEnds
    <3>2. \A t \in 1 .. Now + 1 : turn'[t].end \in {"open", "Completed", "Failed"}
      <4>1. \A t \in 1 .. Now + 1 : turn'[t] \in TurnType
        BY <2>1, <2>2
      <4> QED BY <4>1 DEF TurnType
    <3>3. Ends' \in [1 .. Now + 1 -> {"open", "Completed", "Failed"}]
      BY <3>1, <3>2
    <3>4. Ends' \in Seq({"open", "Completed", "Failed"}) /\ Len(Ends') = Now + 1
      BY <1>1, <3>3
    <3> QED BY <3>1, <3>4
  <2>4. Ends'[Now + 1] = "open"
    BY SMTT(30), <1>1, <2>2, <2>3
  <2>5. ASSUME NEW t \in 1 .. Now
        PROVE  Ends'[t] = Ends[t]
    <3>1. t \in 1 .. Now + 1
      BY <1>1
    <3>2. Ends'[t] = turn'[t].end
      BY <2>3, <3>1
    <3>3. turn'[t] = turn[t] /\ Ends[t] = turn[t].end
      BY <1>1, <2>2, EndsFields
    <3> QED BY <3>2, <3>3
  <2> QED BY <2>3, <2>4, <2>5, EndsFields, SequenceAppended
<1> QED BY <1>1, <1>2, <1>3, <1>4, EndsFields DEF Contract!Start, Contract!Closed, Ends

LEMMA EndIsContract ==
  ASSUME TurnInvariant, EndTurn
  PROVE  Contract!End
<1> USE DEF TurnInvariant
<1> DEFINE end == IF fiber.ends = "Completed" THEN "Completed" ELSE "Failed"
<1>1. /\ Now \in 1 .. Now /\ process = "live" /\ fiber.at = "ending"
      /\ FiberStatus = "live" /\ turn[Now].end = "open"
  BY TurnFields, StatusCases DEF Owned, ClosedButForFiber, EndTurn, At
<1>2. Ends[Now] = "open" /\ Len(Ends) = Now
  BY <1>1, EndsFields
<1>3. Ends' = [Ends EXCEPT ![Now] = end]
  <2>1. turn' \in Seq(TurnType) /\ turn' = [turn EXCEPT ![Now] = [turn[Now] EXCEPT !.end = end]]
    BY EndTurnKeeps DEF TypeOK, EndTurn
  <2>2. turn[Now] \in TurnType /\ DOMAIN turn = 1 .. Now
    BY <1>1, TurnFields
  <2>3. Len(turn') = Now /\ \A t \in 1 .. Now : turn'[t].end = IF t = Now THEN end ELSE turn[t].end
    BY <1>1, <2>1, <2>2 DEF Now, TurnType
  <2>4. Ends' = [t \in 1 .. Now |-> turn'[t].end]
    BY <2>1, <2>3, NextEnds
  <2> HIDE DEF end
  <2> QED BY <2>3, <2>4, EndsFields
<1>4. FiberStatus' = fiber'.exit
  BY <1>1, NextStatusCases DEF EndTurn
<1>5. \/ end = "Completed" /\ fiber'.exit \in {"ok", "interrupted"}
      \/ end = "Failed" /\ fiber'.exit \in {"failed", "defect", "interrupted"}
  BY DEF EndTurn, NoFiber
<1> QED BY <1>1, <1>2, <1>3, <1>4, <1>5 DEF Contract!End, Contract!Last, Ends

LEMMA HaltIsContract ==
  ASSUME TurnInvariant, HaltTurn
  PROVE  Contract!Interrupted
<1> USE DEF TurnInvariant
<1>1. /\ process = "live" /\ fiber.at \notin {"none", "exited"} /\ FiberStatus = "live"
      /\ fiber'.at = "exited" /\ fiber'.exit = "interrupted" /\ process' = "live"
  BY StatusCases DEF HaltTurn, NoFiber
<1>2. FiberStatus' = "interrupted"
  BY <1>1, NextStatusCases
<1>3. turn' \in Seq(TurnType) /\ turn \in Seq(TurnType)
  BY HaltTurnKeeps DEF TypeOK
<1>4. Len(turn') = Now /\ \A t \in 1 .. Now : turn'[t].end = turn[t].end
  <2>1. CASE fiber.at \in {"streaming", "sealed"} /\ turn' = FailedInference
    BY <2>1, FailureLogged DEF InferenceLogged
  <2>2. CASE turn' = [turn EXCEPT ![Now].call = [p \in Parts |->
                IF work[<<Now, p>>] = "queued" THEN [@[p] EXCEPT !.end = "Failed"] ELSE @[p]]]
    <3> DEFINE S == {p \in Parts : work[<<Now, p>>] = "queued"}
    <3>1. TurnBecomes(Now, [turn[Now] EXCEPT !.call = FailedCalls(S)])
      BY <2>2 DEF TurnBecomes, FailedCalls
    <3> QED BY <1>1, <3>1, CallsFailed
  <2>3. CASE UNCHANGED turn
    BY <2>3 DEF Now
  <2> QED BY <2>1, <2>2, <2>3 DEF HaltTurn
<1>5. Ends' = Ends
  BY <1>3, <1>4, NextEnds, TurnFields DEF Ends
<1> QED BY <1>1, <1>2, <1>5 DEF Contract!Interrupted, Ends

LEMMA ObserveIsContract ==
  ASSUME TurnInvariant, ObserveExit
  PROVE  Contract!Observe
<1> USE DEF TurnInvariant
<1>1. /\ process = "live" /\ fiber.at = "exited" /\ fiber.exit # "none" /\ Now \in 1 .. Now
      /\ FiberStatus = fiber.exit /\ TypeOK
  BY TurnFields, StatusCases DEF Owned, ObserveExit, At
<1>2. FiberStatus \notin {"none", "live"}
  BY <1>1 DEF TypeOK, FiberType
<1>3. turn[Now].end = "open" => fiber.exit = "interrupted"
  BY <1>1 DEF ClosedButForFiber
<1>4. FiberStatus' = "none"
  BY NextStatusCases DEF ObserveExit, Released, NoFiber
<1>5. /\ turn' \in Seq(TurnType) /\ Len(turn') = Now
      /\ \A t \in 1 .. Now :
           turn'[t].end = IF t = Now /\ turn[t].end = "open" THEN "Failed" ELSE turn[t].end
  <2>1. CASE turn' = turn /\ fiber.exit # "interrupted"
    BY <1>1, <1>3, <2>1 DEF TypeOK, Now
  <2>2. CASE turn' = Closing
    BY <1>1, <2>2, ClosingCloses
  <2> QED BY <2>1, <2>2 DEF ObserveExit
<1>6. Ends' = [Ends EXCEPT ![Now] = IF @ = "open" THEN "Failed" ELSE @]
  BY <1>1, <1>5, NextEnds, EndsFields
<1>7. Len(Ends) = Now /\ Ends[Now] = turn[Now].end
  BY <1>1, EndsFields
<1> QED BY <1>1, <1>2, <1>3, <1>4, <1>6, <1>7 DEF Contract!Observe, Contract!Last, Ends

LEMMA RecoverIsContract ==
  ASSUME TurnInvariant, Recover, process # "live"
  PROVE  Contract!Repair
<1> USE DEF TurnInvariant
<1>1. FiberStatus = "none" /\ FiberStatus' = "none"
  BY StatusCases, NextStatusCases DEF Recover, Released, NoFiber
<1>2. /\ turn' \in Seq(TurnType) /\ Len(turn') = Now
      /\ \A t \in 1 .. Now : turn'[t].end = IF turn[t].end = "open" THEN "Failed" ELSE turn[t].end
  BY RepairedCloses DEF Recover
<1>3. Ends' = [t \in 1 .. Now |-> turn'[t].end]
  BY <1>2, NextEnds
<1>4. Ends' = [t \in DOMAIN Ends |-> IF Ends[t] = "open" THEN "Failed" ELSE Ends[t]]
  BY <1>2, <1>3, EndsFields
<1> QED BY <1>1, <1>4 DEF Contract!Repair, Ends

\* Everything else is a stutter of the contract, or the death of the process.
LEMMA LiveFiberIsQuiet ==
  ASSUME TurnInvariant, process = "live", process' = "live",
         fiber.at \notin {"none", "exited"}, fiber'.at \notin {"none", "exited"},
         turn' \in Seq(TurnType), Len(turn') = Now, \A t \in 1 .. Now : turn'[t].end = turn[t].end
  PROVE  UNCHANGED <<Ends, FiberStatus>>
BY StatusCases, NextStatusCases, QuietStep DEF TurnInvariant

LEMMA InferenceIsQuiet ==
  ASSUME TurnInvariant,
         BeginInference \/ ReceiveText \/ ReceiveToolCall \/ Finish \/ FailInference
           \/ StreamEnds \/ StreamBreaks
  PROVE  UNCHANGED <<Ends, FiberStatus>>
<1> USE DEF TurnInvariant, At, InferenceStep
<1>1. fiber.at \in {"starting", "streaming", "sealed"} /\ process = "live" /\ process' = "live"
  BY DEF BeginInference, ReceiveText, ReceiveToolCall, Finish, FailInference, StreamEnds, StreamBreaks
<1>2. fiber'.at \in {"streaming", "sealed", "ending", "refusing", "tools"}
  BY DEF BeginInference, ReceiveText, ReceiveToolCall, Finish, FailInference, StreamEnds, StreamBreaks,
         TypeOK, FiberType, WithText, NoFiber
<1>3. turn' \in Seq(TurnType)
  BY BeginInferenceKeeps, ReceiveTextKeeps, ReceiveToolCallKeeps, FinishKeeps, FailInferenceKeeps,
     StreamEndsKeeps, StreamBreaksKeeps DEF TypeOK
<1>4. Len(turn') = Now /\ \A t \in 1 .. Now : turn'[t].end = turn[t].end
  <2>1. CASE BeginInference
    BY <2>1, BeginLogged DEF BeginInference, InferenceLogged
  <2>2. CASE ReceiveText \/ ReceiveToolCall \/ StreamEnds
    BY <2>2 DEF ReceiveText, ReceiveToolCall, StreamEnds, Now
  <2>3. CASE FailInference \/ StreamBreaks
    BY <2>3, FailureLogged DEF FailInference, StreamBreaks, InferenceLogged
  <2>4. CASE Finish
    <3>1. DOMAIN turn = 1 .. Now /\ Now \in 1 .. Now /\ turn[Now] \in TurnType
      BY <1>1, TurnFields DEF Owned
    <3>2. Len(turn') = Now
      <4>1. DOMAIN turn' = 1 .. Now
        BY <2>4, <3>1 DEF Finish, Inference
      <4>2. Now \in Nat /\ Len(turn') \in Nat /\ DOMAIN turn' = 1 .. Len(turn')
        BY <1>3, TurnFields
      <4> QED BY <4>1, <4>2
    <3>3. \A t \in 1 .. Now : turn'[t].end = turn[t].end
      BY <2>4, <3>1 DEF Finish, Inference, TurnType
    <3> QED BY <3>2, <3>3
  <2> QED BY <2>1, <2>2, <2>3, <2>4
<1> QED BY <1>1, <1>2, <1>3, <1>4, LiveFiberIsQuiet

LEMMA CallsAreQuiet ==
  ASSUME TurnInvariant, ToolCalls
  PROVE  UNCHANGED <<Ends, FiberStatus>>
<1> USE DEF TurnInvariant
<1>1. PICK c \in Calls : \/ StartTool(c) \/ InvokeHandler(c) \/ HandlerEnds(c) \/ AppendOutcome(c)
                         \/ HaltTool(c) \/ InterruptItself(c)
  BY DEF ToolCalls
<1>2. /\ Executing /\ work[c] # "none" /\ process' = process
      /\ fiber'.at = fiber.at
      /\ turn' = turn \/ \E call \in {[Call(c) EXCEPT !.attempt = @ + 1]}
                              \cup {[Call(c) EXCEPT !.end = how] : how \in {"Completed", "Failed"}} :
                           turn' = WithCall(c, call)
  BY <1>1 DEF StartTool, InvokeHandler, HandlerEnds, AppendOutcome, HaltTool, InterruptItself,
              ToolStep, TypeOK, FiberType
<1>3. PICK t \in 1 .. Now, p \in Parts : c = <<t, p>> /\ c[1] = t /\ c[2] = p
  BY <1>2, ToolContext
<1>4. turn' \in Seq(TurnType)
  BY ToolCallsKeep DEF TypeOK
<1>5. Len(turn') = Now /\ \A u \in 1 .. Now : turn'[u].end = turn[u].end
  <2>1. CASE turn' = turn
    BY <2>1 DEF Now
  <2>2. ASSUME NEW call, turn' = WithCall(c, call)
        PROVE  Len(turn') = Now /\ \A u \in 1 .. Now : turn'[u].end = turn[u].end
    <3>1. DOMAIN turn = 1 .. Now /\ \A u \in 1 .. Now : turn[u] \in TurnType
      BY TurnFields
    <3>2. turn' = [turn EXCEPT ![t].call[p] = call]
      BY <1>3, <2>2 DEF WithCall
    <3> QED BY <1>3, <1>4, <3>1, <3>2 DEF TurnType, TypeOK, Now
  <2> QED BY <1>2, <2>1, <2>2
<1>6. CASE fiber.at = "none"
  BY <1>2, <1>4, <1>5, <1>6, StatusCases, NextStatusCases, QuietStep
<1>7. CASE fiber.at = "tools"
  BY <1>2, <1>4, <1>5, <1>7, LiveFiberIsQuiet DEF Owned
<1>8. fiber.at \in {"none", "tools"}
  BY <1>2 DEF Executing, At, Owned
<1> QED BY <1>6, <1>7, <1>8

LEMMA RestIsQuiet ==
  ASSUME TurnInvariant,
         OpenRun \/ ToolsDone \/ RefuseTools \/ Stop \/ Reinvoke \/ RecoveryDies
  PROVE  UNCHANGED <<Ends, FiberStatus>>
<1> USE DEF TurnInvariant
<1>1. turn' \in Seq(TurnType) /\ turn \in Seq(TurnType)
  BY OpenRunKeeps, ToolsDoneKeeps, RefuseToolsKeeps, StopKeeps, ReinvokeKeeps, RecoveryDiesKeeps
     DEF TypeOK
<1>2. CASE OpenRun \/ ToolsDone \/ Stop \/ Reinvoke \/ RecoveryDies
  <2>1. turn' = turn
    BY <1>2 DEF OpenRun, ToolsDone, Stop, Reinvoke, RecoveryDies
  <2>2. FiberStatus' = FiberStatus
    <3>1. CASE OpenRun
      BY <3>1 DEF OpenRun, FiberStatus
    <3>2. CASE ToolsDone
      BY <3>2, StatusCases, NextStatusCases DEF ToolsDone, At, TypeOK, FiberType
    <3>3. CASE Stop
      BY <3>3 DEF Stop, FiberStatus, TypeOK, FiberType
    <3>4. CASE Reinvoke \/ RecoveryDies
      BY <3>4, StatusCases, NextStatusCases DEF Reinvoke, RecoveryDies
    <3> QED BY <1>2, <3>1, <3>2, <3>3, <3>4
  <2> QED BY <1>1, <2>1, <2>2, QuietStep DEF Now
<1>3. CASE RefuseTools
  <2>1. /\ fiber.at = "refusing" /\ process = "live" /\ process' = "live" /\ fiber'.at = "ending"
    BY <1>3 DEF RefuseTools, At, TypeOK, FiberType
  <2>2. TurnBecomes(Now, [turn[Now] EXCEPT !.call = FailedCalls(Created)])
    BY <1>3 DEF RefuseTools, TurnBecomes, FailedCalls
  <2>3. Len(turn') = Now /\ \A t \in 1 .. Now : turn'[t].end = turn[t].end
    BY <2>1, <2>2, CallsFailed
  <2> QED BY <1>1, <2>1, <2>3, LiveFiberIsQuiet
<1> QED BY <1>2, <1>3

LEMMA CrashIsContract ==
  ASSUME TurnInvariant, Crash
  PROVE  Contract!Die
<1>1. FiberStatus' = "none" /\ turn' = turn
  BY NextStatusCases DEF Crash, Released, NoFiber
<1> QED BY <1>1 DEF Contract!Die

\* A turn, its fiber and its owner implement the contract that the control plane relies on: a turn
\* is opened when every earlier one is closed, ends at most once, its fiber reports that end or was
\* interrupted, and what is left open is closed by whoever observes the exit, or by recovery.
THEOREM TurnImplementsContract == TurnSpec => TurnImplemented
<1>1. TurnInit => Contract!ContractInit
  <2> SUFFICES ASSUME TurnInit PROVE Contract!ContractInit
    OBVIOUS
  <2>1. FiberStatus = "none"
    BY StatusCases DEF TurnInit, NoFiber
  <2>2. [t \in DOMAIN turn |-> turn[t].end] = <<>>
    BY DEF TurnInit
  <2> QED BY <2>1, <2>2 DEF Contract!ContractInit
<1>2. TurnInvariant /\ [TurnNext]_turnVars => [Contract!ContractNext]_<<Ends, FiberStatus>>
  <2> SUFFICES ASSUME TurnInvariant, [TurnNext]_turnVars
               PROVE  Contract!ContractNext \/ UNCHANGED <<Ends, FiberStatus>>
    OBVIOUS
  <2>1. CASE StartTurn \/ EndTurn \/ HaltTurn \/ ObserveExit \/ Crash
    BY <2>1, StartIsContract, EndIsContract, HaltIsContract, ObserveIsContract, CrashIsContract
       DEF Contract!ContractNext
  <2>2. CASE RecoverAtOnce \/ RecoverAfterwards
    BY <2>2, RecoverIsContract DEF Contract!ContractNext, RecoverAtOnce, RecoverAfterwards
  <2>3. CASE BeginInference \/ ReceiveText \/ ReceiveToolCall \/ Finish \/ FailInference
               \/ StreamEnds \/ StreamBreaks
    BY <2>3, InferenceIsQuiet
  <2>4. CASE ToolCalls
    BY <2>4, CallsAreQuiet
  <2>5. CASE OpenRun \/ ToolsDone \/ RefuseTools \/ Stop \/ Reinvoke \/ RecoveryDies
    BY <2>5, RestIsQuiet
  <2>6. CASE UNCHANGED turnVars
    BY <2>6 DEF turnVars, Ends, FiberStatus
  <2> QED BY <2>1, <2>2, <2>3, <2>4, <2>5, <2>6 DEF TurnNext
<1> QED BY <1>1, <1>2, TurnInvariantHolds, PTL
        DEF TurnSpec, TurnImplemented, Contract!ContractSpec, Ends
=============================================================================
