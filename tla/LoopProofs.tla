----------------------------- MODULE LoopProofs -----------------------------
(***************************************************************************)
(* The control fiber never stops for good (LoopAlive), for every value of  *)
(* the constants: whatever the dead process left, recovery repairs in one  *)
(* batch; an idle session has no active command; and no steer is pending   *)
(* without something that will start it.                                   *)
(*                                                                         *)
(* The argument is about owners.  While no run is open, every pending      *)
(* steer is backed by a pending command or inherited by a reserved         *)
(* recovery.  While the process lives, every active command is held by     *)
(* the execution, the grant, a reserved recovery or the control fiber      *)
(* itself, so what remains active is never forgotten.                      *)
(***************************************************************************)
EXTENDS SessionControlProofs

-----------------------------------------------------------------------------
(* The invariant.                                                          *)

Known(s) == {m \in Cmd : s.msg[m].known}

\* Command c starts message m: its own, or one that it resumes.
Backs(s, c, m) == c = m \/ (s.cmd[c].kind = "resume" /\ m \in s.cmd[c].targets)

\* Pending messages that no pending command will start, those of X left aside.
Unbacked(s, X) ==
  {m \in PendingMessages(s) : \A c \in PendingCommands(s) \ X : ~Backs(s, c, m)}

\* The messages that a reserved recovery gives to the run it will start.
Inherited(s) == IF s.req.id # 0 /\ s.req.work = "Recovery" THEN s.req.inputs ELSE {}

SteersOwned(s) == OpenRuns(s) = {} => PendingSteers(s) \cap Unbacked(s, {}) \subseteq Inherited(s)

\* Nothing that command c names is pending any more.
Gone(s, c) == s.cmd[c].targets \cap PendingMessages(s) = {}

\* A resume that has started and not ended is the open run's, the reservation's, or done.
ResumesHeld(s) ==
  \A c \in ActiveCommands(s) : s.cmd[c].kind = "resume" =>
    \/ \E r \in OpenRuns(s) : c \in s.run[r].of
    \/ s.req.id # 0 /\ c = s.req.cmd
    \/ Gone(s, c)

\* Numbers are given to commands in order, resumes name messages that exist, and a stop that
\* names its run names its turn.
Sound(s) ==
  \A c \in Cmd :
    /\ c > s.ncmd => s.cmd[c].terminal = "none" /\ ~s.cmd[c].started
    /\ s.cmd[c].kind = "resume" => s.cmd[c].targets \subseteq Known(s)
    /\ s.stop[c].status = "requested" /\ s.stop[c].run # 0 => s.stop[c].turn # 0

LogOwned(s) == Sound(s) /\ SteersOwned(s) /\ ResumesHeld(s)

\* Who will end active command c.
Held(c) ==
  \/ ctl.at \in Closing /\ c = ctl.active
  \/ ctl.at \notin Closing /\ exec.tag # "Idle" /\ c = exec.cmd
  \/ ctl.at \in Taken \cup {"interruption"} /\ c = ctl.cmd
  \/ grant # NoGrant /\ c = grant.cmd
  \/ st.req.id # 0 /\ st.req.work = "Recovery" /\ c = st.req.cmd

ActiveHeld ==
  /\ ctl.at \notin {"boot", "hydrated"} => \A c \in ActiveCommands(st) : Held(c)
  /\ ctl.at \in Taken /\ st.cmd[ctl.cmd].kind = "resume" => Gone(st, ctl.cmd)

\* What was read before a run ends covers the steers that nothing else will start.
SteersRead ==
  /\ ctl.at \in {"failRun", "cancelRun", "interruption"} =>
       PendingSteers(st) \cap Unbacked(st, {}) \subseteq ctl.msgs
  /\ ctl.at \in {"failRun", "cancelRun"} => ctl.msgs \subseteq Known(st)
  /\ ctl.at = "complete" => PendingSteers(st) \cap Unbacked(st, {}) = {}
  /\ ctl.at = "closeWaiting" =>
       PendingSteers(st) \cap Unbacked(st, {st.req.cmd}) \subseteq ctl.msgs
  /\ ctl.at = "promote" =>
       /\ ctl.msgs \subseteq st.cmd[ctl.cmd].targets
       /\ OpenRuns(st) = {} =>
            (st.cmd[ctl.cmd].targets \ ctl.msgs) \cap Unbacked(st, {}) \subseteq Inherited(st)

LoopInvariant == SlotInvariant /\ LogOwned(st) /\ ctl.at # "dead" /\ ActiveHeld /\ SteersRead

-----------------------------------------------------------------------------
(* What the folds of a step do to owners, to messages and to what is       *)
(* active: L are the commands that stop being pending, A those that start. *)

Passes(s, s1, L, A) ==
  /\ s1 \in State /\ Sound(s1) /\ s.ncmd <= s1.ncmd
  /\ \A c \in Cmd :
       /\ c <= s.ncmd => s1.cmd[c].kind = s.cmd[c].kind /\ s1.cmd[c].targets = s.cmd[c].targets
       /\ s.cmd[c].terminal # "none" => s1.cmd[c].terminal # "none"
  /\ PendingCommands(s) \ L \subseteq PendingCommands(s1)
  /\ ActiveCommands(s1) \subseteq ActiveCommands(s) \cup A
  /\ Known(s) \subseteq Known(s1)
  /\ PendingMessages(s1) \cap Known(s) \subseteq PendingMessages(s)

\* No message that existed becomes a pending steer.
Calm(s, s1) == PendingSteers(s1) \cap Known(s) \subseteq PendingSteers(s)

LEMMA PassesIsTransitive ==
  ASSUME NEW s \in State, NEW s1, NEW s2, NEW L, NEW A, NEW L2, NEW A2,
         Passes(s, s1, L, A), Passes(s1, s2, L2, A2)
  PROVE  /\ Passes(s, s2, L \cup L2, A \cup A2)
         /\ Calm(s, s1) /\ Calm(s1, s2) => Calm(s, s2)
<1>1. s.ncmd \in Nat /\ s1.ncmd \in Nat /\ s2.ncmd \in Nat /\ \A c \in Cmd : c \in Nat
  BY StateFields, CmdIsNat DEF Passes
<1>2. /\ s2 \in State /\ Sound(s2) /\ s.ncmd <= s2.ncmd
      /\ \A c \in Cmd :
           /\ c <= s.ncmd => s2.cmd[c].kind = s.cmd[c].kind /\ s2.cmd[c].targets = s.cmd[c].targets
           /\ s.cmd[c].terminal # "none" => s2.cmd[c].terminal # "none"
  BY <1>1 DEF Passes
<1>3. /\ PendingCommands(s) \ (L \cup L2) \subseteq PendingCommands(s2)
      /\ ActiveCommands(s2) \subseteq ActiveCommands(s) \cup (A \cup A2)
      /\ Known(s) \subseteq Known(s2)
      /\ PendingMessages(s2) \cap Known(s) \subseteq PendingMessages(s)
  BY DEF Passes
<1>4. Calm(s, s1) /\ Calm(s1, s2) => Calm(s, s2)
  BY DEF Passes, Calm
<1> QED BY <1>2, <1>3, <1>4 DEF Passes

LEMMA PassesIsReflexive ==
  ASSUME NEW s \in State, Sound(s)
  PROVE  Passes(s, s, {}, {}) /\ Calm(s, s)
<1>1. s.ncmd \in Nat
  BY StateFields
<1> QED BY <1>1 DEF Passes, Calm

LEMMA NumbersAreCommands ==
  ASSUME NEW s \in State
  PROVE  /\ \A c \in 1 .. s.ncmd : c \in Cmd /\ c <= s.ncmd
         /\ PendingCommands(s) \subseteq 1 .. s.ncmd
         /\ Sound(s) => ActiveCommands(s) \subseteq 1 .. s.ncmd
<1>1. s.ncmd \in 0 .. MaxCmd /\ MaxCmd \in Nat
  BY StateFields, BoundsAssumption
<1>2. \A c \in 1 .. s.ncmd : c \in Cmd /\ c <= s.ncmd
  BY <1>1 DEF Cmd
<1>3. \A c \in Cmd : c \in 1 .. s.ncmd \/ c > s.ncmd
  BY <1>1 DEF Cmd
<1>4. Sound(s) => ActiveCommands(s) \subseteq 1 .. s.ncmd
  BY <1>3 DEF Sound, ActiveCommands
<1> QED BY <1>2, <1>4 DEF PendingCommands

\* Commands.
LEMMA AdmittedPasses ==
  ASSUME NEW s \in State, Sound(s), s.ncmd < MaxCmd, NEW k \in Kinds, NEW ts \in SUBSET Cmd,
         k = "resume" => ts \subseteq Known(s)
  PROVE  LET s1 == CommandAdmitted(s, k, ts) IN
         /\ Passes(s, s1, {}, {}) /\ Calm(s, s1)
         /\ Admits(s, s1, k, ts) /\ s.ncmd + 1 \in PendingCommands(s1)
<1> DEFINE s1 == CommandAdmitted(s, k, ts)
           n == s.ncmd + 1
<1>1. Admits(s, s1, k, ts)
  BY AdmittedEffect
<1>2. s.ncmd \in Nat /\ \A c \in Cmd : c \in Nat
  BY StateFields, CmdIsNat
<1> HIDE DEF s1
<1>3. /\ s1 \in State /\ s1.msg = s.msg /\ n \in Cmd /\ s1.ncmd = n /\ s1.stop = s.stop
      /\ s1.cmd[n].kind = k /\ s1.cmd[n].targets = ts
      /\ \A c \in Cmd : /\ s1.cmd[c].started = s.cmd[c].started
                        /\ s1.cmd[c].terminal = s.cmd[c].terminal
                        /\ c # n => s1.cmd[c] = s.cmd[c]
  BY <1>1 DEF Admits
<1>4. /\ Known(s1) = Known(s) /\ PendingMessages(s1) = PendingMessages(s)
      /\ PendingSteers(s1) = PendingSteers(s)
  BY <1>3 DEF Known, PendingMessages, PendingSteers, Unconsumed, Disposition
<1>5. Sound(s1)
  BY <1>2, <1>3, <1>4 DEF Sound
<1>6. s.cmd[n].terminal = "none" /\ ~s.cmd[n].started
  BY <1>2, <1>3 DEF Sound
<1>7. /\ PendingCommands(s) \subseteq PendingCommands(s1) /\ n \in PendingCommands(s1)
      /\ ActiveCommands(s1) \subseteq ActiveCommands(s)
  <2>1. \A c \in 1 .. s.ncmd : c \in Cmd /\ c \in 1 .. n /\ c # n
    BY <1>2, NumbersAreCommands
  <2> QED BY <1>2, <1>3, <1>6, <2>1 DEF PendingCommands, ActiveCommands
<1>8. s.ncmd <= s1.ncmd /\ \A c \in Cmd : c <= s.ncmd => c # n
  BY <1>2, <1>3
<1>9. Passes(s, s1, {}, {}) /\ Calm(s, s1)
  BY <1>3, <1>4, <1>5, <1>7, <1>8 DEF Passes, Calm
<1> QED BY <1>1, <1>7, <1>9 DEF s1

LEMMA StartedPasses ==
  ASSUME NEW s \in State, Sound(s), NEW c \in 1 .. s.ncmd
  PROVE  LET s1 == CommandStarted(s, c) IN
         Passes(s, s1, {c}, {c}) /\ Calm(s, s1) /\ Starts(s, s1, c)
<1> DEFINE s1 == CommandStarted(s, c)
<1>1. s.ncmd \in 0 .. MaxCmd /\ c \in Cmd /\ \A d \in Cmd : d \in Nat
  BY StateFields, CmdIsNat, BoundsAssumption DEF Cmd
<1>2. Starts(s, s1, c)
  BY <1>1, StartedEffect
<1> HIDE DEF s1
<1>3. /\ s1 \in State /\ s1.msg = s.msg /\ s1.ncmd = s.ncmd /\ s1.stop = s.stop
      /\ \A d \in Cmd : /\ s1.cmd[d].kind = s.cmd[d].kind /\ s1.cmd[d].targets = s.cmd[d].targets
                        /\ s1.cmd[d].terminal = s.cmd[d].terminal
                        /\ d # c => s1.cmd[d] = s.cmd[d]
  BY <1>2 DEF Starts
<1>4. /\ Known(s1) = Known(s) /\ PendingMessages(s1) = PendingMessages(s)
      /\ PendingSteers(s1) = PendingSteers(s)
  BY <1>3 DEF Known, PendingMessages, PendingSteers, Unconsumed, Disposition
<1>5. Sound(s1)
  <2>1. ~(c > s.ncmd)
    BY <1>1
  <2>2. \A d \in Cmd : d > s1.ncmd => d # c /\ d > s.ncmd
    BY <1>3, <2>1
  <2> QED BY <1>3, <1>4, <2>2 DEF Sound
<1>6. /\ PendingCommands(s) \ {c} \subseteq PendingCommands(s1)
      /\ ActiveCommands(s1) \subseteq ActiveCommands(s) \cup {c}
  <2>1. \A d \in 1 .. s.ncmd : d \in Cmd
    BY NumbersAreCommands
  <2> QED BY <1>3, <2>1 DEF PendingCommands, ActiveCommands
<1>7. s.ncmd <= s1.ncmd
  BY <1>1, <1>3
<1> QED BY <1>2, <1>3, <1>4, <1>5, <1>6, <1>7 DEF Passes, Calm, s1

LEMMA EndedPasses ==
  ASSUME NEW s \in State, Sound(s), NEW c \in 1 .. s.ncmd,
         NEW o \in {"Completed", "Failed", "Cancelled"}
  PROVE  LET s1 == CommandTerminal(s, c, o) IN
         /\ Passes(s, s1, {c}, {}) /\ Calm(s, s1) /\ Ends(s, s1, c, o)
         /\ s.cmd[c].started => Passes(s, s1, {}, {})
         /\ s1.cmd[c].terminal # "none"
<1> DEFINE s1 == CommandTerminal(s, c, o)
<1>1. s.ncmd \in 0 .. MaxCmd /\ c \in Cmd /\ \A d \in Cmd : d \in Nat
  BY StateFields, CmdIsNat, BoundsAssumption DEF Cmd
<1>2. Ends(s, s1, c, o)
  BY <1>1, TerminalEffect
<1> HIDE DEF s1
<1>3. /\ s1 \in State /\ s1.msg = s.msg /\ s1.ncmd = s.ncmd /\ s1.stop = s.stop
      /\ s1.cmd[c].terminal # "none"
      /\ \A d \in Cmd : /\ s1.cmd[d].kind = s.cmd[d].kind /\ s1.cmd[d].targets = s.cmd[d].targets
                        /\ s1.cmd[d].started = s.cmd[d].started
                        /\ d # c => s1.cmd[d] = s.cmd[d]
  BY <1>2 DEF Ends
<1>4. /\ Known(s1) = Known(s) /\ PendingMessages(s1) = PendingMessages(s)
      /\ PendingSteers(s1) = PendingSteers(s)
  BY <1>3 DEF Known, PendingMessages, PendingSteers, Unconsumed, Disposition
<1>5. Sound(s1)
  <2>1. ~(c > s.ncmd)
    BY <1>1
  <2>2. \A d \in Cmd : d > s1.ncmd => d # c /\ d > s.ncmd
    BY <1>3, <2>1
  <2> QED BY <1>3, <1>4, <2>2 DEF Sound
<1>6. /\ PendingCommands(s) \ {c} \subseteq PendingCommands(s1)
      /\ s.cmd[c].started => PendingCommands(s) \subseteq PendingCommands(s1)
      /\ ActiveCommands(s1) \subseteq ActiveCommands(s)
  <2>1. \A d \in 1 .. s.ncmd : d \in Cmd
    BY NumbersAreCommands
  <2> QED BY <1>3, <2>1 DEF PendingCommands, ActiveCommands
<1>7. s.ncmd <= s1.ncmd
  BY <1>1, <1>3
<1> QED BY <1>2, <1>3, <1>4, <1>5, <1>6, <1>7 DEF Passes, Calm, s1

\* An event that leaves the commands alone.
LEMMA MessagesPass ==
  ASSUME NEW s \in State, Sound(s), NEW s1 \in State, SameOrders(s, s1), Known(s) \subseteq Known(s1),
         PendingMessages(s1) \cap Known(s) \subseteq PendingMessages(s)
  PROVE  Passes(s, s1, {}, {})
<1>1. s.ncmd \in Nat
  BY StateFields
<1>2. Sound(s1)
  BY DEF Sound, SameOrders
<1>3. PendingCommands(s1) = PendingCommands(s) /\ ActiveCommands(s1) = ActiveCommands(s)
  BY DEF SameOrders, PendingCommands, ActiveCommands
<1> QED BY <1>1, <1>2, <1>3 DEF Passes, SameOrders

\* An event of runs, turns or reservations.
LEMMA SlotPasses ==
  ASSUME NEW s \in State, Sound(s), NEW s1, OnlySlot(s, s1)
  PROVE  /\ Passes(s, s1, {}, {}) /\ Calm(s, s1)
         /\ PendingSteers(s1) = PendingSteers(s) /\ PendingMessages(s1) = PendingMessages(s)
         /\ PendingCommands(s1) = PendingCommands(s) /\ ActiveCommands(s1) = ActiveCommands(s)
         /\ s1.cmd = s.cmd /\ s1.ncmd = s.ncmd /\ s1.msg = s.msg
<1>1. /\ s1 \in State /\ SameOrders(s, s1) /\ s1.msg = s.msg
  BY DEF OnlySlot
<1>2. /\ Known(s1) = Known(s) /\ PendingMessages(s1) = PendingMessages(s)
      /\ PendingSteers(s1) = PendingSteers(s)
  BY <1>1 DEF Known, PendingMessages, PendingSteers, Unconsumed, Disposition
<1>3. PendingCommands(s1) = PendingCommands(s) /\ ActiveCommands(s1) = ActiveCommands(s)
  BY <1>1 DEF SameOrders, PendingCommands, ActiveCommands
<1>4. Passes(s, s1, {}, {})
  BY <1>1, <1>2, MessagesPass
<1> QED BY <1>1, <1>2, <1>3, <1>4 DEF Calm, SameOrders

LEMMA RequestPasses ==
  ASSUME NEW s, NEW s1, OnlyRequest(s, s1)
  PROVE  OnlySlot(s, s1)
BY DEF OnlyRequest, OnlySlot

LEMMA TurnPasses ==
  ASSUME NEW s \in State, Sound(s), NEW s1, NEW r, NEW inputs, OpensTurn(s, s1, r, inputs)
  PROVE  Passes(s, s1, {}, {}) /\ Calm(s, s1)
<1>1. /\ s1 \in State /\ SameOrders(s, s1)
      /\ \A m \in Cmd : /\ s1.msg[m].known = s.msg[m].known
                        /\ s1.msg[m].paused = s.msg[m].paused
                        /\ s1.msg[m].cancelled = s.msg[m].cancelled
                        /\ s1.msg[m].disposition = s.msg[m].disposition
                        /\ s1.msg[m].consumed >= s.msg[m].consumed
  BY DEF OpensTurn
<1>2. \A m \in Cmd : s.msg[m].consumed \in Nat
  BY RecordFields
<1>3. \A m \in Cmd : Unconsumed(s1, m) => Unconsumed(s, m)
  BY <1>1, <1>2, RecordFields DEF Unconsumed
<1>4. /\ Known(s1) = Known(s) /\ PendingMessages(s1) \subseteq PendingMessages(s)
      /\ PendingSteers(s1) \subseteq PendingSteers(s)
  BY <1>1, <1>3 DEF Known, PendingMessages, PendingSteers, Disposition
<1> QED BY <1>1, <1>4, MessagesPass DEF Calm

\* Messages.
LEMMA SubmittedPasses ==
  ASSUME NEW s \in State, Sound(s), NEW c \in Cmd, NEW d \in {"unset", "queue", "steer"},
         ~s.msg[c].known, s.msg[c].consumed = 0
  PROVE  LET s1 == UserMessageSubmitted(s, c, d) IN
         /\ Passes(s, s1, {}, {}) /\ Calm(s, s1)
         /\ PendingMessages(s1) \subseteq Known(s) \cup {c}
         /\ PendingCommands(s1) = PendingCommands(s)
<1> DEFINE s1 == UserMessageSubmitted(s, c, d)
<1>1. /\ OnlyMessages(s, s1)
      /\ \A m \in Cmd : m # c => s1.msg[m] = s.msg[m]
  BY SubmittedEffect
<1> HIDE DEF s1
<1>2. s1 \in State /\ SameOrders(s, s1) /\ c \notin Known(s) /\ Known(s) \subseteq Known(s1)
  BY <1>1 DEF OnlyMessages, Known
<1>3. /\ PendingMessages(s1) \cap Known(s) \subseteq PendingMessages(s) /\ Calm(s, s1)
      /\ PendingMessages(s1) \subseteq Known(s) \cup {c}
  BY <1>1, <1>2 DEF Known, PendingMessages, PendingSteers, Unconsumed, Disposition, Calm
<1>4. PendingCommands(s1) = PendingCommands(s)
  BY <1>2 DEF PendingCommands, SameOrders
<1> QED BY <1>2, <1>3, <1>4, MessagesPass DEF s1

LEMMA PromotedPasses ==
  ASSUME NEW s \in State, Sound(s), NEW c \in Cmd, s.msg[c].consumed = 0
  PROVE  LET s1 == UserMessagePromoted(s, c) IN
         /\ Passes(s, s1, {}, {}) /\ PendingSteers(s1) \subseteq PendingSteers(s) \cup {c}
         /\ SameSlot(s, s1) /\ PendingCommands(s1) = PendingCommands(s)
         /\ Known(s1) = Known(s) /\ SameOrders(s, s1)
<1> DEFINE s1 == UserMessagePromoted(s, c)
<1>1. /\ OnlyMessages(s, s1)
      /\ \A m \in Cmd : /\ s1.msg[m].known = s.msg[m].known
                        /\ s1.msg[m].cancelled = s.msg[m].cancelled
  BY PromotedEffect
<1>2. \A m \in Cmd : m # c => s1.msg[m] = s.msg[m]
  BY StateFields DEF UserMessagePromoted, State
<1> HIDE DEF s1
<1>3. /\ s1 \in State /\ SameOrders(s, s1) /\ SameSlot(s, s1) /\ Known(s1) = Known(s)
      /\ \A m \in Cmd : s1.msg[m].consumed = s.msg[m].consumed
  BY <1>1 DEF OnlyMessages, Known
<1>4. PendingMessages(s1) = PendingMessages(s)
  BY <1>1, <1>3 DEF PendingMessages, Unconsumed
<1>5. PendingSteers(s1) \subseteq PendingSteers(s) \cup {c}
  BY <1>2, <1>4 DEF PendingSteers, Disposition, PendingMessages
<1>6. PendingCommands(s1) = PendingCommands(s)
  BY <1>3 DEF PendingCommands, SameOrders
<1> QED BY <1>3, <1>4, <1>5, <1>6, MessagesPass DEF s1

LEMMA CancelledPasses ==
  ASSUME NEW s \in State, Sound(s), NEW c \in Cmd, s.msg[c].consumed = 0
  PROVE  LET s1 == UserMessageCancelled(s, c) IN
         /\ Passes(s, s1, {}, {}) /\ Calm(s, s1) /\ c \notin PendingMessages(s1)
         /\ SameSlot(s, s1) /\ SameOrders(s, s1) /\ Known(s1) = Known(s)
<1> DEFINE s1 == UserMessageCancelled(s, c)
<1>1. /\ OnlyMessages(s, s1)
      /\ \A m \in Cmd : /\ s1.msg[m].paused = s.msg[m].paused
                        /\ s1.msg[m].known = s.msg[m].known
  BY CancelledEffect
<1>2. /\ \A m \in Cmd : m # c => s1.msg[m] = s.msg[m]
      /\ s.msg[c].known => s1.msg[c].cancelled
  <2>1. CASE s.msg[c].known
    <3>1. s1.msg = [s.msg EXCEPT ![c].cancelled = TRUE]
      BY <2>1 DEF UserMessageCancelled, State
    <3>2. s.msg \in [Cmd -> Message]
      BY StateFields
    <3> QED BY <3>1, <3>2 DEF Message
  <2>2. CASE ~s.msg[c].known
    BY <2>2 DEF UserMessageCancelled
  <2> QED BY <2>1, <2>2
<1> HIDE DEF s1
<1>3. /\ s1 \in State /\ SameOrders(s, s1) /\ SameSlot(s, s1) /\ Known(s1) = Known(s)
  BY <1>1 DEF OnlyMessages, Known
<1>4. c \notin PendingMessages(s1)
  BY <1>1, <1>2 DEF PendingMessages, Unconsumed
<1>5. PendingMessages(s1) \subseteq PendingMessages(s) /\ PendingSteers(s1) \subseteq PendingSteers(s)
  BY <1>2, <1>4 DEF PendingMessages, Unconsumed, PendingSteers, Disposition
<1> QED BY <1>3, <1>4, <1>5, MessagesPass DEF s1, Calm

LEMMA PausedPasses ==
  ASSUME NEW s \in State, Sound(s), NEW ms
  PROVE  LET s1 == PendingMessagesPaused(s, ms) IN
         /\ Passes(s, s1, {}, {}) /\ Calm(s, s1)
         /\ PendingMessages(s1) = PendingMessages(s)
         /\ PendingSteers(s1) \subseteq PendingSteers(s) \ ms
         /\ SameSlot(s, s1) /\ SameOrders(s, s1) /\ Known(s1) = Known(s)
<1> DEFINE s1 == PendingMessagesPaused(s, ms)
<1>1. /\ OnlyMessages(s, s1)
      /\ \A m \in Cmd : /\ s1.msg[m].known = s.msg[m].known
                        /\ s1.msg[m].cancelled = s.msg[m].cancelled
                        /\ m \notin ms => s1.msg[m] = s.msg[m]
  BY PausedEffect
<1>2. \A m \in ms \cap PendingMessages(s) : s1.msg[m].paused
  <2>1. s1.msg = [m \in Cmd |-> IF m \in ms /\ Unconsumed(s, m)
                     THEN [s.msg[m] EXCEPT !.disposition = "queue", !.paused = TRUE]
                     ELSE s.msg[m]]
    BY DEF PendingMessagesPaused, State
  <2>2. \A m \in Cmd : s.msg[m] \in Message
    BY StateFields
  <2> QED BY <2>1, <2>2 DEF PendingMessages, Message
<1> HIDE DEF s1
<1>3. /\ s1 \in State /\ SameOrders(s, s1) /\ SameSlot(s, s1) /\ Known(s1) = Known(s)
      /\ \A m \in Cmd : s1.msg[m].consumed = s.msg[m].consumed
  BY <1>1 DEF OnlyMessages, Known
<1>4. PendingMessages(s1) = PendingMessages(s)
  BY <1>1, <1>3 DEF PendingMessages, Unconsumed
<1>5. PendingSteers(s1) \subseteq PendingSteers(s) \ ms
  BY <1>1, <1>2, <1>4 DEF PendingSteers, Disposition, PendingMessages
<1> QED BY <1>3, <1>4, <1>5, MessagesPass DEF s1, Calm

\* Clearing the paused queue ends no command that backs a message left pending.
LEMMA ClearedPasses ==
  ASSUME NEW s \in State, Sound(s)
  PROVE  LET s1 == PausedQueueCleared(s) IN
         /\ Passes(s, s1, PausedQueue(s), {}) /\ Calm(s, s1)
         /\ PendingMessages(s1) \cap PausedQueue(s) = {}
         /\ SameSlot(s, s1) /\ s1.stop = s.stop /\ s1.ncmd = s.ncmd /\ Known(s1) = Known(s)
<1> DEFINE s1 == PausedQueueCleared(s)
<1>1. ClearsPaused(s, s1)
  BY PausedQueueClearedEffect
<1>2. /\ \A m \in Cmd : m \notin PausedQueue(s) => s1.msg[m] = s.msg[m]
  BY DEF PausedQueueCleared, State
<1> HIDE DEF s1
<1>3. /\ s1 \in State /\ SameSlot(s, s1) /\ s1.stop = s.stop /\ s1.ncmd = s.ncmd
      /\ PausedQueue(s1) = {}
      /\ \A c \in Cmd :
           /\ s1.cmd[c].kind = s.cmd[c].kind /\ s1.cmd[c].targets = s.cmd[c].targets
           /\ s1.cmd[c].started = s.cmd[c].started
           /\ s1.cmd[c].terminal # s.cmd[c].terminal =>
                c \in PendingCommands(s) \cap PausedQueue(s) /\ s1.cmd[c].terminal = "Cancelled"
           /\ s1.msg[c].known = s.msg[c].known /\ s1.msg[c].paused = s.msg[c].paused
  BY <1>1 DEF ClearsPaused
<1>4. PendingMessages(s1) \cap PausedQueue(s) = {} /\ Known(s1) = Known(s)
  BY <1>3 DEF PausedQueue, PendingMessages, Known
<1>5. PendingMessages(s1) \subseteq PendingMessages(s) /\ PendingSteers(s1) \subseteq PendingSteers(s)
  BY <1>2, <1>4 DEF PendingMessages, Unconsumed, PendingSteers, Disposition
<1>6. \A c \in PendingCommands(s) : c \in 1 .. s.ncmd
  BY DEF PendingCommands
<1>7. s.ncmd \in Nat /\ \A c \in Cmd : c \in Nat
  BY StateFields, CmdIsNat
<1>8. Sound(s1)
  BY <1>3, <1>4, <1>6, <1>7 DEF Sound
<1>9. /\ PendingCommands(s) \ PausedQueue(s) \subseteq PendingCommands(s1)
      /\ ActiveCommands(s1) \subseteq ActiveCommands(s)
  BY <1>3, NumbersAreCommands DEF PendingCommands, ActiveCommands
<1> QED BY <1>3, <1>4, <1>5, <1>7, <1>8, <1>9 DEF Passes, Calm, s1

-----------------------------------------------------------------------------
(* Owners are lost only by what a fold ends or starts.                     *)

LEMMA UnbackedShrinks ==
  ASSUME NEW s \in State, NEW s1, NEW L, NEW A, NEW X, Passes(s, s1, L, A),
         Unbacked(s1, X) \subseteq Known(s),
         \A c \in L : \A m \in Unbacked(s1, X) : ~Backs(s, c, m)
  PROVE  /\ Unbacked(s1, X) \subseteq Unbacked(s, X)
         /\ Calm(s, s1) => PendingSteers(s1) \cap Unbacked(s1, X)
                             \subseteq PendingSteers(s) \cap Unbacked(s, X)
<1>1. \A c \in PendingCommands(s) :
        s1.cmd[c].kind = s.cmd[c].kind /\ s1.cmd[c].targets = s.cmd[c].targets
  BY NumbersAreCommands DEF Passes
<1>2. Unbacked(s1, X) \subseteq Unbacked(s, X)
  <2> SUFFICES ASSUME NEW m \in Unbacked(s1, X), NEW c \in PendingCommands(s) \ X
               PROVE  m \in PendingMessages(s) /\ ~Backs(s, c, m)
    BY DEF Unbacked, Passes
  <2>1. m \in PendingMessages(s)
    BY DEF Unbacked, Passes
  <2>2. CASE c \in L
    BY <2>1, <2>2
  <2>3. CASE c \notin L
    <3>1. c \in PendingCommands(s1) \ X
      BY <2>3 DEF Passes
    <3>2. ~Backs(s1, c, m)
      BY <3>1 DEF Unbacked
    <3> QED BY <1>1, <2>1, <3>2 DEF Backs
  <2> QED BY <2>2, <2>3
<1>3. Calm(s, s1) => PendingSteers(s1) \cap Unbacked(s1, X) \subseteq PendingSteers(s)
  BY DEF Calm
<1> QED BY <1>2, <1>3

\* Only submissions and resumes back a message.
LEMMA ControlsBackNothing ==
  ASSUME NEW s \in State, LogInvariant(s), NEW c \in Cmd, s.cmd[c].kind # "resume",
         ~s.msg[c].known \/ ~IsSubmit(s, c)
  PROVE  \A m \in Known(s) : ~Backs(s, c, m)
BY DEF LogInvariant, Messages, Known, Backs

LEMMA GoneStays ==
  ASSUME NEW s \in State, Sound(s), NEW s1, NEW L, NEW A, Passes(s, s1, L, A),
         NEW c \in 1 .. s.ncmd, s.cmd[c].kind = "resume", Gone(s, c)
  PROVE  s1.cmd[c].kind = "resume" /\ Gone(s1, c)
<1>1. c \in Cmd /\ c <= s.ncmd
  BY NumbersAreCommands
<1>2. s1.cmd[c].kind = "resume" /\ s1.cmd[c].targets = s.cmd[c].targets
  BY <1>1 DEF Passes
<1>3. s.cmd[c].targets \subseteq Known(s)
  BY <1>1 DEF Sound
<1> QED BY <1>2, <1>3 DEF Gone, Passes

-----------------------------------------------------------------------------
(* What remains to be shown of a step, types and the slot being kept.      *)

LoopKept == LogOwned(st)' /\ ctl'.at # "dead" /\ ActiveHeld' /\ SteersRead'

LEMMA LoopFacts ==
  ASSUME LoopInvariant
  PROVE  /\ TypeOK /\ st \in State /\ LogInvariant(st) /\ Memory /\ SlotInvariant
         /\ Sound(st) /\ SteersOwned(st) /\ ResumesHeld(st) /\ ActiveHeld /\ SteersRead
         /\ ctl.at # "dead" /\ ctl \in PlaceType(Positions)
BY DEF LoopInvariant, SlotInvariant, LogOwned, TypeOK

\* While somebody holds the slot, a run is open and nothing is reserved.
LEMMA HeldIsOpen ==
  ASSUME SlotInvariant, ctl.at \in Closing \/ exec.tag # "Idle" \/ grant # NoGrant
  PROVE  OpenRuns(st) # {} /\ st.req.id = 0
<1>1. OpenRuns(st) # {}
  BY DEF SlotInvariant, Memory, ExecHolds, CtlHolds, GrantHolds, Holds
<1> QED BY <1>1 DEF SlotInvariant, LogInvariant, OneSlot

LEMMA HeldIsOpenNext ==
  ASSUME SlotInvariant', ctl'.at \in Closing \/ exec'.tag # "Idle" \/ grant' # NoGrant
  PROVE  OpenRuns(st') # {} /\ st'.req.id = 0 /\ SteersOwned(st')
<1>1. OpenRuns(st') # {}
  BY DEF SlotInvariant, Memory, ExecHolds, CtlHolds, GrantHolds, Holds
<1> QED BY <1>1 DEF SlotInvariant, LogInvariant, OneSlot, SteersOwned

\* A resume that somebody holds is the open run's or has nothing left to start.
LEMMA HeldResumes ==
  ASSUME SlotInvariant', ActiveHeld', ctl'.at \notin {"boot", "hydrated"}
  PROVE  ResumesHeld(st')
<1> SUFFICES ASSUME NEW c \in ActiveCommands(st'), st'.cmd[c].kind = "resume"
             PROVE  \/ \E r \in OpenRuns(st') : c \in st'.run[r].of
                    \/ st'.req.id # 0 /\ c = st'.req.cmd
                    \/ Gone(st', c)
  BY DEF ResumesHeld
<1>1. Held(c)'
  BY DEF ActiveHeld
<1>2. CASE ctl'.at \in Closing /\ c = ctl'.active
  <2>1. Holds(st', ctl'.run, c)
    BY <1>2 DEF SlotInvariant, Memory, CtlHolds
  <2> QED BY <2>1 DEF Holds
<1>3. CASE exec'.tag # "Idle" /\ c = exec'.cmd
  <2>1. Holds(st', exec'.run, c)
    BY <1>3 DEF SlotInvariant, Memory, ExecHolds
  <2> QED BY <2>1 DEF Holds
<1>4. CASE ctl'.at \in Taken /\ c = ctl'.cmd
  BY <1>4 DEF ActiveHeld
<1>5. CASE ctl'.at = "interruption" /\ c = ctl'.cmd
  <2>1. st'.cmd[c].kind \in {"stop", "interrupt"}
    BY <1>5 DEF SlotInvariant, Memory, TakenCommand
  <2> QED BY <2>1
<1>6. CASE grant' # NoGrant /\ c = grant'.cmd
  <2>1. Holds(st', grant'.run, c)
    BY <1>6 DEF SlotInvariant, Memory, GrantHolds
  <2> QED BY <2>1 DEF Holds
<1>7. CASE st'.req.id # 0 /\ st'.req.work = "Recovery" /\ c = st'.req.cmd
  BY <1>7
<1> QED BY <1>1, <1>2, <1>3, <1>4, <1>5, <1>6, <1>7 DEF Held

LEMMA SteersAreKnown == \A s : PendingSteers(s) \subseteq Known(s)
BY DEF PendingSteers, PendingMessages, Unconsumed, Known

\* Where something that was read must cover the steers.
Reading == {"failRun", "cancelRun", "interruption", "complete", "closeWaiting", "promote"}

LEMMA Assembled ==
  ASSUME SlotInvariant', Sound(st'), SteersOwned(st'), ctl'.at \notin {"boot", "hydrated", "dead"},
         \A c \in ActiveCommands(st') : Held(c)',
         ctl'.at \in Taken /\ st'.cmd[ctl'.cmd].kind = "resume" => Gone(st', ctl'.cmd),
         ctl'.at \in Reading => SteersRead'
  PROVE  LoopKept
<1>1. ActiveHeld'
  BY DEF ActiveHeld
<1>2. ResumesHeld(st')
  BY <1>1, HeldResumes
<1>3. SteersRead'
  BY DEF SteersRead, Reading
<1> QED BY <1>1, <1>2, <1>3 DEF LoopKept, LogOwned

\* Admissions, deliveries and the turn fiber leave control fiber and grant where they are.
LEMMA QuietKeeps ==
  ASSUME LoopInvariant, SlotInvariant', UNCHANGED <<ctl, grant>>,
         exec'.tag = exec.tag, exec'.cmd = exec.cmd,
         NEW L, Passes(st, st', L, {}), Calm(st, st'),
         \A X \in SUBSET (0 .. st.ncmd) : Unbacked(st', X) \subseteq Unbacked(st, X) \cap Known(st),
         st'.run = st.run, st'.req.id = st.req.id, st'.req.cmd = st.req.cmd,
         st'.req.work = st.req.work, st'.req.inputs = st.req.inputs
  PROVE  LoopKept
<1>1. /\ st \in State /\ Sound(st) /\ SteersOwned(st) /\ ResumesHeld(st) /\ ActiveHeld /\ SteersRead
      /\ ctl.at # "dead" /\ Memory /\ LogInvariant(st)
  BY LoopFacts
<1>2. /\ ActiveCommands(st') \subseteq ActiveCommands(st) /\ Sound(st')
      /\ ActiveCommands(st) \subseteq 1 .. st.ncmd
  BY <1>1, NumbersAreCommands DEF Passes
<1>3. \A c \in 1 .. st.ncmd :
        st'.cmd[c].kind = st.cmd[c].kind /\ st'.cmd[c].targets = st.cmd[c].targets
  BY <1>1, NumbersAreCommands DEF Passes
<1>4. \A c \in 1 .. st.ncmd : st.cmd[c].kind = "resume" /\ Gone(st, c) => Gone(st', c)
  BY <1>1, GoneStays
<1>5. OpenRuns(st') = OpenRuns(st) /\ Inherited(st') = Inherited(st)
  BY DEF OpenRuns, Inherited
<1>6. \A X \in SUBSET (0 .. st.ncmd) :
        PendingSteers(st') \cap Unbacked(st', X) \subseteq PendingSteers(st) \cap Unbacked(st, X)
  BY DEF Calm
<1>7. {} \in SUBSET (0 .. st.ncmd)
  OBVIOUS
<1>8. SteersOwned(st')
  BY <1>1, <1>5, <1>6, <1>7 DEF SteersOwned
<1>9. ResumesHeld(st')
  BY <1>1, <1>2, <1>3, <1>4, <1>5 DEF ResumesHeld
<1>10. ActiveHeld'
  <2>1. ctl.at \notin {"boot", "hydrated"} => \A c \in ActiveCommands(st') : Held(c)'
    BY <1>1, <1>2 DEF ActiveHeld, Held
  <2>2. ctl.at \in Taken => ctl.cmd \in 1 .. st.ncmd
    BY <1>1, <1>2 DEF Memory, TakenCommand
  <2>3. ctl.at \in Taken /\ st'.cmd[ctl.cmd].kind = "resume" => Gone(st', ctl.cmd)
    BY <1>1, <1>3, <1>4, <2>2 DEF ActiveHeld
  <2> QED BY <2>1, <2>3 DEF ActiveHeld
<1>11. SteersRead'
  <2>1. ctl.at \in {"failRun", "cancelRun", "interruption"} =>
          PendingSteers(st') \cap Unbacked(st', {}) \subseteq ctl.msgs
    BY <1>1, <1>6, <1>7 DEF SteersRead
  <2>2. ctl.at = "complete" => PendingSteers(st') \cap Unbacked(st', {}) = {}
    BY <1>1, <1>6, <1>7 DEF SteersRead
  <2>3. ctl.at = "closeWaiting" =>
          PendingSteers(st') \cap Unbacked(st', {st'.req.cmd}) \subseteq ctl.msgs
    <3> SUFFICES ASSUME ctl.at = "closeWaiting"
                 PROVE  PendingSteers(st') \cap Unbacked(st', {st'.req.cmd}) \subseteq ctl.msgs
      OBVIOUS
    <3>1. st.req.cmd \in 1 .. st.ncmd
      BY <1>1 DEF Memory, TakenCommand, LogInvariant, Reservable
    <3>2. {st.req.cmd} \in SUBSET (0 .. st.ncmd)
      BY <1>1, <3>1, StateFields
    <3> QED BY <1>1, <1>6, <3>2 DEF SteersRead
  <2>4. ctl.at = "promote" =>
          /\ ctl.msgs \subseteq st'.cmd[ctl.cmd].targets
          /\ OpenRuns(st') = {} =>
               (st'.cmd[ctl.cmd].targets \ ctl.msgs) \cap Unbacked(st', {}) \subseteq Inherited(st')
    <3> SUFFICES ASSUME ctl.at = "promote"
                 PROVE  /\ ctl.msgs \subseteq st'.cmd[ctl.cmd].targets
                        /\ OpenRuns(st') = {} =>
                             (st'.cmd[ctl.cmd].targets \ ctl.msgs) \cap Unbacked(st', {})
                               \subseteq Inherited(st')
      OBVIOUS
    <3>1. ctl.cmd \in 1 .. st.ncmd
      BY <1>1, <1>2 DEF Memory, TakenCommand, Taken
    <3> QED BY <1>1, <1>3, <1>5, <1>7, <3>1 DEF SteersRead
  <2>5. ctl.at \in {"failRun", "cancelRun"} => ctl.msgs \subseteq Known(st')
    BY <1>1 DEF SteersRead, Passes
  <2> QED BY <2>1, <2>2, <2>3, <2>4, <2>5 DEF SteersRead, Known
<1> QED BY <1>1, <1>2, <1>8, <1>9, <1>10, <1>11 DEF LoopKept, LogOwned

-----------------------------------------------------------------------------
(* Admissions.                                                             *)

\* What a batch of admissions does: nothing that exists loses what backs it.
Adds(s, s1) ==
  /\ \E L : Passes(s, s1, L, {})
  /\ Calm(s, s1) /\ SameSlot(s, s1)
  /\ \A X \in SUBSET (0 .. s.ncmd) : Unbacked(s1, X) \subseteq Unbacked(s, X) \cap Known(s)

LEMMA AdmittedAdds ==
  ASSUME NEW s \in State, Sound(s), s.ncmd < MaxCmd, NEW k \in Kinds, NEW ts \in SUBSET Cmd,
         k = "resume" => ts \subseteq Known(s)
  PROVE  LET s1 == CommandAdmitted(s, k, ts) IN
         Adds(s, s1) /\ s1.ncmd = s.ncmd + 1 /\ s1.msg = s.msg
<1> DEFINE s1 == CommandAdmitted(s, k, ts)
<1>1. /\ Passes(s, s1, {}, {}) /\ Calm(s, s1) /\ SameSlot(s, s1)
      /\ s1.ncmd = s.ncmd + 1 /\ s1.msg = s.msg
  BY AdmittedPasses DEF Admits
<1> HIDE DEF s1
<1>2. \A X : Unbacked(s1, X) \subseteq Known(s)
  BY <1>1 DEF Unbacked, PendingMessages, Unconsumed, Known
<1>3. \A X : Unbacked(s1, X) \subseteq Unbacked(s, X)
  BY <1>1, <1>2, UnbackedShrinks
<1> QED BY <1>1, <1>2, <1>3 DEF Adds, s1

LEMMA SubmitAdds ==
  ASSUME NEW s \in State, Sound(s), LogInvariant(s), s.ncmd < MaxCmd,
         NEW d \in {"queue", "steer"}, NEW clear \in BOOLEAN
  PROVE  Adds(s, SubmitAdmitted(s, d, clear))
<1> DEFINE n  == s.ncmd + 1
           s1 == CommandAdmitted(s, d, {})
           s2 == IF clear THEN PausedQueueCleared(s1) ELSE s1
           s3 == UserMessageSubmitted(s2, n, d)
           L  == IF clear THEN PausedQueue(s1) ELSE {}
<1>1. s3 = SubmitAdmitted(s, d, clear)
  BY DEF SubmitAdmitted
<1>2. d \in Kinds /\ d # "resume"
  BY DEF Kinds, Submits
<1>3. /\ Passes(s, s1, {}, {}) /\ Calm(s, s1) /\ Admits(s, s1, d, {}) /\ n \in PendingCommands(s1)
  BY <1>2, AdmittedPasses
<1>4. /\ n \in Cmd /\ n \notin Known(s) /\ s.msg[n].consumed = 0 /\ n \notin 0 .. s.ncmd
      /\ s1.msg = s.msg /\ Known(s1) = Known(s) /\ s1 \in State /\ Sound(s1) /\ SameSlot(s, s1)
  <2>1. n \in Cmd /\ s1.msg = s.msg /\ SameSlot(s, s1)
    BY <1>3 DEF Admits
  <2>2. s.cmd[n].kind = "none" /\ n \notin 0 .. s.ncmd
    BY <2>1, StateFields, CmdIsNat DEF LogInvariant, Commands
  <2>3. ~s.msg[n].known /\ s.msg[n].consumed = 0
    BY <2>1, <2>2 DEF LogInvariant, Messages, IsSubmit, Submits
  <2> QED BY <1>3, <2>1, <2>2, <2>3 DEF Passes, Known
<1> HIDE DEF s1, n
<1>5. /\ Passes(s1, s2, L, {}) /\ Calm(s1, s2) /\ SameSlot(s1, s2) /\ Known(s2) = Known(s)
      /\ PendingMessages(s2) \cap L = {} /\ s2.msg[n].consumed = 0
  <2>1. CASE clear
    <3>1. s2 = PausedQueueCleared(s1) /\ L = PausedQueue(s1)
      BY <2>1
    <3> HIDE DEF s2, L
    <3>2. /\ Passes(s1, s2, L, {}) /\ Calm(s1, s2) /\ SameSlot(s1, s2) /\ Known(s2) = Known(s)
          /\ PendingMessages(s2) \cap L = {}
      BY <1>4, <3>1, ClearedPasses
    <3>3. s2.msg[n].consumed = s1.msg[n].consumed
      BY <1>4, <3>1, PausedQueueClearedEffect DEF ClearsPaused
    <3> QED BY <1>4, <3>2, <3>3
  <2>2. CASE ~clear
    <3>1. s2 = s1 /\ L = {}
      BY <2>2
    <3>2. Passes(s1, s1, {}, {}) /\ Calm(s1, s1) /\ SameSlot(s1, s1)
      BY <1>4, PassesIsReflexive DEF SameSlot
    <3> QED BY <1>4, <3>1, <3>2
  <2> QED BY <2>1, <2>2
<1>6. L \subseteq Known(s)
  BY <1>4 DEF PausedQueue, PendingMessages, Unconsumed, Known
<1> HIDE DEF s2, L
<1>7. /\ Passes(s2, s3, {}, {}) /\ Calm(s2, s3) /\ SameSlot(s2, s3)
      /\ PendingMessages(s3) \subseteq Known(s) \cup {n}
      /\ PendingCommands(s3) = PendingCommands(s2)
  <2>1. s2 \in State /\ Sound(s2) /\ ~s2.msg[n].known
    BY <1>4, <1>5 DEF Passes, Known
  <2>2. SameSlot(s2, s3)
    BY <1>4, <1>5, <2>1, SubmittedEffect DEF OnlyMessages
  <2> QED BY <1>4, <1>5, <2>1, <2>2, SubmittedPasses
<1> HIDE DEF s3
<1>8. Passes(s, s3, L, {}) /\ Calm(s, s3)
  <2>1. Passes(s1, s3, L, {}) /\ Calm(s1, s3)
    BY <1>4, <1>5, <1>7, PassesIsTransitive
  <2> QED BY <1>3, <2>1, PassesIsTransitive
<1>9. SameSlot(s, s3)
  BY <1>4, <1>5, <1>7 DEF SameSlot
<1>10. \A X \in SUBSET (0 .. s.ncmd) : Unbacked(s3, X) \subseteq Known(s)
  <2>1. n \in PendingCommands(s3)
    BY <1>3, <1>4, <1>5, <1>6, <1>7 DEF Passes
  <2> QED BY <1>4, <1>7, <2>1 DEF Unbacked, Backs
<1>11. \A X \in SUBSET (0 .. s.ncmd) : \A c \in L : \A m \in Unbacked(s3, X) : ~Backs(s, c, m)
  <2> SUFFICES ASSUME NEW X \in SUBSET (0 .. s.ncmd), NEW c \in L, NEW m \in Unbacked(s3, X)
               PROVE  ~Backs(s, c, m)
    OBVIOUS
  <2>1. m \in Known(s) /\ m \in PendingMessages(s3)
    BY <1>10 DEF Unbacked
  <2>2. m \in PendingMessages(s2)
    BY <1>5, <1>7, <2>1 DEF Passes
  <2>3. c # m
    BY <1>5, <2>2
  <2>4. s.cmd[c].kind # "resume"
    BY <1>6 DEF LogInvariant, Messages, IsSubmit, Submits, Known
  <2> QED BY <2>3, <2>4 DEF Backs
<1>12. \A X \in SUBSET (0 .. s.ncmd) : Unbacked(s3, X) \subseteq Unbacked(s, X)
  BY <1>8, <1>10, <1>11, UnbackedShrinks
<1> QED BY <1>1, <1>8, <1>9, <1>10, <1>12 DEF Adds

LEMMA AdmitKeeps ==
  ASSUME LoopInvariant, SlotInvariant', NEW s1, Admit(s1), Adds(st, s1)
  PROVE  LoopKept
<1>1. /\ st' = s1 /\ UNCHANGED <<ctl, grant>> /\ exec'.tag = exec.tag /\ exec'.cmd = exec.cmd
  BY DEF Admit
<1> PICK L : Passes(st, st', L, {})
  BY <1>1 DEF Adds
<1> QED BY <1>1, QuietKeeps DEF Adds, SameSlot

LEMMA AdmissionOwned == LoopInvariant /\ SlotInvariant' /\ Admission => LoopKept
<1> SUFFICES ASSUME LoopInvariant, SlotInvariant', Admission PROVE LoopKept
  OBVIOUS
<1>1. \E s1 : Admit(s1)
  BY DEF Admission, AdmitSubmit, AdmitControl, AdmitTargeted, AdmitStopAndResume
<1>2. /\ st \in State /\ LogInvariant(st) /\ Sound(st) /\ st.ncmd \in Nat /\ MaxCmd \in Nat
      /\ st.ncmd < MaxCmd - 1 /\ st.ncmd < MaxCmd
  BY <1>1, LoopFacts, StateFields, BoundsAssumption DEF Admit
<1>3. CASE AdmitSubmit
  <2> PICK d \in {"queue", "steer"}, clear \in BOOLEAN : Admit(SubmitAdmitted(st, d, clear))
    BY <1>3 DEF AdmitSubmit
  <2>1. Adds(st, SubmitAdmitted(st, d, clear))
    BY <1>2, SubmitAdds
  <2> QED BY <2>1, AdmitKeeps
<1>4. CASE AdmitControl
  <2> PICK k \in {"interrupt", "stop"} : Admit(CommandAdmitted(st, k, {}))
    BY <1>4 DEF AdmitControl
  <2>1. k \in Kinds /\ {} \in SUBSET Cmd /\ k # "resume"
    BY DEF Kinds, Submits
  <2>2. Adds(st, CommandAdmitted(st, k, {}))
    BY <1>2, <2>1, AdmittedAdds
  <2> QED BY <2>2, AdmitKeeps
<1>5. CASE AdmitTargeted
  <2> PICK k \in {"cancel", "promote"}, m \in Cmd : Admit(CommandAdmitted(st, k, {m}))
    BY <1>5 DEF AdmitTargeted, KnownMessages
  <2>1. k \in Kinds /\ {m} \in SUBSET Cmd /\ k # "resume"
    BY DEF Kinds
  <2>2. Adds(st, CommandAdmitted(st, k, {m}))
    BY <1>2, <2>1, AdmittedAdds
  <2> QED BY <2>2, AdmitKeeps
<1>6. CASE AdmitStopAndResume
  <2> DEFINE s1 == CommandAdmitted(st, "stop", {})
  <2> PICK m \in PendingSteers(st) : Admit(CommandAdmitted(s1, "resume", {m}))
    BY <1>6 DEF AdmitStopAndResume
  <2>1. /\ "stop" \in Kinds /\ "resume" \in Kinds /\ {m} \in SUBSET Cmd /\ {} \in SUBSET Cmd
        /\ m \in Known(st)
    BY DEF Kinds, PendingSteers, PendingMessages, Unconsumed, Known
  <2>2. Adds(st, s1) /\ s1.ncmd = st.ncmd + 1 /\ s1.msg = st.msg
    BY <1>2, <2>1, AdmittedAdds
  <2> HIDE DEF s1
  <2>3. s1.ncmd < MaxCmd /\ s1 \in State /\ Sound(s1) /\ Known(s1) = Known(st)
    BY <1>2, <2>2 DEF Adds, Passes, Known
  <2> DEFINE s2 == CommandAdmitted(s1, "resume", {m})
  <2>4. Adds(s1, s2)
    <3>1. {m} \subseteq Known(s1)
      BY <2>1, <2>3
    <3> QED BY <2>1, <2>3, <3>1, AdmittedAdds
  <2> HIDE DEF s2
  <2>5. Adds(st, s2)
    <3>1. \A X \in SUBSET (0 .. st.ncmd) : X \in SUBSET (0 .. s1.ncmd)
      BY <1>2, <2>2
    <3>2. \A X \in SUBSET (0 .. st.ncmd) : Unbacked(s2, X) \subseteq Unbacked(st, X) \cap Known(st)
      BY <2>2, <2>4, <3>1 DEF Adds
    <3>3. PICK L : Passes(st, s1, L, {})
      BY <2>2 DEF Adds
    <3>4. PICK L2 : Passes(s1, s2, L2, {})
      BY <2>4 DEF Adds
    <3>5. Passes(st, s2, L \cup L2, {} \cup {}) /\ Calm(st, s2)
      BY <1>2, <2>2, <2>4, <3>3, <3>4, PassesIsTransitive DEF Adds
    <3>6. Passes(st, s2, L \cup L2, {})
      BY <3>5
    <3>7. SameSlot(st, s2)
      BY <2>2, <2>4 DEF Adds, SameSlot
    <3> QED BY <3>2, <3>5, <3>6, <3>7 DEF Adds
  <2>6. Admit(s2)
    BY DEF s2
  <2> QED BY <2>5, <2>6, AdmitKeeps
<1> QED BY <1>3, <1>4, <1>5, <1>6 DEF Admission

-----------------------------------------------------------------------------
(* The turn fiber, deliveries, crashes, and the start of a new process.    *)

LEMMA SlotUnbacked ==
  ASSUME NEW s \in State, Sound(s), NEW s1, OnlySlot(s, s1)
  PROVE  /\ \A X : Unbacked(s1, X) = Unbacked(s, X) /\ Unbacked(s, X) \subseteq Known(s)
         /\ \A c : Gone(s1, c) = Gone(s, c)
<1>1. /\ PendingMessages(s1) = PendingMessages(s) /\ PendingCommands(s1) = PendingCommands(s)
      /\ s1.cmd = s.cmd
  BY SlotPasses
<1>2. PendingMessages(s) \subseteq Known(s)
  BY DEF PendingMessages, Unconsumed, Known
<1> QED BY <1>1, <1>2 DEF Unbacked, Backs, Gone

LEMMA SameLogIsSlot ==
  ASSUME NEW s \in State, NEW s1, s1 = s
  PROVE  OnlySlot(s, s1)
BY DEF OnlySlot, SameOrders

LEMMA QuietSlot ==
  ASSUME LoopInvariant, SlotInvariant', UNCHANGED <<ctl, grant>>,
         exec'.tag = exec.tag, exec'.cmd = exec.cmd, OnlySlot(st, st'),
         st'.run = st.run, st'.req.id = st.req.id, st'.req.cmd = st.req.cmd,
         st'.req.work = st.req.work, st'.req.inputs = st.req.inputs
  PROVE  LoopKept
<1>1. st \in State /\ Sound(st)
  BY LoopFacts
<1>2. Passes(st, st', {}, {}) /\ Calm(st, st')
  BY <1>1, SlotPasses
<1>3. \A X \in SUBSET (0 .. st.ncmd) : Unbacked(st', X) \subseteq Unbacked(st, X) \cap Known(st)
  BY <1>1, SlotUnbacked
<1> QED BY <1>2, <1>3, QuietKeeps

LEMMA StillOwned ==
  ASSUME LoopInvariant, SlotInvariant', UNCHANGED <<st, exec, ctl, grant>>
  PROVE  LoopKept
BY LoopFacts, SameLogIsSlot, QuietSlot

LEMMA FiberOwned == LoopInvariant /\ SlotInvariant' /\ (TurnFiber \/ TurnSurprise) => LoopKept
<1> SUFFICES ASSUME LoopInvariant, SlotInvariant', TurnFiber \/ TurnSurprise PROVE LoopKept
  OBVIOUS
<1>1. st \in State /\ exec \in ExecType
  BY LoopFacts DEF TypeOK
<1>2. ctl' = ctl /\ grant' = grant
  BY DEF TurnFiber, TurnSurprise, TurnCompletes, TurnFails, TurnExits, TurnInterrupted,
         UnchangedByFiber
<1>3. CASE \E o \in {"Completed", "Failed"}, f \in BOOLEAN, x \in {"ok", "failed", "defect"} :
             /\ st' = TurnTerminal(st, exec.turn, o, f)
             /\ exec' = [exec EXCEPT !.fiber = x]
  <2>1. ClosesTurn(st, st', exec.turn)
    BY <1>1, <1>3, TurnTerminalEffect
  <2>2. OnlySlot(st, st') /\ st'.req = st.req /\ st'.run = st.run
    BY <2>1 DEF ClosesTurn
  <2>3. exec'.tag = exec.tag /\ exec'.cmd = exec.cmd
    BY <1>1, <1>3 DEF ExecType
  <2> QED BY <1>2, <2>2, <2>3, QuietSlot
<1>4. CASE st' = st /\ \/ exec' = [exec EXCEPT !.exited = TRUE]
                       \/ exec' = [exec EXCEPT !.fiber = "interrupted", !.exited = TRUE]
  <2>1. exec'.tag = exec.tag /\ exec'.cmd = exec.cmd
    BY <1>1, <1>4 DEF ExecType
  <2> QED BY <1>1, <1>2, <1>4, <2>1, SameLogIsSlot, QuietSlot
<1> QED BY <1>3, <1>4
        DEF TurnFiber, TurnSurprise, TurnCompletes, TurnFails, TurnExits, TurnInterrupted

LEMMA DeliveryOwned ==
  LoopInvariant /\ SlotInvariant'
    /\ (BeginDelivery \/ OfferRun \/ EndDelivery \/ DeliveryFails \/ OfferSignal) => LoopKept
<1> SUFFICES ASSUME LoopInvariant, SlotInvariant',
                    BeginDelivery \/ OfferRun \/ EndDelivery \/ DeliveryFails \/ OfferSignal
             PROVE  LoopKept
  OBVIOUS
<1>1. exec' = exec /\ ctl' = ctl /\ grant' = grant
  BY DEF BeginDelivery, OfferRun, EndDelivery, DeliveryFails, OfferSignal, UnchangedByScheduling
<1>2. CASE st' = st
  BY <1>1, <1>2, StillOwned
<1>3. CASE EndDelivery
  <2>1. /\ st' = RunSchedulingDelivered(st, delivery) /\ delivery \in Nat \ {0}
        /\ st \in State /\ LogInvariant(st)
    BY <1>3, LoopFacts DEF EndDelivery, TypeOK
  <2>2. OnlyRequest(st, st')
    BY <2>1, DeliveredKeeps
  <2>3. /\ st'.req.id = st.req.id /\ st'.req.cmd = st.req.cmd
        /\ st'.req.work = st.req.work /\ st'.req.inputs = st.req.inputs
    <3>1. st.req \in Request \cup {NoRequest}
      BY <2>1, StateFields
    <3> QED BY <2>1, <3>1 DEF RunSchedulingDelivered, State, Request, NoRequest
  <2>4. st'.run = st.run
    BY <2>2 DEF OnlyRequest
  <2> QED BY <1>1, <2>2, <2>3, <2>4, RequestPasses, QuietSlot
<1> QED BY <1>2, <1>3 DEF BeginDelivery, OfferRun, DeliveryFails, OfferSignal

\* A dead process holds nothing: what it left is in the log.
LEMMA RestartOwned == LoopInvariant /\ SlotInvariant' /\ (Crash \/ Hydrate) => LoopKept
<1> SUFFICES ASSUME LoopInvariant, SlotInvariant', Crash \/ Hydrate PROVE LoopKept
  OBVIOUS
<1>1. st' = st /\ ctl'.at \in {"boot", "hydrated"}
  BY DEF Crash, Hydrate, Goto, Free, Place, UnchangedByControl
<1>2. LogOwned(st)'
  BY <1>1 DEF LoopInvariant
<1>3. ActiveHeld' /\ SteersRead'
  BY <1>1 DEF ActiveHeld, SteersRead, Taken
<1> QED BY <1>1, <1>2, <1>3 DEF LoopKept

\* The control fiber at rest, in the log as it was.
LEMMA WaitingOwned ==
  LoopInvariant /\ SlotInvariant' /\ (Park \/ WakeOnSignal \/ WakeOnExit) => LoopKept
<1> SUFFICES ASSUME LoopInvariant, SlotInvariant', Park \/ WakeOnSignal \/ WakeOnExit
             PROVE  LoopKept
  OBVIOUS
<1>1. /\ st' = st /\ exec' = exec /\ grant' = grant /\ ctl.at \in Ungated
      /\ st \in State /\ Sound(st) /\ SteersOwned(st) /\ ActiveHeld
  BY LoopFacts DEF Park, WakeOnSignal, WakeOnExit, UnchangedByControl, Ungated
<1>2. ctl'.at \in Ungated
  <2>1. exec.tag \in {"Idle", "Running", "Completed"}
    BY LoopFacts DEF TypeOK, ExecType
  <2> QED BY <2>1 DEF Park, WakeOnSignal, WakeOnExit, Goto, Free, Place, Ungated
<1>3. \A c \in ActiveCommands(st') : Held(c)'
  BY <1>1, <1>2 DEF ActiveHeld, Held, Ungated, Closing, Taken
<1> QED BY <1>1, <1>2, <1>3, Assembled DEF Ungated, Taken, Reading

-----------------------------------------------------------------------------
(* Decisions: the log keeps its commands and messages, and who held a      *)
(* command hands it on.                                                    *)

LEMMA DecidedOwned ==
  ASSUME LoopInvariant, SlotInvariant', OnlySlot(st, st'), st'.run = st.run, st'.req = st.req,
         ctl'.at \notin {"boot", "hydrated", "dead"},
         \A c \in ActiveCommands(st) : Held(c)',
         ctl'.at \in Taken => st.cmd[ctl'.cmd].kind # "resume",
         ctl'.at \in Reading => SteersRead'
  PROVE  LoopKept
<1>1. st \in State /\ Sound(st) /\ SteersOwned(st)
  BY LoopFacts
<1>2. /\ Sound(st') /\ PendingSteers(st') = PendingSteers(st)
      /\ ActiveCommands(st') = ActiveCommands(st) /\ st'.cmd = st.cmd
  BY <1>1, SlotPasses DEF Passes
<1>3. Unbacked(st', {}) = Unbacked(st, {})
  BY <1>1, SlotUnbacked
<1>4. OpenRuns(st') = OpenRuns(st) /\ Inherited(st') = Inherited(st)
  BY DEF OpenRuns, Inherited
<1>5. SteersOwned(st')
  BY <1>1, <1>2, <1>3, <1>4 DEF SteersOwned
<1> QED BY <1>2, <1>5, Assembled

\* A run that failed is closed with all its steers in hand.
LEMMA DeadFiberOwned ==
  LoopInvariant /\ SlotInvariant' /\ (DrainDefect \/ DrainInterrupted) => LoopKept
<1> SUFFICES ASSUME LoopInvariant, SlotInvariant', DrainDefect \/ DrainInterrupted PROVE LoopKept
  OBVIOUS
<1>1. st \in State /\ Sound(st) /\ ActiveHeld /\ ctl.at = "ready" /\ grant = NoGrant
  BY LoopFacts DEF DrainDefect, DrainInterrupted, Drain
<1>2. OnlySlot(st, st') /\ st'.run = st.run /\ st'.req = st.req
  <2>1. CASE st' = st
    BY <1>1, <2>1, SameLogIsSlot
  <2>2. CASE st' = TurnTerminal(st, exec.turn, "Failed", FALSE)
    <3>1. ClosesTurn(st, st', exec.turn)
      BY <1>1, <2>2, TurnTerminalEffect
    <3> QED BY <3>1 DEF ClosesTurn
  <2> QED BY <2>1, <2>2 DEF DrainDefect, DrainInterrupted
<1>3. /\ ctl'.at \in {"failRun", "cancelRun"} /\ ctl'.active = exec.cmd
      /\ ctl'.msgs = PendingSteers(st)
  <2>1. \/ ctl' = Place("failRun", 0, exec.cmd, exec.run, MessagesToResume(st))
        \/ ctl' = Place("cancelRun", 0, exec.cmd, exec.run, MessagesToResume(st))
    BY DEF DrainDefect, DrainInterrupted, Goto
  <2> QED BY <2>1 DEF Place, MessagesToResume
<1>4. \A c \in ActiveCommands(st) : Held(c)'
  BY <1>1, <1>2, <1>3 DEF ActiveHeld, Held, Closing, Taken
<1>5. SteersRead'
  <2>1. PendingSteers(st') = PendingSteers(st)
    BY <1>1, <1>2, SlotPasses
  <2> QED BY <1>3, <2>1, SteersAreKnown DEF SteersRead
<1> QED BY <1>2, <1>3, <1>4, <1>5, DecidedOwned DEF Taken

LEMMA DrainDecisionOwned ==
  LoopInvariant /\ SlotInvariant' /\ (DrainInterrupt \/ DrainNothing \/ DrainWaiting) => LoopKept
<1> SUFFICES ASSUME LoopInvariant, SlotInvariant', DrainInterrupt \/ DrainNothing \/ DrainWaiting
             PROVE  LoopKept
  OBVIOUS
<1>1. /\ st \in State /\ Sound(st) /\ LogInvariant(st) /\ ActiveHeld /\ ctl.at = "ready"
      /\ grant = NoGrant /\ st' = st /\ grant' = grant /\ TypeOK
      /\ OnlySlot(st, st') /\ exec \in ExecType
  BY LoopFacts, SameLogIsSlot
     DEF DrainInterrupt, DrainNothing, DrainWaiting, DrainNormally, Drain, UnchangedByControl, TypeOK
<1>2. \A c \in ActiveCommands(st) :
        \/ exec.tag # "Idle" /\ c = exec.cmd
        \/ st.req.id # 0 /\ st.req.work = "Recovery" /\ c = st.req.cmd
  BY <1>1 DEF ActiveHeld, Held, Closing, Taken
<1>3. CASE DrainInterrupt
  <2>1. ctl'.at = "interruption" /\ ctl'.active = exec.cmd /\ ctl'.msgs = MessagesToPause(st)
    BY <1>3 DEF DrainInterrupt, Goto, Place
  <2>2. \A c \in ActiveCommands(st) : Held(c)'
    BY <1>1, <1>2, <2>1 DEF Held, Closing
  <2>3. SteersRead'
    BY <1>1, <2>1 DEF SteersRead, MessagesToPause
  <2> QED BY <1>1, <2>1, <2>2, <2>3, DecidedOwned DEF Taken
<1>4. CASE DrainNothing
  <2>1. ctl'.at \in {"boundary", "park"}
    BY <1>4 DEF DrainNothing, Goto, Place, Free
  <2>2. exec'.cmd = exec.cmd /\ (exec.tag # "Idle" => exec'.tag # "Idle")
    BY <1>1, <1>4 DEF DrainNothing, Observed, ExecType
  <2>3. \A c \in ActiveCommands(st) : Held(c)'
    BY <1>1, <1>2, <2>1, <2>2 DEF Held, Closing
  <2> QED BY <1>1, <2>1, <2>3, DecidedOwned DEF Taken, Reading
<1>5. CASE DrainWaiting
  <2>1. /\ ctl'.at = "closeWaiting" /\ ctl'.msgs = MessagesToPause(st) \ {Chosen}
        /\ exec' = exec /\ Reserved /\ ChosenKind \in {"stop", "interrupt"}
    BY <1>5 DEF DrainWaiting, Goto, Place
  <2>2. \A c \in ActiveCommands(st) : Held(c)'
    BY <1>1, <1>2, <2>1 DEF Held, Closing
  <2>3. Chosen \notin PendingSteers(st)
    <3>1. Chosen \in PendingCommands(st) /\ st.cmd[Chosen].kind \in {"stop", "interrupt"}
      BY <1>1, <2>1, ChosenWaits, LoopFacts DEF ChosenKind, Drain
    <3>2. Chosen \in Cmd /\ ~st.cmd[Chosen].started
      BY <1>1, <3>1, NumbersAreCommands DEF PendingCommands
    <3>3. ~st.msg[Chosen].known
      BY <1>1, <3>1, <3>2 DEF LogInvariant, Messages, IsSubmit, Submits
    <3> QED BY <3>3 DEF PendingSteers, PendingMessages, Unconsumed
  <2>4. SteersRead'
    BY <1>1, <2>1, <2>3 DEF SteersRead, MessagesToPause
  <2> QED BY <1>1, <2>1, <2>2, <2>4, DecidedOwned DEF Taken
<1> QED BY <1>3, <1>4, <1>5

\* A completed run goes on with its steers, fails with them in hand, or ends without any.
LEMMA BoundaryOwned ==
  LoopInvariant /\ SlotInvariant'
    /\ (ResumeRecovered \/ SetWakeup \/ CloseStoppedTurn \/ DecideBoundary) => LoopKept
<1> SUFFICES ASSUME LoopInvariant, SlotInvariant',
                    ResumeRecovered \/ SetWakeup \/ CloseStoppedTurn \/ DecideBoundary
             PROVE  LoopKept
  OBVIOUS
<1>1. /\ st \in State /\ ActiveHeld /\ TypeOK /\ Memory /\ SlotInvariant
      /\ st' = st /\ grant' = grant /\ OnlySlot(st, st') /\ st'.run = st.run /\ st'.req = st.req
      /\ ctl.at \in {"recovered", "start", "startResume", "stopClose", "boundary"}
  BY LoopFacts, SameLogIsSlot
     DEF ResumeRecovered, SetWakeup, CloseStoppedTurn, DecideBoundary, UnchangedByControl
<1>2. grant = NoGrant
  BY <1>1, SlotFacts DEF Ungated
<1>3. \A c \in ActiveCommands(st) :
        \/ ctl.at = "recovered" /\ c = ctl.active
        \/ ctl.at # "recovered" /\ exec.tag # "Idle" /\ c = exec.cmd
        \/ ctl.at = "stopClose" /\ c = ctl.cmd
        \/ st.req.id # 0 /\ st.req.work = "Recovery" /\ c = st.req.cmd
  BY <1>1, <1>2 DEF ActiveHeld, Held, Closing, Taken
<1>4. CASE ResumeRecovered
  <2>1. ctl.at = "recovered" /\ ctl'.at = "turn" /\ ctl'.active = ctl.cmd
    BY <1>4 DEF ResumeRecovered, Goto, TurnPlace, Place
  <2>2. ctl.cmd = ctl.active
    BY <1>1, <2>1 DEF Memory, CtlHolds
  <2>3. \A c \in ActiveCommands(st) : Held(c)'
    BY <1>1, <1>3, <2>1, <2>2 DEF Held, Closing
  <2> QED BY <1>1, <2>1, <2>3, DecidedOwned DEF Taken, Reading
<1>5. CASE SetWakeup
  <2>1. ctl.at # "recovered" /\ ctl.at # "stopClose" /\ ctl'.at = "defer" /\ exec' = exec
    BY <1>5 DEF SetWakeup, Goto, Place
  <2>2. \A c \in ActiveCommands(st) : Held(c)'
    BY <1>1, <1>3, <2>1 DEF Held, Closing
  <2> QED BY <1>1, <2>1, <2>2, DecidedOwned DEF Taken, Reading
<1>6. CASE CloseStoppedTurn
  <2>1. ctl.at = "stopClose" /\ ctl' = [ctl EXCEPT !.at = "interruption", !.msgs = MessagesToPause(st)]
    BY <1>6 DEF CloseStoppedTurn, Goto
  <2>2. /\ ctl'.at = "interruption" /\ ctl'.cmd = ctl.cmd /\ ctl'.active = ctl.active
        /\ ctl'.msgs = MessagesToPause(st)
    <3>1. ctl \in PlaceType(Positions)
      BY <1>1 DEF TypeOK
    <3> QED BY <1>1, <2>1, <3>1, MovedPlace DEF PlaceType
  <2>3. ctl.active = exec.cmd
    BY <1>1, <2>1 DEF Memory, CtlHolds
  <2>4. \A c \in ActiveCommands(st) : Held(c)'
    BY <1>1, <1>3, <2>1, <2>2, <2>3 DEF Held, Closing
  <2>5. SteersRead'
    BY <1>1, <2>2 DEF SteersRead, MessagesToPause
  <2> QED BY <1>1, <2>2, <2>4, <2>5, DecidedOwned DEF Taken
<1>7. CASE DecideBoundary
  <2>1. ctl.at = "boundary" /\ exec' = exec
    BY <1>7 DEF DecideBoundary
  <2>2. ctl.active = exec.cmd /\ exec.tag # "Idle"
    BY <1>1, <2>1 DEF Memory, CtlHolds
  <2>3. \A c \in ActiveCommands(st) : \/ c = ctl.active
                                      \/ st.req.id # 0 /\ st.req.work = "Recovery" /\ c = st.req.cmd
    BY <1>3, <2>1, <2>2
  <2>4. CASE ctl' = Place("failRun", 0, ctl.active, ctl.run, MessagesToResume(st))
    <3>1. ctl'.at = "failRun" /\ ctl'.active = ctl.active /\ ctl'.msgs = PendingSteers(st)
      BY <2>4 DEF Place, MessagesToResume
    <3>2. \A c \in ActiveCommands(st) : Held(c)'
      BY <1>1, <2>3, <3>1 DEF Held, Closing
    <3>3. SteersRead'
      BY <1>1, <3>1, SteersAreKnown DEF SteersRead
    <3> QED BY <1>1, <3>1, <3>2, <3>3, DecidedOwned DEF Taken
  <2>5. CASE \E ms : ctl' = TurnPlace(ctl.active, ctl.run, ms)
    <3>1. ctl'.at = "turn" /\ ctl'.active = ctl.active
      BY <2>5 DEF Place, TurnPlace
    <3>2. \A c \in ActiveCommands(st) : Held(c)'
      BY <1>1, <2>3, <3>1 DEF Held, Closing
    <3> QED BY <1>1, <3>1, <3>2, DecidedOwned DEF Taken, Reading
  <2>6. CASE /\ Continuation(st, exec.turn) = "complete"
             /\ ctl' = [ctl EXCEPT !.at = "complete"]
    <3>1. ctl'.at = "complete"
      BY <1>1, <2>6, MovedPlace
    <3>2. PendingSteers(st) = {}
      BY <2>6 DEF Continuation
    <3>3. \A c \in ActiveCommands(st) : Held(c)'
      BY <1>1, <2>1, <2>2, <2>3, <3>1 DEF Held, Closing
    <3>4. SteersRead'
      BY <1>1, <3>1, <3>2 DEF SteersRead
    <3> QED BY <1>1, <3>1, <3>3, <3>4, DecidedOwned DEF Taken
  <2>7. Continuation(st, exec.turn) \in {"steering", "feedback", "complete"}
    BY DEF Continuation
  <2> QED BY <1>7, <2>4, <2>5, <2>6, <2>7 DEF DecideBoundary, Goto
<1> QED BY <1>4, <1>5, <1>6, <1>7

-----------------------------------------------------------------------------
(* A drain begins what it chose.                                           *)

\* A command that backs nothing, or backs steers of an open run, is taken by the control fiber.
LEMMA BeginOwned ==
  ASSUME LoopInvariant, SlotInvariant', Drain, NEW c \in 1 .. st.ncmd,
         st' = CommandStarted(st, c), exec' \in {exec, Observed},
         ctl'.at \in Taken, ctl'.cmd = c,
         st.cmd[c].kind = "resume" => Gone(st, c),
         OpenRuns(st) = {} => \A m \in PendingMessages(st) : ~Backs(st, c, m),
         ctl'.at \in Reading => SteersRead'
  PROVE  LoopKept
<1>1. /\ st \in State /\ Sound(st) /\ SteersOwned(st) /\ ActiveHeld /\ exec \in ExecType
      /\ ctl.at = "ready" /\ grant = NoGrant
  BY LoopFacts DEF TypeOK, Drain
<1>2. /\ Passes(st, st', {c}, {c}) /\ Calm(st, st') /\ SameSlot(st, st')
      /\ PendingMessages(st') = PendingMessages(st)
  <2>1. Passes(st, st', {c}, {c}) /\ Calm(st, st') /\ Starts(st, st', c)
    BY <1>1, StartedPasses
  <2> QED BY <2>1 DEF Starts, PendingMessages, Unconsumed
<1>3. /\ Sound(st') /\ ActiveCommands(st') \subseteq ActiveCommands(st) \cup {c}
      /\ OpenRuns(st') = OpenRuns(st) /\ Inherited(st') = Inherited(st) /\ st'.req = st.req
  BY <1>2, SameSlotViews DEF Passes, Inherited, SameSlot
<1>4. SteersOwned(st')
  <2> SUFFICES ASSUME OpenRuns(st') = {}
               PROVE  PendingSteers(st') \cap Unbacked(st', {}) \subseteq Inherited(st')
    BY DEF SteersOwned
  <2>1. /\ Unbacked(st', {}) \subseteq PendingMessages(st)
        /\ PendingMessages(st) \subseteq Known(st)
    BY <1>2 DEF Unbacked, PendingMessages, Unconsumed, Known
  <2>2. \A d \in {c} : \A m \in Unbacked(st', {}) : ~Backs(st, d, m)
    BY <1>3, <2>1
  <2>3. PendingSteers(st') \cap Unbacked(st', {}) \subseteq PendingSteers(st) \cap Unbacked(st, {})
    BY <1>1, <1>2, <2>1, <2>2, UnbackedShrinks
  <2> QED BY <1>1, <1>3, <2>3 DEF SteersOwned
<1>5. exec'.cmd = exec.cmd /\ (exec.tag # "Idle" => exec'.tag # "Idle")
  BY <1>1 DEF Observed, ExecType
<1>6. \A d \in ActiveCommands(st') : Held(d)'
  <2>1. ctl'.at \notin Closing /\ ctl.at \notin Closing \cup Taken \cup {"boot", "hydrated", "interruption"}
    BY <1>1 DEF Closing, Taken
  <2> QED BY <1>1, <1>3, <1>5, <2>1 DEF ActiveHeld, Held
<1>7. st'.cmd[c].kind = "resume" => Gone(st', c)
  <2>1. c \in Cmd /\ c <= st.ncmd
    BY <1>1, NumbersAreCommands
  <2>2. st'.cmd[c].kind = st.cmd[c].kind
    BY <1>2, <2>1 DEF Passes
  <2> QED BY <1>1, <1>2, <2>2, GoneStays
<1> QED BY <1>3, <1>4, <1>6, <1>7, Assembled DEF Taken

\* Cancellations, promotions and stops back nothing.
LEMMA ControlOwned ==
  ASSUME LoopInvariant, SlotInvariant', Drain, Chosen # 0,
         st' = CommandStarted(st, Chosen), exec' \in {exec, Observed},
         ctl'.at \in Taken, ctl'.cmd = Chosen,
         st.cmd[Chosen].kind \in {"cancel", "promote", "stop"},
         ctl'.at \in Reading => SteersRead'
  PROVE  LoopKept
<1>1. st \in State /\ LogInvariant(st) /\ SlotInvariant
  BY LoopFacts
<1>2. Chosen \in 1 .. st.ncmd /\ Chosen \in Cmd
  BY <1>1, ChosenWaits, NumbersAreCommands
<1>3. st.cmd[Chosen].kind # "resume" /\ ~IsSubmit(st, Chosen)
  BY DEF IsSubmit, Submits
<1>4. \A m \in Known(st) : ~Backs(st, Chosen, m)
  BY <1>1, <1>2, <1>3, ControlsBackNothing
<1>5. PendingMessages(st) \subseteq Known(st)
  BY DEF PendingMessages, Unconsumed, Known
<1> QED BY <1>2, <1>3, <1>4, <1>5, BeginOwned

\* A promotion reads whether its message needs a resume: with no run open, it is owned or read.
LEMMA PromotionRead ==
  ASSUME LoopInvariant, Drain, ChosenKind = "promote", st' = CommandStarted(st, Chosen),
         ctl' = Place("promote", Chosen, 0, 0,
                      {k \in st.cmd[Chosen].targets : PromotionNeedsResume(st, k)})
  PROVE  SteersRead'
<1>1. /\ st \in State /\ LogInvariant(st) /\ Sound(st) /\ SlotInvariant
      /\ Chosen \in PendingCommands(st) /\ Chosen \in Cmd /\ Chosen # 0
      /\ st.cmd[Chosen].kind = "promote"
  <2>1. Chosen # 0 /\ st.cmd[Chosen].kind = "promote"
    BY DEF ChosenKind
  <2> QED BY <2>1, LoopFacts, ChosenWaits
<1>2. /\ Passes(st, st', {Chosen}, {Chosen}) /\ SameSlot(st, st')
      /\ PendingMessages(st') = PendingMessages(st)
      /\ st'.cmd[Chosen].targets = st.cmd[Chosen].targets
  <2>1. Chosen \in 1 .. st.ncmd
    BY <1>1, NumbersAreCommands
  <2>2. Passes(st, st', {Chosen}, {Chosen}) /\ Starts(st, st', Chosen)
    BY <1>1, <2>1, StartedPasses
  <2> QED BY <1>1, <2>2 DEF Starts, PendingMessages, Unconsumed
<1>3. Unbacked(st', {}) \subseteq Unbacked(st, {})
  <2>1. /\ Unbacked(st', {}) \subseteq PendingMessages(st)
        /\ PendingMessages(st) \subseteq Known(st)
    BY <1>2 DEF Unbacked, PendingMessages, Unconsumed, Known
  <2>2. st.cmd[Chosen].kind # "resume" /\ ~IsSubmit(st, Chosen)
    BY <1>1 DEF IsSubmit, Submits
  <2>3. \A m \in Known(st) : ~Backs(st, Chosen, m)
    BY <1>1, <2>2, ControlsBackNothing
  <2> QED BY <1>1, <1>2, <2>1, <2>3, UnbackedShrinks
<1>4. OpenRuns(st') = OpenRuns(st) /\ Inherited(st') = Inherited(st)
  BY <1>2, SameSlotViews DEF Inherited, SameSlot
<1>5. /\ ctl'.at = "promote" /\ ctl'.cmd = Chosen
      /\ ctl'.msgs = {k \in st.cmd[Chosen].targets : PromotionNeedsResume(st, k)}
  BY DEF Place
<1>6. ASSUME OpenRuns(st) = {}, NEW k \in st.cmd[Chosen].targets, k \in Unbacked(st, {}),
             ~PromotionNeedsResume(st, k)
      PROVE  k \in Inherited(st)
  <2>1. \A a : OpenRunOf(st, a) = 0
    BY <1>6 DEF OpenRunOf
  <2>2. st.msg[k].known
    BY <1>6 DEF Unbacked, PendingMessages, Unconsumed
  <2>3. k \notin PendingCommands(st) /\ ResumesOf(st, k) = {}
    BY <1>6 DEF Unbacked, Backs, ResumesOf
  <2>4. st.req.id # 0 /\ st.req.work = "Recovery" /\ k \in st.req.inputs
    BY <1>6, <2>1, <2>2, <2>3 DEF PromotionNeedsResume
  <2> QED BY <2>4 DEF Inherited
<1> QED BY <1>2, <1>3, <1>4, <1>5, <1>6 DEF SteersRead

LEMMA DrainControlOwned ==
  LoopInvariant /\ SlotInvariant'
    /\ (DrainCancel \/ DrainPromote \/ DrainStop \/ DrainSteer \/ DrainInactiveStop) => LoopKept
<1> SUFFICES ASSUME LoopInvariant, SlotInvariant',
                    DrainCancel \/ DrainPromote \/ DrainStop \/ DrainSteer \/ DrainInactiveStop
             PROVE  LoopKept
  OBVIOUS
<1>1. Drain /\ SlotInvariant /\ st \in State
  BY LoopFacts
     DEF DrainCancel, DrainPromote, DrainStop, DrainSteer, DrainInactiveStop, IdleDrain, DrainNormally
<1>2. ChosenKind # "none" => Chosen # 0 /\ st.cmd[Chosen].kind = ChosenKind
  BY DEF ChosenKind
<1>3. CASE DrainCancel
  <2>1. /\ st' = CommandStarted(st, Chosen) /\ exec' = Observed /\ ChosenKind = "cancel"
        /\ \/ \E ms : ctl' = Place("cancel", Chosen, 0, 0, ms)
           \/ ctl' = Place("failControl", Chosen, 0, 0, {})
    BY <1>3 DEF DrainCancel, Begin, Goto
  <2>2. ctl'.at \in {"cancel", "failControl"} /\ ctl'.cmd = Chosen
    BY <2>1 DEF Place
  <2> QED BY <1>1, <1>2, <2>1, <2>2, ControlOwned DEF Taken, Reading
<1>4. CASE DrainPromote
  <2> DEFINE resumed == {k \in st.cmd[Chosen].targets : PromotionNeedsResume(st, k)}
  <2>1. /\ st' = CommandStarted(st, Chosen) /\ exec' = Observed /\ ChosenKind = "promote"
        /\ \/ ctl' = Place("promote", Chosen, 0, 0, resumed)
           \/ ctl' = Place("failControl", Chosen, 0, 0, {})
    BY <1>4 DEF DrainPromote, Begin, Goto
  <2>2. ctl'.at \in {"promote", "failControl"} /\ ctl'.cmd = Chosen
    BY <2>1 DEF Place
  <2>3. ctl'.at = "promote" => SteersRead'
    <3>1. Place("failControl", Chosen, 0, 0, {}).at # "promote"
      BY DEF Place
    <3> QED BY <1>1, <2>1, <3>1, PromotionRead
  <2> QED BY <1>1, <1>2, <2>1, <2>2, <2>3, ControlOwned DEF Taken, Reading
<1>5. CASE DrainStop
  <2>1. /\ st' = CommandStarted(st, Chosen) /\ exec' = Observed /\ ChosenKind = "stop"
        /\ ctl' = Place("stopRequest", Chosen, exec.cmd, exec.run, {})
    BY <1>5 DEF DrainStop, Begin, Goto
  <2>2. ctl'.at = "stopRequest" /\ ctl'.cmd = Chosen
    BY <2>1 DEF Place
  <2> QED BY <1>1, <1>2, <2>1, <2>2, ControlOwned DEF Taken, Reading
<1>6. CASE DrainInactiveStop
  <2>1. /\ st' = CommandStarted(st, Chosen) /\ exec' = Observed /\ ChosenKind = "stop"
        /\ ctl' = Place("inactiveStop", Chosen, 0, 0, {})
    BY <1>6 DEF DrainInactiveStop, Begin, Goto
  <2>2. ctl'.at = "inactiveStop" /\ ctl'.cmd = Chosen
    BY <2>1 DEF Place
  <2> QED BY <1>1, <1>2, <2>1, <2>2, ControlOwned DEF Taken, Reading
<1>7. CASE DrainSteer
  <2>1. /\ st' = CommandStarted(st, Chosen) /\ exec' = Observed /\ Working
        /\ ChosenKind \in {"queue", "steer"} /\ ctl' = Place("steer", Chosen, 0, 0, {})
    BY <1>7 DEF DrainSteer, Begin, Goto
  <2>2. ctl'.at = "steer" /\ ctl'.cmd = Chosen
    BY <2>1 DEF Place
  <2>3. Chosen \in 1 .. st.ncmd /\ st.cmd[Chosen].kind # "resume"
    BY <1>1, <1>2, <2>1, ChosenWaits, NumbersAreCommands
  <2>4. OpenRuns(st) # {}
    BY <1>1, <2>1, HeldIsOpen DEF Working
  <2> QED BY <1>1, <2>1, <2>2, <2>3, <2>4, BeginOwned DEF Taken, Reading
<1> QED BY <1>3, <1>4, <1>5, <1>6, <1>7

-----------------------------------------------------------------------------
(* An idle session starts what it finds.                                   *)

\* When every steer has an owner, the idle decision is not Orphaned.
LEMMA OwnedMayStart ==
  ASSUME NEW s \in State, PendingSteers(s) \cap Unbacked(s, {}) = {}
  PROVE  NextIdle(s) # Orphaned
<1> DEFINE pending == PendingCommands(s)
           interrupts == {c \in pending : s.cmd[c].kind = "interrupt"}
           queued == PendingQueue(s) \cap pending
           others == UnpausedWork(s)
<1>0. Orphaned \notin Cmd /\ Orphaned # 0
  BY BoundsAssumption DEF Cmd, Orphaned
<1>1. pending \subseteq Cmd /\ PendingSteers(s) \subseteq Cmd
  BY QueueTypes
<1>2. CASE OwnedSteers(s) # {}
  <2> DEFINE m == Earliest(s, OwnedSteers(s))
  <2>1. m \in OwnedSteers(s)
    BY <1>1, <1>2, EarliestIsMember DEF OwnedSteers
  <2>2. m \in pending \/ ResumesOf(s, m) # {}
    BY <2>1 DEF OwnedSteers
  <2>3. ResumesOf(s, m) # {} => Least(ResumesOf(s, m)) \in pending
    BY <1>1, CmdIsNat, LeastIsMember DEF ResumesOf
  <2>4. NextIdle(s) = IF m \in pending THEN m ELSE Least(ResumesOf(s, m))
    BY <1>2 DEF NextIdle, OwnedSteers
  <2> HIDE DEF m
  <2> QED BY <1>0, <1>1, <2>2, <2>3, <2>4
<1>3. CASE OwnedSteers(s) = {}
  <2>1. PendingSteers(s) = {}
    <3> SUFFICES ASSUME NEW m \in PendingSteers(s) PROVE FALSE
      OBVIOUS
    <3>1. PICK c \in PendingCommands(s) : Backs(s, c, m)
      BY DEF Unbacked, PendingSteers
    <3>2. m \in PendingCommands(s) \/ c \in ResumesOf(s, m)
      BY <3>1 DEF Backs, ResumesOf
    <3> QED BY <1>3, <3>2 DEF OwnedSteers
  <2>2. NextIdle(s) \in Cmd \cup {0}
    <3>1. CASE interrupts # {}
      <4>1. NextIdle(s) = Least(interrupts)
        BY <1>3, <2>1, <3>1 DEF NextIdle
      <4> QED BY <1>1, <3>1, <4>1, CmdIsNat, LeastIsMember
    <3>2. CASE interrupts = {} /\ queued # {}
      <4>1. NextIdle(s) = Earliest(s, queued)
        BY <1>3, <2>1, <3>2 DEF NextIdle
      <4>2. queued \in SUBSET Cmd
        BY <1>1
      <4> QED BY <3>2, <4>1, <4>2, EarliestIsMember
    <3>3. CASE interrupts = {} /\ queued = {}
      <4>1. NextIdle(s) = IF others = {} THEN 0 ELSE Least(others)
        BY <1>3, <2>1, <3>3 DEF NextIdle
      <4>2. others \subseteq Cmd
        BY <1>1 DEF UnpausedWork
      <4> QED BY <4>1, <4>2, CmdIsNat, LeastIsMember
    <3> QED BY <3>1, <3>2, <3>3
  <2> QED BY <1>0, <2>2
<1> QED BY <1>2, <1>3

LEMMA DrainStartOwned == LoopInvariant /\ SlotInvariant' /\ DrainStart => LoopKept
<1> SUFFICES ASSUME LoopInvariant, SlotInvariant', DrainStart PROVE LoopKept
  OBVIOUS
<1> DEFINE c == NextIdle(st)
           pending == {m \in st.cmd[c].targets : Unconsumed(st, m)}
           begins == ActiveCommand(st) = 0 /\ c \in Cmd
<1>1. /\ Drain /\ ctl.at = "ready" /\ grant = NoGrant /\ exec.tag = "Idle" /\ st.req.id = 0
      /\ exec' = exec
      /\ ctl' = IF ActiveCommand(st) # 0 \/ c = Orphaned THEN Free("dead")
                ELSE IF c = 0 THEN Free("park")
                ELSE IF st.cmd[c].kind # "resume" THEN Place("start", c, 0, 0, {})
                ELSE IF pending # {} THEN Place("startResume", c, 0, 0, pending)
                ELSE Place("inactiveStop", c, 0, 0, {})
      /\ st' = IF begins /\ st.cmd[c].kind = "resume" /\ pending = {}
                 THEN CommandStarted(st, c) ELSE st
  BY DEF DrainStart, IdleDrain, DrainNormally, Drain, Working, Reserved, Goto
<1>2. /\ st \in State /\ LogInvariant(st) /\ Sound(st) /\ SteersOwned(st) /\ ActiveHeld
      /\ OpenRuns(st) = {}
  BY <1>1, LoopFacts, SlotFacts DEF Closing
<1>3. ActiveCommands(st) = {} /\ ActiveCommand(st) = 0
  BY <1>1, <1>2 DEF ActiveHeld, Held, Closing, Taken, ActiveCommand
<1>4. c # Orphaned
  BY <1>1, <1>2, OwnedMayStart DEF SteersOwned, Inherited
<1>5. c \in Cmd \cup {0}
  BY <1>2, <1>4, NextIdleType, QueueTypes
<1>6. c \in Cmd => c \in 1 .. st.ncmd
  BY <1>2, NextIdleMayStart DEF PendingCommands
<1>7. 0 \notin Cmd
  BY BoundsAssumption DEF Cmd
<1> HIDE DEF c
<1>8. CASE \/ ctl' = Free("park") \/ ctl' = Place("start", c, 0, 0, {})
           \/ ctl' = Place("startResume", c, 0, 0, pending)
  <2>1. ctl'.at \in {"park", "start", "startResume"}
    BY <1>8 DEF Free, Place
  <2>2. st' = st
    <3>1. ~(c \in Cmd /\ st.cmd[c].kind = "resume" /\ pending = {})
      <4> SUFFICES ASSUME c \in Cmd, st.cmd[c].kind = "resume", pending = {} PROVE FALSE
        OBVIOUS
      <4>1. ctl' = Place("inactiveStop", c, 0, 0, {})
        BY <1>1, <1>3, <1>4, <1>7
      <4>2. ctl'.at = "inactiveStop"
        BY <4>1 DEF Place
      <4> QED BY <2>1, <4>2
    <3> HIDE DEF pending
    <3> QED BY <1>1, <3>1
  <2> QED BY <1>2, <1>3, <2>1, <2>2, SameLogIsSlot, DecidedOwned DEF Taken, Reading
<1>9. CASE ctl' = Place("inactiveStop", c, 0, 0, {}) /\ c # 0 /\ st.cmd[c].kind = "resume" /\ pending = {}
  <2>1. ctl'.at = "inactiveStop" /\ ctl'.cmd = c
    BY <1>9 DEF Place
  <2>2. c \in 1 .. st.ncmd /\ c \in Cmd /\ st' = CommandStarted(st, c)
    BY <1>1, <1>3, <1>5, <1>6, <1>9
  <2>3. Gone(st, c)
    BY <1>9 DEF Gone, PendingMessages
  <2>4. \A m \in PendingMessages(st) : ~Backs(st, c, m)
    <3>1. c \notin PendingMessages(st)
      BY <1>2, <1>9, <2>2 DEF PendingMessages, Unconsumed, LogInvariant, Messages, IsSubmit, Submits
    <3> QED BY <2>3, <3>1 DEF Backs, Gone
  <2> QED BY <1>1, <2>1, <2>2, <2>3, <2>4, BeginOwned DEF Taken, Reading
<1> QED BY <1>1, <1>3, <1>4, <1>8, <1>9

-----------------------------------------------------------------------------
(* Starting work: the slot is taken for what is active.                    *)

LEMMA SlotTaken ==
  ASSUME SlotInvariant', Sound(st'), ctl'.at \notin {"boot", "hydrated", "dead"} \cup Taken \cup Reading,
         ctl'.at \in Closing \/ exec'.tag # "Idle" \/ grant' # NoGrant,
         \A c \in ActiveCommands(st') : Held(c)'
  PROVE  LoopKept
<1>1. SteersOwned(st')
  BY HeldIsOpenNext
<1> QED BY <1>1, Assembled

\* Away from an execution, only a reserved recovery may have an active command.
LEMMA OnlyReserved ==
  ASSUME LoopInvariant, exec.tag = "Idle", grant = NoGrant,
         ctl.at \notin Closing \cup Taken \cup {"boot", "hydrated"}
  PROVE  \A c \in ActiveCommands(st) : /\ st.req.id # 0 /\ st.req.work = "Recovery"
                                       /\ c = st.req.cmd
BY LoopFacts DEF ActiveHeld, Held, Closing

LEMMA TurnOwned == LoopInvariant /\ SlotInvariant' /\ (StartTurn \/ StartGrantedTurn) => LoopKept
<1> SUFFICES ASSUME LoopInvariant, SlotInvariant', StartTurn \/ StartGrantedTurn PROVE LoopKept
  OBVIOUS
<1>1. st \in State /\ Sound(st) /\ ActiveHeld /\ SlotInvariant /\ Memory
  BY LoopFacts
<1>2. \E r, c, inputs :
        /\ st.nturn < MaxTurn /\ st' = TurnStarted(st, r, inputs)
        /\ exec' = Running(c, r, st.nturn + 1) /\ Holds(st, r, c) /\ ctl'.at \in Ungated
        /\ \A d \in ActiveCommands(st) : d = c
  <2>1. CASE StartTurn
    <3>1. /\ ctl.at = "turn" /\ st.nturn < MaxTurn
          /\ st' = TurnStarted(st, ctl.run, ctl.msgs)
          /\ exec' = Running(ctl.cmd, ctl.run, st.nturn + 1) /\ ctl' = Free("ready")
      BY <2>1 DEF StartTurn, Goto
    <3>2. ctl'.at \in Ungated
      BY <3>1 DEF Free, Place, Ungated
    <3>3. grant = NoGrant /\ st.req.id = 0
      BY <1>1, <3>1, SlotFacts, HeldIsOpen DEF Ungated, Closing
    <3>4. ctl.cmd = ctl.active /\ Holds(st, ctl.run, ctl.cmd)
      BY <1>1, <3>1 DEF Memory, CtlHolds, Closing
    <3>5. \A d \in ActiveCommands(st) : d = ctl.cmd
      BY <1>1, <3>1, <3>3, <3>4 DEF ActiveHeld, Held, Closing, Taken
    <3> QED BY <3>1, <3>2, <3>4, <3>5
  <2>2. CASE StartGrantedTurn
    <3>1. /\ grant # NoGrant /\ st.nturn < MaxTurn
          /\ st' = TurnStarted(st, grant.run, grant.msgs)
          /\ exec' = Running(grant.cmd, grant.run, st.nturn + 1) /\ ctl' = ctl
      BY <2>2 DEF StartGrantedTurn, UnchangedByScheduling
    <3>2. /\ ctl.at \in Ungated /\ exec.tag = "Idle" /\ Holds(st, grant.run, grant.cmd)
          /\ st.req.id = 0
      BY <1>1, <3>1, HeldIsOpen DEF Memory, GrantHolds
    <3>3. \A d \in ActiveCommands(st) : d = grant.cmd
      BY <1>1, <3>2 DEF ActiveHeld, Held, Closing, Taken, Ungated
    <3> QED BY <3>1, <3>2, <3>3
  <2> QED BY <2>1, <2>2
<1> PICK r, c, inputs : /\ st.nturn < MaxTurn /\ st' = TurnStarted(st, r, inputs)
                        /\ exec' = Running(c, r, st.nturn + 1) /\ Holds(st, r, c)
                        /\ ctl'.at \in Ungated /\ \A d \in ActiveCommands(st) : d = c
  BY <1>2
<1>3. r \in Run
  BY DEF Holds, OpenRuns
<1>4. OpensTurn(st, st', r, inputs)
  BY <1>1, <1>3, TurnStartedEffect
<1>5. Sound(st') /\ ActiveCommands(st') \subseteq ActiveCommands(st)
  BY <1>1, <1>4, TurnPasses DEF Passes
<1>6. exec'.cmd = c /\ exec'.tag # "Idle"
  BY DEF Running
<1>7. \A d \in ActiveCommands(st') : Held(d)'
  BY <1>5, <1>6 DEF Held, Ungated, Closing
<1> QED BY <1>5, <1>6, <1>7, SlotTaken DEF Ungated, Taken, Reading

\* A command starts, with the message it may bring along.
LEMMA BegunPasses ==
  ASSUME NEW s \in State, Sound(s), NEW c \in 1 .. s.ncmd, NEW begin \in BOOLEAN, NEW late \in BOOLEAN,
         late => ~s.msg[c].known /\ s.msg[c].consumed = 0
  PROVE  LET s1 == IF begin THEN CommandStarted(s, c) ELSE s
             s2 == IF late THEN UserMessageCommitted(s1, c) ELSE s1
         IN Passes(s, s2, {c}, {c}) /\ s2.nrun = s.nrun
<1> DEFINE s1 == IF begin THEN CommandStarted(s, c) ELSE s
           s2 == IF late THEN UserMessageCommitted(s1, c) ELSE s1
<1>1. c \in Cmd
  BY NumbersAreCommands
<1>2. Passes(s, s1, {c}, {c}) /\ s1.msg = s.msg /\ s1.nrun = s.nrun
  <2>1. CASE begin
    <3>1. s1 = CommandStarted(s, c)
      BY <2>1
    <3>2. Passes(s, s1, {c}, {c}) /\ Starts(s, s1, c)
      BY <3>1, StartedPasses
    <3> QED BY <3>2 DEF Starts, SameSlot
  <2>2. CASE ~begin
    BY <2>2, PassesIsReflexive DEF Passes
  <2> QED BY <2>1, <2>2
<1> HIDE DEF s1
<1>3. Passes(s1, s2, {}, {}) /\ s2.nrun = s1.nrun
  <2>1. s1 \in State /\ Sound(s1)
    BY <1>2 DEF Passes
  <2>2. CASE late
    <3>1. s2 = UserMessageSubmitted(s1, c, "unset")
      BY <2>2 DEF UserMessageCommitted
    <3>2. ~s1.msg[c].known /\ s1.msg[c].consumed = 0
      BY <1>2, <2>2
    <3>3. Passes(s1, s2, {}, {}) /\ OnlyMessages(s1, s2)
      BY <1>1, <2>1, <3>1, <3>2, SubmittedPasses, SubmittedEffect
    <3> QED BY <3>3 DEF OnlyMessages, SameSlot
  <2>3. CASE ~late
    BY <2>1, <2>3, PassesIsReflexive
  <2> QED BY <2>2, <2>3
<1> HIDE DEF s2
<1>4. Passes(s, s2, {c} \cup {}, {c} \cup {})
  BY <1>2, <1>3, PassesIsTransitive
<1>5. Passes(s, s2, {c}, {c}) /\ s2.nrun = s.nrun
  BY <1>2, <1>3, <1>4
<1> QED BY <1>5 DEF s1, s2

\* The run of a command that starts is opened.
LEMMA StartOwned == LoopInvariant /\ SlotInvariant' /\ (StartSubmit \/ StartResume) => LoopKept
<1> SUFFICES ASSUME LoopInvariant, SlotInvariant', StartSubmit \/ StartResume PROVE LoopKept
  OBVIOUS
<1> DEFINE c  == ctl.cmd
           late == StartSubmit /\ ~st.msg[c].known
           s1 == IF TRUE THEN CommandStarted(st, c) ELSE st
           s2 == IF late THEN UserMessageCommitted(s1, c) ELSE s1
           of == IF StartSubmit THEN {c} ELSE {c} \cup ctl.msgs
<1>1. /\ st \in State /\ Sound(st) /\ SlotInvariant /\ Memory /\ LogInvariant(st)
      /\ ctl.at \in {"start", "startResume"} /\ st.nrun < MaxRun /\ st' = RunStarted(s2, of)
      /\ \E ms : ctl' = Place("turn", c, c, st.nrun + 1, ms)
  BY LoopFacts DEF StartSubmit, StartResume, Goto, TurnPlace
<1>2. exec = NoExec /\ exec.tag = "Idle" /\ grant = NoGrant
  BY <1>1, SlotFacts DEF Executing, Ungated
<1>3. c \in 1 .. st.ncmd /\ c \in Cmd /\ st.req.id = 0 /\ ctl.msgs \in SUBSET Cmd
  <2>1. c \in PendingCommands(st) /\ st.req.id = 0
    BY <1>1 DEF Memory, TakenCommand, Awaited
  <2>2. ctl.msgs \in SUBSET Cmd
    BY <1>1, CtlFields DEF SlotInvariant
  <2> QED BY <1>1, <2>1, <2>2, NumbersAreCommands
<1>4. \A d \in ActiveCommands(st) : FALSE
  BY <1>1, <1>2, <1>3, OnlyReserved DEF Closing, Taken
<1>5. late \in BOOLEAN /\ late => ~st.msg[c].known /\ st.msg[c].consumed = 0
  BY <1>1, <1>3 DEF LogInvariant, Messages
<1> HIDE DEF c, late
<1>6. Passes(st, s2, {c}, {c}) /\ s2.nrun = st.nrun
  BY <1>1, <1>3, <1>5, BegunPasses
<1>7. of \in SUBSET Cmd
  BY <1>3
<1> HIDE DEF s2, of
<1>8. Sound(st') /\ ActiveCommands(st') = ActiveCommands(s2)
  <2>1. s2 \in State /\ Sound(s2) /\ s2.nrun < MaxRun
    BY <1>1, <1>6 DEF Passes
  <2>2. OnlySlot(s2, st')
    BY <1>1, <1>7, <2>1, RunStartedEffect
  <2> QED BY <2>1, <2>2, SlotPasses DEF Passes
<1>9. ctl'.at = "turn" /\ ctl'.active = c
  BY <1>1 DEF Place
<1>10. \A d \in ActiveCommands(st') : Held(d)'
  BY <1>4, <1>6, <1>8, <1>9 DEF Held, Closing, Passes
<1> QED BY <1>8, <1>9, <1>10, SlotTaken DEF Closing, Taken, Reading

LEMMA ClosedIsSlot ==
  ASSUME NEW s \in State, NEW id
  PROVE  OnlySlot(s, RunSchedulingClosed(s, id)) /\ RunSchedulingClosed(s, id).nrun = s.nrun
<1>1. RunSchedulingClosed(s, id) \in State
  BY RunSchedulingClosedType
<1> QED BY <1>1 DEF RunSchedulingClosed, State, OnlySlot, SameOrders

\* A reservation that is granted hands its command to the grant.
LEMMA GrantOwned ==
  ASSUME LoopInvariant, SlotInvariant', NEW id, Grant(id)
  PROVE  LoopKept
<1> DEFINE c      == st.req.cmd
           begin  == st.req.work = "Command"
           late   == st.req.work = "Command" /\ LateMessage(st, c)
           inputs == RequestInputs(st) \cup (IF late THEN {c} ELSE {})
           of     == IF st.req.work = "Recovery" THEN st.run[st.req.run].of
                     ELSE {c} \cup (IF st.cmd[c].kind = "resume" THEN inputs ELSE {})
           s1     == IF begin THEN CommandStarted(st, c) ELSE st
           s2     == IF late THEN UserMessageCommitted(s1, c) ELSE s1
           s3     == RunSchedulingClosed(s2, id)
           n      == st.nrun + 1
<1>1. /\ ctl.at \in Ungated /\ grant = NoGrant /\ CanGrant(st, id) /\ st.nrun < MaxRun
      /\ st' = RunStarted(s3, of) /\ grant' = Place("turn", c, c, n, inputs)
      /\ exec' = exec /\ ctl' = ctl
  BY DEF Grant, GateFree, TurnPlace, UnchangedByScheduling
<1>2. /\ st \in State /\ LogInvariant(st) /\ Sound(st) /\ OpenRuns(st) = {} /\ st.req.id # 0
      /\ exec.tag = "Idle" /\ ActiveHeld
  BY <1>1, LoopFacts, SlotFacts DEF CanGrant, IsCurrent
<1>3. c \in 1 .. st.ncmd /\ c \in Cmd
  BY <1>2, RequestInputsType DEF LogInvariant, Reservable
<1>4. \A d \in ActiveCommands(st) : d = c
  BY <1>1, <1>2, OnlyReserved DEF Closing, Taken, Ungated
<1>5. /\ begin \in BOOLEAN /\ late \in BOOLEAN
      /\ late => ~st.msg[c].known /\ st.msg[c].consumed = 0
  BY <1>2, <1>3 DEF LateMessage, LogInvariant, Messages
<1>6. of \in SUBSET Cmd
  <2>1. RequestInputs(st) \in SUBSET Cmd /\ (st.req.work = "Recovery" => st.req.run \in Run)
    BY <1>2, RequestInputsType
  <2>2. inputs \in SUBSET Cmd
    <3> HIDE DEF c, late
    <3> QED BY <1>3, <2>1
  <2>3. st.req.work = "Recovery" => st.run[st.req.run].of \in SUBSET Cmd
    BY <1>2, <2>1, StateFields DEF RunRecord
  <2> HIDE DEF inputs, c
  <2> QED BY <1>3, <2>2, <2>3
<1> HIDE DEF c, begin, late, of, inputs
<1>7. Passes(st, s2, {c}, {c}) /\ s2.nrun = st.nrun
  BY <1>2, <1>3, <1>5, BegunPasses
<1> HIDE DEF s2
<1>8. OnlySlot(s2, s3) /\ s3.nrun = st.nrun /\ s2 \in State /\ Sound(s2)
  BY <1>7, ClosedIsSlot DEF Passes
<1> HIDE DEF s3
<1>9. Sound(st') /\ ActiveCommands(st') = ActiveCommands(s2)
  <2>1. s3 \in State /\ Sound(s3) /\ ActiveCommands(s3) = ActiveCommands(s2)
    BY <1>8, SlotPasses DEF Passes
  <2>2. OnlySlot(s3, st')
    BY <1>1, <1>6, <1>8, <2>1, RunStartedEffect
  <2> QED BY <2>1, <2>2, SlotPasses DEF Passes
<1>10. grant'.cmd = c /\ grant' # NoGrant
  BY <1>1 DEF Place, NoGrant, Free
<1>11. \A d \in ActiveCommands(st') : Held(d)'
  BY <1>4, <1>7, <1>9, <1>10 DEF Held, Passes
<1> QED BY <1>1, <1>9, <1>10, <1>11, SlotTaken DEF Ungated, Taken, Reading

LEMMA DeferOwned == LoopInvariant /\ SlotInvariant' /\ Defer => LoopKept
<1> SUFFICES ASSUME LoopInvariant, SlotInvariant', Defer PROVE LoopKept
  OBVIOUS
<1>1. /\ st \in State /\ Sound(st) /\ SteersOwned(st) /\ SlotInvariant /\ Memory /\ LogInvariant(st)
      /\ ctl.at = "defer" /\ ctl' = Free("park")
      /\ st' = RunSchedulingRequested(st, "Command", ctl.cmd, 0, {})
  BY LoopFacts DEF Defer, Finish, Goto
<1>2. exec.tag = "Idle" /\ grant = NoGrant /\ OpenRuns(st) = {}
  BY <1>1, SlotFacts DEF Executing, Ungated, Closing
<1>3. st.req.id = 0 /\ ctl.cmd \in Cmd
  <2>1. ctl.cmd \in PendingCommands(st) /\ st.req.id = 0
    BY <1>1 DEF Memory, TakenCommand, Awaited
  <2> QED BY <1>1, <2>1, NumbersAreCommands
<1>4. \A d \in ActiveCommands(st) : FALSE
  BY <1>1, <1>2, <1>3, OnlyReserved DEF Closing, Taken
<1>5. OnlySlot(st, st') /\ st'.req.work = "Command" /\ OpenRuns(st') = OpenRuns(st)
  <2>1. st' \in State
    BY <1>1, <1>3, RunSchedulingRequestedType
  <2> QED BY <1>1, <2>1 DEF RunSchedulingRequested, State, OnlySlot, SameOrders, OpenRuns
<1>6. /\ Sound(st') /\ PendingSteers(st') = PendingSteers(st)
      /\ ActiveCommands(st') = ActiveCommands(st)
  BY <1>1, <1>5, SlotPasses DEF Passes
<1>7. Unbacked(st', {}) = Unbacked(st, {})
  BY <1>1, <1>5, SlotUnbacked
<1>8. SteersOwned(st')
  BY <1>1, <1>2, <1>3, <1>6, <1>7 DEF SteersOwned, Inherited
<1>9. ctl'.at = "park"
  BY <1>1 DEF Free, Place
<1> QED BY <1>4, <1>6, <1>8, <1>9, Assembled DEF Taken, Reading

-----------------------------------------------------------------------------
(* The appends that finish what a drain began.                             *)

\* A fold without admissions of messages: nothing becomes a steer, and only L stops backing.
Settles(s, s1, L) == Passes(s, s1, L, {}) /\ Calm(s, s1) /\ Known(s1) = Known(s)

LEMMA SettlesIsTransitive ==
  ASSUME NEW s \in State, NEW s1, NEW s2, NEW L, NEW L2, Settles(s, s1, L), Settles(s1, s2, L2)
  PROVE  Settles(s, s2, L \cup L2)
<1>1. Passes(s, s2, L \cup L2, {} \cup {}) /\ Calm(s, s2)
  BY PassesIsTransitive DEF Settles
<1>2. Passes(s, s2, L \cup L2, {})
  BY <1>1
<1> QED BY <1>1, <1>2 DEF Settles

LEMMA SettlesKeepsSteers ==
  ASSUME NEW s \in State, NEW s1, NEW L, NEW X, Settles(s, s1, L),
         \A c \in L : \A m \in Unbacked(s1, X) : ~Backs(s, c, m)
  PROVE  /\ PendingSteers(s1) \cap Unbacked(s1, X) \subseteq PendingSteers(s) \cap Unbacked(s, X)
         /\ Unbacked(s1, X) \subseteq Unbacked(s, X)
<1>1. Unbacked(s1, X) \subseteq Known(s)
  BY DEF Settles, Unbacked, PendingMessages, Unconsumed, Known
<1> QED BY <1>1, UnbackedShrinks DEF Settles

LEMMA SlotSettles ==
  ASSUME NEW s \in State, Sound(s), NEW s1, OnlySlot(s, s1)
  PROVE  Settles(s, s1, {})
<1>1. Known(s1) = Known(s)
  BY DEF OnlySlot, Known
<1> QED BY <1>1, SlotPasses DEF Settles

LEMMA EndedSettles ==
  ASSUME NEW s \in State, Sound(s), NEW c \in 1 .. s.ncmd,
         NEW o \in {"Completed", "Failed", "Cancelled"}
  PROVE  LET s1 == CommandTerminal(s, c, o) IN
         /\ Settles(s, s1, {c}) /\ (s.cmd[c].started => Settles(s, s1, {}))
         /\ SameSlot(s, s1) /\ s1.msg = s.msg /\ s1.ncmd = s.ncmd
         /\ ActiveCommands(s1) \subseteq ActiveCommands(s) \ {c}
<1> DEFINE s1 == CommandTerminal(s, c, o)
<1>1. /\ Passes(s, s1, {c}, {}) /\ Calm(s, s1) /\ Ends(s, s1, c, o)
      /\ s.cmd[c].started => Passes(s, s1, {}, {})
      /\ s1.cmd[c].terminal # "none"
  BY EndedPasses
<1> HIDE DEF s1
<1>2. SameSlot(s, s1) /\ s1.msg = s.msg /\ s1.ncmd = s.ncmd /\ Known(s1) = Known(s)
  BY <1>1 DEF Ends, Known
<1>3. ActiveCommands(s1) \subseteq ActiveCommands(s) \ {c}
  BY <1>1 DEF Passes, ActiveCommands
<1> QED BY <1>1, <1>2, <1>3 DEF Settles, s1

\* What happens to stops passes everything else by.
LEMMA StopSettles ==
  ASSUME NEW s \in State, Sound(s), NEW s1 \in State, SameSlot(s, s1), s1.cmd = s.cmd,
         s1.ncmd = s.ncmd, s1.msg = s.msg,
         \A c \in Cmd : s1.stop[c].status = "requested" /\ s1.stop[c].run # 0 => s1.stop[c].turn # 0
  PROVE  Settles(s, s1, {}) /\ ActiveCommands(s1) = ActiveCommands(s)
<1>1. s.ncmd \in Nat
  BY StateFields
<1>2. /\ Known(s1) = Known(s) /\ PendingMessages(s1) = PendingMessages(s)
      /\ PendingSteers(s1) = PendingSteers(s)
  BY DEF Known, PendingMessages, PendingSteers, Unconsumed, Disposition
<1>3. PendingCommands(s1) = PendingCommands(s) /\ ActiveCommands(s1) = ActiveCommands(s)
  BY DEF PendingCommands, ActiveCommands
<1>4. Sound(s1)
  BY <1>2 DEF Sound
<1> QED BY <1>1, <1>2, <1>3, <1>4 DEF Settles, Passes, Calm

\* The command that a drain has started ends, and the control fiber is ready again.
LEMMA TakenOwned ==
  ASSUME LoopInvariant, SlotInvariant', ctl.at \in Taken, ctl' = Free("ready"), exec' = exec,
         Sound(st'), SteersOwned(st'), ActiveCommands(st') \subseteq ActiveCommands(st) \ {ctl.cmd},
         \A c \in ActiveCommands(st') :
           st.req.id # 0 /\ st.req.work = "Recovery" /\ c = st.req.cmd =>
             st'.req.id # 0 /\ st'.req.work = "Recovery" /\ c = st'.req.cmd
  PROVE  LoopKept
<1>1. ActiveHeld /\ SlotInvariant
  BY LoopFacts
<1>2. grant = NoGrant
  BY <1>1, SlotFacts DEF Taken, Ungated
<1>3. ctl'.at = "ready"
  BY ReadyPlace
<1>4. ctl.at \notin Closing \cup {"boot", "hydrated", "interruption"}
  BY DEF Taken, Closing
<1>5. \A c \in ActiveCommands(st') : Held(c)'
  BY <1>1, <1>2, <1>3, <1>4 DEF ActiveHeld, Held, Closing
<1> QED BY <1>3, <1>5, Assembled DEF Taken, Reading

LEMMA TakenCommandIsNumbered ==
  ASSUME LoopInvariant, ctl.at \in Taken
  PROVE  /\ ctl.cmd \in 1 .. st.ncmd /\ ctl.cmd \in Cmd /\ st.cmd[ctl.cmd].started
         /\ st.req.id # 0 => ctl.cmd # st.req.cmd
<1>1. ctl.cmd \in ActiveCommands(st) /\ (st.req.id # 0 => ctl.cmd # st.req.cmd)
  BY LoopFacts, TakenEnds
<1>2. ActiveCommands(st) \subseteq 1 .. st.ncmd
  BY LoopFacts, NumbersAreCommands
<1> QED BY <1>1, <1>2 DEF ActiveCommands

LEMMA SettledIsOwned ==
  ASSUME NEW s \in State, SteersOwned(s), NEW s1, Settles(s, s1, {}), SameSlot(s, s1)
  PROVE  SteersOwned(s1)
<1>1. OpenRuns(s1) = OpenRuns(s) /\ Inherited(s1) = Inherited(s)
  BY SameSlotViews DEF Inherited, SameSlot
<1>2. PendingSteers(s1) \cap Unbacked(s1, {}) \subseteq PendingSteers(s) \cap Unbacked(s, {})
  BY SettlesKeepsSteers
<1> QED BY <1>1, <1>2 DEF SteersOwned

LEMMA FinishOwned ==
  LoopInvariant /\ SlotInvariant' /\ (CompleteSteer \/ FailControl \/ CancelInactiveStop \/ ApplyStop)
    => LoopKept
<1> SUFFICES ASSUME LoopInvariant, SlotInvariant',
                    CompleteSteer \/ FailControl \/ CancelInactiveStop \/ ApplyStop
             PROVE  LoopKept
  OBVIOUS
<1> DEFINE s1 == IF ApplyStop THEN StopTurnApplied(st, ctl.cmd) ELSE st
<1>1. /\ ctl.at \in Taken /\ exec' = exec /\ ctl' = Free("ready")
      /\ \E o \in {"Completed", "Failed", "Cancelled"} : st' = CommandTerminal(s1, ctl.cmd, o)
  BY DEF CompleteSteer, FailControl, CancelInactiveStop, ApplyStop, Taken, Finish, Goto
<1>2. /\ st \in State /\ LogInvariant(st) /\ Sound(st) /\ SteersOwned(st)
      /\ ctl.cmd \in 1 .. st.ncmd /\ ctl.cmd \in Cmd /\ st.cmd[ctl.cmd].started
  BY <1>1, LoopFacts, TakenCommandIsNumbered
<1>3. /\ s1 \in State /\ SameSlot(st, s1) /\ s1.cmd = st.cmd /\ s1.ncmd = st.ncmd
      /\ Settles(st, s1, {}) /\ ActiveCommands(s1) = ActiveCommands(st)
  <2>1. CASE ApplyStop
    <3>1. s1 = StopTurnApplied(st, ctl.cmd)
      BY <2>1
    <3> HIDE DEF s1
    <3>2. /\ s1 \in State /\ SameSlot(st, s1) /\ s1.cmd = st.cmd /\ s1.ncmd = st.ncmd
          /\ s1.msg = st.msg
      BY <1>2, <3>1, StopAppliedKeeps
    <3>3. \A c \in Cmd : s1.stop[c].status = "requested" => s1.stop[c] = st.stop[c]
      <4>1. st.stop \in [Cmd -> StopRecord]
        BY <1>2, StateFields
      <4>2. s1.stop = [st.stop EXCEPT ![ctl.cmd].status = "applied"]
        BY <3>1 DEF StopTurnApplied, State
      <4> QED BY <1>2, <4>1, <4>2 DEF StopRecord
    <3>4. \A c \in Cmd : s1.stop[c].status = "requested" /\ s1.stop[c].run # 0 => s1.stop[c].turn # 0
      BY <1>2, <3>3 DEF Sound
    <3> QED BY <1>2, <3>2, <3>4, StopSettles
  <2>2. CASE ~ApplyStop
    <3>1. s1 = st
      BY <2>2
    <3> QED BY <1>2, <3>1, PassesIsReflexive DEF Settles, SameSlot
  <2> QED BY <2>1, <2>2
<1> HIDE DEF s1
<1>4. Sound(s1) /\ s1.cmd[ctl.cmd].started
  BY <1>2, <1>3 DEF Settles, Passes
<1>5. /\ Settles(s1, st', {}) /\ SameSlot(s1, st')
      /\ ActiveCommands(st') \subseteq ActiveCommands(st) \ {ctl.cmd}
  <2>1. PICK o \in {"Completed", "Failed", "Cancelled"} : st' = CommandTerminal(s1, ctl.cmd, o)
    BY <1>1
  <2>2. ctl.cmd \in 1 .. s1.ncmd /\ s1 \in State
    BY <1>2, <1>3
  <2>3. /\ Settles(s1, st', {}) /\ SameSlot(s1, st')
        /\ ActiveCommands(st') \subseteq ActiveCommands(s1) \ {ctl.cmd}
    BY <1>4, <2>1, <2>2, EndedSettles
  <2> QED BY <1>3, <2>3
<1>6. SteersOwned(s1)
  BY <1>2, <1>3, SettledIsOwned
<1>7. SteersOwned(st')
  BY <1>3, <1>5, <1>6, SettledIsOwned
<1>8. Sound(st')
  BY <1>5 DEF Settles, Passes
<1>9. st'.req = st.req
  BY <1>3, <1>5 DEF SameSlot
<1> QED BY <1>1, <1>5, <1>7, <1>8, <1>9, TakenOwned

\* A stop that names no turn names no run.
LEMMA RequestStopOwned == LoopInvariant /\ SlotInvariant' /\ RequestStop => LoopKept
<1> SUFFICES ASSUME LoopInvariant, SlotInvariant', RequestStop PROVE LoopKept
  OBVIOUS
<1> DEFINE r == LastRunOf(st, ctl.active)
           t == IF r = 0 THEN 0 ELSE LastTurnOf(st, r)
           q == IF t = 0 THEN 0 ELSE r
<1>1. /\ ctl.at = "stopRequest" /\ ctl.at \in Taken /\ st' = StopTurnRequested(st, ctl.cmd, q, t)
      /\ ctl' = [ctl EXCEPT !.at = "stopClose"] /\ exec' = exec /\ grant' = grant
  BY DEF RequestStop, Finish, Goto, UnchangedByControl, Taken
<1>2. /\ st \in State /\ LogInvariant(st) /\ Sound(st) /\ TypeOK /\ ActiveHeld /\ SlotInvariant
      /\ ctl.cmd \in Cmd
  BY <1>1, LoopFacts, TakenCommandIsNumbered
<1>3. q \in Run \cup {0} /\ t \in Turn \cup {0} /\ (q # 0 => t # 0)
  BY <1>2, LastRunAndTurnTypes
<1> HIDE DEF q, t
<1>4. /\ st.cmd[ctl.cmd].kind = "stop" /\ st.cmd[ctl.cmd].started /\ exec.tag # "Idle"
      /\ grant = NoGrant
  BY <1>1, <1>2, AtStop
<1>5. /\ st' \in State /\ SameSlot(st, st') /\ st'.cmd = st.cmd /\ st'.ncmd = st.ncmd
      /\ st'.msg = st.msg
  BY <1>1, <1>2, <1>3, <1>4, StopRequestedKeeps
<1>6. \A c \in Cmd : \/ st'.stop[c] = st.stop[c]
                     \/ st'.stop[c].run = q /\ st'.stop[c].turn = t
  <2>1. st.stop \in [Cmd -> StopRecord]
    BY <1>2, StateFields
  <2>2. st'.stop = [st.stop EXCEPT ![ctl.cmd] = [status |-> "requested", run |-> q, turn |-> t]]
    BY <1>1 DEF StopTurnRequested, State
  <2> QED BY <1>2, <2>1, <2>2
<1>7. \A c \in Cmd : st'.stop[c].status = "requested" /\ st'.stop[c].run # 0 => st'.stop[c].turn # 0
  BY <1>2, <1>3, <1>6 DEF Sound
<1>8. Settles(st, st', {}) /\ ActiveCommands(st') = ActiveCommands(st)
  BY <1>2, <1>5, <1>7, StopSettles
<1>9. SteersOwned(st') /\ Sound(st')
  BY <1>2, <1>5, <1>8, SettledIsOwned, LoopFacts DEF Settles, Passes
<1>10. ctl'.at = "stopClose" /\ ctl'.cmd = ctl.cmd
  BY <1>1, <1>2, MovedPlace
<1>11. \A c \in ActiveCommands(st') : Held(c)'
  <2>1. st'.req = st.req
    BY <1>5 DEF SameSlot
  <2> QED BY <1>1, <1>2, <1>8, <1>10, <2>1 DEF ActiveHeld, Held, Closing, Taken
<1> QED BY <1>4, <1>5, <1>9, <1>10, <1>11, Assembled DEF Taken, Reading

\* A promoted message is backed by its own command, by a resume, or by the new one.
LEMMA PromoteOwned == LoopInvariant /\ SlotInvariant' /\ CommitPromote => LoopKept
<1> SUFFICES ASSUME LoopInvariant, SlotInvariant', CommitPromote PROVE LoopKept
  OBVIOUS
<1> DEFINE c  == ctl.cmd
           m  == Target(c)
           s1 == UserMessagePromoted(st, m)
           s2 == IF ctl.msgs = {} THEN s1 ELSE CommandAdmitted(s1, "resume", ctl.msgs)
<1>1. /\ ctl.at = "promote" /\ ctl.at \in Taken /\ st.ncmd < MaxCmd /\ exec' = exec
      /\ ctl' = Free("ready") /\ st' = CommandTerminal(s2, c, "Completed")
  BY DEF CommitPromote, Finish, Goto, Taken
<1>2. /\ st \in State /\ LogInvariant(st) /\ Sound(st) /\ SteersOwned(st) /\ SlotInvariant
      /\ c \in 1 .. st.ncmd /\ c \in Cmd /\ st.cmd[c].started
  BY <1>1, LoopFacts, TakenCommandIsNumbered
<1>3. /\ st.cmd[c].targets = {m} /\ m \in Cmd /\ m \in Known(st) /\ st.msg[m].consumed = 0
      /\ ctl.msgs \subseteq {m}
      /\ OpenRuns(st) = {} => ({m} \ ctl.msgs) \cap Unbacked(st, {}) \subseteq Inherited(st)
  <2>1. st.cmd[c].kind = "promote"
    BY <1>1, LoopFacts DEF Memory, TargetUnconsumed
  <2>2. st.cmd[c].targets = {m} /\ m \in Cmd
    BY <1>2, <2>1, TargetIsNamed
  <2>3. st.msg[m].known /\ st.msg[m].consumed = 0
    BY <1>1, <2>2, LoopFacts DEF Memory, TargetUnconsumed
  <2> QED BY <1>1, <2>2, <2>3, LoopFacts DEF SteersRead, Known
<1> HIDE DEF c, m
<1>4. /\ Passes(st, s1, {}, {}) /\ PendingSteers(s1) \subseteq PendingSteers(st) \cup {m}
      /\ SameSlot(st, s1) /\ Known(s1) = Known(st) /\ SameOrders(st, s1)
  BY <1>2, <1>3, PromotedPasses
<1> HIDE DEF s1
<1>5. /\ Passes(st, s2, {}, {}) /\ PendingSteers(s2) \subseteq PendingSteers(st) \cup {m}
      /\ SameSlot(st, s2) /\ Known(s2) = Known(st) /\ st.ncmd <= s2.ncmd
      /\ ctl.msgs # {} => m \notin Unbacked(s2, {})
  <2>0. s1 \in State /\ Sound(s1) /\ s1.ncmd = st.ncmd /\ st.ncmd \in Nat
    BY <1>2, <1>4, StateFields DEF Passes, SameOrders
  <2>1. CASE ctl.msgs = {}
    BY <1>4, <2>0, <2>1
  <2>2. CASE ctl.msgs # {}
    <3>1. ctl.msgs = {m} /\ s2 = CommandAdmitted(s1, "resume", {m}) /\ {m} \subseteq Known(s1)
      BY <1>3, <1>4, <2>2
    <3> DEFINE n == s1.ncmd + 1
    <3> HIDE DEF s2
    <3>2. /\ Passes(s1, s2, {}, {}) /\ Calm(s1, s2) /\ Admits(s1, s2, "resume", {m})
          /\ n \in PendingCommands(s2)
      BY <1>1, <1>3, <2>0, <3>1, AdmittedPasses DEF Kinds
    <3>3. SameSlot(s1, s2) /\ s2.msg = s1.msg /\ s2.ncmd = n /\ Backs(s2, n, m)
      BY <3>2 DEF Admits, Backs
    <3>4. SameSlot(st, s2) /\ Known(s2) = Known(st) /\ st.ncmd <= s2.ncmd
      BY <1>4, <2>0, <3>3 DEF SameSlot, Known
    <3>5. PendingSteers(s2) = PendingSteers(s1)
      BY <3>3 DEF PendingSteers, PendingMessages, Unconsumed, Disposition
    <3>6. Passes(st, s2, {}, {})
      <4>1. Passes(st, s2, {} \cup {}, {} \cup {})
        BY <1>2, <1>4, <3>2, PassesIsTransitive
      <4> QED BY <4>1
    <3>7. m \notin Unbacked(s2, {})
      BY <3>2, <3>3 DEF Unbacked
    <3> QED BY <1>4, <3>4, <3>5, <3>6, <3>7
  <2> QED BY <2>1, <2>2
<1> HIDE DEF s2
<1>6. s2 \in State /\ Sound(s2) /\ c \in 1 .. s2.ncmd /\ s2.cmd[c].started
  <2>1. s2 \in State /\ Sound(s2) /\ st.ncmd \in Nat /\ s2.ncmd \in Nat
    BY <1>2, <1>5, StateFields DEF Passes
  <2>2. c \in 1 .. s2.ncmd
    BY <1>2, <1>5, <2>1
  <2>3. s2.cmd[c].started
    <3>1. SlotInvariant' /\ st' = CommandTerminal(s2, c, "Completed")
      BY <1>1
    <3>2. Ends(s2, st', c, "Completed")
      BY <1>2, <2>1, <3>1, TerminalEffect
    <3> QED BY <1>2, <3>1, <3>2 DEF SlotInvariant, LogInvariant, Commands, Ends
  <2> QED BY <2>1, <2>2, <2>3
<1>7. /\ Settles(s2, st', {}) /\ SameSlot(s2, st') /\ st'.msg = s2.msg
      /\ ActiveCommands(st') \subseteq ActiveCommands(s2) \ {c}
  BY <1>1, <1>6, EndedSettles
<1>8. /\ PendingSteers(st') \cap Unbacked(st', {}) \subseteq PendingSteers(s2) \cap Unbacked(s2, {})
  BY <1>6, <1>7, SettlesKeepsSteers
<1>9. Unbacked(s2, {}) \subseteq Unbacked(st, {})
  <2>1. Unbacked(s2, {}) \subseteq Known(st)
    BY <1>5 DEF Unbacked, PendingMessages, Unconsumed, Known
  <2> QED BY <1>2, <1>5, <2>1, UnbackedShrinks
<1>10. OpenRuns(st') = OpenRuns(st) /\ Inherited(st') = Inherited(st) /\ st'.req = st.req
  BY <1>5, <1>7 DEF OpenRuns, Inherited, SameSlot
<1>11. SteersOwned(st')
  BY <1>2, <1>3, <1>5, <1>8, <1>9, <1>10 DEF SteersOwned
<1>12. Sound(st') /\ ActiveCommands(st') \subseteq ActiveCommands(st) \ {ctl.cmd}
  BY <1>5, <1>7 DEF Settles, Passes, c
<1> QED BY <1>1, <1>10, <1>11, <1>12, TakenOwned

\* A reservation without one of its messages is smaller, or gone with its command.
LEMMA ReservationSettles ==
  ASSUME NEW s \in State, LogInvariant(s), Sound(s), NEW m
  PROVE  LET s1 == ReservationWithout(s, m) IN
         /\ Settles(s, s1, {}) /\ OpenRuns(s1) = OpenRuns(s) /\ s1.ncmd = s.ncmd /\ s1.msg = s.msg
         /\ (PendingSteers(s) \cap Inherited(s)) \ {m} \subseteq Inherited(s1)
         /\ \A c \in ActiveCommands(s1) :
              s.req.id # 0 /\ s.req.work = "Recovery" /\ c = s.req.cmd =>
                s1.req.id # 0 /\ s1.req.work = "Recovery" /\ c = s1.req.cmd
<1> DEFINE s1     == ReservationWithout(s, m)
           closed == RunSchedulingClosed(s, s.req.id)
           rest   == RequestInputs(s) \ {m}
           c      == s.req.cmd
<1>1. CASE s.req.id = 0 \/ m \notin RequestInputs(s)
  <2>1. s1 = s
    BY <1>1 DEF ReservationWithout
  <2> HIDE DEF s1
  <2> QED BY <2>1, PassesIsReflexive DEF Settles, s1
<1>2. OnlySlot(s, closed) /\ closed.req.id = 0 /\ OpenRuns(closed) = OpenRuns(s)
  BY ClosedIsSlot, ClosedKeeps, OnlyRequestViews
<1>3. s.req.id # 0 => c \in 1 .. s.ncmd /\ c \in Cmd /\ Deferred /\ OpenRuns(s) = {}
  BY RequestInputsType DEF LogInvariant, Reservable, OneSlot
<1>4. CASE s.req.id # 0 /\ m \in RequestInputs(s) /\ s.req.work = "Command"
  <2>1. s1 = closed
    BY <1>4 DEF ReservationWithout
  <2>2. Inherited(s) = {}
    BY <1>4 DEF Inherited
  <2> HIDE DEF closed
  <2>3. Settles(s, closed, {}) /\ closed.ncmd = s.ncmd /\ closed.msg = s.msg
    BY <1>2, SlotSettles, SlotPasses
  <2> QED BY <1>2, <1>4, <2>1, <2>2, <2>3
<1>5. CASE s.req.id # 0 /\ m \in RequestInputs(s) /\ s.req.work # "Command"
  <2>1. /\ s.req.work = "Recovery" /\ c \in ActiveCommands(s) /\ Inherited(s) = s.req.inputs
        /\ s.req.run \in Run /\ rest \in SUBSET Cmd
    BY <1>5, RequestInputsType DEF LogInvariant, Reservable, Inherited
  <2>0. s.cmd[c].kind # "stop"
    BY <1>5, <2>1 DEF LogInvariant, Reservable
  <2>2. (PendingSteers(s) \cap Inherited(s)) \ {m} \subseteq rest
    BY <2>1 DEF RequestInputs, PendingSteers, PendingMessages, Disposition
  <2>3. CASE rest = {}
    <3>1. s1 = CommandTerminal(closed, c, "Cancelled")
      BY <1>5, <2>3 DEF ReservationWithout
    <3> HIDE DEF closed, s1
    <3>2. /\ Settles(s, closed, {}) /\ closed.ncmd = s.ncmd /\ closed.msg = s.msg
          /\ closed.cmd = s.cmd
      BY <1>2, SlotSettles, SlotPasses
    <3>3. closed.cmd[c].started /\ c \in 1 .. closed.ncmd
      BY <1>3, <1>5, <2>1, <3>2 DEF ActiveCommands
    <3>4. /\ Settles(closed, s1, {}) /\ SameSlot(closed, s1) /\ s1.msg = closed.msg
          /\ s1.ncmd = closed.ncmd /\ ActiveCommands(s1) \subseteq ActiveCommands(closed) \ {c}
      <4>1. closed \in State /\ Sound(closed)
        BY <3>2 DEF Settles, Passes
      <4> HIDE DEF c
      <4> QED BY <3>1, <3>3, <4>1, EndedSettles
    <3>5. Settles(s, s1, {} \cup {})
      BY <3>2, <3>4, SettlesIsTransitive
    <3>6. OpenRuns(s1) = OpenRuns(s) /\ Settles(s, s1, {}) /\ c \notin ActiveCommands(s1)
      BY <1>2, <3>4, <3>5 DEF SameSlot, OpenRuns
    <3> QED BY <2>2, <2>3, <3>2, <3>4, <3>6 DEF s1
  <2>4. CASE rest # {}
    <3>1. s1 = RunSchedulingRequested(s, "Recovery", c, s.req.run, rest)
      BY <1>5, <2>4 DEF ReservationWithout
    <3> HIDE DEF rest
    <3>2. OnlyRequest(s, s1)
      BY <1>3, <1>5, <2>0, <2>1, <3>1, RequestedKeeps
    <3>3. s1.req.cmd = c /\ s1.req.work = "Recovery" /\ s1.req.inputs = rest /\ s1.req.id = s.nreq + 1
      BY <3>1 DEF RunSchedulingRequested, State
    <3>4. s1.req.id # 0
      BY <3>3, StateFields
    <3> HIDE DEF s1
    <3>5. Settles(s, s1, {}) /\ s1.ncmd = s.ncmd /\ s1.msg = s.msg
      BY <3>2, RequestPasses, SlotSettles, SlotPasses
    <3>6. OpenRuns(s1) = OpenRuns(s)
      BY <3>2, OnlyRequestViews
    <3>7. Inherited(s1) = rest
      BY <3>3, <3>4 DEF Inherited
    <3> QED BY <2>2, <3>3, <3>4, <3>5, <3>6, <3>7 DEF s1
  <2> QED BY <2>3, <2>4
<1> QED BY <1>1, <1>4, <1>5

\* A cancelled message leaves nothing that anyone would have to start.
LEMMA CancelOwned == LoopInvariant /\ SlotInvariant' /\ CommitCancel => LoopKept
<1> SUFFICES ASSUME LoopInvariant, SlotInvariant', CommitCancel PROVE LoopKept
  OBVIOUS
<1> DEFINE c  == ctl.cmd
           m  == Target(c)
           s1 == ReservationWithout(st, m)
           s2 == UserMessageCancelled(s1, m)
           s3 == IF ctl.msgs = {} THEN s2 ELSE CommandTerminal(s2, m, "Cancelled")
<1>1. /\ ctl.at = "cancel" /\ ctl.at \in Taken /\ exec' = exec
      /\ ctl' = Free("ready") /\ st' = CommandTerminal(s3, c, "Completed")
  BY DEF CommitCancel, Finish, Goto, Taken
<1>2. /\ st \in State /\ LogInvariant(st) /\ Sound(st) /\ SteersOwned(st) /\ SlotInvariant
      /\ c \in 1 .. st.ncmd /\ c \in Cmd /\ st.cmd[c].started
  BY <1>1, LoopFacts, TakenCommandIsNumbered
<1>3. /\ st.cmd[c].targets = {m} /\ m \in Cmd /\ m \in Known(st) /\ st.msg[m].consumed = 0
  <2>1. st.cmd[c].kind = "cancel"
    BY <1>1, LoopFacts DEF Memory, TargetUnconsumed
  <2>2. st.cmd[c].targets = {m} /\ m \in Cmd
    BY <1>2, <2>1, TargetIsNamed
  <2> QED BY <1>1, <2>2, LoopFacts DEF Memory, TargetUnconsumed, Known
<1> HIDE DEF c, m
<1>4. m \in 1 .. st.ncmd /\ \A x \in Cmd : Backs(st, m, x) => x = m
  <2>1. IsSubmit(st, m)
    BY <1>2, <1>3 DEF LogInvariant, Messages, Known
  <2>2. ~(m > st.ncmd)
    BY <1>2, <1>3, <2>1 DEF LogInvariant, Commands, IsSubmit, Submits
  <2>3. m \in 1 .. st.ncmd
    BY <1>2, <1>3, <2>2, StateFields DEF Cmd
  <2> QED BY <2>1, <2>3 DEF Backs, IsSubmit, Submits
<1>5. /\ Settles(st, s1, {}) /\ OpenRuns(s1) = OpenRuns(st) /\ s1.ncmd = st.ncmd
      /\ s1.msg = st.msg
      /\ (PendingSteers(st) \cap Inherited(st)) \ {m} \subseteq Inherited(s1)
      /\ \A d \in ActiveCommands(s1) :
           st.req.id # 0 /\ st.req.work = "Recovery" /\ d = st.req.cmd =>
             s1.req.id # 0 /\ s1.req.work = "Recovery" /\ d = s1.req.cmd
  BY <1>2, ReservationSettles
<1> HIDE DEF s1
<1>6. s1 \in State /\ Sound(s1) /\ s1.msg[m].consumed = 0
  BY <1>3, <1>5 DEF Settles, Passes
<1>7. /\ Settles(s1, s2, {}) /\ SameSlot(s1, s2) /\ SameOrders(s1, s2)
      /\ m \notin PendingMessages(s2)
  BY <1>3, <1>6, CancelledPasses DEF Settles
<1> HIDE DEF s2
<1>8. /\ Settles(s2, s3, {m}) /\ SameSlot(s2, s3) /\ s3.ncmd = s2.ncmd
      /\ ActiveCommands(s3) \subseteq ActiveCommands(s2)
  <2>1. s2 \in State /\ Sound(s2) /\ m \in 1 .. s2.ncmd
    BY <1>4, <1>5, <1>7 DEF Settles, Passes, SameOrders
  <2>2. CASE ctl.msgs = {}
    <3>1. s3 = s2 /\ Passes(s2, s2, {}, {}) /\ Calm(s2, s2)
      BY <2>1, <2>2, PassesIsReflexive
    <3> QED BY <3>1 DEF Settles, Passes, SameSlot
  <2>3. CASE ctl.msgs # {}
    BY <2>1, <2>3, EndedSettles
  <2> QED BY <2>2, <2>3
<1> HIDE DEF s3
<1>9. s3 \in State /\ Sound(s3) /\ c \in 1 .. s3.ncmd
  BY <1>2, <1>5, <1>7, <1>8 DEF Settles, Passes, SameOrders
<1>10. s3.cmd[c].started
  <2>1. Ends(s3, st', c, "Completed")
    BY <1>1, <1>2, <1>9, TerminalEffect
  <2> QED BY <1>2, <2>1 DEF SlotInvariant, LogInvariant, Commands, Ends
<1>11. /\ Settles(s3, st', {}) /\ SameSlot(s3, st')
       /\ ActiveCommands(st') \subseteq ActiveCommands(s3) \ {c}
  BY <1>1, <1>9, <1>10, EndedSettles
<1>12. Settles(st, st', {m})
  <2>1. Settles(st, s2, {} \cup {})
    BY <1>2, <1>5, <1>7, SettlesIsTransitive
  <2>2. Settles(st, s3, ({} \cup {}) \cup {m})
    BY <1>2, <1>8, <2>1, SettlesIsTransitive
  <2>3. Settles(st, st', (({} \cup {}) \cup {m}) \cup {})
    BY <1>2, <1>11, <2>2, SettlesIsTransitive
  <2>4. (({} \cup {}) \cup {m}) \cup {} = {m}
    OBVIOUS
  <2> QED BY <2>3, <2>4
<1>13. m \notin PendingMessages(st')
  BY <1>3, <1>5, <1>7, <1>8, <1>11 DEF Settles, Passes
<1>14. PendingSteers(st') \cap Unbacked(st', {}) \subseteq PendingSteers(st) \cap Unbacked(st, {})
  <2>1. \A x \in Unbacked(st', {}) : ~Backs(st, m, x)
    BY <1>4, <1>13 DEF Unbacked, PendingMessages
  <2> QED BY <1>2, <1>12, <2>1, SettlesKeepsSteers
<1>15. OpenRuns(st') = OpenRuns(st) /\ Inherited(st') = Inherited(s1) /\ st'.req = s1.req
  BY <1>5, <1>7, <1>8, <1>11 DEF OpenRuns, Inherited, SameSlot
<1>16. SteersOwned(st')
  BY <1>2, <1>5, <1>13, <1>14, <1>15 DEF SteersOwned, PendingSteers
<1>17. ActiveCommands(st') \subseteq ActiveCommands(s1) \ {c}
  BY <1>7, <1>8, <1>11 DEF Settles, Passes
<1>18. Sound(st') /\ ActiveCommands(st') \subseteq ActiveCommands(st) \ {ctl.cmd}
  BY <1>5, <1>12, <1>17 DEF Settles, Passes, c
<1> QED BY <1>1, <1>5, <1>15, <1>16, <1>17, <1>18, TakenOwned

-----------------------------------------------------------------------------
(* The appends that close a run, or give up a reserved one.                *)

\* A run and its command end together.
LEMMA ClosedSettles ==
  ASSUME NEW s \in State, LogInvariant(s), Sound(s), NEW r, NEW a, Holds(s, r, a),
         NEW o \in {"Completed", "Failed"}, NEW out \in {"Completed", "Failed", "Cancelled"}
  PROVE  LET s1 == CommandTerminal(RunTerminal(s, r, o), a, out) IN
         /\ Settles(s, s1, {}) /\ s1.ncmd = s.ncmd /\ s1.req = s.req
         /\ ActiveCommands(s1) \subseteq ActiveCommands(s) \ {a}
<1> DEFINE s0 == RunTerminal(s, r, o)
           s1 == CommandTerminal(s0, a, out)
<1>1. /\ r \in Run /\ OpenRuns(s) = {r} /\ a \in ActiveCommands(s) /\ s.cmd[a].started
      /\ a \in 1 .. s.ncmd
  <2>1. r \in OpenRuns(s) /\ a \in ActiveCommands(s)
    BY DEF Holds
  <2> QED BY <2>1, NumbersAreCommands DEF Holds, OpenRuns, ActiveCommands
<1>2. OnlySlot(s, s0) /\ s0.req = s.req
  BY <1>1, RunTerminalEffect
<1> HIDE DEF s0
<1>3. /\ Settles(s, s0, {}) /\ ActiveCommands(s0) = ActiveCommands(s) /\ s0.cmd = s.cmd
      /\ s0.ncmd = s.ncmd
  BY <1>2, SlotSettles, SlotPasses
<1>4. s0 \in State /\ Sound(s0) /\ a \in 1 .. s0.ncmd /\ s0.cmd[a].started
  BY <1>1, <1>3 DEF Settles, Passes
<1>5. /\ Settles(s0, s1, {}) /\ SameSlot(s0, s1) /\ s1.ncmd = s0.ncmd
      /\ ActiveCommands(s1) \subseteq ActiveCommands(s0) \ {a}
  BY <1>4, EndedSettles
<1> HIDE DEF s1
<1>6. Settles(s, s1, {} \cup {})
  BY <1>3, <1>5, SettlesIsTransitive
<1>7. Settles(s, s1, {})
  BY <1>6
<1> QED BY <1>2, <1>3, <1>5, <1>7 DEF SameSlot, s1, s0

\* At its close, a run's command is the only active one but for the stop that closes it.
LEMMA OnlyClosing ==
  ASSUME LoopInvariant, ctl.at \in {"complete", "failRun", "cancelRun", "interruption"}
  PROVE  /\ Holds(st, ctl.run, ctl.active) /\ grant = NoGrant /\ st.req.id = 0
         /\ \A c \in ActiveCommands(st) : c = ctl.active \/ (ctl.at = "interruption" /\ c = ctl.cmd)
<1>1. Memory /\ ActiveHeld /\ SlotInvariant
  BY LoopFacts
<1>2. grant = NoGrant
  BY <1>1, SlotFacts DEF Ungated
<1>3. Holds(st, ctl.run, ctl.active)
  BY <1>1 DEF Memory, ExecHolds, CtlHolds, Closing
<1>4. ctl.at = "complete" => exec.tag # "Idle" /\ ctl.active = exec.cmd
  BY <1>1 DEF Memory, CtlHolds
<1>5. st.req.id = 0
  BY <1>1, <1>3, SlotFacts DEF Holds
<1> QED BY <1>1, <1>2, <1>3, <1>4, <1>5 DEF ActiveHeld, Held, Taken, Closing

\* The steers of a run that ends are in hand, or something else will start them.
LEMMA RunEndOwned ==
  LoopInvariant /\ SlotInvariant' /\ (CompleteRun \/ CloseFailedRun) => LoopKept
<1> SUFFICES ASSUME LoopInvariant, SlotInvariant', CompleteRun \/ CloseFailedRun
             PROVE  LoopKept
  OBVIOUS
<1>1. /\ st \in State /\ LogInvariant(st) /\ Sound(st) /\ SteersRead /\ TypeOK
      /\ ctl.at \in {"complete", "failRun", "cancelRun"} /\ ctl' = Free("ready")
  BY LoopFacts DEF CompleteRun, CloseFailedRun, Finish, Goto
<1>2. /\ Holds(st, ctl.run, ctl.active)
      /\ \A c \in ActiveCommands(st) : c = ctl.active
  BY <1>1, OnlyClosing
<1>3. ctl'.at = "ready"
  BY <1>1, ReadyPlace
<1>4. CASE CompleteRun
  <2>1. st' = CommandTerminal(RunTerminal(st, ctl.run, "Completed"), ctl.active, "Completed")
    BY <1>4 DEF CompleteRun, Finish
  <2>2. Settles(st, st', {}) /\ ActiveCommands(st') \subseteq ActiveCommands(st) \ {ctl.active}
    BY <1>1, <1>2, <2>1, ClosedSettles
  <2>3. PendingSteers(st') \cap Unbacked(st', {}) = {}
    <3>1. PendingSteers(st') \cap Unbacked(st', {}) \subseteq PendingSteers(st) \cap Unbacked(st, {})
      BY <1>1, <2>2, SettlesKeepsSteers
    <3> QED BY <1>4, <1>1, <3>1 DEF SteersRead, CompleteRun
  <2>4. SteersOwned(st') /\ Sound(st')
    BY <2>2, <2>3 DEF SteersOwned, Settles, Passes
  <2> QED BY <1>2, <1>3, <2>2, <2>4, Assembled DEF Taken, Reading
<1>5. CASE CloseFailedRun
  <2> DEFINE o  == IF ctl.at = "failRun" THEN "Failed" ELSE "Cancelled"
             s1 == CommandTerminal(RunTerminal(st, ctl.run, "Failed"), ctl.active, o)
             s2 == IF ctl.msgs = {} THEN s1 ELSE CommandAdmitted(s1, "resume", ctl.msgs)
  <2>1. st.ncmd < MaxCmd /\ st' = s2 /\ o \in {"Completed", "Failed", "Cancelled"}
    BY <1>5 DEF CloseFailedRun, Finish
  <2> HIDE DEF o
  <2>2. /\ Settles(st, s1, {}) /\ ActiveCommands(s1) \subseteq ActiveCommands(st) \ {ctl.active}
        /\ s1.ncmd = st.ncmd
    BY <1>1, <1>2, <2>1, ClosedSettles
  <2> HIDE DEF s1
  <2>3. PendingSteers(s1) \cap Unbacked(s1, {}) \subseteq ctl.msgs
    <3>1. PendingSteers(s1) \cap Unbacked(s1, {}) \subseteq PendingSteers(st) \cap Unbacked(st, {})
      BY <1>1, <2>2, SettlesKeepsSteers
    <3> QED BY <1>5, <1>1, <3>1 DEF SteersRead, CloseFailedRun
  <2>4. CASE ctl.msgs = {}
    <3>1. st' = s1
      BY <2>1, <2>4
    <3>2. SteersOwned(st') /\ Sound(st')
      BY <2>2, <2>3, <2>4, <3>1 DEF SteersOwned, Settles, Passes
    <3> QED BY <1>2, <1>3, <2>2, <3>1, <3>2, Assembled DEF Taken, Reading
  <2>5. CASE ctl.msgs # {}
    <3>1. s1 \in State /\ Sound(s1) /\ s1.ncmd < MaxCmd /\ ctl.msgs \in SUBSET Cmd
          /\ ctl.msgs \subseteq Known(s1)
      BY <1>1, <1>5, <2>1, <2>2, CtlFields DEF Settles, Passes, SteersRead, CloseFailedRun
    <3> DEFINE n == s1.ncmd + 1
    <3>2. st' = CommandAdmitted(s1, "resume", ctl.msgs) /\ "resume" \in Kinds
      BY <2>1, <2>5 DEF Kinds
    <3>3. /\ Passes(s1, st', {}, {}) /\ Calm(s1, st') /\ Admits(s1, st', "resume", ctl.msgs)
          /\ n \in PendingCommands(st')
      BY <3>1, <3>2, AdmittedPasses
    <3>4. st'.msg = s1.msg /\ \A m \in ctl.msgs : Backs(st', n, m)
      BY <3>3 DEF Admits, Backs
    <3>5. Settles(s1, st', {})
      BY <3>3, <3>4 DEF Settles, Known
    <3>6. PendingSteers(st') \cap Unbacked(st', {}) \subseteq PendingSteers(s1) \cap Unbacked(s1, {})
      BY <3>1, <3>5, SettlesKeepsSteers
    <3>7. Unbacked(st', {}) \cap ctl.msgs = {}
      BY <3>3, <3>4 DEF Unbacked
    <3>8. SteersOwned(st') /\ Sound(st') /\ ActiveCommands(st') \subseteq ActiveCommands(s1)
      BY <2>3, <3>3, <3>6, <3>7 DEF SteersOwned, Passes
    <3> QED BY <1>2, <1>3, <2>2, <3>8, Assembled DEF Taken, Reading
  <2> QED BY <2>4, <2>5
<1> QED BY <1>4, <1>5

LEMMA PausedSettles ==
  ASSUME NEW s \in State, Sound(s), NEW ms
  PROVE  LET s1 == PendingMessagesPaused(s, ms) IN
         /\ Settles(s, s1, {}) /\ PendingSteers(s1) \subseteq PendingSteers(s) \ ms
         /\ SameSlot(s, s1) /\ SameOrders(s, s1) /\ ActiveCommands(s1) = ActiveCommands(s)
<1> DEFINE s1 == PendingMessagesPaused(s, ms)
<1>1. /\ Passes(s, s1, {}, {}) /\ Calm(s, s1) /\ PendingSteers(s1) \subseteq PendingSteers(s) \ ms
      /\ SameSlot(s, s1) /\ SameOrders(s, s1) /\ Known(s1) = Known(s)
  BY PausedPasses
<1> HIDE DEF s1
<1>2. ActiveCommands(s1) = ActiveCommands(s)
  BY <1>1 DEF SameOrders, ActiveCommands
<1> QED BY <1>1, <1>2 DEF Settles, s1

\* A user's interruption pauses every steer that it leaves without a run.
LEMMA InterruptionOwned == LoopInvariant /\ SlotInvariant' /\ CommitInterruption => LoopKept
<1> SUFFICES ASSUME LoopInvariant, SlotInvariant', CommitInterruption PROVE LoopKept
  OBVIOUS
<1> DEFINE c  == ctl.cmd
           t  == LastTurnOf(st, ctl.run)
           s1 == IF st.turn[t].status = "open" THEN TurnTerminal(st, t, "Failed", FALSE) ELSE st
           s2 == CommandTerminal(RunTerminal(s1, ctl.run, "Failed"), ctl.active, "Cancelled")
<1>1. /\ ctl.at = "interruption" /\ st' = PendingMessagesPaused(s2, ctl.msgs)
      /\ ctl' = IF st.cmd[c].kind = "stop" THEN Place("stopApply", c, 0, 0, {})
                                           ELSE Place("start", c, 0, 0, {})
  BY DEF CommitInterruption, Finish, Goto
<1>2. /\ st \in State /\ LogInvariant(st) /\ Sound(st) /\ SteersRead /\ Memory
      /\ PendingSteers(st) \cap Unbacked(st, {}) \subseteq ctl.msgs
  BY <1>1, LoopFacts DEF SteersRead
<1>3. /\ Holds(st, ctl.run, ctl.active)
      /\ \A d \in ActiveCommands(st) : d = ctl.active \/ d = c
  BY <1>1, OnlyClosing
<1>4. \/ st.cmd[c].kind = "stop" /\ c \in ActiveCommands(st)
      \/ st.cmd[c].kind = "interrupt" /\ c \in PendingCommands(st)
  BY <1>1, <1>2 DEF Memory, TakenCommand
<1> HIDE DEF c
<1>5. /\ s1 \in State /\ LogInvariant(s1) /\ Settles(st, s1, {})
      /\ ActiveCommands(s1) = ActiveCommands(st) /\ Holds(s1, ctl.run, ctl.active)
  <2>1. CASE st.turn[t].status = "open"
    <3>1. s1 = TurnTerminal(st, t, "Failed", FALSE)
      BY <2>1
    <3> HIDE DEF s1, t
    <3>2. ClosesTurn(st, s1, t) /\ LogInvariant(s1)
      BY <1>2, <3>1, TurnTerminalEffect, TurnTerminalKeeps
    <3>3. OnlySlot(st, s1) /\ s1.run = st.run
      BY <3>2 DEF ClosesTurn
    <3>4. Settles(st, s1, {}) /\ ActiveCommands(s1) = ActiveCommands(st)
      BY <1>2, <3>3, SlotSettles, SlotPasses
    <3>5. Holds(s1, ctl.run, ctl.active)
      BY <1>3, <3>3, <3>4 DEF Holds, OpenRuns
    <3> QED BY <3>2, <3>3, <3>4, <3>5 DEF OnlySlot
  <2>2. CASE st.turn[t].status # "open"
    <3>1. s1 = st
      BY <2>2
    <3> HIDE DEF s1
    <3> QED BY <1>2, <1>3, <3>1, PassesIsReflexive DEF Settles
  <2> QED BY <2>1, <2>2
<1> HIDE DEF s1, t
<1>6. /\ Settles(s1, s2, {}) /\ s2 \in State /\ Sound(s2)
      /\ ActiveCommands(s2) \subseteq ActiveCommands(s1) \ {ctl.active}
  BY <1>5, ClosedSettles DEF Settles, Passes
<1> HIDE DEF s2
<1>7. /\ Settles(s2, st', {}) /\ PendingSteers(st') \subseteq PendingSteers(s2) \ ctl.msgs
      /\ ActiveCommands(st') = ActiveCommands(s2)
  BY <1>1, <1>6, PausedSettles
<1>8. Settles(st, st', {})
  <2>1. Settles(st, s2, {} \cup {})
    BY <1>2, <1>5, <1>6, SettlesIsTransitive
  <2>2. Settles(st, st', ({} \cup {}) \cup {})
    BY <1>2, <1>7, <2>1, SettlesIsTransitive
  <2>3. ({} \cup {}) \cup {} = {}
    OBVIOUS
  <2> QED BY <2>2, <2>3
<1>9. PendingSteers(st') \cap Unbacked(st', {}) = {}
  <2>1. PendingSteers(st') \cap Unbacked(st', {}) \subseteq PendingSteers(st) \cap Unbacked(st, {})
    BY <1>2, <1>8, SettlesKeepsSteers
  <2> QED BY <1>2, <1>7, <2>1
<1>10. SteersOwned(st') /\ Sound(st')
  BY <1>8, <1>9 DEF SteersOwned, Settles, Passes
<1>11. \A d \in ActiveCommands(st') : d = c
  BY <1>3, <1>5, <1>6, <1>7
<1>12. CASE st.cmd[c].kind = "stop"
  <2>1. ctl'.at = "stopApply" /\ ctl'.cmd = c
    BY <1>1, <1>12 DEF Place
  <2>2. \A d \in ActiveCommands(st') : Held(d)'
    BY <1>11, <2>1 DEF Held, Taken
  <2>3. st'.cmd[ctl'.cmd].kind = "stop"
    BY <2>1 DEF SlotInvariant, Memory, TakenCommand
  <2> QED BY <1>10, <2>1, <2>2, <2>3, Assembled DEF Reading
<1>13. CASE st.cmd[c].kind # "stop"
  <2>1. ctl'.at = "start"
    BY <1>1, <1>13 DEF Place
  <2>2. c \notin ActiveCommands(st)
    BY <1>4, <1>13 DEF PendingCommands, ActiveCommands
  <2>3. \A d \in ActiveCommands(st') : FALSE
    BY <1>5, <1>6, <1>7, <1>11, <2>2
  <2> QED BY <1>10, <2>1, <2>3, Assembled DEF Taken, Reading
<1> QED BY <1>12, <1>13

LEMMA UnbackedWithout ==
  ASSUME NEW s \in State, NEW s1, NEW L, NEW A, Passes(s, s1, L, A),
         Unbacked(s1, {}) \subseteq Known(s)
  PROVE  Unbacked(s1, {}) \subseteq Unbacked(s, L)
<1>1. \A c \in PendingCommands(s) :
        s1.cmd[c].kind = s.cmd[c].kind /\ s1.cmd[c].targets = s.cmd[c].targets
  BY NumbersAreCommands DEF Passes
<1> SUFFICES ASSUME NEW m \in Unbacked(s1, {}), NEW c \in PendingCommands(s) \ L
             PROVE  m \in PendingMessages(s) /\ ~Backs(s, c, m)
  BY DEF Unbacked, Passes
<1>2. m \in PendingMessages(s) /\ c \in PendingCommands(s1)
  BY DEF Unbacked, Passes
<1>3. ~Backs(s1, c, m)
  BY <1>2 DEF Unbacked
<1> QED BY <1>1, <1>2, <1>3 DEF Backs

\* A reservation is given up, with its command and every message it would have left behind.
LEMMA ReleasedSettles ==
  ASSUME NEW s \in State, LogInvariant(s), Sound(s), s.req.id # 0, NEW ms
  PROVE  LET s1 == CommandTerminal(PendingMessagesPaused(RunSchedulingClosed(s, s.req.id), ms),
                                   s.req.cmd, "Cancelled")
         IN /\ Settles(s, s1, {s.req.cmd}) /\ s1.ncmd = s.ncmd
            /\ PendingSteers(s1) \subseteq PendingSteers(s) \ ms
            /\ ActiveCommands(s1) \subseteq ActiveCommands(s) \ {s.req.cmd}
<1> DEFINE q  == s.req.cmd
           s0 == RunSchedulingClosed(s, s.req.id)
           s1 == PendingMessagesPaused(s0, ms)
           s2 == CommandTerminal(s1, q, "Cancelled")
<1>1. OnlySlot(s, s0) /\ q \in 1 .. s.ncmd
  BY ClosedIsSlot DEF LogInvariant, Reservable
<1> HIDE DEF s0, q
<1>2. /\ Settles(s, s0, {}) /\ ActiveCommands(s0) = ActiveCommands(s) /\ s0.ncmd = s.ncmd
      /\ PendingSteers(s0) = PendingSteers(s)
  BY <1>1, SlotSettles, SlotPasses
<1>3. s0 \in State /\ Sound(s0)
  BY <1>2 DEF Settles, Passes
<1>4. /\ Settles(s0, s1, {}) /\ PendingSteers(s1) \subseteq PendingSteers(s0) \ ms
      /\ SameOrders(s0, s1) /\ ActiveCommands(s1) = ActiveCommands(s0)
  BY <1>3, PausedSettles
<1> HIDE DEF s1
<1>5. s1 \in State /\ Sound(s1) /\ q \in 1 .. s1.ncmd /\ s1.ncmd = s.ncmd
  BY <1>1, <1>2, <1>4 DEF Settles, Passes, SameOrders
<1>6. /\ Settles(s1, s2, {q}) /\ s2.ncmd = s1.ncmd /\ s2.msg = s1.msg
      /\ ActiveCommands(s2) \subseteq ActiveCommands(s1) \ {q}
  BY <1>5, EndedSettles
<1> HIDE DEF s2
<1>7. Settles(s, s2, {q})
  <2>1. Settles(s, s1, {} \cup {})
    BY <1>2, <1>4, SettlesIsTransitive
  <2>2. Settles(s, s2, ({} \cup {}) \cup {q})
    BY <1>6, <2>1, SettlesIsTransitive
  <2>3. ({} \cup {}) \cup {q} = {q}
    OBVIOUS
  <2> QED BY <2>2, <2>3
<1>8. PendingSteers(s2) = PendingSteers(s1)
  BY <1>6 DEF PendingSteers, PendingMessages, Unconsumed, Disposition
<1> QED BY <1>2, <1>4, <1>5, <1>6, <1>7, <1>8 DEF s2, s1, s0, q

LEMMA WaitingRunOwned == LoopInvariant /\ SlotInvariant' /\ CloseWaitingRun => LoopKept
<1> SUFFICES ASSUME LoopInvariant, SlotInvariant', CloseWaitingRun PROVE LoopKept
  OBVIOUS
<1> DEFINE c == ctl.cmd
           q == st.req.cmd
           released(s) == CommandTerminal(PendingMessagesPaused(RunSchedulingClosed(s, s.req.id),
                                                                ctl.msgs),
                                          s.req.cmd, "Cancelled")
           s1 == CommandStarted(st, c)
           s2 == released(s1)
<1>1. /\ ctl.at = "closeWaiting"
      /\ IF st.cmd[c].kind = "stop"
           THEN st' = CommandTerminal(s2, c, "Completed") /\ ctl' = Free("ready")
           ELSE st' = released(st) /\ ctl' = Place("start", c, 0, 0, {})
  BY DEF CloseWaitingRun, Finish, Goto
<1>2. /\ st \in State /\ LogInvariant(st) /\ Sound(st) /\ Memory /\ SlotInvariant
      /\ PendingSteers(st) \cap Unbacked(st, {q}) \subseteq ctl.msgs
  BY <1>1, LoopFacts DEF SteersRead
<1>3. /\ c \in PendingCommands(st) /\ st.req.id # 0 /\ st.cmd[c].kind \in {"stop", "interrupt"}
      /\ c # q /\ c \in 1 .. st.ncmd /\ c \in Cmd /\ c # 0
  <2>1. /\ c \in PendingCommands(st) /\ st.req.id # 0 /\ st.cmd[c].kind \in {"stop", "interrupt"}
    BY <1>1, <1>2 DEF Memory, TakenCommand, Awaited
  <2>2. c \in 1 .. st.ncmd /\ c \in Cmd
    BY <1>2, <2>1, NumbersAreCommands
  <2>3. c # 0
    BY <1>2, <2>2, StateFields
  <2> QED BY <1>2, <2>1, <2>2, <2>3 DEF Memory, TakenCommand
<1>4. \A d \in ActiveCommands(st) : d = q
  <2>1. exec.tag = "Idle" /\ grant = NoGrant
    BY <1>1, <1>2, SlotFacts DEF Executing, Ungated
  <2> QED BY <1>1, <2>1, OnlyReserved DEF Closing, Taken
<1> HIDE DEF c, q
<1>5. /\ st' \in State => PendingSteers(st') \subseteq Known(st')
      /\ Unbacked(st', {}) \subseteq Known(st')
  BY SteersAreKnown DEF Unbacked, PendingMessages, Unconsumed, Known
<1>6. CASE st.cmd[c].kind = "stop"
  <2>1. /\ Passes(st, s1, {c}, {c}) /\ Calm(st, s1) /\ Starts(st, s1, c)
    BY <1>2, <1>3, StartedPasses
  <2>2. LogInvariant(s1)
    BY <1>2, <1>3, CommandBegins DEF q
  <2> HIDE DEF s1
  <2>3. /\ s1 \in State /\ Sound(s1) /\ s1.req = st.req /\ s1.msg = st.msg /\ s1.ncmd = st.ncmd
        /\ s1.cmd[c].started
    BY <2>1 DEF Passes, Starts, SameSlot
  <2>4. /\ Settles(s1, s2, {q}) /\ s2.ncmd = s1.ncmd
        /\ PendingSteers(s2) \subseteq PendingSteers(s1) \ ctl.msgs
        /\ ActiveCommands(s2) \subseteq ActiveCommands(s1) \ {q}
    <3>1. s1.req.id # 0 /\ s1.req.cmd = q
      BY <1>3, <2>3 DEF q
    <3>2. /\ Settles(s1, s2, {s1.req.cmd}) /\ s2.ncmd = s1.ncmd
          /\ PendingSteers(s2) \subseteq PendingSteers(s1) \ ctl.msgs
          /\ ActiveCommands(s2) \subseteq ActiveCommands(s1) \ {s1.req.cmd}
      BY <2>2, <2>3, <3>1, ReleasedSettles
    <3> QED BY <3>1, <3>2
  <2> HIDE DEF s2
  <2>5. s2 \in State /\ Sound(s2) /\ c \in 1 .. s2.ncmd
    BY <1>3, <2>3, <2>4 DEF Settles, Passes
  <2>6. st' = CommandTerminal(s2, c, "Completed") /\ ctl' = Free("ready")
    BY <1>1, <1>6
  <2>7. s2.cmd[c].started
    <3>1. Ends(s2, st', c, "Completed")
      BY <1>3, <2>5, <2>6, TerminalEffect
    <3> QED BY <1>3, <3>1 DEF SlotInvariant, LogInvariant, Commands, Ends
  <2>8. /\ Settles(s2, st', {}) /\ st'.msg = s2.msg
        /\ ActiveCommands(st') \subseteq ActiveCommands(s2) \ {c}
    BY <2>5, <2>6, <2>7, EndedSettles
  <2>9. Passes(st, st', {c, q}, {c}) /\ Known(st') = Known(st)
    <3>1. Settles(s1, st', {q} \cup {})
      BY <2>3, <2>4, <2>8, SettlesIsTransitive
    <3>2. Passes(st, st', {c} \cup ({q} \cup {}), {c} \cup {})
      BY <1>2, <2>1, <3>1, PassesIsTransitive DEF Settles
    <3>3. {c} \cup ({q} \cup {}) = {c, q} /\ {c} \cup {} = {c}
      OBVIOUS
    <3>4. Known(st') = Known(s1)
      BY <3>1 DEF Settles
    <3> QED BY <2>3, <3>2, <3>3, <3>4 DEF Known
  <2>10. PendingSteers(st') \subseteq PendingSteers(st) \ ctl.msgs
    BY <2>3, <2>4, <2>8 DEF PendingSteers, PendingMessages, Unconsumed, Disposition
  <2>11. Unbacked(st', {}) \subseteq Unbacked(st, {q})
    <3>1. Unbacked(st', {}) \subseteq Unbacked(st, {c, q})
      BY <1>2, <1>5, <2>9, UnbackedWithout
    <3>2. \A m \in Known(st) : ~Backs(st, c, m)
      BY <1>2, <1>3, <1>6, ControlsBackNothing DEF IsSubmit, Submits
    <3> QED BY <1>5, <2>9, <3>1, <3>2 DEF Unbacked
  <2>12. SteersOwned(st') /\ Sound(st')
    BY <1>2, <2>9, <2>10, <2>11 DEF SteersOwned, Passes
  <2>13. ActiveCommands(st') = {}
    BY <1>4, <2>1, <2>4, <2>8 DEF Passes
  <2>14. ctl'.at = "ready"
    BY <2>6, ReadyPlace
  <2> QED BY <2>12, <2>13, <2>14, Assembled DEF Taken, Reading
<1>7. CASE st.cmd[c].kind # "stop"
  <2>1. st' = released(st) /\ ctl'.at = "start"
    BY <1>1, <1>7 DEF Place
  <2>2. /\ Settles(st, st', {q}) /\ PendingSteers(st') \subseteq PendingSteers(st) \ ctl.msgs
        /\ ActiveCommands(st') \subseteq ActiveCommands(st) \ {q}
    BY <1>2, <1>3, <2>1, ReleasedSettles DEF q
  <2>3. Unbacked(st', {}) \subseteq Unbacked(st, {q})
    BY <1>2, <1>5, <2>2, UnbackedWithout DEF Settles
  <2>4. SteersOwned(st') /\ Sound(st')
    BY <1>2, <2>2, <2>3 DEF SteersOwned, Settles, Passes
  <2>5. ActiveCommands(st') = {}
    BY <1>4, <2>2
  <2> QED BY <2>1, <2>4, <2>5, Assembled DEF Taken, Reading
<1> QED BY <1>6, <1>7

-----------------------------------------------------------------------------
(* Recovery repairs everything in one batch.                               *)

LEMMA ResumeOwnedMeans ==
  \A s : \A m : m \in ResumeOwned(s) <=>
    \E k \in 1 .. s.ncmd : s.cmd[k].kind = "resume" /\ s.cmd[k].terminal = "none"
                           /\ m \in s.cmd[k].targets
BY DEF ResumeOwned

\* The command that a recovery continues, when there is one.
LEMMA ContinuationIsWork ==
  ASSUME NEW s \in State, LogInvariant(s), ContinuationCommand(s) # 0
  PROVE  LET c == ContinuationCommand(s) IN
         /\ c \in Cmd /\ c \in ActiveCommands(s) /\ s.cmd[c].kind # "stop"
         /\ s.cmd[c].kind \in Submits \cup {"resume"}
         /\ ApplicableStops(s) = {} /\ RecoveryPauses(s) = {} /\ s.req.id = 0
         /\ PendingSteers(s) \subseteq ContinuationInputs(s) /\ RecoveryResumes(s) = {}
<1> DEFINE c == ContinuationCommand(s)
<1>1. ContinuationCandidates(s) # {} /\ ContinuationCandidates(s) \in SUBSET Nat
  BY CmdIsNat DEF ContinuationCommand, ContinuationCandidates, RecoverableCommands, ActiveCommands
<1>2. c \in ContinuationCandidates(s)
  BY <1>1, LeastIsMember DEF ContinuationCommand
<1>3. PendingSteers(s) \subseteq ContinuationInputs(s)
  BY DEF ContinuationInputs
<1> HIDE DEF c
<1>4. /\ ApplicableStops(s) = {} /\ c \in ActiveCommands(s) /\ c \in Cmd
      /\ s.cmd[c].kind \in Submits \cup {"resume"} /\ OpenRuns(s) # {}
  BY <1>2 DEF ContinuationCandidates, RecoverableCommands, ActiveCommands
<1>5. s.cmd[c].kind # "stop" /\ RecoveryPauses(s) = {} /\ s.req.id = 0
  BY <1>4 DEF Submits, RecoveryPauses, LogInvariant, OneSlot
<1>6. RecoveryResumes(s) = {}
  BY <1>3 DEF RecoveryResumes
<1> QED BY <1>3, <1>4, <1>5, <1>6 DEF c

\* A resume of the open run is continued, unless a stop was meant for that run.
LEMMA OpenResumesContinue ==
  ASSUME NEW s \in State, LogInvariant(s), Sound(s), ApplicableStops(s) = {},
         NEW k \in ActiveCommands(s), s.cmd[k].kind = "resume",
         NEW r \in OpenRuns(s), k \in s.run[r].of
  PROVE  ContinuationCommand(s) # 0
<1>1. s.req.id = 0 /\ k \in RecoverableCommands(s)
  BY DEF LogInvariant, OneSlot, RecoverableCommands
<1>2. r \notin StoppedRuns(s)
  <2> SUFFICES ASSUME NEW c \in PendingStops(s), s.stop[c].run = r PROVE FALSE
    BY DEF StoppedRuns
  <2>1. r # 0
    BY BoundsAssumption DEF OpenRuns, Run
  <2>2. s.stop[c].turn # 0
    BY <2>1 DEF Sound, PendingStops
  <2> QED BY <2>1, <2>2 DEF ApplicableStops
<1>3. k \in ContinuationCandidates(s)
  BY <1>1, <1>2 DEF ContinuationCandidates
<1>4. ContinuationCandidates(s) \in SUBSET Nat /\ 0 \notin ContinuationCandidates(s)
  BY CmdIsNat DEF ContinuationCandidates, RecoverableCommands, ActiveCommands, Cmd
<1>5. Least(ContinuationCandidates(s)) \in ContinuationCandidates(s)
  BY <1>3, <1>4, LeastIsMember
<1> QED BY <1>3, <1>4, <1>5 DEF ContinuationCommand

\* What the repair leaves active, and which stops it leaves requested.
Repairs(s, s1) ==
  /\ \A c \in ActiveCommands(s1) :
       \/ c = ContinuationCommand(s) /\ ContinuationCommand(s) # 0
       \/ s.req.id # 0 /\ c = s.req.cmd
  /\ PendingStops(s1) = {} /\ OpenRuns(s1) = {} /\ OpenTurns(s1) = {}
  /\ s1.req = s.req /\ s1.nrun = s.nrun

LEMMA RepairSettles ==
  ASSUME NEW s \in State, LogInvariant(s), Sound(s)
  PROVE  LET s1 == ClosedByRecovery(s) IN
         /\ Settles(s, s1, {}) /\ Repairs(s, s1) /\ s1.msg = s.msg /\ s1.ncmd = s.ncmd
         /\ \A c \in Cmd : /\ s1.cmd[c].kind = s.cmd[c].kind
                           /\ s1.cmd[c].targets = s.cmd[c].targets
                           /\ s1.cmd[c].terminal # s.cmd[c].terminal =>
                                c \in ActiveCommands(s) /\ (s.req.id # 0 => c # s.req.cmd)
<1> DEFINE s1 == ClosedByRecovery(s)
           end == RecoverableCommands(s) \ {ContinuationCommand(s)}
           cmd(c, o) == [s.cmd[c] EXCEPT !.terminal = o]
           stop(c) == [s.stop[c] EXCEPT !.status = "applied"]
<1>1. ClosesSlot(s, s1)
  BY ClosedByRecoveryEffect
<1>2. /\ \A c \in Cmd : s1.cmd[c] = IF c \in ApplicableStops(s) THEN cmd(c, "Completed")
                                    ELSE IF c \in end THEN cmd(c, "Cancelled") ELSE s.cmd[c]
      /\ \A c \in Cmd : s1.stop[c] = IF c \in ApplicableStops(s) THEN stop(c) ELSE s.stop[c]
  BY DEF ClosedByRecovery, State
<1>3. /\ \A c \in Cmd : \A o \in {"Completed", "Cancelled"} : cmd(c, o).terminal = o
      /\ \A c \in Cmd : stop(c).status = "applied"
  BY RecordFields DEF Command, StopRecord
<1> HIDE DEF s1, cmd, stop
<1>4. /\ \A c \in Cmd : c \in ApplicableStops(s) \cup end => s1.cmd[c].terminal # "none"
      /\ \A c \in Cmd : s1.stop[c].status = "requested" => s1.stop[c] = s.stop[c]
  BY <1>2, <1>3
<1>5. \A c \in Cmd : s1.cmd[c].terminal # s.cmd[c].terminal =>
        c \in ActiveCommands(s) /\ (s.req.id # 0 => c # s.req.cmd)
  BY <1>1, RecoveryEnds DEF ClosesSlot
<1>6. /\ s1 \in State /\ s1.msg = s.msg /\ s1.ncmd = s.ncmd /\ s1.req = s.req /\ s1.nrun = s.nrun
      /\ OpenRuns(s1) = {} /\ OpenTurns(s1) = {}
      /\ \A c \in Cmd : /\ s1.cmd[c].kind = s.cmd[c].kind
                        /\ s1.cmd[c].targets = s.cmd[c].targets
                        /\ s1.cmd[c].started = s.cmd[c].started
  BY <1>1 DEF ClosesSlot
<1>7. \A c \in ActiveCommands(s1) :
        \/ c = ContinuationCommand(s) /\ ContinuationCommand(s) # 0
        \/ s.req.id # 0 /\ c = s.req.cmd
  <2> SUFFICES ASSUME NEW c \in ActiveCommands(s1), c # ContinuationCommand(s)
               PROVE  s.req.id # 0 /\ c = s.req.cmd
    <3>1. \A c \in ActiveCommands(s1) : c \in Cmd /\ c # 0
      BY CmdIsNat DEF ActiveCommands, Cmd
    <3> QED BY <3>1
  <2>1. c \in Cmd /\ s1.cmd[c].started /\ s1.cmd[c].terminal = "none"
    BY DEF ActiveCommands
  <2>2. c \in ActiveCommands(s)
    BY <1>5, <1>6, <2>1 DEF ActiveCommands
  <2>3. c \notin end
    BY <1>4, <2>1
  <2> QED BY <2>2, <2>3 DEF RecoverableCommands
<1>8. PendingStops(s1) = {}
  <2> SUFFICES ASSUME NEW c \in PendingStops(s1) PROVE FALSE
    OBVIOUS
  <2>1. c \in Cmd /\ s1.cmd[c].terminal = "none" /\ s.stop[c].status = "requested"
    BY <1>4 DEF PendingStops
  <2>2. s.cmd[c].kind = "stop" /\ s.cmd[c].started
    BY <2>1 DEF LogInvariant, Commands
  <2>3. c \in ActiveCommands(s1)
    BY <1>6, <2>1, <2>2 DEF ActiveCommands
  <2>4. ~(s.req.id # 0 /\ c = s.req.cmd)
    <3>1. s.req.work \in {"Command", "Recovery"}
      BY RequestInputsType
    <3> QED BY <2>2, <3>1 DEF LogInvariant, Reservable
  <2>5. c # ContinuationCommand(s) \/ ContinuationCommand(s) = 0
    BY <2>2, ContinuationIsWork
  <2> QED BY <1>7, <2>3, <2>4, <2>5
<1>9. /\ Known(s1) = Known(s) /\ PendingMessages(s1) = PendingMessages(s)
      /\ PendingSteers(s1) = PendingSteers(s)
  BY <1>6 DEF Known, PendingMessages, PendingSteers, Unconsumed, Disposition
<1>10. Sound(s1)
  BY <1>4, <1>5, <1>6, <1>9 DEF Sound, ActiveCommands
<1>11. PendingCommands(s) \subseteq PendingCommands(s1) /\ ActiveCommands(s1) \subseteq ActiveCommands(s)
  BY <1>5, <1>6, NumbersAreCommands DEF PendingCommands, ActiveCommands
<1>12. s.ncmd <= s1.ncmd
  BY <1>6, StateFields
<1>13. Settles(s, s1, {})
  BY <1>5, <1>6, <1>9, <1>10, <1>11, <1>12 DEF Settles, Passes, Calm, ActiveCommands
<1> QED BY <1>5, <1>6, <1>7, <1>8, <1>13 DEF Repairs, s1

\* The batch without the continuation: repair, pause, resume.
LEMMA BatchSettles ==
  ASSUME NEW s \in State, LogInvariant(s), Sound(s), s.ncmd < MaxCmd
  PROVE  LET s1 == PendingMessagesPaused(ClosedByRecovery(s), RecoveryPauses(s))
             s2 == IF RecoveryResumes(s) = {} THEN s1
                   ELSE CommandAdmitted(s1, "resume", RecoveryResumes(s))
         IN /\ Settles(s, s2, {}) /\ Repairs(s, s2) /\ s2.ncmd \in Nat
            /\ PendingSteers(s2) \subseteq PendingSteers(s) \ RecoveryPauses(s)
            /\ RecoveryResumes(s) \subseteq ResumeOwned(s2)
            /\ \A k \in 1 .. s.ncmd : s2.cmd[k].terminal # s.cmd[k].terminal =>
                 k \in ActiveCommands(s) /\ (s.req.id # 0 => k # s.req.cmd)
            /\ RecoveryPauses(s) = {} => \A m \in Cmd : s2.msg[m] = s.msg[m]
<1> DEFINE s0 == ClosedByRecovery(s)
           s1 == PendingMessagesPaused(s0, RecoveryPauses(s))
           s2 == IF RecoveryResumes(s) = {} THEN s1
                 ELSE CommandAdmitted(s1, "resume", RecoveryResumes(s))
<1>1. /\ Settles(s, s0, {}) /\ Repairs(s, s0) /\ s0.msg = s.msg /\ s0.ncmd = s.ncmd
      /\ \A c \in Cmd : s0.cmd[c].terminal # s.cmd[c].terminal =>
                          c \in ActiveCommands(s) /\ (s.req.id # 0 => c # s.req.cmd)
  BY RepairSettles
<1> HIDE DEF s0
<1>2. s0 \in State /\ Sound(s0) /\ s.ncmd \in Nat
  BY <1>1, StateFields DEF Settles, Passes
<1>3. /\ Settles(s0, s1, {}) /\ PendingSteers(s1) \subseteq PendingSteers(s0) \ RecoveryPauses(s)
      /\ SameSlot(s0, s1) /\ SameOrders(s0, s1) /\ ActiveCommands(s1) = ActiveCommands(s0)
  BY <1>2, PausedSettles
<1>4. \A m \in Cmd : m \notin RecoveryPauses(s) => s1.msg[m] = s0.msg[m]
  BY <1>2, PausedEffect
<1> HIDE DEF s1
<1>5. s1 \in State /\ Sound(s1) /\ s1.ncmd = s.ncmd
  BY <1>1, <1>3 DEF Settles, Passes, SameOrders
<1>6. Repairs(s, s1)
  <2>1. PendingStops(s1) = PendingStops(s0)
    BY <1>3 DEF PendingStops, SameOrders
  <2>2. OpenRuns(s1) = OpenRuns(s0) /\ OpenTurns(s1) = OpenTurns(s0)
    BY <1>3, SameSlotViews
  <2> QED BY <1>1, <1>3, <2>1, <2>2 DEF Repairs, SameSlot
<1>7. PendingSteers(s0) = PendingSteers(s) /\ Known(s1) = Known(s)
  BY <1>1, <1>3 DEF PendingSteers, PendingMessages, Unconsumed, Disposition, Settles
<1>8. Settles(s, s1, {})
  <2>1. Settles(s, s1, {} \cup {})
    BY <1>1, <1>3, SettlesIsTransitive
  <2> QED BY <2>1
<1>9. CASE RecoveryResumes(s) = {}
  <2>1. s2 = s1
    BY <1>9
  <2> HIDE DEF s2
  <2>2. \A k \in 1 .. s.ncmd : k \in Cmd
    BY NumbersAreCommands
  <2> QED BY <1>1, <1>2, <1>3, <1>4, <1>5, <1>6, <1>7, <1>8, <1>9, <2>1, <2>2 DEF SameOrders, s2, s1, s0
<1>10. CASE RecoveryResumes(s) # {}
  <2> DEFINE n == s1.ncmd + 1
  <2>1. /\ RecoveryResumes(s) \in SUBSET Cmd /\ "resume" \in Kinds
        /\ RecoveryResumes(s) \subseteq Known(s1)
    <3>1. RecoveryResumes(s) \subseteq PendingSteers(s)
      BY DEF RecoveryResumes
    <3> QED BY <1>7, <3>1, SteersAreKnown, QueueTypes DEF Kinds
  <2>2. s2 = CommandAdmitted(s1, "resume", RecoveryResumes(s))
    BY <1>10
  <2> HIDE DEF s2
  <2>3. /\ Passes(s1, s2, {}, {}) /\ Calm(s1, s2)
        /\ Admits(s1, s2, "resume", RecoveryResumes(s)) /\ n \in PendingCommands(s2)
    BY <1>5, <2>1, <2>2, AdmittedPasses
  <2>4. /\ s2.msg = s1.msg /\ s2.stop = s1.stop /\ SameSlot(s1, s2) /\ s2.ncmd = n
        /\ s2.cmd[n].kind = "resume" /\ s2.cmd[n].targets = RecoveryResumes(s)
        /\ \A c \in Cmd : /\ s2.cmd[c].started = s1.cmd[c].started
                          /\ s2.cmd[c].terminal = s1.cmd[c].terminal
    BY <2>3 DEF Admits
  <2>5. Known(s2) = Known(s1) /\ PendingSteers(s2) = PendingSteers(s1)
    BY <2>4 DEF PendingSteers, PendingMessages, Unconsumed, Disposition, Known
  <2>6. Settles(s, s2, {})
    <3>1. Settles(s, s2, {} \cup {})
      BY <1>8, <2>3, <2>5, SettlesIsTransitive DEF Settles
    <3> QED BY <3>1
  <2>7. Repairs(s, s2)
    <3>1. PendingStops(s2) = PendingStops(s1) /\ ActiveCommands(s2) = ActiveCommands(s1)
      BY <2>4 DEF PendingStops, ActiveCommands
    <3>2. OpenRuns(s2) = OpenRuns(s1) /\ OpenTurns(s2) = OpenTurns(s1)
      BY <2>4, SameSlotViews
    <3> QED BY <1>6, <2>4, <3>1, <3>2 DEF Repairs, SameSlot
  <2>8. RecoveryResumes(s) \subseteq ResumeOwned(s2)
    <3>1. n \in 1 .. s2.ncmd /\ s2.cmd[n].terminal = "none"
      BY <2>3 DEF PendingCommands
    <3> QED BY <2>4, <3>1, ResumeOwnedMeans
  <2>9. \A k \in 1 .. s.ncmd : s2.cmd[k].terminal # s.cmd[k].terminal =>
          k \in ActiveCommands(s) /\ (s.req.id # 0 => k # s.req.cmd)
    <3>1. \A k \in 1 .. s.ncmd : k \in Cmd /\ s1.cmd[k] = s0.cmd[k]
      BY <1>3, NumbersAreCommands DEF SameOrders
    <3> QED BY <1>1, <2>4, <3>1
  <2>10. RecoveryPauses(s) = {} => \A m \in Cmd : s2.msg[m] = s.msg[m]
    BY <1>1, <1>4, <2>4
  <2>11. s2.ncmd \in Nat
    BY <1>2, <1>5, <2>4
  <2> QED BY <1>3, <1>7, <2>5, <2>6, <2>7, <2>8, <2>9, <2>10, <2>11 DEF s2, s1, s0
<1> QED BY <1>9, <1>10

\* A steer that the batch leaves pending has an owner, unless the continuation takes it.
LEMMA SteersKeepOwners ==
  ASSUME NEW s \in State, LogInvariant(s), Sound(s), ResumesHeld(s), ContinuationCommand(s) = 0,
         NEW s2, Settles(s, s2, {}), Repairs(s, s2), s2.ncmd \in Nat,
         PendingSteers(s2) \subseteq PendingSteers(s) \ RecoveryPauses(s),
         RecoveryResumes(s) \subseteq ResumeOwned(s2),
         \A k \in 1 .. s.ncmd : s2.cmd[k].terminal # s.cmd[k].terminal =>
           k \in ActiveCommands(s) /\ (s.req.id # 0 => k # s.req.cmd)
  PROVE  NothingToRecover(s2)
<1>1. RecoverableCommands(s2) = {}
  BY DEF Repairs, RecoverableCommands
<1>2. OpenRuns(s2) = {} /\ OpenTurns(s2) = {} /\ PendingStops(s2) = {}
  BY DEF Repairs
<1>3. s.ncmd \in Nat /\ s.ncmd <= s2.ncmd
  BY StateFields DEF Settles, Passes
<1>4. RecoveryResumes(s2) = {}
  <2> SUFFICES ASSUME NEW m \in RecoveryResumes(s2) PROVE FALSE
    OBVIOUS
  <2>1. /\ m \in PendingSteers(s2) /\ m \notin PendingCommands(s2) /\ m \notin ResumeOwned(s2)
        /\ ~(s2.req.id # 0 /\ s2.req.work = "Recovery" /\ m \in s2.req.inputs)
    BY DEF RecoveryResumes
  <2>2. m \in PendingSteers(s) /\ m \notin RecoveryPauses(s) /\ m \notin RecoveryResumes(s)
    BY <2>1
  <2>3. m \notin PendingCommands(s)
    BY <2>1 DEF Settles, Passes
  <2>4. ~(s.req.id # 0 /\ s.req.work = "Recovery" /\ m \in s.req.inputs)
    BY <2>1 DEF Repairs
  <2>5. m \notin ContinuationInputs(s)
    BY DEF ContinuationInputs
  <2>6. m \in ResumeOwned(s)
    BY <2>2, <2>3, <2>4, <2>5 DEF RecoveryResumes
  <2>7. PICK k \in 1 .. s.ncmd : /\ s.cmd[k].kind = "resume" /\ s.cmd[k].terminal = "none"
                                 /\ m \in s.cmd[k].targets
    BY <2>6, ResumeOwnedMeans
  <2>8. k \in Cmd /\ k \in 1 .. s2.ncmd /\ s2.cmd[k].kind = "resume" /\ m \in s2.cmd[k].targets
    <3>1. k \in Cmd /\ k <= s.ncmd
      BY NumbersAreCommands
    <3> QED BY <1>3, <2>7, <3>1 DEF Settles, Passes
  <2>9. s2.cmd[k].terminal # "none"
    BY <2>1, <2>8, ResumeOwnedMeans
  <2>10. k \in ActiveCommands(s) /\ (s.req.id # 0 => k # s.req.cmd)
    BY <2>7, <2>9
  <2>11. m \in PendingMessages(s)
    BY <2>2 DEF PendingSteers
  <2>12. PICK r \in OpenRuns(s) : k \in s.run[r].of
    BY <2>7, <2>10, <2>11 DEF ResumesHeld, Gone
  <2>13. ApplicableStops(s) = {}
    BY <2>2 DEF RecoveryPauses, MessagesToPause
  <2> QED BY <2>7, <2>10, <2>12, <2>13, OpenResumesContinue
<1> QED BY <1>1, <1>2, <1>4 DEF NothingToRecover

\* A steer that no continuation takes is owned by what owned it before, or by a resume.
LEMMA RepairOwnsSteers ==
  ASSUME NEW s \in State, LogInvariant(s), Sound(s), SteersOwned(s), ContinuationCommand(s) = 0,
         NEW s2, Settles(s, s2, {}), Repairs(s, s2), NothingToRecover(s2)
  PROVE  SteersOwned(s2)
<1>1. s2 \in State /\ s2.req = s.req
  BY DEF Settles, Passes, Repairs
<1>2. CASE OpenRuns(s) = {}
  <2>1. PendingSteers(s2) \cap Unbacked(s2, {}) \subseteq PendingSteers(s) \cap Unbacked(s, {})
    BY SettlesKeepsSteers
  <2>2. Inherited(s2) = Inherited(s)
    BY <1>1 DEF Inherited
  <2> QED BY <1>2, <2>1, <2>2 DEF SteersOwned
<1>3. CASE OpenRuns(s) # {}
  <2>1. s2.req.id = 0
    BY <1>1, <1>3 DEF LogInvariant, OneSlot
  <2>2. ActiveCommands(s2) = {} /\ RecoveryResumes(s2) = {}
    BY <2>1 DEF NothingToRecover, RecoverableCommands
  <2>3. RecoveryPauses(s2) = {} /\ ContinuationCommand(s2) = 0
    <3>1. PendingStops(s2) = {} /\ RecoverableCommands(s2) = {}
      BY DEF NothingToRecover
    <3> QED BY <3>1 DEF RecoveryPauses, ApplicableStops, ContinuationCommand, ContinuationCandidates
  <2>4. ASSUME NEW m \in PendingSteers(s2), m \in Unbacked(s2, {}) PROVE FALSE
    <3>1. m \notin PendingCommands(s2)
      BY <2>4 DEF Unbacked, Backs
    <3>2. m \notin ContinuationInputs(s2)
      BY <2>3 DEF ContinuationInputs
    <3>3. m \in ResumeOwned(s2)
      BY <2>1, <2>2, <2>3, <3>1, <3>2 DEF RecoveryResumes
    <3>4. PICK k \in 1 .. s2.ncmd : /\ s2.cmd[k].kind = "resume" /\ s2.cmd[k].terminal = "none"
                                    /\ m \in s2.cmd[k].targets
      BY <3>3, ResumeOwnedMeans
    <3>5. k \notin PendingCommands(s2)
      BY <2>4, <3>4 DEF Unbacked, Backs
    <3>6. k \in ActiveCommands(s2)
      BY <1>1, <3>4, <3>5, NumbersAreCommands DEF PendingCommands, ActiveCommands
    <3> QED BY <2>2, <3>6
  <2> QED BY <2>4 DEF SteersOwned
<1> QED BY <1>2, <1>3

\* With a reserved continuation, nothing is left that the reservation does not hold.
LEMMA ReservedIsFixed ==
  ASSUME NEW s \in State, NEW s2 \in State, Sound(s2), Repairs(s, s2), s.req.id = 0,
         NEW s3, OnlyRequest(s2, s3), s3.req.id # 0, s3.req.work = "Recovery",
         s3.req.cmd = ContinuationCommand(s), PendingSteers(s2) \subseteq s3.req.inputs
  PROVE  NothingToRecover(s3) /\ Sound(s3) /\ SteersOwned(s3)
<1>1. OnlySlot(s2, s3) /\ OpenRuns(s3) = OpenRuns(s2) /\ OpenTurns(s3) = OpenTurns(s2)
  BY RequestPasses, OnlyRequestViews
<1>2. /\ Sound(s3) /\ PendingSteers(s3) = PendingSteers(s2)
      /\ ActiveCommands(s3) = ActiveCommands(s2)
  BY <1>1, SlotPasses DEF Passes
<1>3. PendingStops(s3) = PendingStops(s2)
  BY <1>1 DEF PendingStops, OnlySlot, SameOrders
<1>4. RecoverableCommands(s3) = {} /\ RecoveryResumes(s3) = {}
  BY <1>2 DEF Repairs, RecoverableCommands, RecoveryResumes
<1>5. PendingSteers(s3) \subseteq Inherited(s3)
  BY <1>2 DEF Inherited
<1> QED BY <1>1, <1>2, <1>3, <1>4, <1>5 DEF NothingToRecover, SteersOwned, Repairs

\* With a run that replaces the dead one, a second recovery would continue the same work.
LEMMA ReplacedIsFixed ==
  ASSUME NEW s \in State, LogInvariant(s), s.nrun < MaxRun,
         NEW c, c = ContinuationCommand(s), c # 0,
         NEW s2, Settles(s, s2, {}), Repairs(s, s2), c \in ActiveCommands(s2), c \in 1 .. s.ncmd,
         \A m \in Cmd : s2.msg[m] = s.msg[m],
         NEW of \in SUBSET Cmd, c \in of, NEW s3, s3 = RunStarted(s2, of)
  PROVE  /\ Sound(s3) /\ ActiveCommands(s3) = {c}
         /\ RecoverableCommands(s3) = {c} /\ OpenRuns(s3) = {s3.nrun} /\ OpenTurns(s3) = {}
         /\ PendingStops(s3) = {} /\ RecoveryPauses(s3) = {} /\ RecoveryResumes(s3) = {}
         /\ ContinuationInputs(s3) = ContinuationInputs(s)
<1>1. /\ c \in Cmd /\ s.cmd[c].kind \in Submits \cup {"resume"} /\ s.req.id = 0
      /\ PendingSteers(s) \subseteq ContinuationInputs(s)
  BY ContinuationIsWork
<1>2. /\ s2 \in State /\ Sound(s2) /\ s2.nrun = s.nrun /\ s2.req.id = 0 /\ OpenRuns(s2) = {}
      /\ OpenTurns(s2) = {} /\ PendingStops(s2) = {} /\ s.ncmd \in Nat
  BY <1>1, StateFields DEF Settles, Passes, Repairs
<1>3. ActiveCommands(s2) = {c}
  BY <1>1 DEF Repairs
<1>4. s2.cmd[c].kind = s.cmd[c].kind /\ s2.cmd[c].targets = s.cmd[c].targets
  BY <1>1, <1>2 DEF Settles, Passes
<1> DEFINE n == s2.nrun + 1
<1>5. /\ OnlySlot(s2, s3) /\ s3.req = s2.req /\ n \in Run /\ s3.nrun = n /\ s3.run[n].of = of
      /\ OpenRuns(s3) = OpenRuns(s2) \cup {n} /\ OpenTurns(s3) = OpenTurns(s2)
  BY <1>2, RunStartedEffect
<1>6. /\ Sound(s3) /\ PendingSteers(s3) = PendingSteers(s2)
      /\ PendingMessages(s3) = PendingMessages(s2)
      /\ ActiveCommands(s3) = ActiveCommands(s2) /\ s3.cmd = s2.cmd /\ s3.msg = s2.msg
  BY <1>2, <1>5, SlotPasses DEF Passes
<1>7. PendingStops(s3) = {}
  BY <1>2, <1>5 DEF PendingStops, OnlySlot, SameOrders
<1>8. /\ PendingMessages(s2) = PendingMessages(s) /\ PendingSteers(s2) = PendingSteers(s)
      /\ MessagesToPause(s3) = MessagesToPause(s)
  <2>1. PendingMessages(s2) = PendingMessages(s)
    BY DEF PendingMessages, Unconsumed
  <2>2. PendingSteers(s2) = PendingSteers(s) /\ PausedQueue(s2) = PausedQueue(s)
    BY <2>1 DEF PendingSteers, PausedQueue, Disposition, PendingMessages
  <2>3. PausedQueue(s3) = PausedQueue(s2)
    BY <1>6 DEF PausedQueue
  <2> QED BY <1>6, <2>1, <2>2, <2>3 DEF MessagesToPause, PendingQueue
<1>9. /\ RecoverableCommands(s3) = {c} /\ OpenRuns(s3) = {n} /\ OpenTurns(s3) = {}
      /\ ApplicableStops(s3) = {} /\ StoppedRuns(s3) = {}
  BY <1>2, <1>3, <1>5, <1>6, <1>7 DEF RecoverableCommands, ApplicableStops, StoppedRuns
<1>10. ContinuationCommand(s3) = c
  <2>1. ContinuationCandidates(s3) = {c}
    BY <1>1, <1>4, <1>5, <1>6, <1>9 DEF ContinuationCandidates
  <2>2. Least({c}) \in {c}
    BY <1>1, LeastIsMember, CmdIsNat
  <2> QED BY <2>1, <2>2 DEF ContinuationCommand
<1>11. ContinuationInputs(s3) = ContinuationInputs(s)
  <2>1. PendingSteers(s3) = PendingSteers(s) /\ s3.cmd[c].kind = s.cmd[c].kind
        /\ s3.cmd[c].targets = s.cmd[c].targets
    BY <1>4, <1>6, <1>8
  <2> QED BY <1>8, <1>10, <2>1 DEF ContinuationInputs
<1>12. RecoveryPauses(s3) = {} /\ RecoveryResumes(s3) = {}
  BY <1>1, <1>6, <1>8, <1>9, <1>11 DEF RecoveryPauses, RecoveryResumes
<1> QED BY <1>3, <1>5, <1>6, <1>7, <1>9, <1>11, <1>12

\* Recovery comes to rest when nothing is left to recover.
LEMMA RecoveredRests ==
  ASSUME SlotInvariant', Sound(st'), SteersOwned(st'), NothingToRecover(st'), ctl' = Free("ready")
  PROVE  LoopKept
<1>1. ctl'.at = "ready" /\ LogInvariant(st') /\ st' \in State
  BY ReadyPlace DEF SlotInvariant, TypeOK
<1>2. \A c \in ActiveCommands(st') : Held(c)'
  <2> SUFFICES ASSUME NEW c \in ActiveCommands(st')
               PROVE  st'.req.id # 0 /\ st'.req.work = "Recovery" /\ c = st'.req.cmd
    BY DEF Held
  <2>1. st'.req.id # 0 /\ c = st'.req.cmd
    BY DEF NothingToRecover, RecoverableCommands
  <2>2. st'.req.work \in {"Command", "Recovery"}
    BY <1>1, RequestInputsType
  <2>3. st'.cmd[c].started
    BY DEF ActiveCommands
  <2> QED BY <1>1, <2>1, <2>2, <2>3 DEF LogInvariant, Reservable
<1> QED BY <1>1, <1>2, Assembled DEF Taken, Reading

\* Whatever the dead process left, the check after the batch passes.
LEMMA RecoverOwned == LoopInvariant /\ SlotInvariant' /\ Recover => LoopKept
<1> SUFFICES ASSUME LoopInvariant, SlotInvariant', Recover PROVE LoopKept
  OBVIOUS
<1> DEFINE paused == PendingMessagesPaused(ClosedByRecovery(st), RecoveryPauses(st))
           s2 == IF RecoveryResumes(st) = {} THEN paused
                 ELSE CommandAdmitted(paused, "resume", RecoveryResumes(st))
           c  == ContinuationCommand(st)
           r  == ContinuationRun(st)
           ms == ContinuationInputs(st)
<1>1. /\ st.ncmd < MaxCmd /\ st.nrun < MaxRun /\ st' = RecoveryBatch(st, Deferred)
      /\ ctl' = IF ~RecoveryReachedFixedPoint(st, st', Deferred) THEN Free("dead")
                ELSE IF c # 0 /\ ~Deferred THEN Place("recovered", c, c, st'.nrun, ms)
                ELSE Free("ready")
  BY DEF Recover, Goto
<1>2. st \in State /\ LogInvariant(st) /\ Sound(st) /\ SteersOwned(st) /\ ResumesHeld(st)
  BY LoopFacts
<1>3. /\ Settles(st, s2, {}) /\ Repairs(st, s2) /\ s2.ncmd \in Nat
      /\ PendingSteers(s2) \subseteq PendingSteers(st) \ RecoveryPauses(st)
      /\ RecoveryResumes(st) \subseteq ResumeOwned(s2)
      /\ \A k \in 1 .. st.ncmd : s2.cmd[k].terminal # st.cmd[k].terminal =>
           k \in ActiveCommands(st) /\ (st.req.id # 0 => k # st.req.cmd)
      /\ RecoveryPauses(st) = {} => \A m \in Cmd : s2.msg[m] = st.msg[m]
  BY <1>1, <1>2, BatchSettles
<1>4. c # 0 => c \in ActiveCommands(s2) /\ c \in 1 .. s2.ncmd /\ s2.cmd[c].kind # "stop"
  BY <1>1, <1>2, RecoveryRepairs
<1>5. LogInvariant(s2)
  BY <1>1, <1>2, RecoveryRepairs
<1>6. /\ c = 0 => st' = s2
      /\ c # 0 /\ Deferred => st' = RunSchedulingRequested(s2, "Recovery", c, r, ms)
      /\ c # 0 /\ ~Deferred => st' = RunStarted(s2, st.run[r].of)
  BY <1>1 DEF RecoveryBatch
<1>7. c # 0 => r \in Run /\ c \in st.run[r].of /\ st.run[r].of \in SUBSET Cmd /\ ms \in SUBSET Cmd
  <2>1. c # 0 => r \in Run /\ c \in st.run[r].of /\ ms \in SUBSET Cmd
    BY <1>2, ContinuationType DEF OpenRuns
  <2> QED BY <1>2, <2>1, StateFields DEF RunRecord
<1>8. c # 0 => /\ c \in ActiveCommands(st) /\ RecoveryPauses(st) = {} /\ st.req.id = 0
               /\ PendingSteers(st) \subseteq ms
  BY <1>2, ContinuationIsWork
<1>9. s2 \in State /\ Sound(s2) /\ OpenRuns(s2) = {}
  BY <1>3 DEF Settles, Passes, Repairs
<1> HIDE DEF s2, r, ms
<1>10. CASE c = 0
  <2>1. NothingToRecover(s2)
    BY <1>2, <1>3, <1>10, SteersKeepOwners
  <2>2. SteersOwned(s2) /\ ctl' = Free("ready")
    BY <1>1, <1>2, <1>3, <1>6, <1>10, <2>1, RepairOwnsSteers DEF RecoveryReachedFixedPoint
  <2> QED BY <1>6, <1>9, <1>10, <2>1, <2>2, RecoveredRests
<1>11. CASE c # 0 /\ Deferred
  <2>1. OnlyRequest(s2, st')
    BY <1>4, <1>5, <1>6, <1>7, <1>9, <1>11, RequestedKeeps
  <2>2. /\ st'.req.id # 0 /\ st'.req.work = "Recovery" /\ st'.req.cmd = c /\ st'.req.inputs = ms
    <3>1. s2.nreq \in Nat
      BY <1>9, StateFields
    <3>2. st'.req = [id |-> s2.nreq + 1, work |-> "Recovery", cmd |-> c, run |-> r,
                     inputs |-> ms, delivered |-> FALSE]
      BY <1>6, <1>9, <1>11 DEF RunSchedulingRequested, State
    <3> QED BY <3>1, <3>2
  <2>3. NothingToRecover(st') /\ Sound(st') /\ SteersOwned(st')
    <3>1. PendingSteers(s2) \subseteq st'.req.inputs /\ st.req.id = 0
      BY <1>3, <1>8, <1>11, <2>2
    <3> QED BY <1>2, <1>3, <1>9, <2>1, <2>2, <3>1, ReservedIsFixed
  <2>4. ctl' = Free("ready")
    BY <1>1, <1>11, <2>3 DEF RecoveryReachedFixedPoint
  <2> QED BY <2>3, <2>4, RecoveredRests
<1>12. CASE c # 0 /\ ~Deferred
  <2>1. \A m \in Cmd : s2.msg[m] = st.msg[m]
    BY <1>3, <1>8, <1>12
  <2>2. c \in 1 .. st.ncmd
    BY <1>2, <1>8, <1>12, NumbersAreCommands
  <2>3. /\ Sound(st') /\ ActiveCommands(st') = {c}
        /\ RecoverableCommands(st') = {c} /\ OpenRuns(st') = {st'.nrun} /\ OpenTurns(st') = {}
        /\ PendingStops(st') = {} /\ RecoveryPauses(st') = {} /\ RecoveryResumes(st') = {}
        /\ ContinuationInputs(st') = ContinuationInputs(st)
    BY <1>1, <1>2, <1>3, <1>4, <1>6, <1>7, <1>12, <2>1, <2>2, ReplacedIsFixed
  <2>4. ctl' = Place("recovered", c, c, st'.nrun, ms)
    BY <1>1, <1>12, <2>3 DEF RecoveryReachedFixedPoint
  <2> HIDE DEF c
  <2>5. ctl'.at = "recovered" /\ ctl'.active = c
    BY <2>4 DEF Place
  <2>6. SteersOwned(st')
    BY <2>5, HeldIsOpenNext DEF Closing
  <2>7. \A d \in ActiveCommands(st') : Held(d)'
    BY <2>3, <2>5 DEF Held, Closing
  <2> QED BY <2>3, <2>5, <2>6, <2>7, Assembled DEF Taken, Reading
<1> QED BY <1>10, <1>11, <1>12

-----------------------------------------------------------------------------
(* Every step, and the theorems.                                           *)

LEMMA ControlLives == LoopInvariant /\ SlotInvariant' /\ Control => LoopKept
BY RestartOwned, RecoverOwned, BoundaryOwned, TurnOwned, StartOwned, DeferOwned, DeadFiberOwned,
   DrainControlOwned, DrainDecisionOwned, DrainStartOwned, FinishOwned, CancelOwned, PromoteOwned,
   RequestStopOwned, InterruptionOwned, WaitingRunOwned, RunEndOwned, WaitingOwned
DEF Control

LEMMA LoopStep == LoopInvariant /\ [Next]_vars => LoopInvariant'
<1> SUFFICES ASSUME LoopInvariant, [Next]_vars PROVE LoopInvariant'
  OBVIOUS
<1>1. SlotInvariant'
  BY SlotStep DEF LoopInvariant
<1>2. LoopKept
  <2>1. CASE UNCHANGED vars
    BY <1>1, <2>1, StillOwned DEF vars
  <2>2. CASE Scheduling
    BY <1>1, <2>2, DeliveryOwned, TurnOwned DEF Scheduling
  <2>3. CASE \E id \in offered : Grant(id)
    BY <1>1, <2>3, GrantOwned
  <2>4. CASE Control
    BY <1>1, <2>4, ControlLives
  <2> QED BY <1>1, <2>1, <2>2, <2>3, <2>4, AdmissionOwned, FiberOwned, DeliveryOwned, RestartOwned
          DEF Next
<1> QED BY <1>1, <1>2 DEF LoopKept, LoopInvariant

LEMMA LoopInit == Init => LoopInvariant
<1> SUFFICES ASSUME Init PROVE LoopInvariant
  OBVIOUS
<1>1. st = InitialState /\ ctl = Free("boot")
  BY DEF Init
<1>2. ctl.at = "boot"
  BY <1>1 DEF Free, Place
<1>3. \A c \in Cmd : /\ st.cmd[c].kind = "none" /\ ~st.cmd[c].started /\ st.cmd[c].terminal = "none"
                     /\ st.stop[c].status = "none" /\ ~st.msg[c].known
  BY <1>1 DEF InitialState
<1>4. PendingSteers(st) = {} /\ ActiveCommands(st) = {}
  BY <1>3 DEF PendingSteers, PendingMessages, Unconsumed, ActiveCommands
<1>5. LogOwned(st)
  BY <1>3, <1>4 DEF LogOwned, Sound, SteersOwned, ResumesHeld
<1>6. ActiveHeld /\ SteersRead
  BY <1>2 DEF ActiveHeld, SteersRead, Taken
<1> QED BY <1>2, <1>5, <1>6, SlotInit DEF LoopInvariant

\* Whatever is pending or active in the log has an owner that will start or end it: a command,
\* a reservation, the execution, the grant, or what the control fiber carries to its next append.
THEOREM OwnersHold == Spec => []LoopInvariant
BY LoopInit, LoopStep, PTL DEF Spec

\* The control fiber never stops for good, neither on an active command that nobody owns, nor on
\* a steer that nothing will start, nor on a recovery that leaves something to repair: the three
\* states that dieLiveInvariantViolation and the recovery check refuse are never reached.
THEOREM LoopStaysAlive == Spec => []LoopAlive
<1>1. LoopInvariant => LoopAlive
  BY DEF LoopInvariant, LoopAlive
<1> QED BY <1>1, OwnersHold, PTL
=============================================================================
