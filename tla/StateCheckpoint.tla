--------------------------- MODULE StateCheckpoint ---------------------------
(***************************************************************************)
(* The checkpoint of the framework's reduced state                         *)
(* (domain/reduced-state.ts): a record is saved without the bodies it      *)
(* holds, which are read back from the log through the positions that the  *)
(* record keeps, and the rest of the log is folded onto the result.  A     *)
(* body is stood for by the position of the event that carried it.         *)
(*                                                                         *)
(* A record has a field only when the code's has: spreading one over       *)
(* another is @@.  Records without bodies (runs, turns, inferences, stop   *)
(* requests, compactions) are saved as they are and left out.              *)
(***************************************************************************)
EXTENDS Integers, SequencesExt

CONSTANTS
  Commands, Messages, Tools,      \* their identities
  MaxLog                          \* bound

VARIABLES
  log,          \* the committed events: [type, of: whom it is about, note]
  mem,          \* the folded state of the live process
  loaded,       \* FALSE when a start could not read the checkpoint
  checkpoint    \* the saved one

codecVars == <<log, mem, loaded, checkpoint>>

NoRecord == [f \in {} |-> 0]
Without(r, fields) == Restrict(r, DOMAIN r \ fields)
Initial == [last |-> 0, commands |-> NoRecord, messages |-> NoRecord, tools |-> NoRecord]

-----------------------------------------------------------------------------
(* The fold.                                                               *)

Upserted(map, keys, fields) ==
  [k \in keys |-> fields @@ (IF k \in DOMAIN map THEN map[k] ELSE NoRecord)] @@ map
Before(r, field, seq) == field \in DOMAIN r /\ r[field] < seq

FoldedCommands(cs, e, seq) ==
  CASE e.type = "CommandAdmitted" -> Upserted(cs, e.of, [admitted |-> seq, body |-> seq])
    [] e.type = "CommandStarted" -> Upserted(cs, e.of, [started |-> seq])
    [] e.type = "CommandEnded" -> Upserted(cs, e.of, [terminal |-> seq])
    [] e.type = "ContextRebased" ->
         Restrict(cs, {c \in DOMAIN cs : ~Before(cs[c], "terminal", e.note)})
    [] OTHER -> cs

\* The events that bring a message into the log, and its record.
Born ==
  [SystemMessageCommitted |-> [tag |-> "System"], UserMessageCommitted |-> [tag |-> "User"],
   UserMessageSubmitted |-> [tag |-> "User"], SteeringMessageQueued |-> [tag |-> "Steering"],
   AssistantMessageCommitted |-> [tag |-> "Assistant"],
   AssistantMessageImported |-> [tag |-> "Assistant", imported |-> TRUE],
   AssistantPartialCommitted |-> [tag |-> "AssistantPartial"]]
NewMessage(e, seq) ==
  [seq |-> seq, body |-> seq] @@ Born[e.type] @@
  IF e.type = "UserMessageSubmitted" THEN [requested |-> e.note, disposition |-> e.note]
  ELSE NoRecord

FromUser(r) == r.tag \in {"User", "Steering"}
Redirected(r, disposition) == IF r.tag = "User" THEN [disposition |-> disposition] ELSE NoRecord
Promotable(r) ==
  \/ r.tag = "User" /\ "disposition" \in DOMAIN r /\ r.disposition = "queue"
  \/ r.tag = "Steering" /\ "paused" \in DOMAIN r

\* Mutant: a consumed message moves to where it was consumed.
TouchedAndMoved(r, type, seq) ==
  IF type = "TurnStarted" /\ FromUser(r) THEN [consumed |-> seq, seq |-> seq] @@ r ELSE r

\* What later events do to a message.
Touched(r, type, seq) ==
  CASE type = "TurnStarted" /\ FromUser(r) -> [consumed |-> seq] @@ r
    [] type = "MessagesPaused" /\ FromUser(r) /\ {"consumed", "cancelled"} \cap DOMAIN r = {} ->
         [paused |-> seq] @@ Redirected(r, "queue") @@ r
    [] type = "UserMessagePromoted" /\ Promotable(r) ->
         [promoted |-> seq] @@ Redirected(r, "steer") @@ Without(r, {"paused"})
    [] type = "UserMessageCancelled" /\ FromUser(r) -> [cancelled |-> seq] @@ r
    [] type = "SteeringMessageCancelled" /\ r.tag = "Steering" -> [cancelled |-> seq] @@ r
    [] OTHER -> r

\* messagePruneSeq: legacy steering goes once it was consumed or cancelled.
Pruned(r, retained) ==
  CASE r.tag = "System" -> FALSE
    [] r.tag = "Steering" -> IF "consumed" \in DOMAIN r THEN r.consumed < retained
                             ELSE Before(r, "cancelled", retained)
    [] OTHER -> r.seq < retained

FoldedMessages(ms, e, seq) ==
  CASE e.type \in DOMAIN Born -> [m \in e.of |-> NewMessage(e, seq)] @@ ms
    [] e.type = "ContextRebased" ->
         Restrict(ms, {m \in DOMAIN ms : ~Pruned(ms[m], e.note)})
    [] OTHER -> [m \in DOMAIN ms |-> IF m \in e.of THEN Touched(ms[m], e.type, seq) ELSE ms[m]]

\* A decision or a terminal, with what it was about.
Fact(tag, seq) == [tag |-> tag, seq |-> seq, body |-> seq]
FoldedTools(ts, e, seq) ==
  CASE e.type \in {"ToolCallCreated", "ToolCallRejected"} ->
         Upserted(ts, e.of, [decision |-> Fact(e.type, seq)])
    [] e.type = "ToolCallStarted" /\ e.note = 0 -> Upserted(ts, e.of, [started |-> seq])
    [] e.type = "ToolCallStarted" /\ e.note > 0 ->
         Upserted(Upserted(ts, {t \in e.of : t \notin DOMAIN ts \/ "started" \notin DOMAIN ts[t]},
                           [started |-> seq]),
                  e.of, [attempt |-> e.note])
    [] e.type \in {"ToolCallCompleted", "ToolCallFailed"} ->
         Upserted(ts, e.of, [terminal |-> Fact(e.type, seq)])
    [] e.type = "ContextRebased" ->
         Restrict(ts, {t \in DOMAIN ts : ~("terminal" \in DOMAIN ts[t]
                                           /\ ts[t].terminal.seq < e.note)})
    [] OTHER -> ts

\* foldReducedState; an event of another namespace moves the position only.
Fold(s, e) ==
  LET seq == s.last + 1
  IN [last |-> seq, commands |-> FoldedCommands(s.commands, e, seq),
      messages |-> FoldedMessages(s.messages, e, seq), tools |-> FoldedTools(s.tools, e, seq)]

-----------------------------------------------------------------------------
(* The checkpoint.                                                         *)

\* Mutant: a field of the tool record is not listed.
EncodedToolForgetful(r) ==
  [f \in DOMAIN r \ {"attempt"} |-> IF f \in {"decision", "terminal"} THEN Without(r[f], {"body"})
                                    ELSE r[f]]

EncodedTool(r) ==
  [f \in DOMAIN r |-> IF f \in {"decision", "terminal"} THEN Without(r[f], {"body"}) ELSE r[f]]
EncodedMessage(r) == Without(r, {"body"})
EncodedCommand(r) == Without(r, {"body"})

\* encodeReducedStateCheckpoint
Encode(s) ==
  [last |-> s.last,
   commands |-> [c \in DOMAIN s.commands |-> EncodedCommand(s.commands[c])],
   messages |-> [m \in DOMAIN s.messages |-> EncodedMessage(s.messages[m])],
   tools |-> [t \in DOMAIN s.tools |-> EncodedTool(s.tools[t])]]

\* checkpointMessageEventType
MessageType(r) ==
  CASE r.tag = "User" -> IF "requested" \in DOMAIN r THEN "UserMessageSubmitted"
                         ELSE "UserMessageCommitted"
    [] r.tag = "Assistant" -> IF "imported" \in DOMAIN r THEN "AssistantMessageImported"
                              ELSE "AssistantMessageCommitted"
    [] r.tag = "System" -> "SystemMessageCommitted"
    [] r.tag = "Steering" -> "SteeringMessageQueued"
    [] r.tag = "AssistantPartial" -> "AssistantPartialCommitted"

\* reduceSingleCheckpointEvent: the fold of one event, on nothing.
Single(seq) == Fold([Initial EXCEPT !.last = seq - 1], log[seq])
Refers(seq, type) == seq \in DOMAIN log /\ log[seq].type = type

\* A record may lack its admission, its decision: what named them was pruned since.
DecodedCommand(c, r) ==
  IF "admitted" \in DOMAIN r
    THEN [body |-> Single(r.admitted).commands[c].body] @@ r ELSE r

DecodedMessage(m, r) == r @@ Single(r.seq).messages[m]
DecodedTool(t, r) ==
  [f \in DOMAIN r |-> IF f \in {"decision", "terminal"} THEN Single(r[f].seq).tools[t][f] ELSE r[f]]

\* What the decoder refuses: a position that holds another type of event, or none.
Decodable(saved) ==
  /\ \A c \in DOMAIN saved.commands : "admitted" \in DOMAIN saved.commands[c] =>
       Refers(saved.commands[c].admitted, "CommandAdmitted")
  /\ \A m \in DOMAIN saved.messages :
       LET r == saved.messages[m]
       IN Refers(r.seq, MessageType(r)) /\ m \in DOMAIN Single(r.seq).messages
  /\ \A t \in DOMAIN saved.tools : \A f \in {"decision", "terminal"} \cap DOMAIN saved.tools[t] :
       LET fact == saved.tools[t][f] IN Refers(fact.seq, fact.tag)

\* decodeReducedStateCheckpoint
Decode(saved) ==
  [last |-> saved.last,
   commands |-> [c \in DOMAIN saved.commands |-> DecodedCommand(c, saved.commands[c])],
   messages |-> [m \in DOMAIN saved.messages |-> DecodedMessage(m, saved.messages[m])],
   tools |-> [t \in DOMAIN saved.tools |-> DecodedTool(t, saved.tools[t])]]

-----------------------------------------------------------------------------
(* The session.                                                            *)

\* An append, and its fold.
Commit(type, of, note) ==
  /\ loaded /\ Len(log) < MaxLog
  /\ log' = Append(log, [type |-> type, of |-> of, note |-> note])
  /\ mem' = Fold(mem, [type |-> type, of |-> of, note |-> note])
  /\ UNCHANGED <<loaded, checkpoint>>

\* Whether the log has an event of one of the types about x.
Logged(types, x) == \E i \in DOMAIN log : log[i].type \in types /\ x \in log[i].of

\* Identities are minted once; what a compaction pruned may still be started, answered or ended.
CommandEvent(c) ==
  \/ ~Logged({"CommandAdmitted"}, c) /\ Commit("CommandAdmitted", {c}, 0)
  \/ /\ Logged({"CommandAdmitted"}, c)
     /\ \E type \in {"CommandStarted", "CommandEnded"} :
          ~Logged({type}, c) /\ Commit(type, {c}, 0)

MessageEvent(m) ==
  \/ /\ ~Logged(DOMAIN Born, m)
     /\ \/ \E type \in DOMAIN Born \ {"UserMessageSubmitted"} : Commit(type, {m}, 0)
        \/ \E d \in {"queue", "steer"} : Commit("UserMessageSubmitted", {m}, d)
  \/ /\ Logged({"UserMessageCommitted", "UserMessageSubmitted", "SteeringMessageQueued"}, m)
     /\ \E type \in {"UserMessagePromoted", "UserMessageCancelled", "SteeringMessageCancelled"} :
          Commit(type, {m}, 0)

\* A stop or a turn takes several messages at once.
MessagesEvent ==
  \E type \in {"TurnStarted", "MessagesPaused"}, ms \in SUBSET Messages :
    /\ \A m \in ms :
         Logged({"UserMessageCommitted", "UserMessageSubmitted", "SteeringMessageQueued"}, m)
    /\ Commit(type, ms, 0)

\* A guard may append a failure over an outcome.
ToolEvent(t) ==
  \/ /\ ~Logged({"ToolCallCreated", "ToolCallRejected"}, t)
     /\ \E type \in {"ToolCallCreated", "ToolCallRejected"} : Commit(type, {t}, 0)
  \/ /\ Logged({"ToolCallCreated"}, t)
     /\ \/ \E attempt \in 0..2 : Commit("ToolCallStarted", {t}, attempt)
        \/ \E type \in {"ToolCallCompleted", "ToolCallFailed"} : Commit(type, {t}, 0)

Rebase == \E retained \in 1..Len(log) + 1 : Commit("ContextRebased", {}, retained)
Other == Commit("Other", {}, 0)

\* At a turn boundary; by the time it is read the log may have gone on.
Snapshot ==
  /\ loaded /\ checkpoint' = Encode(mem)
  /\ UNCHANGED <<log, mem, loaded>>

\* A crash and a start: hydrateReducedStateCheckpoint, then the events after it.
Restart ==
  /\ IF Decodable(checkpoint)
       THEN /\ mem' = FoldLeft(Fold, Decode(checkpoint), SubSeq(log, checkpoint.last + 1, Len(log)))
            /\ UNCHANGED loaded
       ELSE loaded' = FALSE /\ UNCHANGED mem
  /\ UNCHANGED <<log, checkpoint>>

CodecInit == log = <<>> /\ mem = Initial /\ loaded = TRUE /\ checkpoint = Encode(Initial)
CodecNext ==
  \/ \E c \in Commands : CommandEvent(c)
  \/ \E m \in Messages : MessageEvent(m)
  \/ MessagesEvent
  \/ \E t \in Tools : ToolEvent(t)
  \/ Rebase \/ Other
  \/ Snapshot \/ Restart

CodecSpec == CodecInit /\ [][CodecNext]_codecVars

-----------------------------------------------------------------------------
(* Properties.                                                             *)

\* docs/message-steering.md:742, "replay and checkpoint hydration reproduce identical state": no
\* checkpoint that was saved is ever refused, which would keep the session from loading, since every
\* position in it still names the event its record was made by (reduceSingleCheckpointEvent); and
\* after any log, any checkpoint of it and any restart, with pruned and resumed records in it, the
\* live state is the fold of the whole log, bodies included (decodeReducedStateCheckpoint).
HydrationIsReplay == loaded /\ mem = FoldLeft(Fold, Initial, log)
=============================================================================
