-------------------------- MODULE ContextCompaction --------------------------
(***************************************************************************)
(* The model's context and its compaction: how prompts are projected from  *)
(* the folded messages and tool calls, how a compaction is planned,        *)
(* executed and committed at a turn boundary, and what the fold of         *)
(* ContextRebased prunes (compaction.ts, message-transcript.ts,            *)
(* reduced-state.ts), under the session steps that submit, consume, pause  *)
(* and answer messages.                                                    *)
(*                                                                         *)
(* What the model sees is a sequence of items: a user's message, an answer *)
(* or a tool result, named by the position of the event that brought it    *)
(* into the log.  Sizes are left open: every plan that some sizes give is  *)
(* a plan.                                                                 *)
(***************************************************************************)
EXTENDS Integers, SequencesExt

CONSTANTS
  Presets,      \* policy and executor: [retain, reads]
  MaxSubmits, MaxTurns, MaxCompactions, MaxControls, MaxCrashes    \* bounds

ASSUME CompactionAssumption ==
  /\ Presets \subseteq [retain : {"tail", "nothing", "last-response"},
                        reads : {"messages", "prompt"}]
  /\ {MaxSubmits, MaxTurns, MaxCompactions, MaxControls, MaxCrashes} \subseteq Nat

VARIABLES
  head,         \* the position of the last event
  messages,     \* the folded records
  calls,        \* tool calls: [of: their response, terminal: a position or 0]
  owed,         \* contents whose submitting command is pending
  context,      \* [version, retained, summary: the items that reached the current summary,
                \*  exact: every summary so far was made from a whole prompt]
  compaction,   \* the open one: its plan, what its executor reads; and where the loop goes on
  loop,         \* where the control loop is
  open,         \* whether a run is open
  response,     \* of the current turn, or 0
  sent,         \* the last prompt: [version, items]
  told,         \* every item the model was sent or has produced
  used          \* bounds

session == <<owed, open, response, sent, told>>
context_vars == <<head, messages, calls, owed, context, compaction, loop, open, response,
                  sent, told, used>>

NotCompacting == [retained |-> 0, items |-> {}, exact |-> FALSE, next |-> "Idle"]
Submitted(at, disposition) ==
  [seq |-> at, content |-> at, user |-> TRUE, disposition |-> disposition, consumed |-> 0,
   calls |-> FALSE]
Committed(at, content) ==
  [seq |-> at, content |-> content, user |-> TRUE, disposition |-> "none", consumed |-> 0,
   calls |-> FALSE]
Response(at, tools) ==
  [seq |-> at, content |-> at, user |-> FALSE, disposition |-> "none", consumed |-> 0,
   calls |-> tools]

CompactionInit ==
  /\ head = 0 /\ messages = {} /\ calls = {} /\ owed = {} /\ open = FALSE /\ response = 0
  /\ context = [version |-> 0, retained |-> 0, summary |-> {}, exact |-> TRUE]
  /\ compaction = NotCompacting /\ loop = "Idle"
  /\ sent = [version |-> 0, items |-> <<>>] /\ told = {}
  /\ used = [submits |-> 0, turns |-> 0, compactions |-> 0, controls |-> 0, crashes |-> 0]
Use(what) == used' = [used EXCEPT ![what] = @ + 1]

Pending(disposition) ==
  {m \in messages : m.user /\ m.disposition = disposition /\ m.consumed = 0}
Earliest(ms) == CHOOSE m \in ms : \A n \in ms : m.seq <= n.seq

-----------------------------------------------------------------------------
(* The projection.                                                         *)

\* Mutant: a message keeps the place it was submitted at.
SubmissionSeq(m) == m.seq

\* messageTranscriptSeq: where a message stands in the prompt.
TranscriptSeq(m) == IF m.consumed > 0 THEN m.consumed ELSE m.seq

Before(m, n) ==
  \/ TranscriptSeq(m) < TranscriptSeq(n)
  \/ TranscriptSeq(m) = TranscriptSeq(n) /\ m.seq < n.seq
Ordered(ms) ==
  [i \in 1..Cardinality(ms) |->
     CHOOSE m \in ms : Cardinality({n \in ms : Before(n, m)}) = i - 1]

\* promptContextMessages
InContext(ms, retained) ==
  {m \in ms : /\ m.user /\ m.disposition # "none" => m.consumed > 0
              /\ TranscriptSeq(m) >= retained}

Answered(m) == \E c \in calls : c.of = m.seq /\ c.terminal > 0
Items(m) ==
  <<[what |-> IF m.user THEN "message" ELSE "answer", at |-> m.content]>> \o
  IF m.calls /\ Answered(m) THEN <<[what |-> "result", at |-> m.content]>> ELSE <<>>
ItemSet(ms) == UNION {ToSet(Items(m)) : m \in ms}

\* validateToolCallPairing: otherwise the prompt cannot be built.
Paired(ms) == \A m \in ms : m.calls => Answered(m)

Prompt(ms) ==
  LET order == Ordered(ms)
      items[i \in 0..Len(order)] ==
        IF i = 0 THEN <<>> ELSE items[i - 1] \o Items(order[i])
  IN items[Len(order)]

\* projectionStateThrough
Through(ms, to) == {m \in ms : TranscriptSeq(m) <= to}

-----------------------------------------------------------------------------
(* The plan.                                                               *)

\* lastResponseSeq: of the responses after which nothing is behind the cursor.
LastResponse ==
  LET order == Ordered(messages)
      ahead == {i \in DOMAIN order : \A j \in i..Len(order) : order[j].seq > context.retained}
      responses == {i \in ahead : ~order[i].user}
  IN {order[i].seq : i \in {i \in responses : \A j \in responses : j <= i}}

\* selectRetainedFromSeq: a message that some tail starts at, or nothing at all.
RetainedFrom(retain) ==
  CASE retain = "last-response" -> LastResponse
    [] retain = "nothing" -> {head + 1}
    [] OTHER -> {m.seq : m \in messages}

\* The checks of the policy and of validatePlan on what the plan retains.
Accepted(retained) == retained > context.retained

\* planApproximateTokenCompaction
Plan(retained) ==
  LET source == {m \in messages : m.seq < retained}
  IN [from |-> IF context.retained > 0 THEN context.retained ELSE Ordered(source)[1].seq,
      to |-> retained - 1, retained |-> retained]
Plans(retain) ==
  {p \in {Plan(r) : r \in {r \in RetainedFrom(retain) :
                             Accepted(r) /\ \E m \in messages : m.seq < r}} :
     p.from <= p.to /\ p.to <= head}

\* What reaches the summary: the messages of the range, by their own positions, or the prompt of
\* the time; an executor gets the current summary as well.
Read(p, reads) ==
  context.summary \cup
  IF reads = "messages" THEN ItemSet({m \in messages : p.from <= m.seq /\ m.seq <= p.to})
  ELSE ItemSet(InContext(Through(messages, p.to), context.retained))

-----------------------------------------------------------------------------
(* A compaction at a boundary.                                             *)

\* maybeCompactAtBoundary: a step of the loop goes on there, then to next.
AtBoundary(next) == loop' = "Boundary" /\ compaction' = [NotCompacting EXCEPT !.next = next]

\* The policy declines; or the compaction is requested and started.  The prompt of the time is
\* built for every executor: without its tool results it cannot be.
Decline ==
  /\ loop = "Boundary" /\ loop' = compaction.next
  /\ UNCHANGED <<head, messages, calls, context, compaction, session, used>>
StartCompaction ==
  /\ loop = "Boundary" /\ used.compactions < MaxCompactions /\ Use("compactions")
  /\ \E preset \in Presets : \E p \in Plans(preset.retain) :
       /\ compaction' = [retained |-> p.retained, items |-> Read(p, preset.reads),
                         exact |-> preset = [retain |-> "nothing", reads |-> "prompt"],
                         next |-> compaction.next]
       /\ loop' = IF Paired(InContext(Through(messages, p.to), context.retained))
                    THEN "Compacting" ELSE "Fatal"
  /\ head' = head + 2
  /\ UNCHANGED <<messages, calls, context, session>>

\* Mutant: a rebase drops what is closed, whatever it retains.
PrunedCallsAll(retained) == {c \in calls : c.terminal = 0}

\* Mutant: the message at the cursor goes too.
PrunedMessagesThrough(retained) == {m \in messages : m.seq > retained}

\* pruneForContextRebase: by the positions of the records themselves.
PrunedMessages(retained) == {m \in messages : m.seq >= retained}
PrunedCalls(retained) == {c \in calls : c.terminal = 0 \/ c.terminal >= retained}

\* The context from then on: the next version, with the summary for what it drops.
Rebased ==
  [version |-> context.version + 1, retained |-> compaction.retained,
   summary |-> compaction.items, exact |-> context.exact /\ compaction.exact]

\* One batch: SummaryCreated, ContextRebased, CompactionCompleted.
Rebase ==
  /\ loop = "Compacting" /\ loop' = compaction.next
  /\ head' = head + 3
  /\ context' = Rebased
  /\ messages' = PrunedMessages(compaction.retained)
  /\ calls' = PrunedCalls(compaction.retained)
  /\ compaction' = NotCompacting
  /\ UNCHANGED <<session, used>>
FailCompaction ==
  /\ loop = "Compacting" /\ loop' = compaction.next
  /\ head' = head + 1 /\ compaction' = NotCompacting
  /\ UNCHANGED <<messages, calls, context, session, used>>

-----------------------------------------------------------------------------
(* The session between compactions.                                        *)

\* startTurn: TurnStarted consumes its inputs at its position; then the prompt is built.
BeginTurn(ms, inputs, at) ==
  LET folded == {IF m \in inputs THEN [m EXCEPT !.consumed = at] ELSE m : m \in ms}
      visible == InContext(folded, context.retained)
      prompt == Prompt(visible)
  IN /\ head' = at /\ messages' = folded /\ open' = TRUE /\ response' = 0
     /\ used.turns < MaxTurns /\ Use("turns")
     /\ IF Paired(visible)
          THEN /\ loop' = "Running"
               /\ sent' = [version |-> context.version, items |-> prompt]
               /\ told' = told \cup ToSet(prompt)
          ELSE loop' = "Fatal" /\ UNCHANGED <<sent, told>>
     /\ UNCHANGED <<calls, context, compaction>>

\* An admission, whatever the loop is doing.
Submit(disposition) ==
  /\ loop \notin {"Down", "Fatal"} /\ used.submits < MaxSubmits /\ Use("submits")
  /\ disposition = "queue" => Pending("paused") = {}
  /\ head' = head + 1 /\ messages' = messages \cup {Submitted(head + 1, disposition)}
  /\ owed' = owed \cup {head + 1}
  /\ UNCHANGED <<calls, context, compaction, loop, open, response, sent, told>>

Owes(m) == m.content \in owed
StartInputs ==
  LET steers == Pending("steer")
  IN IF steers = {} THEN {Earliest(Pending("queue"))}
     ELSE IF Owes(Earliest(steers)) THEN {Earliest(steers)} ELSE {m \in steers : ~Owes(m)}

\* An idle drain: a steer's own command, or the resumption that owns the others, then the queue.
StartRun ==
  /\ loop = "Idle" /\ Pending("steer") \cup Pending("queue") # {}
  /\ owed' = owed \ {m.content : m \in StartInputs}
  /\ BeginTurn(messages, StartInputs, head + 3)

\* startSubmitCommand of a command whose message was pruned: its content is committed again.
Unrecorded == {c \in owed : \A m \in messages : m.content # c}
StartUnrecorded ==
  /\ loop = "Idle" /\ Pending("steer") \cup Pending("queue") = {} /\ Unrecorded # {}
  /\ LET content == CHOOSE c \in Unrecorded : \A d \in Unrecorded : c <= d
         again == Committed(head + 2, content)
     IN owed' = owed \ {content} /\ BeginTurn(messages \cup {again}, {again}, head + 4)

\* The turn of a run.
Respond ==
  /\ loop = "Running" /\ response = 0 /\ head' = head + 1 /\ response' = head + 1
  /\ \E tools \in BOOLEAN :
       /\ messages' = messages \cup {Response(head + 1, tools)}
       /\ calls' = IF tools THEN calls \cup {[of |-> head + 1, terminal |-> 0]} ELSE calls
  /\ told' = told \cup {[what |-> "answer", at |-> head + 1]}
  /\ UNCHANGED <<owed, context, compaction, loop, open, sent, used>>

Closed(at) == {IF c.terminal = 0 THEN [c EXCEPT !.terminal = at] ELSE c : c \in calls}
Open == {c \in calls : c.terminal = 0}

ToolEnds ==
  /\ loop = "Running" /\ Open # {} /\ head' = head + 1 /\ calls' = Closed(head + 1)
  /\ UNCHANGED <<messages, context, compaction, loop, session, used>>
TurnCompletes ==
  /\ loop = "Running" /\ response > 0 /\ Open = {}
  /\ head' = head + 1 /\ loop' = "Completed"
  /\ UNCHANGED <<messages, calls, context, compaction, session, used>>

\* A failed turn closes its tools, its run and its command; its steers go to a resumption.
TurnFails ==
  /\ loop = "Running" /\ head' = head + 2 /\ calls' = Closed(head + 1)
  /\ open' = FALSE /\ AtBoundary("Idle")
  /\ UNCHANGED <<messages, context, owed, response, sent, told, used>>

\* steerActiveCommand: the command completes, its message stays pending; at a completed turn the
\* context may be compacted before the message is consumed.
Steers == {c \in owed : \E m \in Pending("steer") : m.content = c}
Steer ==
  /\ loop \in {"Running", "Completed"} /\ Steers # {}
  /\ owed' = owed \ {CHOOSE c \in Steers : \A d \in Steers : c <= d} /\ head' = head + 2
  /\ IF loop = "Completed" THEN AtBoundary("Completed") ELSE UNCHANGED <<loop, compaction>>
  /\ UNCHANGED <<messages, calls, context, open, response, sent, told, used>>

\* continueOrFinishRunAfterTurn
Feedback == \E c \in calls : c.of = response /\ c.terminal > 0
Continue ==
  /\ loop = "Completed" /\ Steers = {} /\ (Pending("steer") # {} \/ Feedback)
  /\ UNCHANGED owed /\ BeginTurn(messages, Pending("steer"), head + 1)
CompleteTurns ==
  /\ loop = "Completed" /\ Pending("steer") = {} /\ ~Feedback /\ AtBoundary("Finishing")
  /\ UNCHANGED <<head, messages, calls, context, session, used>>
CompleteRun ==
  /\ loop = "Finishing" /\ loop' = "Idle" /\ open' = FALSE /\ head' = head + 2
  /\ UNCHANGED <<messages, calls, context, compaction, owed, response, sent, told, used>>

\* Controls of the user: Stop pauses what is pending; a pending message is promoted or cancelled.
Stop ==
  /\ loop \in {"Running", "Completed"} /\ used.controls < MaxControls /\ Use("controls")
  /\ calls' = Closed(head + 3)
  /\ messages' = {IF m \in Pending("queue") \cup Pending("steer")
                    THEN [m EXCEPT !.disposition = "paused"] ELSE m : m \in messages}
  /\ head' = head + 6 /\ open' = FALSE /\ AtBoundary("Idle")
  /\ UNCHANGED <<context, owed, response, sent, told>>
Promote ==
  /\ loop \in {"Idle", "Running", "Completed"} /\ used.controls < MaxControls /\ Use("controls")
  /\ \E m \in Pending("queue") \cup Pending("paused") :
       messages' = (messages \ {m}) \cup {[m EXCEPT !.disposition = "steer"]}
  /\ head' = head + 3
  /\ UNCHANGED <<calls, context, compaction, loop, session>>
Cancel ==
  /\ loop \in {"Idle", "Running", "Completed"} /\ used.controls < MaxControls /\ Use("controls")
  /\ \E m \in Pending("queue") \cup Pending("steer") \cup Pending("paused") :
       messages' = messages \ {m} /\ owed' = owed \ {m.content}
  /\ head' = head + 3
  /\ UNCHANGED <<calls, context, compaction, loop, open, response, sent, told>>

-----------------------------------------------------------------------------
(* A crash, and the recovery that closes what was open.                    *)

Crash ==
  /\ loop # "Down" /\ loop' = "Down" /\ used.crashes < MaxCrashes /\ Use("crashes")
  /\ UNCHANGED <<head, messages, calls, context, compaction, session>>

\* An open run continues in a replacement, which consumes the pending steers.
Recover ==
  /\ loop = "Down" /\ loop' = IF open THEN "Resuming" ELSE "Idle"
  /\ head' = head + 1 /\ calls' = Closed(head + 1) /\ compaction' = NotCompacting
  /\ UNCHANGED <<messages, context, session, used>>
Resume ==
  /\ loop = "Resuming"
  /\ owed' = owed \ {m.content : m \in Pending("steer")}
  /\ BeginTurn(messages, Pending("steer"), head + 1)

CompactionNext ==
  \/ Decline \/ StartCompaction \/ Rebase \/ FailCompaction
  \/ \E disposition \in {"queue", "steer"} : Submit(disposition)
  \/ StartRun \/ StartUnrecorded \/ Respond \/ ToolEnds \/ TurnCompletes \/ TurnFails
  \/ Steer \/ Continue \/ CompleteTurns \/ CompleteRun
  \/ Stop \/ Promote \/ Cancel
  \/ Crash \/ Recover \/ Resume

CompactionSpec == CompactionInit /\ [][CompactionNext]_context_vars

-----------------------------------------------------------------------------
(* Properties.                                                             *)

Kept == context.summary \cup ItemSet(InContext(messages, context.retained))

\* What the model was sent or has answered stays before it, in the retained messages or in what
\* reached the current summary, through any chain of compactions: its answers and their tool
\* results always, the user's messages while the summaries are made from whole prompts (else a
\* message that was submitted before the cut and consumed behind it is in neither part).
NothingForgotten ==
  told \subseteq Kept \cup IF context.exact THEN {} ELSE {i \in told : i.what = "message"}

\* No compaction leaves a prompt that cannot be built, which would end the control loop.
PromptsPaired == loop # "Fatal"

\* The prompts of one context version only grow: consumption, steers, tool results, failed turns
\* and restarts append to what the provider has cached.
PrefixesKept ==
  [][sent'.version = sent.version => IsPrefix(sent.items, sent'.items)]_context_vars
=============================================================================
