-------------------------- MODULE WebSocketDelivery --------------------------
(* One event WebSocket: the host's connection manager                          *)
(* (effect-durable-agent-cloudflare, websocket/connection-manager.ts), which   *)
(* interprets the delivery machine of DeliveryWindow, the runtime that commits *)
(* and publishes events, the platform that hibernates the object, and a client *)
(* that meets its obligations (docs/websocket-protocol.md): it applies frames, *)
(* acknowledges what it applied, and reconnects from its own cursor.           *)
EXTENDS DeliveryWindow

CONSTANTS
    Projected,      \* the application projects its own protocol and hides events
    MaxSeq,         \* bound: durable events
    MaxEphemerals,  \* bound: ephemeral events
    MaxSurprises    \* bound: hibernations, crashes, disconnects, deadlines, failed builds

ASSUME BoundsAssumption ==
    /\ Projected \in BOOLEAN
    /\ {MaxSeq, MaxEphemerals, MaxSurprises} \subseteq Nat

VARIABLES
    log,            \* the committed events, TRUE where the projection hides one
    runtime,        \* "cold", "building" (start-up recovery included), "ready"
    unpublished,    \* committed and folded, not yet shown to the observer
    socket,         \* the accepted socket, its attachment and what is held of it
    ops, running,   \* the socket's promise queue, and the operation that runs
    todo,           \* the delivery actions that operation still has to interpret
    wire, acks,     \* frames on their way, and acknowledgements
    client,         \* what the client received, acknowledged and applied
    used            \* how much of the bounds is used

vars == <<log, runtime, unpublished, socket, ops, running, todo, wire, acks, client, used>>

-----------------------------------------------------------------------------
Durable(seq) == [seq |-> seq, hidden |-> log[seq]]
Hiding == IF Projected THEN BOOLEAN ELSE {FALSE}

Publication == {"durable", "ephemeral"}
Connected == socket.status \in {"accepting", "open"}

\* A publication waits for the operation it queued, and the append gate for it.
Observing ==
    \/ running \in Publication
    \/ \E i \in DOMAIN ops : ops[i].k \in Publication
GateFree == unpublished = <<>> /\ ~Observing

NoSocket == [status |-> "none", held |-> FALSE, d |-> NewDelivery(0),
             saved |-> NewDelivery(0), from |-> 0, head |-> 0,
             deferred |-> FALSE, overdue |-> 0]

\* A socket that hibernated is rebuilt from its attachment.
Restored ==
    IF socket.held THEN socket
    ELSE [socket EXCEPT !.held = TRUE, !.d = socket.saved,
                        !.head = socket.saved.sent, !.deferred = FALSE]

\* The socket leaves the manager; operations still queued reach nobody.
Dropped(status) ==
    /\ socket' = [NoSocket EXCEPT !.status = status]
    /\ ops' = <<>> /\ running' = "none" /\ todo' = <<>>

Continue(actions) ==
    /\ todo' = actions
    /\ running' = IF actions = <<>> THEN "none" ELSE running

Surprise ==
    /\ used.surprises < MaxSurprises
    /\ used' = [used EXCEPT !.surprises = @ + 1]

Init ==
    /\ log = <<>> /\ runtime = "cold" /\ unpublished = <<>>
    /\ socket = NoSocket
    /\ ops = <<>> /\ running = "none" /\ todo = <<>>
    /\ wire = <<>> /\ acks = {}
    /\ client = [frame |-> 0, acked |-> 0, cursor |-> 0, seen |-> {}]
    /\ used = [ephemerals |-> 0, surprises |-> 0]

-----------------------------------------------------------------------------
(* The runtime: it is built once, recovery included, and then serves. *)

Wake ==
    /\ runtime = "cold"
    /\ runtime' = "building"
    /\ UNCHANGED <<log, unpublished, socket, ops, running, todo, wire, acks, client, used>>

BecomeReady ==
    /\ runtime = "building" /\ GateFree
    /\ runtime' = "ready"
    /\ UNCHANGED <<log, unpublished, socket, ops, running, todo, wire, acks, client, used>>

\* The build's callers fail with it; an acknowledgement may be one of them.
BuildFails ==
    /\ runtime = "building" /\ GateFree
    /\ Surprise
    /\ runtime' = "cold"
    /\ \/ /\ socket.status # "accepting"
          /\ UNCHANGED <<socket, ops, running, todo>>
       \/ /\ Connected /\ (socket.status = "open" => acks # {})
          /\ Dropped("failed")
    /\ UNCHANGED <<log, unpublished, wire, acks, client>>

\* A batch is committed and folded before its events are published one by one.
CommitBatch ==
    /\ runtime # "cold" /\ GateFree
    /\ \E n \in 1..2 : \E hidden \in [1..n -> Hiding] :
          /\ Len(log) + n <= MaxSeq
          /\ log' = log \o hidden
          /\ unpublished' = [i \in 1..n |-> [seq |-> Len(log) + i, hidden |-> hidden[i]]]
    /\ UNCHANGED <<runtime, socket, ops, running, todo, wire, acks, client, used>>

PublishEphemeral ==
    /\ runtime = "ready" /\ GateFree
    /\ used.ephemerals < MaxEphemerals
    /\ used' = [used EXCEPT !.ephemerals = @ + 1]
    /\ \E hidden \in Hiding : unpublished' = <<[seq |-> 0, hidden |-> hidden]>>
    /\ UNCHANGED <<log, runtime, socket, ops, running, todo, wire, acks, client>>

FanoutPublishedEvent ==
    /\ unpublished # <<>> /\ ~Observing
    /\ unpublished' = Tail(unpublished)
    /\ IF Connected
       THEN LET event == Head(unpublished)
                kind  == IF event.seq = 0 THEN "ephemeral" ELSE "durable"
            IN  /\ socket' = Restored
                /\ ops' = Append(ops, [k |-> kind, event |-> event])
       ELSE UNCHANGED <<socket, ops>>
    /\ UNCHANGED <<log, runtime, running, todo, wire, acks, client, used>>

-----------------------------------------------------------------------------
(* The operations of the socket's queue, one at a time. *)

Begin(k) ==
    /\ running = "none" /\ ops # <<>> /\ Head(ops).k = k
    /\ ops' = Tail(ops)
    /\ UNCHANGED <<log, runtime, unpublished, wire, acks, client, used>>

Interpret(s, result) ==
    /\ socket' = [s EXCEPT !.d = result.d]
    /\ todo' = result.acts
    /\ running' = IF result.acts = <<>> THEN "none" ELSE Head(ops).k

Start(s, actions) == Interpret(s, [d |-> s.d, acts |-> actions])

RunEphemeral ==
    /\ Begin("ephemeral")
    /\ Interpret(socket, OnEphemeralEvent(socket.d, Head(ops).event, socket.overdue))

\* Mutants: a gap is not noticed; the log is read before the runtime is there.
RunDurableAcrossGaps ==
    /\ Begin("durable")
    /\ LET event == Head(ops).event
           s     == [socket EXCEPT !.head = Larger(@, event.seq)]
       IN  Interpret(s, OnDurableEvents(s.d, <<event>>, s.head, s.overdue))
RunDurableUnready ==
    /\ Begin("durable")
    /\ LET event == Head(ops).event
           s     == [socket EXCEPT !.head = Larger(@, event.seq)]
       IN  IF event.seq <= s.d.sent THEN Start(s, <<>>)
           ELSE IF event.seq = s.d.sent + 1
           THEN Interpret(s, OnDurableEvents(s.d, <<event>>, s.head, s.overdue))
           ELSE Start(s, <<Read(s.d.sent)>>)

RunDurable ==
    /\ Begin("durable")
    /\ LET event == Head(ops).event
           s     == [socket EXCEPT !.head = Larger(@, event.seq)]
           sent  == socket.d.sent
       IN  \/ /\ event.seq <= sent
              /\ Start(s, <<>>)
           \/ /\ event.seq = sent + 1
              /\ Interpret(s, OnDurableEvents(s.d, <<event>>, s.head, s.overdue))
           \/ /\ event.seq > sent + 1 /\ runtime # "ready"
              /\ Start([s EXCEPT !.deferred = TRUE], <<>>)
           \/ /\ event.seq > sent + 1 /\ runtime = "ready"
              /\ Start(s, <<Read(sent)>>)

RunAck ==
    /\ Begin("ack")
    /\ Interpret(socket, OnClientAck(socket.d, Head(ops).ack, socket.overdue))

RunFlush ==
    /\ Begin("flush")
    /\ IF socket.deferred
       THEN Start([socket EXCEPT !.deferred = FALSE], <<Read(socket.d.sent)>>)
       ELSE Start(socket, <<>>)

RunOpen ==
    /\ Begin("open")
    /\ Start(socket, <<Read(socket.from)>>)

-----------------------------------------------------------------------------
(* The delivery actions of the running operation.  A nested interpretation     *)
(* puts its actions in front of those that wait. *)

Doing(k) == todo # <<>> /\ Head(todo).k = k

DoPersist ==
    /\ Doing("Persist")
    /\ socket' = [socket EXCEPT !.saved = Checkpoint(socket.d)]
    /\ Continue(Tail(todo))
    /\ UNCHANGED <<log, runtime, unpublished, ops, wire, acks, client, used>>

\* What a suppressed frame asks for waits for its batch, save a Persist, which is
\* the first action of a result; a page read is the last.
Following(batch, acts) ==
    LET first == IF acts[1].k = "Persist" THEN 2 ELSE 1
        last  == acts[Len(acts)]
    IN  IF last.k = "Read"
        THEN [batch EXCEPT !.follow = @ \o SubSeq(acts, first, Len(acts) - 1),
                           !.reads  = @ \cup {last.after}]
        ELSE [batch EXCEPT !.follow = @ \o SubSeq(acts, first, Len(acts))]

\* The frames of a batch are encoded one by one, and then sent.  A hidden one is
\* answered for the client at once.
DoEncode ==
    /\ Doing("Send") /\ Head(todo).frames # <<>>
    /\ LET batch  == Head(todo)
           frame  == Head(batch.frames)
           others == [batch EXCEPT !.frames = Tail(@)]
       IN  IF Projected /\ frame.event.hidden
           THEN LET r == OnHostSuppressedFrame(socket.d, frame, socket.overdue)
                IN  /\ socket' = [socket EXCEPT !.d = r.d]
                    /\ todo' = <<Following(others, r.acts)>> \o Tail(todo)
           ELSE /\ todo' = <<[others EXCEPT !.out = Append(@, frame)]>> \o Tail(todo)
                /\ UNCHANGED socket
    /\ UNCHANGED <<log, runtime, unpublished, ops, running, wire, acks, client, used>>

\* At most one page read, last, from the furthest cursor.
CoalesceFollowUpActions(batch) ==
    batch.follow
    \o (IF batch.reads = {} THEN <<>>
        ELSE <<Read(CHOOSE n \in batch.reads : \A m \in batch.reads : m <= n)>>)

DoSend ==
    /\ Doing("Send") /\ Head(todo).frames = <<>>
    /\ socket' = IF Projected THEN [socket EXCEPT !.saved = Checkpoint(socket.d)]
                 ELSE socket
    /\ wire' = wire \o Head(todo).out
    /\ Continue(CoalesceFollowUpActions(Head(todo)) \o Tail(todo))
    /\ UNCHANGED <<log, runtime, unpublished, ops, acks, client, used>>

\* readEventPage: it needs the runtime, and waits for the build of one.
DoRead ==
    /\ Doing("Read")
    /\ runtime = "ready"
    /\ LET after == Head(todo).after
           n     == Smaller(Len(log) - after, MaxInFlightFrames)
       IN  todo' = <<[k |-> "Page", head |-> Len(log),
                      events |-> [i \in 1..n |-> Durable(after + i)]]>> \o Tail(todo)
    /\ UNCHANGED <<log, runtime, unpublished, socket, ops, running, wire, acks, client, used>>

DoDeliver ==
    /\ Doing("Page")
    /\ LET page == Head(todo)
           head == Larger(socket.head, page.head)
           r    == IF page.events = <<>> THEN [d |-> socket.d, acts |-> <<>>]
                   ELSE OnDurableEvents(socket.d, page.events, head, socket.overdue)
       IN  /\ socket' = [socket EXCEPT !.head = head, !.d = r.d]
           /\ Continue(r.acts \o Tail(todo))
    /\ UNCHANGED <<log, runtime, unpublished, ops, wire, acks, client, used>>

DoClose ==
    /\ Doing("Close")
    /\ Dropped(Head(todo).why)
    /\ UNCHANGED <<log, runtime, unpublished, wire, acks, client, used>>

-----------------------------------------------------------------------------
(* Connections. *)

\* accept: registered and attached at once, from the client's own cursor.  A
\* projection is initialised from the session's snapshot, so it is ready then.
Connect ==
    /\ ~Connected /\ wire = <<>>
    /\ Projected => runtime = "ready"
    /\ socket' = LET d == NewDelivery(client.cursor)
                 IN  [NoSocket EXCEPT !.status = "accepting", !.held = TRUE, !.d = d,
                        !.saved = d, !.from = d.sent, !.head = d.sent]
    /\ acks' = {}
    /\ client' = [client EXCEPT !.frame = 0, !.acked = 0]
    /\ UNCHANGED <<log, runtime, unpublished, ops, running, todo, wire, used>>

FinishAccept ==
    /\ socket.status = "accepting" /\ runtime = "ready"
    /\ socket' = [socket EXCEPT !.status = "open"]
    /\ ops' = Append(ops, [k |-> "open"])
    /\ UNCHANGED <<log, runtime, unpublished, running, todo, wire, acks, client, used>>

\* Acknowledgements wait for the session each on its own, so they may be
\* queued in another order than they arrived in.
AckArrives ==
    /\ Connected /\ runtime = "ready"
    /\ \E a \in acks :
          /\ acks' = acks \ {a}
          /\ ops' = Append(ops, [k |-> "ack", ack |-> a])
    /\ socket' = Restored
    /\ UNCHANGED <<log, runtime, unpublished, running, todo, wire, client, used>>

\* Whoever prepared the session also flushes what its recovery deferred.
FlushDeferredCatchUp ==
    /\ runtime = "ready" /\ Connected /\ socket.held /\ socket.deferred
    /\ ~ \E i \in DOMAIN ops : ops[i].k = "flush"
    /\ ops' = Append(ops, [k |-> "flush"])
    /\ UNCHANGED <<log, runtime, unpublished, socket, running, todo, wire, acks, client, used>>

ClientApply ==
    /\ wire # <<>>
    /\ LET f == Head(wire)
       IN  client' = [client EXCEPT !.frame = Larger(@, f.id),
                        !.cursor = Larger(@, f.thru),
                        !.seen = @ \cup ({f.event.seq} \ {0})]
    /\ wire' = Tail(wire)
    /\ UNCHANGED <<log, runtime, unpublished, socket, ops, running, todo, acks, used>>

ClientAck ==
    /\ Connected /\ client.frame > client.acked
    /\ acks' = acks \cup {[frame |-> client.frame, thru |-> client.cursor]}
    /\ client' = [client EXCEPT !.acked = client.frame]
    /\ UNCHANGED <<log, runtime, unpublished, socket, ops, running, todo, wire, used>>

-----------------------------------------------------------------------------
(* The platform. *)

\* Only an idle object hibernates; the socket stays, buffered events do not.
Hibernate ==
    /\ Surprise
    /\ runtime # "building" /\ GateFree
    /\ socket.status = "open" /\ socket.held
    /\ ops = <<>> /\ running = "none"
    /\ runtime = "ready" => ~socket.deferred
    /\ runtime' = "cold"
    /\ socket' = [socket EXCEPT !.held = FALSE, !.d = socket.saved,
                                !.head = 0, !.deferred = FALSE]
    /\ UNCHANGED <<log, unpublished, ops, running, todo, wire, acks, client>>

\* The deadline of every frame sent so far passes.
DeadlinePasses ==
    /\ Surprise
    /\ Connected /\ socket.saved.inFlight # {}
    /\ socket' = [socket EXCEPT !.overdue = socket.saved.next - 1]
    /\ UNCHANGED <<log, runtime, unpublished, ops, running, todo, wire, acks, client>>

Disconnect ==
    /\ Surprise
    /\ Connected
    /\ Dropped("none")
    /\ wire' = <<>> /\ acks' = {}
    /\ UNCHANGED <<log, runtime, unpublished, client>>

Crash ==
    /\ Surprise
    /\ Dropped("none")
    /\ runtime' = "cold" /\ unpublished' = <<>>
    /\ wire' = <<>> /\ acks' = {}
    /\ UNCHANGED <<log, client>>

-----------------------------------------------------------------------------
RunOp == RunEphemeral \/ RunDurable \/ RunAck \/ RunFlush \/ RunOpen
DoAction == DoPersist \/ DoEncode \/ DoSend \/ DoRead \/ DoDeliver \/ DoClose
Host == RunOp \/ DoAction \/ FanoutPublishedEvent \/ FlushDeferredCatchUp \/ FinishAccept

Next ==
    \/ Wake \/ BecomeReady \/ BuildFails \/ CommitBatch \/ PublishEphemeral
    \/ Host \/ AckArrives
    \/ Connect \/ ClientApply \/ ClientAck
    \/ Hibernate \/ DeadlinePasses \/ Disconnect \/ Crash

Spec == Init /\ [][Next]_vars

\* A message, an upgrade or an alarm loads the object.
FairSpec ==
    /\ Spec
    /\ WF_vars(Host) /\ WF_vars(FanoutPublishedEvent) /\ WF_vars(FlushDeferredCatchUp)
    /\ WF_vars(Wake /\ (acks # {} \/ socket.status = "accepting"))
    /\ WF_vars(BecomeReady) /\ WF_vars(FinishAccept)
    /\ WF_vars(AckArrives) /\ WF_vars(Connect) /\ WF_vars(ClientApply) /\ WF_vars(ClientAck)

-----------------------------------------------------------------------------
(* Properties. *)

Visible == {n \in DOMAIN log : ~log[n]}

\* No cursor passes a durable event that the client may see and has not got: neither the
\* client's own, nor the server's, which a lagged frame reports and a duplicate is checked against.
NothingSkipped ==
    \A n \in Visible :
      /\ n <= client.cursor => n \in client.seen
      /\ Connected /\ n <= socket.d.ackSeq => n \in client.seen

\* A client that meets its obligations is never closed for a protocol error.
HonestClientKept == socket.status # "protocol"

\* Every frame sent is acknowledged, in flight or suppressed, and only one of them.
FrameAccounting ==
    LET d == socket.d IN
    /\ Cardinality(d.inFlight) <= MaxInFlightFrames
    /\ Cardinality({f.id : f \in d.inFlight}) = Cardinality(d.inFlight)
    /\ \A f \in 1..(d.next - 1) :
         Cardinality({c \in {"acked", "inFlight", "suppressed"} :
            \/ c = "acked" /\ f <= d.ackFrame
            \/ c = "inFlight" /\ \E g \in d.inFlight : g.id = f
            \/ c = "suppressed" /\ \E r \in d.suppressed : r.from <= f /\ f <= r.through}) = 1

\* When nothing is left to do and the window is open, the client was sent everything.
NothingLeftBehind ==
    (/\ runtime = "ready" /\ GateFree /\ socket.status = "open" /\ socket.held
     /\ ops = <<>> /\ running = "none" /\ ~socket.deferred
     /\ Capacity(socket.d) > 0)
    => socket.d.sent = Len(log) /\ socket.d.pending = <<>>

\* A socket does not hold up the append path: every publication comes back.
PublicationsReturn == Observing ~> ~Observing

\* Every durable event is eventually applied.
CatchesUp == \A n \in 1..MaxSeq : Len(log) >= n ~> client.cursor >= n

=============================================================================
