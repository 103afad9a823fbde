--------------------------- MODULE DeliveryWindow ---------------------------
(* The pure delivery machine of one event WebSocket: websocket/delivery.ts.    *)
(* A transition takes the delivery state and answers [d, acts]: the new state  *)
(* and the actions the host interprets in order.                               *)
(*                                                                             *)
(* An event is [seq, hidden]: its durable sequence, or 0 when it is ephemeral, *)
(* and whether the application's projection keeps it from the client.  The     *)
(* policy in force sends one event per frame (maxFrameEvents is 1).            *)
EXTENDS Integers, Sequences, FiniteSets

CONSTANTS
    MaxInFlightFrames,      \* frames sent and not acknowledged
    BufferCapacity          \* ephemeral events held back behind a full window

ASSUME PolicyAssumption ==
    /\ MaxInFlightFrames \in Nat \ {0}
    /\ BufferCapacity \in Nat \ {0}

Larger(a, b) == IF a > b THEN a ELSE b
Smaller(a, b) == IF a < b THEN a ELSE b

-----------------------------------------------------------------------------
(* State.  lastSentFrameId is next - 1.  A range of `suppressed` is a maximal  *)
(* run of frames the host answered for itself, behind one the client has not.  *)

NewDelivery(resume) ==
    [ackSeq |-> resume, ackFrame |-> 0, sent |-> resume, next |-> 1,
     inFlight |-> {}, suppressed |-> {}, pending |-> <<>>]

\* What the attachment keeps, and what a woken object restores.
Checkpoint(d) == [d EXCEPT !.pending = <<>>]

Capacity(d) == MaxInFlightFrames - Cardinality(d.inFlight)

-----------------------------------------------------------------------------
(* Actions and results. *)

Persist == [k |-> "Persist"]
Send(frames) ==
    [k |-> "Send", frames |-> frames, out |-> <<>>, follow |-> <<>>, reads |-> {}]
Read(after) == [k |-> "Read", after |-> after]
Close(why) == [k |-> "Close", why |-> why]

\* `changed` also when there is no frame to send; `more` asks for another page.
SentResult(d, frames, changed, more) ==
    [d |-> d,
     acts |-> (IF changed \/ frames # <<>> THEN <<Persist>> ELSE <<>>)
              \o (IF frames # <<>> THEN <<Send(frames)>> ELSE <<>>)
              \o (IF more THEN <<Read(d.sent)>> ELSE <<>>)]

LaggedResult(d) == [d |-> d, acts |-> <<Close("lagged")>>]
ProtocolClose(d) == [d |-> d, acts |-> <<Close("protocol")>>]

\* overdue: the last frame whose acknowledgement is past its deadline.
Stale(d, overdue) == \E f \in d.inFlight : f.id <= overdue

\* One frame per event, numbered from d.next.
Frames(d, events) ==
    [i \in DOMAIN events |->
        [id |-> d.next + i - 1, thru |-> Larger(d.sent, events[i].seq),
         event |-> events[i]]]

Receipt(frame) == [id |-> frame.id, thru |-> frame.thru]

SendEvents(d, events) ==
    LET frames == Frames(d, events)
        n      == Len(events)
    IN  [d EXCEPT !.next = @ + n,
                  !.sent = IF n = 0 THEN @ ELSE frames[n].thru,
                  !.inFlight = @ \cup {Receipt(frames[i]) : i \in 1..n}]

-----------------------------------------------------------------------------
(* Events. *)

\* Durable events come in the order of the log, so those already sent come first.
Unsent(d, events) ==
    SubSeq(events, 1 + Cardinality({i \in DOMAIN events : events[i].seq <= d.sent}), Len(events))

OnDurableEvents(d, events, head, overdue) ==
    IF Stale(d, overdue) THEN LaggedResult(d)
    ELSE LET fresh == Unsent(d, events)
             fit   == SubSeq(fresh, 1, Smaller(Len(fresh), Capacity(d)))
             next  == SendEvents(d, fit)
         IN  SentResult(next, Frames(d, fit), FALSE,
                        Capacity(next) > 0 /\ next.sent < head)

OnEphemeralEvent(d, event, overdue) ==
    IF Stale(d, overdue) THEN LaggedResult(d)
    ELSE IF Capacity(d) > 0 /\ d.pending = <<>>
    THEN SentResult(SendEvents(d, <<event>>), Frames(d, <<event>>), FALSE, FALSE)
    ELSE IF Len(d.pending) + 1 > BufferCapacity THEN LaggedResult(d)
    ELSE [d |-> [d EXCEPT !.pending = Append(@, event)], acts |-> <<>>]

-----------------------------------------------------------------------------
(* Receipts. *)

\* Mutant: an open window sends what is buffered and does not read the log.
ReopenForBuffered(d, overdue) ==
    LET n    == Smaller(Len(d.pending), Capacity(d))
        fit  == SubSeq(d.pending, 1, n)
        next == SendEvents([d EXCEPT !.pending = SubSeq(@, n + 1, Len(@))], fit)
    IN  IF Stale(next, overdue) THEN LaggedResult(next)
        ELSE SentResult(next, Frames(d, fit), TRUE, FALSE)

\* Buffered ephemeral events first, then the durable events that were missed.
ReopenDeliveryWindow(d, overdue) ==
    LET n    == Smaller(Len(d.pending), Capacity(d))
        fit  == SubSeq(d.pending, 1, n)
        next == SendEvents([d EXCEPT !.pending = SubSeq(@, n + 1, Len(@))], fit)
    IN  IF Stale(next, overdue) THEN LaggedResult(next)
        ELSE SentResult(next, Frames(d, fit), TRUE,
                        Capacity(next) > 0 /\ next.pending = <<>>)

\* Mutant: any run counts as acknowledged.
AdvanceCumulatively(d) ==
    IF d.suppressed = {} THEN d
    ELSE LET r == CHOOSE r \in d.suppressed : TRUE
         IN  [d EXCEPT !.ackFrame = r.through,
                       !.ackSeq = Larger(@, r.thru),
                       !.suppressed = @ \ {r}]

\* The runs are maximal, so at most one begins right after the last receipt.
AdvanceSuppressedReceipts(d) ==
    LET due == {r \in d.suppressed : r.from = d.ackFrame + 1}
    IN  IF due = {} THEN d
        ELSE LET r == CHOOSE r \in due : TRUE
             IN  [d EXCEPT !.ackFrame = r.through,
                           !.ackSeq = Larger(@, r.thru),
                           !.suppressed = @ \ due]

\* Adding one receipt merges it with the runs it touches.
InsertSuppressedReceipt(ranges, f) ==
    LET touching == {r \in ranges : r.through + 1 = f.id \/ f.id + 1 = r.from}
        froms    == {f.id} \cup {r.from : r \in touching}
        throughs == {f.id} \cup {r.through : r \in touching}
        thrus    == {f.thru} \cup {r.thru : r \in touching}
    IN  (ranges \ touching)
        \cup {[from    |-> CHOOSE x \in froms : \A y \in froms : x <= y,
               through |-> CHOOSE x \in throughs : \A y \in throughs : y <= x,
               thru    |-> CHOOSE x \in thrus : \A y \in thrus : y <= x]}

\* One frame the projection keeps from the client: only its own receipt counts.
OnHostSuppressedFrame(d, frame, overdue) ==
    IF Receipt(frame) \notin d.inFlight THEN ProtocolClose(d)
    ELSE ReopenDeliveryWindow(
           AdvanceSuppressedReceipts(
             [d EXCEPT !.inFlight = {f \in @ : f.id # frame.id},
                       !.suppressed = InsertSuppressedReceipt(@, frame)]),
           overdue)

\* What a valid acknowledgement of `frame` may cover.
AllowedSeqs(d, frame) ==
    {d.ackSeq}
    \cup {f.thru : f \in {g \in d.inFlight : g.id <= frame}}
    \cup {r.thru : r \in {q \in d.suppressed : q.through <= frame}}

\* Mutant: an acknowledgement must move the durable cursor.
AckRejectedUnlessAdvancing(d, ack) ==
    IF ack.frame <= d.ackFrame THEN ack.thru > d.ackSeq
    ELSE ack.frame >= d.next \/ ack.thru <= d.ackSeq

AckRejected(d, ack) ==
    IF ack.frame <= d.ackFrame THEN ack.thru > d.ackSeq
    ELSE \/ ack.frame >= d.next
         \/ ack.thru < d.ackSeq
         \/ \A f \in d.inFlight : f.id > ack.frame
         \/ \E r \in d.suppressed : r.from <= ack.frame /\ ack.frame <= r.through
         \/ \A s \in AllowedSeqs(d, ack.frame) : ack.thru > s

\* Mutant: the receipts it covers stay behind.
ApplyAckKeepingReceipts(d, ack) ==
    AdvanceSuppressedReceipts(
        [d EXCEPT !.ackFrame = ack.frame, !.ackSeq = ack.thru,
                  !.inFlight = {f \in @ : f.id > ack.frame}])

ApplyAck(d, ack) ==
    AdvanceSuppressedReceipts(
        [d EXCEPT !.ackFrame = ack.frame, !.ackSeq = ack.thru,
                  !.inFlight = {f \in @ : f.id > ack.frame},
                  !.suppressed = {r \in @ : r.through > ack.frame}])

OnClientAck(d, ack, overdue) ==
    IF AckRejected(d, ack) THEN ProtocolClose(d)
    ELSE IF ack.frame <= d.ackFrame THEN [d |-> d, acts |-> <<>>]
    ELSE ReopenDeliveryWindow(ApplyAck(d, ack), overdue)

=============================================================================
