----------------------- MODULE WebSocketDeliveryProofs -----------------------
(* Theorems about an event WebSocket (WebSocketDelivery): every frame is       *)
(* accounted for once, an honest client is kept, no cursor passes an event     *)
(* that its client has not got, and an idle socket with an open window has     *)
(* sent everything.                                                            *)
EXTENDS WebSocketDelivery, SequenceTheorems, FiniteSetTheorems, WellFoundedInduction, TLAPS

-----------------------------------------------------------------------------
(* Types. *)

Members(s) == {s[i] : i \in DOMAIN s}

EventType   == [seq : Nat, hidden : BOOLEAN]
ReceiptType == [id : Nat, thru : Nat]
FrameType   == [id : Nat, thru : Nat, event : EventType]
RunType     == [from : Nat, through : Nat, thru : Nat]
AckType     == [frame : Nat, thru : Nat]
DeliveryType ==
    [ackSeq : Nat, ackFrame : Nat, sent : Nat, next : Nat,
     inFlight : SUBSET ReceiptType, suppressed : SUBSET RunType, pending : Seq(EventType)]

\* Actions of a result; a batch that waits has sent nothing and asks for nothing.
PersistType == {Persist}
ReadType    == [k : {"Read"}, after : Nat]
CloseType   == [k : {"Close"}, why : {"lagged"}]
WaitingType == [k : {"Send"}, frames : Seq(FrameType), out : {<<>>}, follow : {<<>>}, reads : {{}}]
FollowType  == CloseType \cup WaitingType
LaterType   == PersistType \cup ReadType \cup FollowType
BatchType   == [k : {"Send"}, frames : Seq(FrameType), out : Seq(FrameType),
                follow : Seq(FollowType), reads : SUBSET Nat]
PageType    == [k : {"Page"}, head : Nat, events : Seq(EventType)]
ActionType  == LaterType \cup BatchType \cup PageType

OpType ==
    [k : Publication, event : EventType] \cup [k : {"ack"}, ack : AckType]
    \cup [k : {"flush", "open"}]

Statuses == {"none", "accepting", "open", "failed", "lagged"}
SocketType ==
    [status : Statuses, held : BOOLEAN, d : DeliveryType, saved : DeliveryType, from : Nat,
     head : Nat, deferred : BOOLEAN, overdue : Nat]
ClientType == [frame : Nat, acked : Nat, cursor : Nat, seen : SUBSET Nat]
UsedType   == [ephemerals : Nat, surprises : Nat]

\* Only the action that is being done can be a page, or a batch under way.
TodoType(t) == t \in Seq(ActionType) /\ (t # <<>> => Tail(t) \in Seq(LaterType))

DeliveryTypeOK ==
    /\ log \in Seq(BOOLEAN)
    /\ runtime \in {"cold", "building", "ready"}
    /\ unpublished \in Seq(EventType)
    /\ socket \in SocketType
    /\ ops \in Seq(OpType)
    /\ running \in Publication \cup {"none", "ack", "flush", "open"}
    /\ TodoType(todo) /\ (running = "none" <=> todo = <<>>)
    /\ wire \in Seq(FrameType)
    /\ acks \in SUBSET AckType
    /\ client \in ClientType
    /\ used \in UsedType
    /\ Connected \/ (ops = <<>> /\ todo = <<>> /\ socket.d = NewDelivery(0))

-----------------------------------------------------------------------------
(* Every frame is accounted for. *)

Counted(d) ==
    /\ IsFiniteSet(d.inFlight) /\ Cardinality(d.inFlight) <= MaxInFlightFrames
    /\ d.ackFrame < d.next /\ d.ackSeq <= d.sent
    /\ \A f \in d.inFlight : d.ackFrame < f.id /\ f.id < d.next /\ f.thru <= d.sent
    /\ \A f, g \in d.inFlight : f.id = g.id => f = g
    /\ \A r \in d.suppressed :
         d.ackFrame < r.from /\ r.from <= r.through /\ r.through < d.next /\ r.thru <= d.sent
    /\ \A r, q \in d.suppressed : r = q \/ r.through + 1 < q.from \/ q.through + 1 < r.from
    /\ \A f \in d.inFlight, r \in d.suppressed : f.id < r.from \/ r.through < f.id
    /\ \A n \in (d.ackFrame + 1)..(d.next - 1) :
         \/ \E f \in d.inFlight : f.id = n
         \/ \E r \in d.suppressed : r.from <= n /\ n <= r.through

\* What is buffered is ephemeral, and only behind a full window.
Buffered(d) ==
    /\ \A i \in DOMAIN d.pending : d.pending[i].seq = 0
    /\ Capacity(d) > 0 => d.pending = <<>>

\* A durable event is as the log has it.
Logged(event) == event.seq # 0 => event.seq <= Len(log) /\ event.hidden = log[event.seq]
\* Durable events one after the other.
Consecutive(events) ==
    \A i \in DOMAIN events : events[i].seq # 0 /\ events[i].seq = events[1].seq + i - 1

SavedInTime ==
    Connected =>
      \/ socket.saved = Checkpoint(socket.d)
      \/ todo # <<>> /\ todo[1].k \in {"Persist", "Close"}
      \/ todo # <<>> /\ todo[1].k = "Send" /\ Projected

Accounts ==
    /\ Counted(socket.d) /\ Counted(socket.saved) /\ Buffered(socket.d)
    /\ socket.saved.pending = <<>>
    /\ SavedInTime
    /\ socket.held \/ ~Connected \/ (socket.d = socket.saved /\ todo = <<>> /\ ops = <<>>)
    /\ socket.status = "accepting" => socket.held
    /\ socket.d.sent <= Len(log) /\ socket.saved.sent <= Len(log)
    /\ client.cursor <= Len(log)

\* What is read, or was read, begins no later than what is sent ends.
Sourced(a, sent) ==
    /\ a.k = "Read" => a.after <= sent
    /\ a.k = "Send" => \A n \in a.reads : n <= sent
    /\ a.k = "Page" =>
         /\ a.head <= Len(log)
         /\ \A j \in DOMAIN a.events : Logged(a.events[j])
         /\ Consecutive(a.events)
         /\ IF a.events = <<>> THEN a.head <= sent ELSE a.events[1].seq <= sent + 1

Publications ==
    /\ \A i \in DOMAIN unpublished : Logged(unpublished[i])
    /\ \A i, j \in DOMAIN unpublished : i < j => unpublished[i].seq < unpublished[j].seq
    /\ \A i \in DOMAIN ops :
         /\ ops[i].k \in Publication => Logged(ops[i].event)
         /\ ops[i].k = "durable" => ops[i].event.seq # 0
         /\ ops[i].k = "ephemeral" => ops[i].event.seq = 0
    /\ \A i, j \in DOMAIN ops : ops[i].k = "durable" /\ ops[j].k = "durable" => i = j
    /\ \A i \in DOMAIN ops, j \in DOMAIN unpublished :
         ops[i].k = "durable" => ops[i].event.seq < unpublished[j].seq

Sources ==
    /\ Publications
    /\ socket.from <= socket.d.sent
    /\ \A a \in Members(todo) : Sourced(a, socket.d.sent)

-----------------------------------------------------------------------------
(* The plan of the operation under way: its actions in the order in which they *)
(* will be done, the batch that is being encoded and what it is followed by.   *)

Plan(t) ==
    IF t # <<>> /\ t[1].k = "Send" THEN <<t[1]>> \o (t[1].follow \o Tail(t)) ELSE t
Out(t) == IF t # <<>> /\ t[1].k = "Send" THEN t[1].out ELSE <<>>

FramesIn(a) == IF a.k = "Send" THEN Members(a.frames) ELSE {}
Queued(s) == UNION {FramesIn(s[i]) : i \in DOMAIN s}
Ids(Q) == {f.id : f \in Q}
InOrder(a) ==
    a.k = "Send" => \A p, q \in DOMAIN a.frames : p < q => a.frames[p].id < a.frames[q].id
Apart(s) ==
    /\ \A i, j \in DOMAIN s : i # j => Ids(FramesIn(s[i])) \cap Ids(FramesIn(s[j])) = {}
    /\ \A i \in DOMAIN s : InOrder(s[i])

(* What is known of a frame, wherever it is known, agrees on how far it goes. *)

Said == acks \cup {ops[i].ack : i \in {j \in DOMAIN ops : ops[j].k = "ack"}}
SaidReceipts == {[id |-> a.frame, thru |-> a.thru] : a \in Said}
SentReceipts == {Receipt(f) : f \in Members(wire) \cup Members(Out(todo))}
Place == [id |-> client.frame, thru |-> client.cursor]
Theirs == (SaidReceipts \cup SentReceipts) \cup (IF client.frame > 0 THEN {Place} ELSE {})

Held(d) ==
    d.inFlight \cup {[id |-> r.through, thru |-> r.thru] : r \in d.suppressed}
    \cup {[id |-> d.ackFrame, thru |-> d.ackSeq]}

Monotone(P) ==
    \A p, q \in P : /\ p.id <= q.id => p.thru <= q.thru
                    /\ p.id = q.id => p.thru = q.thru
Within(d, P) == \A p \in P : p.id < d.next /\ p.thru <= d.sent

\* A receipt the client may have is acknowledged, or in flight and settled by the client alone.
Answerable(d, Q, o) ==
    \/ o.id <= d.ackFrame /\ o.thru <= d.ackSeq
    \/ o \in d.inFlight /\ o.id \notin Ids(Q)

\* d: the delivery; R: the receipts the client may have, Q: the frames not yet encoded.
Settled(d, R, place, Q) ==
    /\ Monotone((Held(d) \cup R) \cup {place}) /\ Within(d, (Held(d) \cup R) \cup {place})
    /\ \A o \in R : Answerable(d, Q, o)
    /\ \A f \in Q : Receipt(f) \in d.inFlight

Agreed ==
    Connected =>
      /\ Settled(socket.d, Theirs, Place, Queued(Plan(todo)))
      /\ Apart(Plan(todo))
      /\ \A a \in Said : a.frame > 0 /\ a.frame <= client.frame /\ a.thru <= client.cursor

-----------------------------------------------------------------------------
(* Where an event that the client has not got is on its way. *)

Front(t) ==
    IF t = <<>> THEN <<>>
    ELSE IF t[1].k = "Send" THEN t[1].frames
    ELSE IF t[1].k = "Persist" /\ Len(t) > 1 /\ t[2].k = "Send" THEN t[2].frames
    ELSE <<>>
Line == (wire \o Out(todo)) \o Front(todo)
\* The batches that come after it hold ephemeral events alone.
EphemeralAction(a) == a.k = "Send" => \A p \in DOMAIN a.frames : a.frames[p].event.seq = 0
Ephemeral(s) == \A i \in DOMAIN s : EphemeralAction(s[i])
Behind(t) ==
    IF t = <<>> THEN <<>>
    ELSE IF t[1].k = "Send" THEN t[1].follow \o Tail(t)
    ELSE IF t[1].k = "Persist" /\ Len(t) > 1 THEN Tail(Tail(t))
    ELSE t

Missing == {n \in Visible : n \notin client.seen}

FrameTrue(f) == Logged(f.event) /\ f.event.seq <= f.thru /\ f.thru <= Len(log)
\* No frame overtakes an event of M that it would count as received.
Carried(line, M) ==
    \A j \in DOMAIN line, n \in M :
      n <= line[j].thru => \E i \in 1..j : line[i].event.seq = n
\* What is sent and not received is carried by a frame of F, ahead of what counts it.
Tracked(d, F, M) ==
    \A n \in M :
      /\ n > d.ackSeq
      /\ n <= d.sent => \E f \in F : f.event.seq = n
      /\ \A g \in d.inFlight :
           n <= g.thru => \E f \in F : f.event.seq = n /\ f.id <= g.id
      /\ \A r \in d.suppressed :
           n <= r.thru => \E f \in F : f.event.seq = n /\ f.id < r.from

OnTheWay ==
    /\ \A f \in Members(Line) : FrameTrue(f)
    /\ Ephemeral(Behind(todo))
    /\ Carried(Line, Missing)
    /\ \A n \in Missing : n > client.cursor
    /\ Connected => Tracked(socket.d, Members(Line), Missing)

-----------------------------------------------------------------------------
(* What has still to be shown to the socket, or read for it. *)

Shown(n) ==
    \/ n <= socket.d.sent
    \/ \E i \in DOMAIN unpublished : unpublished[i].seq = n
    \/ \E i \in DOMAIN ops : ops[i].k = "durable" /\ ops[i].event.seq = n

Reading ==
    \/ socket.status = "accepting"
    \/ \E i \in DOMAIN ops : ops[i].k = "open"
    \/ \E i \in DOMAIN Plan(todo) : Plan(todo)[i].k \in {"Read", "Page", "Close"}
    \/ todo # <<>> /\ todo[1].k = "Send" /\ todo[1].reads # {}

Followed ==
    Connected =>
      /\ Capacity(socket.d) > 0 /\ ~Reading => \A n \in 1..Len(log) : Shown(n)
      /\ todo # <<>> /\ todo[1].k = "Page" =>
           \A n \in 1..Len(log) : n > todo[1].head => Shown(n)

DeliveryInvariant ==
    DeliveryTypeOK /\ Accounts /\ Sources /\ Agreed /\ OnTheWay /\ Followed

-----------------------------------------------------------------------------
(* Numbers, sequences and sets. *)

LessNat == {p \in Nat \X Nat : p[1] < p[2]}

LEMMA LeastExists ==
  ASSUME NEW S \in SUBSET Nat, S # {}
  PROVE  \E x \in S : \A y \in S : x <= y
<1>1. IsWellFoundedOn(LessNat, Nat)
  BY NatLessThanWellFounded DEF OpToRel, LessNat
<1>2. PICK x \in S : \A y \in S : ~ (<<y, x>> \in LessNat)
  BY <1>1, WFMin
<1>3. \A y \in S : ~(y < x)
  BY <1>2 DEF LessNat
<1> QED BY <1>3

LEMMA GreatestExists ==
  ASSUME NEW S \in SUBSET Nat, S # {}, NEW b \in Nat, \A x \in S : x <= b
  PROVE  \E x \in S : \A y \in S : y <= x
<1> DEFINE room == {b - x : x \in S}
<1>1. room \in SUBSET Nat /\ room # {}
  <2>1. \A x \in S : b - x \in Nat
    OBVIOUS
  <2> QED BY <2>1
<1>2. PICK m \in room : \A n \in room : m <= n
  BY <1>1, LeastExists
<1>3. PICK x \in S : m = b - x
  OBVIOUS
<1>4. \A y \in S : b - x <= b - y
  BY <1>2, <1>3
<1> QED BY <1>4

LEMMA HeadTail ==
  ASSUME NEW S, NEW s \in Seq(S), s # <<>>
  PROVE  /\ Len(s) \in Nat \ {0} /\ DOMAIN s = 1 .. Len(s)
         /\ Head(s) = s[1] /\ s[1] \in S
         /\ Tail(s) \in Seq(S) /\ Len(Tail(s)) = Len(s) - 1
         /\ DOMAIN Tail(s) = 1 .. Len(s) - 1
         /\ \A i \in 1 .. Len(s) - 1 : Tail(s)[i] = s[i + 1]
<1>1. Len(s) \in Nat \ {0} /\ DOMAIN s = 1 .. Len(s)
  BY EmptySeq, LenProperties
<1>2. Tail(s) \in Seq(S) /\ Len(Tail(s)) = Len(s) - 1
      /\ \A i \in 1 .. Len(Tail(s)) : Tail(s)[i] = s[i + 1]
  BY HeadTailProperties
<1>3. Head(s) = s[1] /\ s[1] \in S
  BY <1>1, HeadTailProperties, ElementOfSeq
<1>4. DOMAIN Tail(s) = 1 .. Len(Tail(s))
  BY <1>2, LenProperties
<1> QED BY <1>1, <1>2, <1>3, <1>4

LEMMA MembersOfConcat ==
  ASSUME NEW S, NEW s \in Seq(S), NEW t \in Seq(S)
  PROVE  Members(s \o t) = Members(s) \cup Members(t)
<1>1. /\ s \o t \in Seq(S) /\ Len(s \o t) = Len(s) + Len(t)
      /\ \A i \in 1 .. Len(s) + Len(t) :
           (s \o t)[i] = IF i <= Len(s) THEN s[i] ELSE t[i - Len(s)]
  BY ConcatProperties
<1>2. /\ DOMAIN s = 1 .. Len(s) /\ DOMAIN t = 1 .. Len(t) /\ DOMAIN (s \o t) = 1 .. Len(s) + Len(t)
      /\ Len(s) \in Nat /\ Len(t) \in Nat
  BY <1>1, LenProperties
<1>3. ASSUME NEW i \in 1 .. Len(s) PROVE s[i] \in Members(s \o t)
  BY <1>1, <1>2 DEF Members
<1>4. ASSUME NEW i \in 1 .. Len(t) PROVE t[i] \in Members(s \o t)
  <2>1. Len(s) + i \in 1 .. Len(s) + Len(t) /\ ~(Len(s) + i <= Len(s)) /\ (Len(s) + i) - Len(s) = i
    BY <1>2
  <2>2. (s \o t)[Len(s) + i] = t[i]
    BY <1>1, <2>1
  <2> QED BY <1>2, <2>1, <2>2 DEF Members
<1>5. ASSUME NEW i \in 1 .. Len(s) + Len(t) PROVE (s \o t)[i] \in Members(s) \cup Members(t)
  <2>1. CASE i <= Len(s)
    BY <1>1, <1>2, <2>1 DEF Members
  <2>2. CASE ~(i <= Len(s))
    <3>1. i - Len(s) \in 1 .. Len(t)
      BY <1>2, <2>2
    <3> QED BY <1>1, <1>2, <2>2, <3>1 DEF Members
  <2> QED BY <2>1, <2>2
<1> QED BY <1>2, <1>3, <1>4, <1>5 DEF Members

LEMMA MembersOfHeadTail ==
  ASSUME NEW S, NEW s \in Seq(S), s # <<>>
  PROVE  Members(s) = {s[1]} \cup Members(Tail(s))
<1>1. /\ Len(s) \in Nat \ {0} /\ DOMAIN s = 1 .. Len(s)
      /\ DOMAIN Tail(s) = 1 .. Len(s) - 1
      /\ \A i \in 1 .. Len(s) - 1 : Tail(s)[i] = s[i + 1]
  BY HeadTail
<1>2. ASSUME NEW i \in 1 .. Len(s), i # 1 PROVE s[i] \in Members(Tail(s))
  <2>1. i - 1 \in 1 .. Len(s) - 1 /\ (i - 1) + 1 = i
    BY <1>1, <1>2
  <2> QED BY <1>1, <2>1 DEF Members
<1>3. ASSUME NEW i \in 1 .. Len(s) - 1 PROVE Tail(s)[i] \in Members(s)
  BY <1>1 DEF Members
<1>4. s[1] \in Members(s)
  BY <1>1 DEF Members
<1> QED BY <1>1, <1>2, <1>3, <1>4 DEF Members

LEMMA MembersOfAppend ==
  ASSUME NEW S, NEW s \in Seq(S), NEW x \in S
  PROVE  Append(s, x) \in Seq(S) /\ Members(Append(s, x)) = Members(s) \cup {x}
<1>1. <<x>> \in Seq(S) /\ Members(<<x>>) = {x}
  BY DEF Members
<1>2. Append(s, x) = s \o <<x>>
  BY AppendIsConcat
<1>3. Members(s \o <<x>>) = Members(s) \cup Members(<<x>>)
  BY <1>1, MembersOfConcat, ZenonT(30)
<1>4. Append(s, x) \in Seq(S)
  BY AppendProperties
<1> QED BY <1>1, <1>2, <1>3, <1>4

LEMMA MembersTyped ==
  ASSUME NEW S, NEW s \in Seq(S)
  PROVE  Members(s) \in SUBSET S /\ (s = <<>> <=> Members(s) = {})
<1>1. Len(s) \in Nat /\ DOMAIN s = 1 .. Len(s) /\ s \in [1 .. Len(s) -> S]
  BY LenProperties
<1>2. s # <<>> => Len(s) \in Nat \ {0}
  BY EmptySeq
<1>3. Members(<<>>) = {}
  BY DEF Members
<1>4. s # <<>> => s[1] \in Members(s)
  BY <1>1, <1>2 DEF Members
<1> QED BY <1>1, <1>3, <1>4 DEF Members

-----------------------------------------------------------------------------
(* Sending. *)

Rising(events) ==
  \A i, j \in DOMAIN events : i <= j => events[i].seq <= events[j].seq

LEMMA FramesOfEvents ==
  ASSUME NEW d \in DeliveryType, NEW e \in Seq(EventType), Rising(e)
  PROVE  LET fs == Frames(d, e) IN
         /\ fs \in Seq(FrameType) /\ Len(fs) = Len(e) /\ DOMAIN fs = 1 .. Len(e) /\ Len(e) \in Nat
         /\ \A i \in 1 .. Len(e) :
              fs[i].id = d.next + i - 1 /\ fs[i].event = e[i] /\ e[i] \in EventType
              /\ fs[i].thru = Larger(d.sent, e[i].seq) /\ fs[i] \in FrameType
         /\ \A i, j \in 1 .. Len(e) : i <= j => fs[i].thru <= fs[j].thru
         /\ (fs = <<>> <=> e = <<>>)
<1> DEFINE fs == Frames(d, e)
<1>1. Len(e) \in Nat /\ DOMAIN e = 1 .. Len(e) /\ \A i \in 1 .. Len(e) : e[i] \in EventType
  BY LenProperties, ElementOfSeq
<1>2. d.sent \in Nat /\ d.next \in Nat
  BY DEF DeliveryType
<1>3. fs = [i \in 1 .. Len(e) |->
              [id |-> d.next + i - 1, thru |-> Larger(d.sent, e[i].seq), event |-> e[i]]]
  BY <1>1 DEF Frames
<1>4. ASSUME NEW i \in 1 .. Len(e)
      PROVE /\ e[i].seq \in Nat /\ Larger(d.sent, e[i].seq) \in Nat /\ d.next + i - 1 \in Nat
            /\ [id |-> d.next + i - 1, thru |-> Larger(d.sent, e[i].seq), event |-> e[i]] \in FrameType
  <2>1. e[i] \in EventType /\ e[i].seq \in Nat
    BY <1>1 DEF EventType
  <2>2. Larger(d.sent, e[i].seq) \in Nat /\ d.next + i - 1 \in Nat
    BY <1>2, <2>1 DEF Larger
  <2> QED BY <2>1, <2>2 DEF FrameType
<1>5. fs \in Seq(FrameType) /\ Len(fs) = Len(e) /\ DOMAIN fs = 1 .. Len(e)
  <2>1. fs \in [1 .. Len(e) -> FrameType]
    BY <1>3, <1>4
  <2>2. fs \in Seq(FrameType)
    BY <1>1, <2>1, SeqDef
  <2>3. DOMAIN fs = 1 .. Len(e) /\ DOMAIN fs = 1 .. Len(fs) /\ Len(fs) \in Nat
    BY <2>1, <2>2, LenProperties
  <2> QED BY <1>1, <2>2, <2>3
<1>6. ASSUME NEW i \in 1 .. Len(e)
      PROVE /\ fs[i].id = d.next + i - 1 /\ fs[i].event = e[i] /\ e[i] \in EventType
            /\ fs[i].thru = Larger(d.sent, e[i].seq) /\ fs[i] \in FrameType
  BY <1>1, <1>3, <1>4
<1>7. ASSUME NEW i \in 1 .. Len(e), NEW j \in 1 .. Len(e), i <= j PROVE fs[i].thru <= fs[j].thru
  <2>1. e[i].seq <= e[j].seq
    BY <1>1, <1>7 DEF Rising
  <2>2. /\ e[i].seq \in Nat /\ e[j].seq \in Nat
        /\ fs[i].thru = Larger(d.sent, e[i].seq) /\ fs[j].thru = Larger(d.sent, e[j].seq)
    BY <1>4, <1>6
  <2> HIDE DEF fs
  <2> QED BY <1>2, <2>1, <2>2 DEF Larger
<1>8. fs = <<>> <=> e = <<>>
  BY <1>5, EmptySeq, <1>1
<1> HIDE DEF fs
<1> QED BY <1>1, <1>5, <1>6, <1>7, <1>8 DEF fs

LEMMA SentDelivery ==
  ASSUME NEW d \in DeliveryType, NEW e \in Seq(EventType), Rising(e)
  PROVE  LET x == SendEvents(d, e)
             fs == Frames(d, e) IN
         /\ x \in DeliveryType
         /\ x.ackSeq = d.ackSeq /\ x.ackFrame = d.ackFrame /\ x.suppressed = d.suppressed
         /\ x.pending = d.pending /\ x.next = d.next + Len(e)
         /\ x.inFlight = d.inFlight \cup {Receipt(fs[i]) : i \in 1 .. Len(e)}
         /\ x.sent = (IF e = <<>> THEN d.sent ELSE fs[Len(e)].thru)
         /\ d.sent <= x.sent
         /\ \A i \in 1 .. Len(e) : fs[i].thru <= x.sent /\ d.sent <= fs[i].thru
         /\ (e = <<>> => x = d)
<1> DEFINE x == SendEvents(d, e)
           fs == Frames(d, e)
           new == {Receipt(fs[i]) : i \in 1 .. Len(e)}
           last == IF Len(e) = 0 THEN d.sent ELSE fs[Len(e)].thru
<1>1. /\ fs \in Seq(FrameType) /\ Len(fs) = Len(e) /\ DOMAIN fs = 1 .. Len(e) /\ Len(e) \in Nat
      /\ \A i \in 1 .. Len(e) :
           fs[i].id = d.next + i - 1 /\ fs[i].event = e[i] /\ e[i] \in EventType
           /\ fs[i].thru = Larger(d.sent, e[i].seq) /\ fs[i] \in FrameType
      /\ \A i, j \in 1 .. Len(e) : i <= j => fs[i].thru <= fs[j].thru
  BY FramesOfEvents
<1>2. x = [d EXCEPT !.next = d.next + Len(e), !.sent = last, !.inFlight = d.inFlight \cup new]
  BY DEF SendEvents
<1> HIDE DEF x, fs
<1>3. new \in SUBSET ReceiptType
  BY <1>1 DEF Receipt, FrameType, ReceiptType
<1>4. last \in Nat /\ d.next + Len(e) \in Nat /\ d.inFlight \cup new \in SUBSET ReceiptType
  BY <1>1, <1>3, SMTT(30) DEF DeliveryType, FrameType
<1>5. Len(e) = 0 <=> e = <<>>
  BY <1>1, EmptySeq
<1>6. \A i \in 1 .. Len(e) : fs[i].thru <= last /\ d.sent <= fs[i].thru
  <2>1. ASSUME NEW i \in 1 .. Len(e) PROVE fs[i].thru <= last /\ d.sent <= fs[i].thru
    <3>1. Len(e) \in 1 .. Len(e) /\ i <= Len(e) /\ last = fs[Len(e)].thru
      BY <1>1
    <3>2. e[i].seq \in Nat /\ d.sent \in Nat
      BY <1>1 DEF EventType, DeliveryType
    <3> QED BY <1>1, <3>1, <3>2 DEF Larger
  <2> QED BY <2>1
<1>7. d.sent <= last
  <2>1. CASE Len(e) = 0
    BY <2>1 DEF DeliveryType
  <2>2. CASE Len(e) # 0
    <3>1. Len(e) \in 1 .. Len(e)
      BY <1>1, <2>2
    <3> QED BY <1>6, <2>2, <3>1
  <2> QED BY <2>1, <2>2
<1> HIDE DEF new, last
<1>8. /\ x \in DeliveryType
      /\ x.ackSeq = d.ackSeq /\ x.ackFrame = d.ackFrame /\ x.suppressed = d.suppressed
      /\ x.pending = d.pending /\ x.next = d.next + Len(e)
      /\ x.inFlight = d.inFlight \cup new /\ x.sent = last
  BY <1>2, <1>4 DEF DeliveryType
<1>9. e = <<>> => x = d
  <2>1. e = <<>> => new = {} /\ last = d.sent /\ d.next + Len(e) = d.next
    BY <1>1, <1>5 DEF new, last, DeliveryType
  <2> QED BY <1>2, <2>1 DEF DeliveryType
<1> QED BY <1>5, <1>6, <1>7, <1>8, <1>9 DEF x, fs, new, last

LEMMA IntervalCounts ==
  ASSUME NEW n \in Nat
  PROVE  IsFiniteSet(1 .. n) /\ Cardinality(1 .. n) = n
<1>1. 1 \in Int /\ n \in Int
  OBVIOUS
<1>2. IsFiniteSet(1 .. n) /\ Cardinality(1 .. n) = IF 1 > n THEN 0 ELSE n - 1 + 1
  BY <1>1, FS_Interval
<1> QED BY <1>2

LEMMA CapacityIsNat ==
  ASSUME NEW d \in DeliveryType, Counted(d)
  PROVE  Capacity(d) \in Nat /\ Cardinality(d.inFlight) \in Nat
<1>1. Cardinality(d.inFlight) \in Nat
  BY FS_CardinalityType DEF Counted
<1>2. MaxInFlightFrames \in Nat
  BY PolicyAssumption
<1> QED BY <1>1, <1>2 DEF Counted, Capacity

LEMMA SendCounts ==
  ASSUME NEW d \in DeliveryType, NEW e \in Seq(EventType), Rising(e), Counted(d),
         Len(e) <= Capacity(d)
  PROVE  /\ Counted(SendEvents(d, e))
         /\ Capacity(SendEvents(d, e)) = Capacity(d) - Len(e)
<1> DEFINE x == SendEvents(d, e)
           fs == Frames(d, e)
           new == {Receipt(fs[i]) : i \in 1 .. Len(e)}
<1>1. /\ fs \in Seq(FrameType) /\ Len(fs) = Len(e) /\ DOMAIN fs = 1 .. Len(e) /\ Len(e) \in Nat
      /\ \A i \in 1 .. Len(e) :
           fs[i].id = d.next + i - 1 /\ fs[i].event = e[i] /\ e[i] \in EventType
           /\ fs[i].thru = Larger(d.sent, e[i].seq) /\ fs[i] \in FrameType
  BY FramesOfEvents
<1>2. /\ x \in DeliveryType
      /\ x.ackSeq = d.ackSeq /\ x.ackFrame = d.ackFrame /\ x.suppressed = d.suppressed
      /\ x.pending = d.pending /\ x.next = d.next + Len(e)
      /\ x.inFlight = d.inFlight \cup new
      /\ d.sent <= x.sent
      /\ \A i \in 1 .. Len(e) : fs[i].thru <= x.sent
  BY SentDelivery
<1>3. /\ d.next \in Nat /\ d.sent \in Nat /\ d.ackSeq \in Nat /\ d.ackFrame \in Nat
      /\ x.sent \in Nat
      /\ \A f \in d.inFlight : f.id \in Nat /\ f.thru \in Nat
      /\ \A r \in d.suppressed : r.from \in Nat /\ r.through \in Nat /\ r.thru \in Nat
  BY <1>2 DEF DeliveryType, ReceiptType, RunType
<1> HIDE DEF x, fs
<1>4. \A i \in 1 .. Len(e) : Receipt(fs[i]).id = d.next + i - 1 /\ Receipt(fs[i]).thru = fs[i].thru
  BY <1>1 DEF Receipt
<1>5. ASSUME NEW f \in new
      PROVE \E i \in 1 .. Len(e) : f = Receipt(fs[i]) /\ f.id = d.next + i - 1 /\ f.thru <= x.sent
  BY <1>2, <1>4
<1>6. IsFiniteSet(new) /\ Cardinality(new) = Len(e)
  <2> DEFINE m == [i \in 1 .. Len(e) |-> Receipt(fs[i])]
  <2>1. m \in Surjection(1 .. Len(e), new)
    BY DEF Surjection
  <2>2. m \in Injection(1 .. Len(e), new)
    <3>1. \A i, j \in 1 .. Len(e) : Receipt(fs[i]) = Receipt(fs[j]) => i = j
      BY <1>1, <1>3, <1>4, SMTT(30)
    <3> QED BY <3>1 DEF Injection, IsInjective
  <2>3. IsFiniteSet(1 .. Len(e)) /\ Cardinality(1 .. Len(e)) = Len(e)
    BY <1>1, IntervalCounts
  <2> HIDE DEF m, new
  <2> QED BY <2>1, <2>2, <2>3, FS_Surjection
<1>7. /\ IsFiniteSet(x.inFlight)
      /\ Cardinality(x.inFlight) = Cardinality(d.inFlight) + Len(e)
  <2>1. IsFiniteSet(d.inFlight)
    BY DEF Counted
  <2>2. d.inFlight \cap new = {}
    <3>1. \A f \in d.inFlight : f.id < d.next
      BY DEF Counted
    <3>2. ASSUME NEW f \in new PROVE f.id >= d.next
      <4>1. PICK i \in 1 .. Len(e) : f.id = d.next + i - 1
        BY <1>5
      <4>2. i \in Nat /\ i >= 1
        BY <1>1
      <4> QED BY ONLY <1>3, <4>1, <4>2
    <3> HIDE DEF new
    <3> QED BY <1>3, <3>1, <3>2
  <2>3. Cardinality({}) = 0
    BY FS_EmptySet
  <2>4. Cardinality(d.inFlight) \in Nat
    BY <2>1, FS_CardinalityType
  <2> HIDE DEF new
  <2>5. /\ IsFiniteSet(d.inFlight \cup new)
        /\ Cardinality(d.inFlight \cup new)
             = Cardinality(d.inFlight) + Cardinality(new) - Cardinality(d.inFlight \cap new)
    BY <1>6, <2>1, FS_Union
  <2>6. Cardinality(d.inFlight \cap new) = 0 /\ x.inFlight = d.inFlight \cup new
    BY <1>2, <2>2, <2>3
  <2>7. Cardinality(d.inFlight \cup new) = Cardinality(d.inFlight) + Len(e)
    BY <1>1, <1>6, <2>4, <2>5, <2>6
  <2> QED BY <2>5, <2>6, <2>7
<1>8. Capacity(x) = Capacity(d) - Len(e) /\ Cardinality(x.inFlight) <= MaxInFlightFrames
  <2>1. Cardinality(d.inFlight) \in Nat /\ MaxInFlightFrames \in Nat
    BY CapacityIsNat, PolicyAssumption
  <2> QED BY <1>1, <1>7, <2>1 DEF Capacity
<1>9. \A f \in x.inFlight : d.ackFrame < f.id /\ f.id < x.next /\ f.thru <= x.sent
  <2>1. ASSUME NEW f \in d.inFlight PROVE d.ackFrame < f.id /\ f.id < x.next /\ f.thru <= x.sent
    BY <1>1, <1>2, <1>3 DEF Counted
  <2>2. ASSUME NEW f \in new PROVE d.ackFrame < f.id /\ f.id < x.next /\ f.thru <= x.sent
    <3>1. PICK i \in 1 .. Len(e) : f.id = d.next + i - 1 /\ f.thru <= x.sent
      BY <1>5
    <3>2. d.ackFrame < d.next
      BY DEF Counted
    <3>3. i \in Nat /\ i >= 1 /\ i <= Len(e) /\ Len(e) \in Nat /\ x.next = d.next + Len(e)
      BY <1>1, <1>2
    <3>4. d.ackFrame < f.id /\ f.id < x.next
      BY ONLY <1>3, <3>1, <3>2, <3>3
    <3> QED BY <3>1, <3>4
  <2> QED BY <1>2, <2>1, <2>2
<1>10. \A f, g \in x.inFlight : f.id = g.id => f = g
  <2>1. ASSUME NEW f \in d.inFlight, NEW g \in new PROVE f.id # g.id
    <3>1. f.id < d.next
      BY DEF Counted
    <3> QED BY <1>1, <1>3, <1>5, <3>1, SMTT(30)
  <2>2. ASSUME NEW f \in new, NEW g \in new, f.id = g.id PROVE f = g
    <3>1. PICK i \in 1 .. Len(e) : f = Receipt(fs[i]) /\ f.id = d.next + i - 1
      BY <1>5
    <3>2. PICK j \in 1 .. Len(e) : g = Receipt(fs[j]) /\ g.id = d.next + j - 1
      BY <1>5
    <3> QED BY <1>1, <1>3, <2>2, <3>1, <3>2, SMTT(30)
  <2>3. \A f, g \in d.inFlight : f.id = g.id => f = g
    BY DEF Counted
  <2> HIDE DEF new
  <2> QED BY <1>2, <2>1, <2>2, <2>3
<1>11. \A r \in d.suppressed : r.through < x.next /\ r.thru <= x.sent
  BY <1>1, <1>2, <1>3 DEF Counted
<1>12. \A f \in x.inFlight, r \in d.suppressed : f.id < r.from \/ r.through < f.id
  <2>1. \A f \in d.inFlight, r \in d.suppressed : f.id < r.from \/ r.through < f.id
    BY DEF Counted
  <2>2. ASSUME NEW f \in new, NEW r \in d.suppressed PROVE r.through < f.id
    <3>1. r.through < d.next
      BY DEF Counted
    <3> QED BY <1>1, <1>3, <1>5, <3>1, SMTT(30)
  <2> HIDE DEF new
  <2> QED BY <1>2, <2>1, <2>2
<1>13. ASSUME NEW n \in (d.ackFrame + 1) .. (x.next - 1)
       PROVE \/ \E f \in x.inFlight : f.id = n
             \/ \E r \in d.suppressed : r.from <= n /\ n <= r.through
  <2>1. CASE n <= d.next - 1
    <3>1. n \in (d.ackFrame + 1) .. (d.next - 1)
      BY <1>3, <2>1
    <3> QED BY <1>2, <3>1 DEF Counted
  <2>2. CASE n > d.next - 1
    <3>1. n - d.next + 1 \in 1 .. Len(e) /\ d.next + (n - d.next + 1) - 1 = n
      BY <1>1, <1>2, <1>3, <2>2, SMTT(30)
    <3>2. Receipt(fs[n - d.next + 1]).id = n
      BY <1>4, <3>1
    <3>3. Receipt(fs[n - d.next + 1]) \in x.inFlight
      BY <1>2, <3>1
    <3> QED BY <3>2, <3>3
  <2> QED BY <1>3, <2>1, <2>2
<1>14. d.ackFrame < x.next /\ d.ackSeq <= x.sent
  BY <1>1, <1>2, <1>3 DEF Counted
<1>15. Counted(x)
  <2>1. \A r \in d.suppressed : d.ackFrame < r.from /\ r.from <= r.through
    BY DEF Counted
  <2>2. \A r, q \in d.suppressed : r = q \/ r.through + 1 < q.from \/ q.through + 1 < r.from
    BY DEF Counted
  <2> QED BY <1>2, <1>7, <1>8, <1>9, <1>10, <1>11, <1>12, <1>13, <1>14, <2>1, <2>2 DEF Counted
<1> QED BY <1>8, <1>15 DEF x

-----------------------------------------------------------------------------
(* Receipts. *)

CountedFields(d) ==
  /\ d.ackSeq \in Nat /\ d.ackFrame \in Nat /\ d.sent \in Nat /\ d.next \in Nat
  /\ \A f \in d.inFlight : f \in ReceiptType /\ f.id \in Nat /\ f.thru \in Nat
  /\ \A r \in d.suppressed : r \in RunType /\ r.from \in Nat /\ r.through \in Nat /\ r.thru \in Nat

LEMMA DeliveryFields == ASSUME NEW d \in DeliveryType PROVE CountedFields(d)
BY DEF CountedFields, DeliveryType, ReceiptType, RunType

LEMMA AdvanceKeeps ==
  ASSUME NEW d \in DeliveryType, Counted(d)
  PROVE  LET x == AdvanceSuppressedReceipts(d) IN
         /\ x \in DeliveryType /\ Counted(x)
         /\ x.sent = d.sent /\ x.next = d.next /\ x.inFlight = d.inFlight
         /\ x.pending = d.pending /\ x.suppressed \subseteq d.suppressed
         /\ \/ x.ackFrame = d.ackFrame /\ x.ackSeq = d.ackSeq
            \/ \E r \in d.suppressed :
                 /\ r.from = d.ackFrame + 1
                 /\ x.ackFrame = r.through /\ x.ackSeq = Larger(d.ackSeq, r.thru)
<1> DEFINE x == AdvanceSuppressedReceipts(d)
           due == {r \in d.suppressed : r.from = d.ackFrame + 1}
<1>0. CountedFields(d)
  BY DeliveryFields
<1>1. CASE due = {}
  <2>1. x = d
    BY <1>1 DEF AdvanceSuppressedReceipts
  <2> QED BY <2>1
<1>2. CASE due # {}
  <2> DEFINE r == CHOOSE r \in due : TRUE
  <2>1. r \in due
    BY <1>2
  <2>2. x = [d EXCEPT !.ackFrame = r.through, !.ackSeq = Larger(d.ackSeq, r.thru),
                      !.suppressed = d.suppressed \ due]
    BY <1>2 DEF AdvanceSuppressedReceipts
  <2> HIDE DEF r, x
  <2>3. r \in d.suppressed /\ r.from = d.ackFrame + 1
    BY <2>1
  <2>4. r.through \in Nat /\ Larger(d.ackSeq, r.thru) \in Nat
    BY <1>0, <2>3 DEF CountedFields, Larger
  <2>5. /\ x \in DeliveryType
        /\ x.sent = d.sent /\ x.next = d.next /\ x.inFlight = d.inFlight
        /\ x.pending = d.pending /\ x.suppressed = d.suppressed \ due
        /\ x.ackFrame = r.through /\ x.ackSeq = Larger(d.ackSeq, r.thru)
    BY <2>2, <2>4 DEF DeliveryType
  <2>6. r.from <= r.through /\ r.through < d.next /\ r.thru <= d.sent /\ d.ackSeq <= d.sent
    BY <2>3 DEF Counted
  <2>7. \A f \in d.inFlight : r.through < f.id
    <3>1. \A f \in d.inFlight : d.ackFrame < f.id /\ (f.id < r.from \/ r.through < f.id)
      BY <2>3 DEF Counted
    <3> QED BY <1>0, <2>3, <3>1 DEF CountedFields
  <2>8. \A q \in d.suppressed \ due : r.through < q.from
    <3>1. \A q \in d.suppressed \ due : /\ d.ackFrame < q.from /\ q.from <= q.through
                                        /\ (r = q \/ r.through + 1 < q.from \/ q.through + 1 < r.from)
      BY <2>3 DEF Counted
    <3> QED BY <1>0, <2>1, <2>3, <3>1 DEF CountedFields
  <2>9. ASSUME NEW n \in (r.through + 1) .. (d.next - 1)
        PROVE \/ \E f \in d.inFlight : f.id = n
              \/ \E q \in d.suppressed \ due : q.from <= n /\ n <= q.through
    <3>1. n \in (d.ackFrame + 1) .. (d.next - 1)
      BY <1>0, <2>3, <2>6 DEF CountedFields
    <3>2. CASE \E f \in d.inFlight : f.id = n
      BY <3>2
    <3>3. CASE \E q \in d.suppressed : q.from <= n /\ n <= q.through
      <4>1. PICK q \in d.suppressed : q.from <= n /\ n <= q.through
        BY <3>3
      <4>2. q \notin due
        <5>1. ASSUME q \in due PROVE FALSE
          <6>1. q.from = d.ackFrame + 1 /\ (r = q \/ r.through + 1 < q.from \/ q.through + 1 < r.from)
            BY <2>3, <5>1 DEF Counted
          <6>2. q.from <= q.through
            BY DEF Counted
          <6> QED BY <1>0, <2>3, <2>6, <4>1, <6>1, <6>2 DEF CountedFields
        <5> QED BY <5>1
      <4> QED BY <4>1, <4>2
    <3> QED BY <3>1, <3>2, <3>3 DEF Counted
  <2>10. x.ackSeq <= x.sent /\ x.ackFrame < x.next
    BY <1>0, <2>5, <2>6 DEF Larger, CountedFields
  <2> HIDE DEF due
  <2>11. Counted(x)
    BY <2>5, <2>7, <2>8, <2>9, <2>10 DEF Counted
  <2> QED BY <2>3, <2>5, <2>11 DEF x
<1> QED BY <1>1, <1>2

\* What an acknowledgement of a frame in flight leaves, before the runs behind it advance.
Acknowledged(d, a) ==
  [d EXCEPT !.ackFrame = a.frame, !.ackSeq = a.thru,
            !.inFlight = {f \in @ : f.id > a.frame},
            !.suppressed = {r \in @ : r.through > a.frame}]

LEMMA AcknowledgedCounts ==
  ASSUME NEW d \in DeliveryType, Counted(d), NEW a \in AckType,
         [id |-> a.frame, thru |-> a.thru] \in d.inFlight
  PROVE  LET x == Acknowledged(d, a) IN
         /\ x \in DeliveryType /\ Counted(x)
         /\ x.sent = d.sent /\ x.next = d.next /\ x.pending = d.pending
         /\ x.ackFrame = a.frame /\ x.ackSeq = a.thru /\ d.ackFrame < a.frame
         /\ x.inFlight = {f \in d.inFlight : f.id > a.frame}
         /\ x.suppressed = {r \in d.suppressed : r.through > a.frame}
         /\ \A r \in x.suppressed : r.from > a.frame
<1> DEFINE x == Acknowledged(d, a)
           o == [id |-> a.frame, thru |-> a.thru]
<1>0. CountedFields(d) /\ a.frame \in Nat /\ a.thru \in Nat /\ o.id = a.frame /\ o.thru = a.thru
  BY DeliveryFields DEF AckType
<1>1. d.ackFrame < a.frame /\ a.frame < d.next /\ a.thru <= d.sent
  BY <1>0 DEF Counted
<1>2. /\ x \in DeliveryType
      /\ x.sent = d.sent /\ x.next = d.next /\ x.pending = d.pending
      /\ x.ackFrame = a.frame /\ x.ackSeq = a.thru
      /\ x.inFlight = {f \in d.inFlight : f.id > a.frame}
      /\ x.suppressed = {r \in d.suppressed : r.through > a.frame}
  BY <1>0 DEF Acknowledged, DeliveryType
<1> HIDE DEF x
<1>3. \A r \in x.suppressed : r.from > a.frame
  <2>1. \A r \in d.suppressed : a.frame < r.from \/ r.through < a.frame
    BY <1>0 DEF Counted
  <2> QED BY <1>0, <1>2, <2>1 DEF CountedFields
<1>4. IsFiniteSet(x.inFlight) /\ Cardinality(x.inFlight) <= MaxInFlightFrames
  <2>1. IsFiniteSet(d.inFlight) /\ Cardinality(d.inFlight) \in Nat
        /\ Cardinality(d.inFlight) <= MaxInFlightFrames
    BY CapacityIsNat DEF Counted
  <2>2. x.inFlight \in SUBSET d.inFlight
    BY <1>2
  <2>3. IsFiniteSet(x.inFlight) /\ Cardinality(x.inFlight) <= Cardinality(d.inFlight)
    BY <2>1, <2>2, FS_Subset
  <2>4. Cardinality(x.inFlight) \in Nat /\ MaxInFlightFrames \in Nat
    BY <2>3, FS_CardinalityType, PolicyAssumption
  <2> QED BY <2>1, <2>3, <2>4
<1>5. ASSUME NEW n \in (a.frame + 1) .. (d.next - 1)
      PROVE \/ \E f \in x.inFlight : f.id = n
            \/ \E r \in x.suppressed : r.from <= n /\ n <= r.through
  <2>1. n \in (d.ackFrame + 1) .. (d.next - 1)
    BY <1>0, <1>1 DEF CountedFields
  <2>2. \/ \E f \in d.inFlight : f.id = n
        \/ \E r \in d.suppressed : r.from <= n /\ n <= r.through
    BY <2>1 DEF Counted
  <2>3. ASSUME NEW f \in d.inFlight, f.id = n PROVE f \in x.inFlight
    BY <1>0, <1>2, <2>3
  <2>4. ASSUME NEW r \in d.suppressed, r.from <= n, n <= r.through PROVE r \in x.suppressed
    BY <1>0, <1>2, <2>4 DEF CountedFields
  <2> QED BY <2>2, <2>3, <2>4
<1>6. Counted(x)
  <2>1. /\ \A f \in d.inFlight : f.id < d.next /\ f.thru <= d.sent
        /\ \A f, g \in d.inFlight : f.id = g.id => f = g
        /\ \A r \in d.suppressed : r.from <= r.through /\ r.through < d.next /\ r.thru <= d.sent
        /\ \A r, q \in d.suppressed : r = q \/ r.through + 1 < q.from \/ q.through + 1 < r.from
        /\ \A f \in d.inFlight, r \in d.suppressed : f.id < r.from \/ r.through < f.id
    BY DEF Counted
  <2> QED BY <1>0, <1>1, <1>2, <1>3, <1>4, <1>5, <2>1 DEF Counted, CountedFields
<1> QED BY <1>1, <1>2, <1>3, <1>6 DEF x

\* What the answer of the host for one frame leaves, before the runs advance.
Answered(d, frame) ==
  [d EXCEPT !.inFlight = {f \in @ : f.id # frame.id},
            !.suppressed = InsertSuppressedReceipt(@, frame)]

\* The run that the receipt f joins: it reaches down, up, and as far as what it is made of.
Joined(ranges, f, m) ==
  LET touching == {r \in ranges : r.through + 1 = f.id \/ f.id + 1 = r.from} IN
  /\ m \in RunType /\ m.from <= f.id /\ f.id <= m.through
  /\ \A r \in touching : m.from <= r.from /\ r.through <= m.through /\ r.thru <= m.thru
  /\ f.thru <= m.thru
  /\ m.from = f.id \/ \E r \in touching : r.through + 1 = f.id /\ m.from = r.from
  /\ m.through = f.id \/ \E r \in touching : f.id + 1 = r.from /\ m.through = r.through
  /\ m.thru = f.thru \/ \E r \in touching : m.thru = r.thru

LEMMA InsertJoins ==
  ASSUME NEW d \in DeliveryType, Counted(d), NEW frame \in FrameType, Receipt(frame) \in d.inFlight
  PROVE  \E m \in RunType :
           /\ Joined(d.suppressed, frame, m)
           /\ InsertSuppressedReceipt(d.suppressed, frame)
                = (d.suppressed \ {r \in d.suppressed : r.through + 1 = frame.id \/ frame.id + 1 = r.from})
                  \cup {m}
<1> DEFINE touching == {r \in d.suppressed : r.through + 1 = frame.id \/ frame.id + 1 = r.from}
           froms    == {frame.id} \cup {r.from : r \in touching}
           throughs == {frame.id} \cup {r.through : r \in touching}
           thrus    == {frame.thru} \cup {r.thru : r \in touching}
           from     == CHOOSE x \in froms : \A y \in froms : x <= y
           through  == CHOOSE x \in throughs : \A y \in throughs : y <= x
           thru     == CHOOSE x \in thrus : \A y \in thrus : y <= x
           m        == [from |-> from, through |-> through, thru |-> thru]
<1>0. CountedFields(d) /\ frame.id \in Nat /\ frame.thru \in Nat
      /\ Receipt(frame).id = frame.id /\ Receipt(frame).thru = frame.thru
  BY DeliveryFields DEF FrameType, Receipt
<1>1. frame.id < d.next /\ frame.thru <= d.sent
  BY <1>0 DEF Counted
<1>2. \A r \in d.suppressed : r.from <= r.through /\ r.through < d.next /\ r.thru <= d.sent
  BY DEF Counted
<1>3. froms \in SUBSET Nat /\ throughs \in SUBSET Nat /\ thrus \in SUBSET Nat
  BY <1>0 DEF CountedFields
<1>4. \A x \in throughs : x <= d.next
  BY <1>0, <1>1, <1>2 DEF CountedFields
<1>5. \A x \in thrus : x <= d.sent
  BY <1>1, <1>2
<1>6. frame.id \in froms /\ frame.id \in throughs /\ frame.thru \in thrus
  OBVIOUS
<1>7. d.next \in Nat /\ d.sent \in Nat
  BY <1>0 DEF CountedFields
<1>8. (\E x \in froms : \A y \in froms : x <= y) /\ (\E x \in throughs : \A y \in throughs : y <= x)
      /\ (\E x \in thrus : \A y \in thrus : y <= x)
  <2> HIDE DEF froms, throughs, thrus
  <2>1. \E x \in froms : \A y \in froms : x <= y
    BY <1>3, <1>6, LeastExists
  <2>2. \E x \in throughs : \A y \in throughs : y <= x
    BY <1>3, <1>4, <1>6, <1>7, GreatestExists
  <2>3. \E x \in thrus : \A y \in thrus : y <= x
    BY <1>3, <1>5, <1>6, <1>7, GreatestExists
  <2> QED BY <2>1, <2>2, <2>3
<1>9. /\ from \in froms /\ (\A y \in froms : from <= y)
      /\ through \in throughs /\ (\A y \in throughs : y <= through)
      /\ thru \in thrus /\ (\A y \in thrus : y <= thru)
  <2> HIDE DEF froms, throughs, thrus
  <2> QED BY <1>8, Zenon
<1>10. InsertSuppressedReceipt(d.suppressed, frame) = (d.suppressed \ touching) \cup {m}
  BY Zenon DEF InsertSuppressedReceipt
<1> HIDE DEF from, through, thru
<1>11. m \in RunType /\ m.from = from /\ m.through = through /\ m.thru = thru
  BY <1>3, <1>9 DEF RunType
<1> HIDE DEF m
<1>12. from <= frame.id /\ frame.id <= through /\ frame.thru <= thru
  BY <1>6, <1>9
<1>13. \A r \in touching : from <= r.from /\ r.through <= through /\ r.thru <= thru
  BY <1>9
<1>14. from = frame.id \/ \E r \in touching : r.through + 1 = frame.id /\ from = r.from
  <2>1. ASSUME from # frame.id PROVE \E r \in touching : r.through + 1 = frame.id /\ from = r.from
    <3>1. PICK r \in touching : from = r.from
      BY <1>9, <2>1
    <3>2. ~(frame.id + 1 = r.from)
      BY <1>0, <1>12, <3>1 DEF CountedFields
    <3> QED BY <3>1, <3>2
  <2> QED BY <2>1
<1>15. through = frame.id \/ \E r \in touching : frame.id + 1 = r.from /\ through = r.through
  <2>1. ASSUME through # frame.id PROVE \E r \in touching : frame.id + 1 = r.from /\ through = r.through
    <3>1. PICK r \in touching : through = r.through
      BY <1>9, <2>1
    <3>2. ~(r.through + 1 = frame.id)
      BY <1>0, <1>12, <3>1 DEF CountedFields
    <3> QED BY <3>1, <3>2
  <2> QED BY <2>1
<1>16. thru = frame.thru \/ \E r \in touching : thru = r.thru
  BY <1>9
<1>17. Joined(d.suppressed, frame, m)
  BY <1>11, <1>12, <1>13, <1>14, <1>15, <1>16 DEF Joined
<1> QED BY <1>10, <1>11, <1>17

LEMMA AnsweredCounts ==
  ASSUME NEW d \in DeliveryType, Counted(d), NEW frame \in FrameType, Receipt(frame) \in d.inFlight
  PROVE  LET x == Answered(d, frame) IN
         /\ x \in DeliveryType /\ Counted(x)
         /\ x.sent = d.sent /\ x.next = d.next /\ x.pending = d.pending
         /\ x.ackFrame = d.ackFrame /\ x.ackSeq = d.ackSeq
         /\ x.inFlight = {f \in d.inFlight : f.id # frame.id}
         /\ \E m \in RunType :
              /\ Joined(d.suppressed, frame, m)
              /\ x.suppressed
                   = (d.suppressed \ {r \in d.suppressed : r.through + 1 = frame.id \/ frame.id + 1 = r.from})
                     \cup {m}
<1> DEFINE x == Answered(d, frame)
           touching == {r \in d.suppressed : r.through + 1 = frame.id \/ frame.id + 1 = r.from}
           others == d.suppressed \ touching
<1>0. CountedFields(d) /\ frame.id \in Nat /\ frame.thru \in Nat
      /\ Receipt(frame).id = frame.id /\ Receipt(frame).thru = frame.thru
  BY DeliveryFields DEF FrameType, Receipt
<1>1. PICK m \in RunType : /\ Joined(d.suppressed, frame, m)
                           /\ InsertSuppressedReceipt(d.suppressed, frame) = others \cup {m}
  BY InsertJoins
<1>2. others \cup {m} \in SUBSET RunType
  BY <1>0 DEF CountedFields
<1>3. /\ x \in DeliveryType
      /\ x.sent = d.sent /\ x.next = d.next /\ x.pending = d.pending
      /\ x.ackFrame = d.ackFrame /\ x.ackSeq = d.ackSeq
      /\ x.inFlight = {f \in d.inFlight : f.id # frame.id}
      /\ x.suppressed = others \cup {m}
  <2>1. x = [d EXCEPT !.inFlight = {f \in d.inFlight : f.id # frame.id}, !.suppressed = others \cup {m}]
    BY <1>1 DEF Answered
  <2> HIDE DEF x, others
  <2> QED BY <1>2, <2>1 DEF DeliveryType
<1> HIDE DEF x
<1>4. /\ m.from \in Nat /\ m.through \in Nat /\ m.thru \in Nat
      /\ m.from <= frame.id /\ frame.id <= m.through
      /\ \A r \in touching : m.from <= r.from /\ r.through <= m.through
      /\ m.from = frame.id \/ \E r \in touching : r.through + 1 = frame.id /\ m.from = r.from
      /\ m.through = frame.id \/ \E r \in touching : frame.id + 1 = r.from /\ m.through = r.through
      /\ m.thru = frame.thru \/ \E r \in touching : m.thru = r.thru
  BY <1>1 DEF Joined, RunType
<1>5. /\ d.ackFrame < frame.id /\ frame.id < d.next /\ frame.thru <= d.sent
      /\ \A r \in d.suppressed : frame.id < r.from \/ r.through < frame.id
  BY <1>0 DEF Counted
<1>6. /\ \A f \in d.inFlight : d.ackFrame < f.id /\ f.id < d.next /\ f.thru <= d.sent
      /\ \A f, g \in d.inFlight : f.id = g.id => f = g
      /\ \A r \in d.suppressed :
           d.ackFrame < r.from /\ r.from <= r.through /\ r.through < d.next /\ r.thru <= d.sent
      /\ \A r, q \in d.suppressed : r = q \/ r.through + 1 < q.from \/ q.through + 1 < r.from
      /\ \A f \in d.inFlight, r \in d.suppressed : f.id < r.from \/ r.through < f.id
      /\ d.ackFrame < d.next /\ d.ackSeq <= d.sent
  BY DEF Counted
<1>7. d.ackFrame < m.from /\ m.from <= m.through /\ m.through < d.next /\ m.thru <= d.sent
  BY <1>0, <1>4, <1>5, <1>6 DEF CountedFields
<1>8. ASSUME NEW q \in others PROVE m.through + 1 < q.from \/ q.through + 1 < m.from
  <2>0. q.from \in Nat /\ q.through \in Nat /\ q.from <= q.through /\ q \in d.suppressed
    BY <1>0, <1>6 DEF CountedFields
  <2>1. frame.id + 1 < q.from \/ q.through + 1 < frame.id
    <3>1. ~(q.through + 1 = frame.id) /\ ~(frame.id + 1 = q.from)
      OBVIOUS
    <3>2. frame.id < q.from \/ q.through < frame.id
      BY <1>5
    <3> QED BY <1>0, <2>0, <3>1, <3>2
  <2>2. CASE frame.id + 1 < q.from
    <3>1. CASE m.through = frame.id
      BY <2>2, <3>1
    <3>2. CASE \E r \in touching : frame.id + 1 = r.from /\ m.through = r.through
      <4>1. PICK r \in touching : frame.id + 1 = r.from /\ m.through = r.through
        BY <3>2
      <4>2. /\ r # q /\ r.from \in Nat /\ r.through \in Nat /\ r.from <= r.through
            /\ (r = q \/ r.through + 1 < q.from \/ q.through + 1 < r.from)
        BY <1>0, <1>6, <2>0 DEF CountedFields
      <4> QED BY <1>0, <1>4, <2>0, <2>2, <4>1, <4>2
    <3> QED BY <1>4, <3>1, <3>2
  <2>3. CASE q.through + 1 < frame.id
    <3>1. CASE m.from = frame.id
      BY <2>3, <3>1
    <3>2. CASE \E r \in touching : r.through + 1 = frame.id /\ m.from = r.from
      <4>1. PICK r \in touching : r.through + 1 = frame.id /\ m.from = r.from
        BY <3>2
      <4>2. /\ r # q /\ r.from \in Nat /\ r.through \in Nat /\ r.from <= r.through
            /\ (r = q \/ r.through + 1 < q.from \/ q.through + 1 < r.from)
        BY <1>0, <1>6, <2>0 DEF CountedFields
      <4> QED BY <1>0, <1>4, <2>0, <2>3, <4>1, <4>2
    <3> QED BY <1>4, <3>1, <3>2
  <2> QED BY <2>1, <2>2, <2>3
<1>9. ASSUME NEW g \in d.inFlight, g.id # frame.id PROVE g.id < m.from \/ m.through < g.id
  <2>0. g.id \in Nat /\ \A r \in d.suppressed : r.from \in Nat /\ r.through \in Nat /\ r.from <= r.through
    BY <1>0, <1>6 DEF CountedFields
  <2>1. CASE g.id < frame.id
    <3>1. CASE m.from = frame.id
      BY <2>1, <3>1
    <3>2. CASE \E r \in touching : r.through + 1 = frame.id /\ m.from = r.from
      <4>1. PICK r \in touching : r.through + 1 = frame.id /\ m.from = r.from
        BY <3>2
      <4>2. g.id < r.from \/ r.through < g.id
        BY <1>6
      <4> QED BY <1>0, <2>0, <2>1, <4>1, <4>2
    <3> QED BY <1>4, <3>1, <3>2
  <2>2. CASE frame.id < g.id
    <3>1. CASE m.through = frame.id
      BY <2>2, <3>1
    <3>2. CASE \E r \in touching : frame.id + 1 = r.from /\ m.through = r.through
      <4>1. PICK r \in touching : frame.id + 1 = r.from /\ m.through = r.through
        BY <3>2
      <4>2. g.id < r.from \/ r.through < g.id
        BY <1>6
      <4> QED BY <1>0, <2>0, <2>2, <4>1, <4>2
    <3> QED BY <1>4, <3>1, <3>2
  <2> QED BY <1>0, <1>9, <2>0, <2>1, <2>2
<1>10. ASSUME NEW n \in (d.ackFrame + 1) .. (d.next - 1)
       PROVE \/ \E f \in x.inFlight : f.id = n
             \/ \E r \in x.suppressed : r.from <= n /\ n <= r.through
  <2>1. CASE n = frame.id
    BY <1>3, <1>4, <2>1
  <2>2. CASE n # frame.id /\ \E f \in d.inFlight : f.id = n
    BY <1>3, <2>2
  <2>3. CASE \E r \in d.suppressed : r.from <= n /\ n <= r.through
    <3>1. PICK r \in d.suppressed : r.from <= n /\ n <= r.through
      BY <2>3
    <3>2. CASE r \in touching
      <4>1. m.from <= n /\ n <= m.through
        BY <1>0, <1>4, <3>1, <3>2 DEF CountedFields
      <4> QED BY <1>3, <4>1
    <3>3. CASE r \notin touching
      BY <1>3, <3>1, <3>3
    <3> QED BY <3>2, <3>3
  <2> QED BY <2>1, <2>2, <2>3 DEF Counted
<1>11. IsFiniteSet(x.inFlight) /\ Cardinality(x.inFlight) <= MaxInFlightFrames
  <2>1. IsFiniteSet(d.inFlight) /\ Cardinality(d.inFlight) \in Nat
        /\ Cardinality(d.inFlight) <= MaxInFlightFrames
    BY CapacityIsNat DEF Counted
  <2>2. x.inFlight \in SUBSET d.inFlight
    BY <1>3
  <2>3. IsFiniteSet(x.inFlight) /\ Cardinality(x.inFlight) <= Cardinality(d.inFlight)
    BY <2>1, <2>2, FS_Subset
  <2>4. Cardinality(x.inFlight) \in Nat /\ MaxInFlightFrames \in Nat
    BY <2>3, FS_CardinalityType, PolicyAssumption
  <2> QED BY <2>1, <2>3, <2>4
<1>12. \A r, q \in x.suppressed : r = q \/ r.through + 1 < q.from \/ q.through + 1 < r.from
  <2>1. \A r, q \in others : r = q \/ r.through + 1 < q.from \/ q.through + 1 < r.from
    BY <1>6
  <2> HIDE DEF others
  <2> QED BY <1>3, <1>8, <2>1
<1>13. Counted(x)
  <2>1. /\ \A f \in x.inFlight : d.ackFrame < f.id /\ f.id < d.next /\ f.thru <= d.sent
        /\ \A f, g \in x.inFlight : f.id = g.id => f = g
    BY <1>3, <1>6
  <2>2. \A r \in x.suppressed :
          d.ackFrame < r.from /\ r.from <= r.through /\ r.through < d.next /\ r.thru <= d.sent
    BY <1>3, <1>6, <1>7
  <2>3. \A f \in x.inFlight, r \in x.suppressed : f.id < r.from \/ r.through < f.id
    BY <1>3, <1>6, <1>9
  <2> QED BY <1>3, <1>6, <1>10, <1>11, <1>12, <2>1, <2>2, <2>3 DEF Counted
<1> QED BY <1>1, <1>3, <1>13 DEF x

-----------------------------------------------------------------------------
(* Sequences of actions. *)

LEMMA Cons ==
  ASSUME NEW S, NEW a \in S, NEW s \in Seq(S)
  PROVE  LET t == <<a>> \o s IN
         /\ t \in Seq(S) /\ t # <<>> /\ t[1] = a /\ Head(t) = a /\ Tail(t) = s
         /\ Len(t) = Len(s) + 1 /\ DOMAIN t = 1 .. Len(s) + 1 /\ Len(s) \in Nat
         /\ \A i \in 1 .. Len(s) : t[i + 1] = s[i]
<1> DEFINE t == <<a>> \o s
<1>1. <<a>> \in Seq(S) /\ Len(<<a>>) = 1 /\ <<a>>[1] = a
  OBVIOUS
<1>2. /\ t \in Seq(S) /\ Len(t) = 1 + Len(s)
      /\ \A i \in 1 .. 1 + Len(s) : t[i] = IF i <= 1 THEN <<a>>[i] ELSE s[i - 1]
  BY <1>1, ConcatProperties
<1> HIDE DEF t
<1>3. Len(s) \in Nat /\ DOMAIN s = 1 .. Len(s) /\ DOMAIN t = 1 .. Len(s) + 1
  BY <1>2, LenProperties
<1>4. t # <<>> /\ t[1] = a
  BY <1>1, <1>2, <1>3, EmptySeq
<1>5. \A i \in 1 .. Len(s) : t[i + 1] = s[i]
  <2>1. ASSUME NEW i \in 1 .. Len(s) PROVE t[i + 1] = s[i]
    <3>1. i + 1 \in 1 .. 1 + Len(s) /\ ~(i + 1 <= 1) /\ (i + 1) - 1 = i
      BY <1>3
    <3> QED BY <1>2, <3>1
  <2> QED BY <2>1
<1>6. /\ Head(t) = t[1] /\ Tail(t) \in Seq(S) /\ Len(Tail(t)) = Len(t) - 1
      /\ \A i \in 1 .. Len(t) - 1 : Tail(t)[i] = t[i + 1]
  BY <1>2, <1>4, HeadTail
<1>7. Tail(t) = s
  <2>1. Len(Tail(t)) = Len(s) /\ \A i \in 1 .. Len(s) : Tail(t)[i] = s[i]
    BY <1>2, <1>3, <1>5, <1>6
  <2> QED BY <1>6, <2>1, SeqEqual
<1> QED BY <1>2, <1>3, <1>4, <1>5, <1>6, <1>7 DEF t

LEMMA HeadThenTail ==
  ASSUME NEW S, NEW s \in Seq(S), s # <<>>
  PROVE  s = <<s[1]>> \o Tail(s)
<1>1. /\ Len(s) \in Nat \ {0} /\ s[1] \in S /\ Tail(s) \in Seq(S) /\ Len(Tail(s)) = Len(s) - 1
      /\ \A i \in 1 .. Len(s) - 1 : Tail(s)[i] = s[i + 1]
  BY HeadTail
<1> DEFINE t == <<s[1]>> \o Tail(s)
<1>2. /\ t \in Seq(S) /\ t[1] = s[1] /\ Len(t) = Len(Tail(s)) + 1
      /\ \A i \in 1 .. Len(Tail(s)) : t[i + 1] = Tail(s)[i]
  BY <1>1, Cons
<1> HIDE DEF t
<1>3. Len(t) = Len(s)
  BY <1>1, <1>2
<1>4. ASSUME NEW i \in 1 .. Len(s) PROVE t[i] = s[i]
  <2>1. CASE i = 1
    BY <1>2, <2>1
  <2>2. CASE i # 1
    <3>1. i - 1 \in 1 .. Len(s) - 1 /\ (i - 1) + 1 = i
      BY <1>1, <2>2
    <3> QED BY <1>1, <1>2, <3>1
  <2> QED BY <2>1, <2>2
<1>5. t = s
  BY <1>2, <1>3, <1>4, SeqEqual
<1> QED BY <1>5 DEF t

LEMMA QueuedByMembers ==
  ASSUME NEW s
  PROVE  Queued(s) = UNION {FramesIn(a) : a \in Members(s)}
BY DEF Queued, Members

LEMMA QueuedOfConcat ==
  ASSUME NEW S, NEW s \in Seq(S), NEW t \in Seq(S)
  PROVE  Queued(s \o t) = Queued(s) \cup Queued(t)
<1>1. Members(s \o t) = Members(s) \cup Members(t)
  BY MembersOfConcat
<1> QED BY <1>1, QueuedByMembers

LEMMA QueuedOfOne ==
  ASSUME NEW a
  PROVE  Queued(<<a>>) = FramesIn(a) /\ Queued(<<>>) = {}
<1>1. Members(<<a>>) = {a} /\ Members(<<>>) = {}
  BY DEF Members
<1> QED BY <1>1, QueuedByMembers

LEMMA QueuedOfHead ==
  ASSUME NEW S, NEW s \in Seq(S), s # <<>>
  PROVE  Queued(s) = FramesIn(s[1]) \cup Queued(Tail(s))
<1>1. Members(s) = {s[1]} \cup Members(Tail(s))
  BY MembersOfHeadTail
<1> QED BY <1>1, QueuedByMembers

LEMMA EphemeralByMembers ==
  ASSUME NEW s
  PROVE  Ephemeral(s) <=> \A a \in Members(s) : EphemeralAction(a)
BY DEF Ephemeral, Members

LEMMA EphemeralOfConcat ==
  ASSUME NEW S, NEW s \in Seq(S), NEW t \in Seq(S)
  PROVE  Ephemeral(s \o t) <=> Ephemeral(s) /\ Ephemeral(t)
<1>1. Members(s \o t) = Members(s) \cup Members(t)
  BY MembersOfConcat
<1> QED BY <1>1, EphemeralByMembers

LEMMA EphemeralOfOne ==
  ASSUME NEW a
  PROVE  Ephemeral(<<>>) /\ (Ephemeral(<<a>>) <=> EphemeralAction(a))
<1>1. Members(<<a>>) = {a} /\ Members(<<>>) = {}
  BY DEF Members
<1> QED BY <1>1, EphemeralByMembers

LEMMA EphemeralOfHead ==
  ASSUME NEW S, NEW s \in Seq(S), s # <<>>
  PROVE  Ephemeral(s) <=> EphemeralAction(s[1]) /\ Ephemeral(Tail(s))
<1>1. Members(s) = {s[1]} \cup Members(Tail(s))
  BY MembersOfHeadTail
<1> QED BY <1>1, EphemeralByMembers

LEMMA ApartOfConcat ==
  ASSUME NEW S, NEW s \in Seq(S), NEW t \in Seq(S)
  PROVE  Apart(s \o t) <=> Apart(s) /\ Apart(t) /\ Ids(Queued(s)) \cap Ids(Queued(t)) = {}
<1> DEFINE u == s \o t
<1>1. /\ u \in Seq(S) /\ Len(u) = Len(s) + Len(t)
      /\ \A i \in 1 .. Len(s) + Len(t) : u[i] = IF i <= Len(s) THEN s[i] ELSE t[i - Len(s)]
  BY ConcatProperties
<1> HIDE DEF u
<1>2. /\ DOMAIN s = 1 .. Len(s) /\ DOMAIN t = 1 .. Len(t) /\ DOMAIN u = 1 .. Len(s) + Len(t)
      /\ Len(s) \in Nat /\ Len(t) \in Nat
  BY <1>1, LenProperties
<1>3. \A i \in 1 .. Len(s) : i \in 1 .. Len(s) + Len(t) /\ u[i] = s[i]
  BY <1>1, <1>2
<1>4. \A i \in 1 .. Len(t) : Len(s) + i \in 1 .. Len(s) + Len(t) /\ u[Len(s) + i] = t[i]
  <2>1. ASSUME NEW i \in 1 .. Len(t)
        PROVE Len(s) + i \in 1 .. Len(s) + Len(t) /\ u[Len(s) + i] = t[i]
    <3>1. Len(s) + i \in 1 .. Len(s) + Len(t) /\ ~(Len(s) + i <= Len(s)) /\ (Len(s) + i) - Len(s) = i
      BY <1>2
    <3> QED BY <1>1, <3>1
  <2> QED BY <2>1
<1>5. ASSUME NEW i \in 1 .. Len(s) + Len(t), ~(i <= Len(s))
      PROVE i - Len(s) \in 1 .. Len(t) /\ u[i] = t[i - Len(s)] /\ Len(s) + (i - Len(s)) = i
  BY <1>1, <1>2, <1>5
<1>6. ASSUME Apart(u) PROVE Apart(s) /\ Apart(t) /\ Ids(Queued(s)) \cap Ids(Queued(t)) = {}
  <2>1. Apart(s)
    BY <1>2, <1>3, <1>6 DEF Apart
  <2>2. Apart(t)
    <3>1. \A i, j \in DOMAIN t : i # j => Ids(FramesIn(t[i])) \cap Ids(FramesIn(t[j])) = {}
      <4>1. ASSUME NEW i \in DOMAIN t, NEW j \in DOMAIN t, i # j
            PROVE Ids(FramesIn(t[i])) \cap Ids(FramesIn(t[j])) = {}
        <5>1. Len(s) + i # Len(s) + j
          BY <1>2, <4>1
        <5>2. /\ u[Len(s) + i] = t[i] /\ u[Len(s) + j] = t[j]
              /\ Len(s) + i \in DOMAIN u /\ Len(s) + j \in DOMAIN u
          BY <1>2, <1>4
        <5>3. Ids(FramesIn(u[Len(s) + i])) \cap Ids(FramesIn(u[Len(s) + j])) = {}
          BY <1>6, <5>1, <5>2 DEF Apart
        <5> QED BY <5>2, <5>3
      <4> QED BY <4>1
    <3>2. \A i \in DOMAIN t : InOrder(t[i])
      BY <1>2, <1>4, <1>6 DEF Apart
    <3> QED BY <3>1, <3>2 DEF Apart
  <2>3. ASSUME NEW f \in Queued(s), NEW g \in Queued(t), f.id = g.id PROVE FALSE
    <3>1. PICK i \in 1 .. Len(s) : f \in FramesIn(s[i])
      BY <1>2 DEF Queued
    <3>2. PICK j \in 1 .. Len(t) : g \in FramesIn(t[j])
      BY <1>2 DEF Queued
    <3>3. i # Len(s) + j /\ i \in DOMAIN u /\ Len(s) + j \in DOMAIN u
      BY <1>2, <1>3, <1>4
    <3>4. Ids(FramesIn(u[i])) \cap Ids(FramesIn(u[Len(s) + j])) = {}
      BY <1>6, <3>3 DEF Apart
    <3>5. f.id \in Ids(FramesIn(u[i])) /\ g.id \in Ids(FramesIn(u[Len(s) + j]))
      BY <1>3, <1>4, <3>1, <3>2 DEF Ids
    <3> QED BY <2>3, <3>4, <3>5
  <2> QED BY <2>1, <2>2, <2>3 DEF Ids
<1>7. ASSUME Apart(s), Apart(t), Ids(Queued(s)) \cap Ids(Queued(t)) = {} PROVE Apart(u)
  <2>1. \A i \in 1 .. Len(s), j \in 1 .. Len(t) : Ids(FramesIn(s[i])) \cap Ids(FramesIn(t[j])) = {}
    BY <1>2, <1>7, ZenonT(30) DEF Ids, Queued
  <2>2. ASSUME NEW i \in DOMAIN u, NEW j \in DOMAIN u, i # j
        PROVE Ids(FramesIn(u[i])) \cap Ids(FramesIn(u[j])) = {}
    <3>1. CASE i <= Len(s) /\ j <= Len(s)
      <4>1. i \in DOMAIN s /\ j \in DOMAIN s /\ u[i] = s[i] /\ u[j] = s[j]
        BY <1>2, <1>3, <3>1
      <4> QED BY <1>7, <2>2, <4>1 DEF Apart
    <3>2. CASE i <= Len(s) /\ ~(j <= Len(s))
      <4>1. i \in 1 .. Len(s) /\ u[i] = s[i] /\ j - Len(s) \in 1 .. Len(t) /\ u[j] = t[j - Len(s)]
        BY <1>2, <1>3, <1>5, <3>2
      <4> QED BY <2>1, <4>1
    <3>3. CASE ~(i <= Len(s)) /\ j <= Len(s)
      <4>1. j \in 1 .. Len(s) /\ u[j] = s[j] /\ i - Len(s) \in 1 .. Len(t) /\ u[i] = t[i - Len(s)]
        BY <1>2, <1>3, <1>5, <3>3
      <4>2. Ids(FramesIn(s[j])) \cap Ids(FramesIn(t[i - Len(s)])) = {}
        BY <2>1, <4>1
      <4> QED BY <4>1, <4>2
    <3>4. CASE ~(i <= Len(s)) /\ ~(j <= Len(s))
      <4>1. /\ i - Len(s) \in DOMAIN t /\ j - Len(s) \in DOMAIN t /\ i - Len(s) # j - Len(s)
            /\ u[i] = t[i - Len(s)] /\ u[j] = t[j - Len(s)]
        BY <1>2, <1>5, <2>2, <3>4
      <4> QED BY <1>7, <4>1 DEF Apart
    <3> QED BY <3>1, <3>2, <3>3, <3>4
  <2>3. ASSUME NEW i \in DOMAIN u PROVE InOrder(u[i])
    <3>1. CASE i <= Len(s)
      BY <1>2, <1>3, <1>7, <3>1 DEF Apart
    <3>2. CASE ~(i <= Len(s))
      BY <1>2, <1>5, <1>7, <3>2 DEF Apart
    <3> QED BY <3>1, <3>2
  <2> QED BY <2>2, <2>3 DEF Apart
<1> QED BY <1>6, <1>7 DEF u

LEMMA ApartOfOne ==
  ASSUME NEW a
  PROVE  Apart(<<>>) /\ (Apart(<<a>>) <=> InOrder(a))
BY DEF Apart

LEMMA ApartOfHead ==
  ASSUME NEW S, NEW s \in Seq(S), s # <<>>
  PROVE  Apart(s) <=> /\ InOrder(s[1]) /\ Apart(Tail(s))
                      /\ Ids(FramesIn(s[1])) \cap Ids(Queued(Tail(s))) = {}
<1>1. s[1] \in S /\ Tail(s) \in Seq(S) /\ <<s[1]>> \in Seq(S)
  BY HeadTail
<1>2. s = <<s[1]>> \o Tail(s)
  BY HeadThenTail
<1>3. /\ Apart(<<s[1]>> \o Tail(s))
           <=> Apart(<<s[1]>>) /\ Apart(Tail(s)) /\ Ids(Queued(<<s[1]>>)) \cap Ids(Queued(Tail(s))) = {}
  BY <1>1, ApartOfConcat
<1>4. (Apart(<<s[1]>>) <=> InOrder(s[1])) /\ Queued(<<s[1]>>) = FramesIn(s[1])
  BY ApartOfOne, QueuedOfOne
<1> QED BY <1>2, <1>3, <1>4

-----------------------------------------------------------------------------
(* What is to be done. *)

LEMMA ActionKinds ==
  ASSUME NEW a \in ActionType
  PROVE  /\ a.k = "Persist" => a = Persist
         /\ a.k = "Read" => a \in ReadType
         /\ a.k = "Close" => a \in CloseType
         /\ a.k = "Send" => a \in BatchType
         /\ a.k = "Page" => a \in PageType
         /\ a.k \in {"Persist", "Read", "Close", "Send", "Page"}
<1>1. CASE a \in PersistType
  BY <1>1 DEF PersistType, Persist
<1>2. CASE a \in ReadType
  BY <1>2 DEF ReadType
<1>3. CASE a \in CloseType
  BY <1>3 DEF CloseType
<1>4. CASE a \in WaitingType
  <2>1. /\ a.out = <<>> /\ a.follow = <<>> /\ a.reads = {} /\ a.k = "Send" /\ a.frames \in Seq(FrameType)
        /\ a = [k |-> a.k, frames |-> a.frames, out |-> a.out, follow |-> a.follow, reads |-> a.reads]
    BY <1>4 DEF WaitingType
  <2>2. a.out \in Seq(FrameType) /\ a.follow \in Seq(FollowType) /\ a.reads \in SUBSET Nat
    BY <2>1
  <2>3. a \in BatchType
    BY <2>1, <2>2 DEF BatchType
  <2> QED BY <2>1, <2>3
<1>5. CASE a \in BatchType
  BY <1>5 DEF BatchType
<1>6. CASE a \in PageType
  BY <1>6 DEF PageType
<1> QED BY <1>1, <1>2, <1>3, <1>4, <1>5, <1>6 DEF ActionType, LaterType, FollowType

LEMMA LaterKinds ==
  ASSUME NEW a \in LaterType
  PROVE  /\ a \in ActionType /\ a.k # "Page"
         /\ a.k = "Send" => /\ a \in WaitingType /\ a \in FollowType
                            /\ a.frames \in Seq(FrameType)
                            /\ a.out = <<>> /\ a.follow = <<>> /\ a.reads = {}
         /\ a.k = "Close" => a \in FollowType
<1>1. CASE a \in PersistType
  BY <1>1 DEF PersistType, Persist, ActionType, LaterType
<1>2. CASE a \in ReadType
  BY <1>2 DEF ReadType, ActionType, LaterType
<1>3. CASE a \in CloseType
  BY <1>3 DEF CloseType, ActionType, LaterType, FollowType
<1>4. CASE a \in WaitingType
  BY <1>4 DEF WaitingType, ActionType, LaterType, FollowType
<1> QED BY <1>1, <1>2, <1>3, <1>4 DEF LaterType, FollowType

LEMMA LaterIsAction ==
  /\ LaterType \subseteq ActionType /\ FollowType \subseteq LaterType
  /\ Seq(LaterType) \subseteq Seq(ActionType) /\ Seq(FollowType) \subseteq Seq(LaterType)
<1>1. LaterType \subseteq ActionType /\ FollowType \subseteq LaterType
  BY DEF LaterType, ActionType
<1> QED BY <1>1, SeqMonotonic

LEMMA BatchFields ==
  ASSUME NEW b \in BatchType
  PROVE  /\ b.k = "Send" /\ b.frames \in Seq(FrameType) /\ b.out \in Seq(FrameType)
         /\ b.follow \in Seq(FollowType) /\ b.reads \in SUBSET Nat
BY DEF BatchType

LEMMA TodoCases ==
  ASSUME NEW t, TodoType(t), t # <<>>
  PROVE  /\ t \in Seq(ActionType) /\ t[1] \in ActionType /\ Head(t) = t[1]
         /\ Tail(t) \in Seq(LaterType) /\ Tail(t) \in Seq(ActionType)
         /\ t = <<t[1]>> \o Tail(t)
<1>1. t \in Seq(ActionType) /\ Tail(t) \in Seq(LaterType)
  BY DEF TodoType
<1>2. t[1] \in ActionType /\ Head(t) = t[1]
  BY <1>1, HeadTail
<1>3. t = <<t[1]>> \o Tail(t)
  BY <1>1, HeadThenTail
<1> QED BY <1>1, <1>2, <1>3, LaterIsAction

LEMMA TodoOf ==
  ASSUME NEW a \in ActionType, NEW s \in Seq(LaterType)
  PROVE  /\ TodoType(<<a>> \o s) /\ <<a>> \o s # <<>> /\ (<<a>> \o s)[1] = a
         /\ Tail(<<a>> \o s) = s /\ Head(<<a>> \o s) = a
<1>1. s \in Seq(ActionType)
  BY LaterIsAction
<1>2. /\ <<a>> \o s \in Seq(ActionType) /\ <<a>> \o s # <<>> /\ (<<a>> \o s)[1] = a
      /\ Tail(<<a>> \o s) = s /\ Head(<<a>> \o s) = a
  BY <1>1, Cons
<1> QED BY <1>2 DEF TodoType

LEMMA LaterTodo ==
  ASSUME NEW t \in Seq(LaterType)
  PROVE  /\ TodoType(t) /\ Plan(t) = t /\ Out(t) = <<>>
         /\ (t # <<>> => t[1].k # "Page" /\ (t[1].k = "Send" => t[1].reads = {}))
<1>1. TodoType(t)
  <2>1. t # <<>> => Tail(t) \in Seq(LaterType)
    BY HeadTail
  <2> QED BY <2>1, LaterIsAction DEF TodoType
<1>2. t # <<>> => t[1] \in LaterType /\ t = <<t[1]>> \o Tail(t) /\ Tail(t) \in Seq(LaterType)
  BY HeadTail, HeadThenTail
<1>3. t # <<>> => t[1].k # "Page" /\ (t[1].k = "Send" => /\ t[1].reads = {} /\ t[1].out = <<>>
                                                         /\ t[1].follow = <<>>)
  BY <1>2, LaterKinds
<1>4. t # <<>> => <<>> \o Tail(t) = Tail(t)
  BY <1>2, ConcatEmptySeq
<1>5. Plan(t) = t
  <2>1. CASE t # <<>> /\ t[1].k = "Send"
    BY <1>2, <1>3, <1>4, <2>1 DEF Plan
  <2>2. CASE ~(t # <<>> /\ t[1].k = "Send")
    BY <2>2 DEF Plan
  <2> QED BY <2>1, <2>2
<1>6. Out(t) = <<>>
  BY <1>3 DEF Out
<1> QED BY <1>1, <1>3, <1>5, <1>6

LEMMA SecondOfLong ==
  ASSUME NEW S, NEW s \in Seq(S), Len(s) > 1
  PROVE  Tail(s) # <<>> /\ Tail(s)[1] = s[2]
<1>1. s # <<>>
  BY EmptySeq
<1>2. /\ Len(s) \in Nat /\ Tail(s) \in Seq(S) /\ Len(Tail(s)) = Len(s) - 1
      /\ \A i \in 1 .. Len(s) - 1 : Tail(s)[i] = s[i + 1]
  BY <1>1, HeadTail
<1>3. 1 \in 1 .. Len(s) - 1 /\ Len(Tail(s)) # 0 /\ 1 + 1 = 2
  BY <1>2
<1>4. Tail(s) # <<>>
  BY <1>2, <1>3, EmptySeq
<1> QED BY <1>2, <1>3, <1>4

\* A batch under way.
LEMMA BatchTodo ==
  ASSUME NEW t, TodoType(t), t # <<>>, t[1].k = "Send"
  PROVE  LET b == t[1] IN
         /\ b \in BatchType
         /\ b.follow \o Tail(t) \in Seq(LaterType)
         /\ Plan(t) = <<b>> \o (b.follow \o Tail(t)) /\ Plan(t) \in Seq(ActionType)
         /\ Out(t) = b.out /\ Front(t) = b.frames /\ Behind(t) = b.follow \o Tail(t)
         /\ Queued(b.follow \o Tail(t)) = Queued(b.follow) \cup Queued(Tail(t))
         /\ Queued(Plan(t)) = Members(b.frames) \cup (Queued(b.follow) \cup Queued(Tail(t)))
         /\ Apart(Plan(t)) <=>
              /\ InOrder(b) /\ Apart(b.follow \o Tail(t))
              /\ Ids(Members(b.frames)) \cap Ids(Queued(b.follow \o Tail(t))) = {}
<1> DEFINE b == t[1]
           later == b.follow \o Tail(t)
<1>1. /\ b \in ActionType /\ Tail(t) \in Seq(LaterType) /\ t = <<b>> \o Tail(t)
  BY TodoCases
<1>2. b \in BatchType /\ b.k = "Send" /\ b.follow \in Seq(LaterType)
  BY <1>1, ActionKinds, BatchFields, LaterIsAction
<1>3. later \in Seq(LaterType) /\ Queued(later) = Queued(b.follow) \cup Queued(Tail(t))
  <2> HIDE DEF b
  <2>1. b.follow \o Tail(t) \in Seq(LaterType)
    BY <1>1, <1>2, ConcatProperties
  <2>2. b.follow \in Seq(LaterType) /\ Tail(t) \in Seq(LaterType)
    BY <1>1, <1>2
  <2>3. \A u, v \in Seq(LaterType) : Queued(u \o v) = Queued(u) \cup Queued(v)
    BY QueuedOfConcat
  <2> QED BY <2>1, <2>2, <2>3
<1>4. later \in Seq(ActionType) /\ <<b>> \in Seq(ActionType)
  BY <1>1, <1>3, LaterIsAction
<1>5. /\ Plan(t) = <<b>> \o later /\ Out(t) = b.out /\ Front(t) = b.frames /\ Behind(t) = later
  BY DEF Plan, Out, Front, Behind
<1> HIDE DEF b, later
<1>6. Plan(t) \in Seq(ActionType)
  BY <1>4, <1>5, ConcatProperties
<1>7. Queued(Plan(t)) = FramesIn(b) \cup Queued(later)
  <2>1. Queued(<<b>> \o later) = Queued(<<b>>) \cup Queued(later)
    BY <1>4, QueuedOfConcat, ZenonT(30)
  <2> QED BY <1>5, <2>1, QueuedOfOne
<1>8. FramesIn(b) = Members(b.frames)
  BY <1>2 DEF FramesIn
<1>9. Apart(Plan(t)) <=> InOrder(b) /\ Apart(later) /\ Ids(Members(b.frames)) \cap Ids(Queued(later)) = {}
  <2>1. Apart(<<b>> \o later)
          <=> Apart(<<b>>) /\ Apart(later) /\ Ids(Queued(<<b>>)) \cap Ids(Queued(later)) = {}
    BY <1>4, ApartOfConcat
  <2>2. (Apart(<<b>>) <=> InOrder(b)) /\ Queued(<<b>>) = FramesIn(b)
    BY ApartOfOne, QueuedOfOne
  <2> QED BY <1>5, <1>8, <2>1, <2>2
<1> QED BY <1>2, <1>3, <1>5, <1>6, <1>7, <1>8, <1>9 DEF b, later

\* An operation that is not sending.
LEMMA OtherTodo ==
  ASSUME NEW t, TodoType(t), t = <<>> \/ t[1].k # "Send"
  PROVE  /\ Plan(t) = t /\ Out(t) = <<>> /\ t \in Seq(ActionType)
         /\ t # <<>> => /\ Queued(t) = FramesIn(t[1]) \cup Queued(Tail(t)) /\ FramesIn(t[1]) = {}
                        /\ Queued(t) = Queued(Tail(t))
                        /\ Apart(t) <=> Apart(Tail(t))
<1>1. t \in Seq(ActionType)
  BY DEF TodoType
<1>2. Plan(t) = t /\ Out(t) = <<>>
  BY DEF Plan, Out
<1>3. t # <<>> => Queued(t) = FramesIn(t[1]) \cup Queued(Tail(t)) /\ FramesIn(t[1]) = {}
  BY <1>1, QueuedOfHead DEF FramesIn
<1>4. t # <<>> => (Apart(t) <=> Apart(Tail(t)))
  BY <1>1, <1>3, ApartOfHead DEF InOrder, Ids
<1> QED BY <1>1, <1>2, <1>3, <1>4

\* The actions that wait for an operation that overtakes nothing.
LEMMA EphemeralTodo ==
  ASSUME NEW t \in Seq(LaterType), Ephemeral(t)
  PROVE  /\ Ephemeral(Behind(t)) /\ Front(t) \in Seq(FrameType)
         /\ \A f \in Members(Front(t)) : f.event.seq = 0 /\ f \in Queued(t)
<1>1. Members(<<>>) = {} /\ <<>> \in Seq(FrameType) /\ Ephemeral(<<>>)
  <2>1. Ephemeral(<<>>)
    BY EphemeralOfOne
  <2> QED BY <2>1 DEF Members
<1>2. ASSUME NEW s \in Seq(LaterType), s # <<>>, Ephemeral(s)
      PROVE /\ s[1] \in LaterType /\ Tail(s) \in Seq(LaterType) /\ Ephemeral(Tail(s))
            /\ s[1].k = "Send" =>
                 /\ s[1].frames \in Seq(FrameType)
                 /\ \A f \in Members(s[1].frames) : f.event.seq = 0 /\ f \in Queued(s)
  <2>1. s[1] \in LaterType /\ Tail(s) \in Seq(LaterType)
    BY <1>2, HeadTail
  <2>2. Ephemeral(Tail(s)) /\ EphemeralAction(s[1])
    BY <1>2, EphemeralOfHead
  <2>3. Queued(s) = FramesIn(s[1]) \cup Queued(Tail(s))
    BY <1>2, QueuedOfHead
  <2>4. s[1].k = "Send" => s[1].frames \in Seq(FrameType)
    BY <2>1, LaterKinds
  <2> QED BY <2>1, <2>2, <2>3, <2>4 DEF EphemeralAction, Members, FramesIn
<1>3. CASE t = <<>>
  BY <1>1, <1>3 DEF Front, Behind
<1>4. CASE t # <<>> /\ t[1].k = "Send"
  <2>1. /\ t[1].frames \in Seq(FrameType) /\ Tail(t) \in Seq(LaterType) /\ Ephemeral(Tail(t))
        /\ \A f \in Members(t[1].frames) : f.event.seq = 0 /\ f \in Queued(t)
    BY <1>2, <1>4
  <2>2. t[1].follow = <<>>
    BY <1>2, <1>4, LaterKinds
  <2>3. Behind(t) = Tail(t)
    BY <1>4, <2>1, <2>2, ConcatEmptySeq DEF Behind
  <2> QED BY <1>4, <2>1, <2>3 DEF Front
<1>5. CASE t # <<>> /\ t[1].k = "Persist" /\ Len(t) > 1
  <2>1. Tail(t) \in Seq(LaterType) /\ Ephemeral(Tail(t)) /\ Tail(t) # <<>> /\ Tail(t)[1] = t[2]
    <3>1. /\ Len(t) \in Nat /\ Tail(t) \in Seq(LaterType) /\ Len(Tail(t)) = Len(t) - 1
          /\ \A i \in 1 .. Len(t) - 1 : Tail(t)[i] = t[i + 1]
      BY <1>5, HeadTail
    <3>2. Tail(t) # <<>> /\ Tail(t)[1] = t[2]
      BY <1>5, SecondOfLong
    <3> QED BY <1>2, <1>5, <3>1, <3>2
  <2>2. Ephemeral(Tail(Tail(t)))
    BY <1>2, <2>1
  <2>3. t[2].k = "Send" => /\ t[2].frames \in Seq(FrameType)
                           /\ \A f \in Members(t[2].frames) : f.event.seq = 0 /\ f \in Queued(Tail(t))
    BY <1>2, <2>1
  <2>4. Queued(Tail(t)) \subseteq Queued(t)
    BY <1>5, QueuedOfHead
  <2>5. Behind(t) = Tail(Tail(t)) /\ Front(t) = (IF t[2].k = "Send" THEN t[2].frames ELSE <<>>)
    BY <1>5 DEF Behind, Front
  <2> QED BY <1>1, <2>2, <2>3, <2>4, <2>5
<1>6. CASE t # <<>> /\ t[1].k # "Send" /\ ~(t[1].k = "Persist" /\ Len(t) > 1)
  <2>1. Behind(t) = t /\ Front(t) = <<>>
    BY <1>6 DEF Behind, Front
  <2> QED BY <1>1, <2>1
<1> QED BY <1>3, <1>4, <1>5, <1>6

LEMMA FrontTyped ==
  ASSUME NEW t, TodoType(t)
  PROVE  /\ Front(t) \in Seq(FrameType) /\ Out(t) \in Seq(FrameType)
         /\ Members(Front(t)) \subseteq Queued(Plan(t))
<1>1. CASE t = <<>>
  <2>1. Front(t) = <<>> /\ Out(t) = <<>>
    BY <1>1 DEF Front, Out
  <2> QED BY <2>1 DEF Members
<1>2. CASE t # <<>> /\ t[1].k = "Send"
  <2>1. /\ t[1] \in BatchType /\ Out(t) = t[1].out /\ Front(t) = t[1].frames
        /\ Members(t[1].frames) \subseteq Queued(Plan(t))
    BY <1>2, BatchTodo
  <2> QED BY <2>1, BatchFields
<1>3. CASE t # <<>> /\ t[1].k # "Send"
  <2>1. /\ Plan(t) = t /\ Out(t) = <<>> /\ Queued(t) = Queued(Tail(t)) /\ t \in Seq(ActionType)
    BY <1>3, OtherTodo
  <2>2. CASE t[1].k = "Persist" /\ Len(t) > 1 /\ t[2].k = "Send"
    <3>1. Tail(t) \in Seq(LaterType)
      BY <1>3, TodoCases
    <3>3. Tail(t) # <<>> /\ Tail(t)[1] = t[2]
      BY <2>1, <2>2, SecondOfLong
    <3>4. t[2] \in LaterType /\ Queued(Tail(t)) = FramesIn(t[2]) \cup Queued(Tail(Tail(t)))
      BY <3>1, <3>3, HeadTail, QueuedOfHead
    <3>5. t[2].frames \in Seq(FrameType) /\ FramesIn(t[2]) = Members(t[2].frames)
      BY <2>2, <3>4, LaterKinds DEF FramesIn
    <3>6. Front(t) = t[2].frames
      BY <1>3, <2>2 DEF Front
    <3> QED BY <2>1, <3>4, <3>5, <3>6
  <2>3. CASE ~(t[1].k = "Persist" /\ Len(t) > 1 /\ t[2].k = "Send")
    <3>1. Front(t) = <<>>
      BY <1>3, <2>3 DEF Front
    <3> QED BY <2>1, <3>1 DEF Members
  <2> QED BY <2>2, <2>3
<1> QED BY <1>1, <1>2, <1>3

-----------------------------------------------------------------------------
(* What the handlers send. *)

LEMMA ConsecutiveEvents ==
  ASSUME NEW e \in Seq(EventType), e # <<>>, Consecutive(e)
  PROVE  /\ Len(e) \in Nat \ {0} /\ DOMAIN e = 1 .. Len(e) /\ e[1].seq \in Nat \ {0}
         /\ \A i \in 1 .. Len(e) : e[i] \in EventType /\ e[i].seq = e[1].seq + i - 1
<1>1. Len(e) \in Nat \ {0} /\ DOMAIN e = 1 .. Len(e)
  BY HeadTail
<1>2. \A i \in 1 .. Len(e) : e[i] \in EventType
  BY ElementOfSeq
<1>3. \A i \in 1 .. Len(e) : e[i].seq = e[1].seq + i - 1 /\ e[i].seq # 0
  BY <1>1 DEF Consecutive
<1>4. 1 \in 1 .. Len(e)
  BY <1>1
<1>5. e[1].seq \in Nat \ {0}
  BY <1>2, <1>3, <1>4 DEF EventType
<1> QED BY <1>1, <1>2, <1>3, <1>5

\* Arithmetic: the i-th event behind those already sent.
LEMMA BehindTheSent ==
  ASSUME NEW first \in Nat, NEW sent \in Nat, NEW k, NEW i \in Nat, NEW s,
         k = sent + 1 - first, s = first + (k + i) - 1
  PROVE  s = sent + i
OBVIOUS

LEMMA UnsentEvents ==
  ASSUME NEW d \in DeliveryType, NEW e \in Seq(EventType), e # <<>>, Consecutive(e),
         e[1].seq <= d.sent + 1
  PROVE  LET u == Unsent(d, e) IN
         /\ u \in Seq(EventType) /\ Len(u) \in Nat
         /\ \A i \in 1 .. Len(u) : u[i].seq = d.sent + i /\ u[i] \in Members(e)
<1> DEFINE sent == {i \in DOMAIN e : e[i].seq <= d.sent}
           k == IF d.sent + 1 - e[1].seq > Len(e) THEN Len(e) ELSE d.sent + 1 - e[1].seq
           u == SubSeq(e, 1 + k, Len(e))
<1>1. /\ Len(e) \in Nat \ {0} /\ DOMAIN e = 1 .. Len(e) /\ e[1].seq \in Nat \ {0} /\ d.sent \in Nat
      /\ \A i \in 1 .. Len(e) : e[i] \in EventType /\ e[i].seq = e[1].seq + i - 1
  BY ConsecutiveEvents DEF DeliveryType
<1>2. k \in Nat /\ k <= Len(e)
  BY <1>1
<1>3. sent = 1 .. k
  BY <1>1, SMTT(30)
<1>4. Cardinality(sent) = k
  BY <1>2, <1>3, IntervalCounts
<1>5. Unsent(d, e) = u
  BY <1>4 DEF Unsent
<1> HIDE DEF sent
<1>6. 1 + k \in Int /\ Len(e) \in Int /\ \A i \in (1 + k) .. Len(e) : e[i] \in EventType
  BY <1>1, <1>2
<1> HIDE DEF k
<1>7. /\ u \in Seq(EventType)
      /\ Len(u) = IF 1 + k <= Len(e) THEN Len(e) - (1 + k) + 1 ELSE 0
      /\ \A i \in 1 .. Len(e) - (1 + k) + 1 : u[i] = e[1 + k + i - 1]
  BY <1>6, SubSeqProperties
<1>8. Len(u) = Len(e) - k /\ Len(u) \in Nat
  <2>1. Len(e) \in Nat /\ k \in Nat /\ k <= Len(e)
    BY <1>1, <1>2
  <2>2. Len(u) = IF 1 + k <= Len(e) THEN Len(e) - (1 + k) + 1 ELSE 0
    BY <1>7
  <2> HIDE DEF u
  <2> QED BY <2>1, <2>2
<1> HIDE DEF u
<1>9. ASSUME NEW i \in 1 .. Len(u) PROVE u[i].seq = d.sent + i /\ u[i] \in Members(e)
  <2>1. /\ i \in 1 .. Len(e) - (1 + k) + 1 /\ 1 + k + i - 1 = k + i /\ k + i \in 1 .. Len(e)
        /\ k < Len(e)
    BY <1>1, <1>2, <1>8
  <2>2. u[i] = e[k + i] /\ e[k + i].seq = e[1].seq + (k + i) - 1
    BY <1>1, <1>7, <2>1
  <2>3. k = d.sent + 1 - e[1].seq
    BY <1>1, <2>1 DEF k
  <2>4. u[i].seq = d.sent + i
    <3>1. e[1].seq \in Nat /\ d.sent \in Nat /\ k \in Nat /\ i \in Nat
      BY <1>1, <1>2
    <3> DEFINE first == e[1].seq
               last == d.sent
               here == u[i].seq
    <3>2. here = first + (k + i) - 1
      BY <2>2
    <3>3. first \in Nat /\ last \in Nat /\ k \in Nat /\ i \in Nat /\ k = last + 1 - first
      BY <2>3, <3>1
    <3>4. here = last + i
      <4> HIDE DEF first, last, here
      <4> QED BY ONLY <3>2, <3>3, BehindTheSent
    <3> QED BY ONLY <3>4
  <2> QED BY <1>1, <2>1, <2>2, <2>4 DEF Members
<1> QED BY <1>5, <1>7, <1>8, <1>9

\* From d the events e are sent and the state is x, but for what is buffered.
Emits(d, x, e) ==
  /\ x \in DeliveryType /\ e \in Seq(EventType) /\ Rising(e) /\ Len(e) <= Capacity(d)
  /\ x = [SendEvents(d, e) EXCEPT !.pending = x.pending]

LEMMA Emitted ==
  ASSUME NEW d \in DeliveryType, Counted(d), NEW x, NEW e, Emits(d, x, e)
  PROVE  LET fs == Frames(d, e) IN
         /\ Counted(x) /\ Capacity(x) = Capacity(d) - Len(e)
         /\ x \in DeliveryType /\ e \in Seq(EventType) /\ Rising(e)
         /\ x.ackSeq = d.ackSeq /\ x.ackFrame = d.ackFrame /\ x.suppressed = d.suppressed
         /\ x.next = d.next + Len(e)
         /\ x.inFlight = d.inFlight \cup {Receipt(fs[i]) : i \in 1 .. Len(e)}
         /\ x.sent = (IF e = <<>> THEN d.sent ELSE fs[Len(e)].thru)
         /\ d.sent <= x.sent
         /\ \A i \in 1 .. Len(e) : fs[i].thru <= x.sent /\ d.sent <= fs[i].thru
         /\ (e = <<>> => Checkpoint(x) = Checkpoint(d))
<1> DEFINE fs == Frames(d, e)
           y == SendEvents(d, e)
<1>1. e \in Seq(EventType) /\ Rising(e) /\ Len(e) <= Capacity(d) /\ x \in DeliveryType
      /\ x = [y EXCEPT !.pending = x.pending]
  BY DEF Emits
<1>2. /\ y \in DeliveryType
      /\ y.ackSeq = d.ackSeq /\ y.ackFrame = d.ackFrame /\ y.suppressed = d.suppressed
      /\ y.pending = d.pending /\ y.next = d.next + Len(e)
      /\ y.inFlight = d.inFlight \cup {Receipt(fs[i]) : i \in 1 .. Len(e)}
      /\ y.sent = (IF e = <<>> THEN d.sent ELSE fs[Len(e)].thru)
      /\ d.sent <= y.sent
      /\ \A i \in 1 .. Len(e) : fs[i].thru <= y.sent /\ d.sent <= fs[i].thru
      /\ (e = <<>> => y = d)
  BY <1>1, SentDelivery
<1>3. Counted(y) /\ Capacity(y) = Capacity(d) - Len(e)
  BY <1>1, SendCounts
<1> HIDE DEF y, fs
<1>4. /\ x.ackSeq = y.ackSeq /\ x.ackFrame = y.ackFrame /\ x.suppressed = y.suppressed
      /\ x.next = y.next /\ x.inFlight = y.inFlight /\ x.sent = y.sent
  BY <1>1, <1>2 DEF DeliveryType
<1>5. Counted(x) /\ Capacity(x) = Capacity(y)
  BY <1>3, <1>4 DEF Counted, Capacity
<1>6. e = <<>> => Checkpoint(x) = Checkpoint(d)
  BY <1>1, <1>2 DEF Checkpoint, DeliveryType
<1> QED BY <1>1, <1>2, <1>3, <1>4, <1>5, <1>6 DEF fs

\* The actions of a result.
ActsOf(fs, n, changed, more) ==
  (IF changed \/ fs # <<>> THEN <<Persist>> ELSE <<>>)
  \o (IF fs # <<>> THEN <<Send(fs)>> ELSE <<>>)
  \o (IF more THEN <<Read(n)>> ELSE <<>>)

\* The result r sends the events e from d, and asks for a page if more.
Sends(d, r, e, changed, more) ==
  /\ Emits(d, r.d, e) /\ Buffered(r.d)
  /\ changed \in BOOLEAN /\ more \in BOOLEAN
  /\ r.acts \in {<<Close("lagged")>>, ActsOf(Frames(d, e), r.d.sent, changed, more)}

\* The result r sends, of the durable events e, those that fit; the log goes to head.
SendsDurable(d, e, head, r, fit, more) ==
  /\ Sends(d, r, fit, FALSE, more)
  /\ \A i \in 1 .. Len(fit) : fit[i].seq = d.sent + i /\ fit[i] \in Members(e)
  /\ more \/ r.acts = <<Close("lagged")>> \/ Capacity(r.d) = 0 \/ head <= r.d.sent
  /\ fit # <<>> \/ Len(Unsent(d, e)) = 0 \/ Capacity(r.d) = 0 \/ r.acts = <<Close("lagged")>>
  /\ fit = <<>> \/ r.acts = ActsOf(Frames(d, fit), r.d.sent, FALSE, more)

LEMMA DurableSends ==
  ASSUME NEW d \in DeliveryType, Counted(d), Buffered(d),
         NEW e \in Seq(EventType), e # <<>>, Consecutive(e), e[1].seq <= d.sent + 1,
         NEW head \in Nat, NEW overdue \in Nat
  PROVE  \E fit \in Seq(EventType), more \in BOOLEAN :
           SendsDurable(d, e, head, OnDurableEvents(d, e, head, overdue), fit, more)
<1> DEFINE r == OnDurableEvents(d, e, head, overdue)
           u == Unsent(d, e)
           n == Smaller(Len(u), Capacity(d))
           fit == SubSeq(u, 1, n)
           x == SendEvents(d, fit)
           more == Capacity(x) > 0 /\ x.sent < head
<1>1. /\ u \in Seq(EventType) /\ Len(u) \in Nat
      /\ \A i \in 1 .. Len(u) : u[i].seq = d.sent + i /\ u[i] \in Members(e)
  BY UnsentEvents
<1>2. Capacity(d) \in Nat /\ d.sent \in Nat
  BY CapacityIsNat DEF DeliveryType
<1> HIDE DEF u
<1>3. n \in Nat /\ n <= Len(u) /\ n <= Capacity(d) /\ (n = Len(u) \/ n = Capacity(d))
  BY <1>1, <1>2 DEF Smaller
<1> HIDE DEF n
<1>4. \A i \in 1 .. n : u[i] \in EventType
  BY <1>1, <1>3, ElementOfSeq
<1>5. /\ fit \in Seq(EventType) /\ Len(fit) = n
      /\ \A i \in 1 .. n : fit[i] = u[i]
  <2>1. 1 \in Int /\ n \in Int
    BY <1>3
  <2>2. /\ fit \in Seq(EventType) /\ Len(fit) = IF 1 <= n THEN n - 1 + 1 ELSE 0
        /\ \A i \in 1 .. n - 1 + 1 : fit[i] = u[1 + i - 1]
    BY <1>4, <2>1, SubSeqProperties
  <2> QED BY <1>3, <2>2
<1> HIDE DEF fit
<1>6. \A i \in 1 .. Len(fit) : fit[i].seq = d.sent + i /\ fit[i] \in Members(e)
  BY <1>1, <1>3, <1>5, SMTT(30)
<1>7. Rising(fit)
  <2>1. DOMAIN fit = 1 .. Len(fit)
    BY <1>5, LenProperties
  <2> QED BY <1>2, <1>6, <2>1 DEF Rising
<1>8. x \in DeliveryType /\ x.pending = d.pending /\ Capacity(x) = Capacity(d) - n
  BY <1>3, <1>5, <1>7, SentDelivery, SendCounts
<1>9. /\ Emits(d, x, fit) /\ Buffered(x)
      /\ Emits(d, d, <<>>)
  <2>1. x = [x EXCEPT !.pending = x.pending]
    BY <1>8 DEF DeliveryType
  <2>2. Buffered(x)
    BY <1>2, <1>3, <1>8 DEF Buffered
  <2>3. <<>> \in Seq(EventType) /\ Rising(<<>>) /\ Len(<<>>) = 0
    BY DEF Rising
  <2>4. SendEvents(d, <<>>) = d
    BY <2>3, SentDelivery
  <2>5. d = [d EXCEPT !.pending = d.pending]
    BY DEF DeliveryType
  <2>6. Emits(d, x, fit)
    BY <1>3, <1>5, <1>7, <1>8, <2>1 DEF Emits
  <2>7. Emits(d, d, <<>>)
    BY <1>2, <2>3, <2>4, <2>5 DEF Emits
  <2> QED BY <2>2, <2>6, <2>7
<1> DEFINE Claim == \E ev \in Seq(EventType), m \in BOOLEAN : SendsDurable(d, e, head, r, ev, m)
<1>10. ASSUME Stale(d, overdue) PROVE Claim
  <2>1. r = [d |-> d, acts |-> <<Close("lagged")>>]
    BY <1>10 DEF OnDurableEvents, LaggedResult
  <2>2. Sends(d, r, <<>>, FALSE, FALSE)
    BY <1>9, <2>1 DEF Sends
  <2>3. <<>> \in Seq(EventType) /\ Len(<<>>) = 0 /\ r.acts = <<Close("lagged")>> /\ FALSE \in BOOLEAN
    BY <2>1
  <2> HIDE DEF r
  <2>4. \A i \in 1 .. Len(<<>>) : <<>>[i].seq = d.sent + i /\ <<>>[i] \in Members(e)
    BY <2>3
  <2> QED BY <2>2, <2>3, <2>4 DEF SendsDurable
<1>11. ASSUME ~Stale(d, overdue) PROVE Claim
  <2>1. r = SentResult(x, Frames(d, fit), FALSE, more)
    BY <1>11 DEF OnDurableEvents, u, n, fit
  <2>2. r.d = x /\ r.acts = ActsOf(Frames(d, fit), x.sent, FALSE, more)
    BY <2>1 DEF SentResult, ActsOf
  <2>3. more \in BOOLEAN
    OBVIOUS
  <2>4. Sends(d, r, fit, FALSE, more)
    BY <1>9, <2>2, <2>3 DEF Sends
  <2>5. more \/ Capacity(x) = 0 \/ head <= x.sent
    <3>1. Capacity(x) \in Nat /\ x.sent \in Nat
      BY <1>2, <1>3, <1>8, SMTT(30) DEF DeliveryType
    <3> QED BY <3>1
  <2>6. fit # <<>> \/ Len(u) = 0 \/ Capacity(x) = 0
    <3>1. fit = <<>> => n = 0
      BY <1>5
    <3> QED BY <1>2, <1>3, <1>8, <3>1
  <2>7. /\ more \/ r.acts = <<Close("lagged")>> \/ Capacity(r.d) = 0 \/ head <= r.d.sent
        /\ fit # <<>> \/ Len(Unsent(d, e)) = 0 \/ Capacity(r.d) = 0 \/ r.acts = <<Close("lagged")>>
        /\ fit = <<>> \/ r.acts = ActsOf(Frames(d, fit), r.d.sent, FALSE, more)
    BY <2>2, <2>5, <2>6 DEF u
  <2>8. fit \in Seq(EventType)
    BY <1>5
  <2> HIDE DEF more, x, r
  <2>9. SendsDurable(d, e, head, r, fit, more)
    BY <1>6, <2>4, <2>7 DEF SendsDurable
  <2> QED BY <2>3, <2>8, <2>9
<1>12. Claim
  BY <1>10, <1>11
<1> QED BY <1>12

\* Ephemeral events rise, and take no cursor forward.
LEMMA EphemeralEvents ==
  ASSUME NEW d \in DeliveryType, Counted(d), NEW e \in Seq(EventType),
         \A i \in DOMAIN e : e[i].seq = 0
  PROVE  /\ Rising(e)
         /\ \A i \in 1 .. Len(e) : Frames(d, e)[i].thru = d.sent
         /\ \A x : Emits(d, x, e) => x.sent = d.sent
<1>1. Rising(e)
  BY DEF Rising
<1>2. d.sent \in Nat
  BY DEF DeliveryType
<1>3. DOMAIN e = 1 .. Len(e) /\ Len(e) \in Nat
  BY LenProperties
<1>4. \A i \in 1 .. Len(e) : Frames(d, e)[i].thru = Larger(d.sent, e[i].seq)
  BY <1>1, FramesOfEvents
<1>5. \A i \in 1 .. Len(e) : Frames(d, e)[i].thru = d.sent
  BY <1>2, <1>3, <1>4 DEF Larger
<1>6. ASSUME NEW x, Emits(d, x, e) PROVE x.sent = d.sent
  <2>1. x.sent = (IF e = <<>> THEN d.sent ELSE Frames(d, e)[Len(e)].thru)
    BY <1>6, Emitted
  <2>2. e # <<>> => Len(e) \in 1 .. Len(e)
    BY <1>3, EmptySeq
  <2> QED BY <1>5, <2>1, <2>2
<1> QED BY <1>1, <1>5, <1>6

LEMMA EmitsNothing ==
  ASSUME NEW d \in DeliveryType, Counted(d), NEW p \in Seq(EventType)
  PROVE  Emits(d, [d EXCEPT !.pending = p], <<>>) /\ Emits(d, d, <<>>)
<1>1. <<>> \in Seq(EventType) /\ Rising(<<>>) /\ Len(<<>>) = 0
  BY DEF Rising
<1>2. SendEvents(d, <<>>) = d
  BY <1>1, SentDelivery
<1>3. Capacity(d) \in Nat
  BY CapacityIsNat
<1>4. /\ [d EXCEPT !.pending = p] \in DeliveryType /\ [d EXCEPT !.pending = p].pending = p
      /\ d = [d EXCEPT !.pending = d.pending]
  BY DEF DeliveryType
<1> QED BY <1>1, <1>2, <1>3, <1>4 DEF Emits

LEMMA EphemeralSends ==
  ASSUME NEW d \in DeliveryType, Counted(d), Buffered(d),
         NEW event \in EventType, event.seq = 0, NEW overdue \in Nat
  PROVE  LET r == OnEphemeralEvent(d, event, overdue) IN
         \E e \in Seq(EventType) :
           /\ Sends(d, r, e, FALSE, FALSE)
           /\ \A i \in DOMAIN e : e[i].seq = 0 /\ e[i] = event
<1> DEFINE r == OnEphemeralEvent(d, event, overdue)
           Claim == \E e \in Seq(EventType) :
             /\ Sends(d, r, e, FALSE, FALSE)
             /\ \A i \in DOMAIN e : e[i].seq = 0 /\ e[i] = event
<1>0. Capacity(d) \in Nat /\ d.pending \in Seq(EventType)
  BY CapacityIsNat DEF DeliveryType
<1>1. Emits(d, d, <<>>) /\ <<>> \in Seq(EventType) /\ FALSE \in BOOLEAN /\ DOMAIN <<>> = {}
  <2>1. Emits(d, d, <<>>)
    BY <1>0, EmitsNothing
  <2> QED BY <2>1
<1>2. ASSUME r = LaggedResult(d) PROVE Claim
  <2>1. r.d = d /\ r.acts = <<Close("lagged")>>
    BY <1>2 DEF LaggedResult
  <2> HIDE DEF r
  <2>2. Sends(d, r, <<>>, FALSE, FALSE)
    BY <1>1, <2>1 DEF Sends
  <2> QED BY <1>1, <2>2
<1>3. ASSUME Stale(d, overdue) PROVE Claim
  <2>1. r = LaggedResult(d)
    BY <1>3 DEF OnEphemeralEvent
  <2> QED BY <1>2, <2>1
<1>4. ASSUME ~Stale(d, overdue) /\ Capacity(d) > 0 /\ d.pending = <<>> PROVE Claim
  <2> DEFINE e == <<event>>
             x == SendEvents(d, e)
  <2>1. e \in Seq(EventType) /\ Len(e) = 1 /\ DOMAIN e = {1} /\ e[1] = event
    OBVIOUS
  <2>2. r = SentResult(x, Frames(d, e), FALSE, FALSE)
    BY <1>4 DEF OnEphemeralEvent
  <2>3. r.d = x /\ r.acts = ActsOf(Frames(d, e), x.sent, FALSE, FALSE)
    BY <2>2 DEF SentResult, ActsOf
  <2> HIDE DEF e
  <2>4. \A i \in DOMAIN e : e[i].seq = 0 /\ e[i] = event
    BY <2>1
  <2>5. Rising(e)
    BY <2>1, <2>4, EphemeralEvents
  <2>6. x \in DeliveryType /\ x.pending = d.pending
    BY <2>1, <2>5, SentDelivery
  <2>7. Len(e) <= Capacity(d)
    BY <1>0, <1>4, <2>1
  <2>8. x = [x EXCEPT !.pending = x.pending]
    BY <2>6 DEF DeliveryType
  <2>9. Emits(d, x, e)
    BY <2>1, <2>5, <2>6, <2>7, <2>8 DEF Emits
  <2>10. Buffered(x)
    BY <1>4, <2>6 DEF Buffered
  <2> HIDE DEF r, x
  <2>11. Sends(d, r, e, FALSE, FALSE)
    BY <1>1, <2>3, <2>9, <2>10 DEF Sends
  <2> QED BY <2>1, <2>4, <2>11
<1>5. ASSUME ~Stale(d, overdue) /\ ~(Capacity(d) > 0 /\ d.pending = <<>>)
           /\ Len(d.pending) + 1 > BufferCapacity PROVE Claim
  <2>1. r = LaggedResult(d)
    BY <1>5 DEF OnEphemeralEvent
  <2> QED BY <1>2, <2>1
<1>6. ASSUME ~Stale(d, overdue) /\ ~(Capacity(d) > 0 /\ d.pending = <<>>)
           /\ ~(Len(d.pending) + 1 > BufferCapacity) PROVE Claim
  <2> DEFINE p == Append(d.pending, event)
             x == [d EXCEPT !.pending = p]
  <2>1. r = [d |-> x, acts |-> <<>>]
    BY <1>6 DEF OnEphemeralEvent
  <2>2. /\ p \in Seq(EventType) /\ Members(p) = Members(d.pending) \cup {event}
    BY <1>0, MembersOfAppend
  <2> HIDE DEF p
  <2>3. Emits(d, x, <<>>) /\ x.pending = p
    BY <2>2, EmitsNothing DEF DeliveryType
  <2>4. Capacity(x) = 0
    <3>1. Capacity(d) = 0
      BY <1>0, <1>6 DEF Buffered
    <3>2. x.inFlight = d.inFlight
      BY DEF DeliveryType
    <3> QED BY <3>1, <3>2 DEF Capacity
  <2>5. \A i \in DOMAIN p : p[i].seq = 0
    <3>1. \A m \in Members(d.pending) : m.seq = 0
      BY DEF Buffered, Members
    <3>2. \A m \in Members(p) : m.seq = 0
      BY <2>2, <3>1
    <3> QED BY <3>2 DEF Members
  <2> HIDE DEF x
  <2>6. Buffered(x)
    BY <2>3, <2>4, <2>5 DEF Buffered
  <2>7. Frames(d, <<>>) = <<>>
    <3>1. Rising(<<>>)
      BY DEF Rising
    <3> QED BY <1>1, <3>1, FramesOfEvents
  <2>8. r.d = x /\ r.acts = <<>>
    BY <2>1
  <2> HIDE DEF r
  <2>9. ActsOf(Frames(d, <<>>), r.d.sent, FALSE, FALSE) = <<>>
    BY <2>7 DEF ActsOf
  <2>10. Sends(d, r, <<>>, FALSE, FALSE)
    BY <1>1, <2>3, <2>6, <2>8, <2>9 DEF Sends
  <2> QED BY <1>1, <2>10
<1>7. Claim
  BY <1>3, <1>4, <1>5, <1>6
<1> QED BY <1>7

LEMMA ReopenSends ==
  ASSUME NEW d \in DeliveryType, Counted(d), \A i \in DOMAIN d.pending : d.pending[i].seq = 0,
         NEW overdue \in Nat
  PROVE  LET r == ReopenDeliveryWindow(d, overdue) IN
         \E e \in Seq(EventType), more \in BOOLEAN :
           /\ Sends(d, r, e, TRUE, more)
           /\ \A i \in DOMAIN e : e[i].seq = 0
           /\ more \/ r.acts = <<Close("lagged")>> \/ Capacity(r.d) = 0
<1> DEFINE r == ReopenDeliveryWindow(d, overdue)
           n == Smaller(Len(d.pending), Capacity(d))
           e == SubSeq(d.pending, 1, n)
           rest == SubSeq(d.pending, n + 1, Len(d.pending))
           d0 == [d EXCEPT !.pending = rest]
           x == SendEvents(d0, e)
           more == Capacity(x) > 0 /\ x.pending = <<>>
           Claim == \E ev \in Seq(EventType), m \in BOOLEAN :
             /\ Sends(d, r, ev, TRUE, m)
             /\ \A i \in DOMAIN ev : ev[i].seq = 0
             /\ m \/ r.acts = <<Close("lagged")>> \/ Capacity(r.d) = 0
<1>1. Capacity(d) \in Nat /\ d.pending \in Seq(EventType) /\ Len(d.pending) \in Nat
      /\ DOMAIN d.pending = 1 .. Len(d.pending)
      /\ \A i \in 1 .. Len(d.pending) : d.pending[i] \in EventType
  BY CapacityIsNat, LenProperties, ElementOfSeq DEF DeliveryType
<1>2. n \in Nat /\ n <= Len(d.pending) /\ n <= Capacity(d)
      /\ (n = Len(d.pending) \/ n = Capacity(d))
  BY <1>1 DEF Smaller
<1> HIDE DEF n
<1>3. /\ e \in Seq(EventType) /\ Len(e) = n /\ DOMAIN e = 1 .. n
      /\ \A i \in 1 .. n : e[i].seq = 0
  <2>1. 1 \in Int /\ n \in Int /\ \A i \in 1 .. n : d.pending[i] \in EventType
    BY <1>1, <1>2
  <2>2. /\ e \in Seq(EventType) /\ Len(e) = IF 1 <= n THEN n - 1 + 1 ELSE 0
        /\ \A i \in 1 .. n - 1 + 1 : e[i] = d.pending[1 + i - 1]
    BY <2>1, SubSeqProperties
  <2> HIDE DEF e
  <2>3. Len(e) = n /\ \A i \in 1 .. n : e[i] = d.pending[i]
    BY <1>2, <2>2
  <2>4. DOMAIN e = 1 .. Len(e)
    BY <2>2, LenProperties
  <2>5. \A i \in 1 .. n : e[i].seq = 0
    BY <1>1, <1>2, <2>3
  <2> QED BY <2>2, <2>3, <2>4, <2>5
<1>4. /\ rest \in Seq(EventType) /\ (n = Len(d.pending) => rest = <<>>)
      /\ \A i \in DOMAIN rest : rest[i].seq = 0
  <2>1. n + 1 \in Int /\ Len(d.pending) \in Int
        /\ \A i \in (n + 1) .. Len(d.pending) : d.pending[i] \in EventType
    BY <1>1, <1>2
  <2>2. /\ rest \in Seq(EventType)
        /\ Len(rest) = IF n + 1 <= Len(d.pending) THEN Len(d.pending) - (n + 1) + 1 ELSE 0
        /\ \A i \in 1 .. Len(d.pending) - (n + 1) + 1 : rest[i] = d.pending[(n + 1) + i - 1]
    BY <2>1, SubSeqProperties
  <2> HIDE DEF rest
  <2>3. Len(rest) = Len(d.pending) - n
    BY <1>1, <1>2, <2>2
  <2>4. n = Len(d.pending) => rest = <<>>
    BY <1>1, <2>2, <2>3, EmptySeq
  <2>5. ASSUME NEW i \in DOMAIN rest PROVE rest[i].seq = 0
    <3>1. i \in 1 .. Len(rest)
      BY <2>2, LenProperties
    <3>2. i \in 1 .. Len(d.pending) - (n + 1) + 1 /\ (n + 1) + i - 1 \in 1 .. Len(d.pending)
      BY <1>1, <1>2, <2>3, <3>1
    <3> QED BY <1>1, <2>2, <3>2
  <2> QED BY <2>2, <2>4, <2>5
<1> HIDE DEF rest, e
<1>5. /\ d0 \in DeliveryType /\ Counted(d0) /\ Capacity(d0) = Capacity(d) /\ d0.pending = rest
      /\ Frames(d0, e) = Frames(d, e)
  <2>1. /\ d0 \in DeliveryType /\ d0.pending = rest /\ d0.inFlight = d.inFlight
        /\ d0.next = d.next /\ d0.sent = d.sent /\ d0.ackFrame = d.ackFrame /\ d0.ackSeq = d.ackSeq
        /\ d0.suppressed = d.suppressed
    BY <1>4 DEF DeliveryType
  <2> HIDE DEF d0
  <2> QED BY <2>1 DEF Counted, Capacity, Frames
<1>6. Rising(e)
  BY <1>3 DEF Rising
<1>7. /\ x = [SendEvents(d, e) EXCEPT !.pending = rest]
  <2> DEFINE y == SendEvents(d, e)
             new == {Receipt(Frames(d, e)[i]) : i \in 1 .. Len(e)}
             last == IF Len(e) = 0 THEN d.sent ELSE Frames(d, e)[Len(e)].thru
  <2>1. y = [d EXCEPT !.next = d.next + Len(e), !.sent = last, !.inFlight = d.inFlight \cup new]
    BY DEF SendEvents
  <2>2. /\ d0.next = d.next /\ d0.sent = d.sent /\ d0.inFlight = d.inFlight
    BY DEF DeliveryType
  <2>3. x = [d0 EXCEPT !.next = d.next + Len(e), !.sent = last, !.inFlight = d.inFlight \cup new]
    BY <1>5, <2>2 DEF SendEvents
  <2> HIDE DEF x, y, new, last
  <2>4. x = [y EXCEPT !.pending = rest]
    BY <2>1, <2>3 DEF DeliveryType
  <2> QED BY <2>4 DEF y
<1>8. x \in DeliveryType /\ x.pending = rest /\ Capacity(x) = Capacity(d) - n
  <2>1. x \in DeliveryType /\ x.pending = d0.pending
    BY <1>3, <1>5, <1>6, SentDelivery
  <2>2. Capacity(x) = Capacity(d0) - Len(e)
    BY <1>2, <1>3, <1>5, <1>6, SendCounts
  <2> QED BY <1>3, <1>5, <2>1, <2>2
<1> HIDE DEF x, d0
<1>9. Emits(d, x, e)
  BY <1>2, <1>3, <1>6, <1>7, <1>8 DEF Emits
<1>10. Buffered(x)
  <2>1. Capacity(x) > 0 => n = Len(d.pending)
    BY <1>1, <1>2, <1>8
  <2> QED BY <1>4, <1>8, <2>1 DEF Buffered
<1>11. ASSUME Stale(x, overdue) PROVE Claim
  <2>1. r = [d |-> x, acts |-> <<Close("lagged")>>]
    BY <1>11 DEF ReopenDeliveryWindow, LaggedResult, x, d0, e, rest, n
  <2>2. r.d = x /\ r.acts = <<Close("lagged")>> /\ TRUE \in BOOLEAN /\ FALSE \in BOOLEAN
    BY <2>1
  <2> HIDE DEF r
  <2>3. Sends(d, r, e, TRUE, FALSE)
    BY <1>9, <1>10, <2>2 DEF Sends
  <2> QED BY <1>3, <2>2, <2>3
<1>12. ASSUME ~Stale(x, overdue) PROVE Claim
  <2>1. r = SentResult(x, Frames(d, e), TRUE, more)
    BY <1>12 DEF ReopenDeliveryWindow, x, d0, e, rest, n
  <2>2. r.d = x /\ r.acts = ActsOf(Frames(d, e), x.sent, TRUE, more)
    BY <2>1 DEF SentResult, ActsOf
  <2>3. more \in BOOLEAN /\ TRUE \in BOOLEAN
    OBVIOUS
  <2>4. more \/ Capacity(x) = 0
    BY <1>1, <1>2, <1>8, <1>10 DEF Buffered
  <2> HIDE DEF r, more
  <2>5. Sends(d, r, e, TRUE, more)
    BY <1>9, <1>10, <2>2, <2>3 DEF Sends
  <2> QED BY <1>3, <2>2, <2>3, <2>4, <2>5
<1>13. Claim
  BY <1>11, <1>12
<1> QED BY <1>13

-----------------------------------------------------------------------------
(* What a result puts on the plan. *)

Quiet == {"Persist", "Read", "Close"}

LEMMA QuietHead ==
  ASSUME NEW a \in LaterType, a.k \in Quiet, NEW s \in Seq(LaterType)
  PROVE  LET t == <<a>> \o s IN
         /\ t \in Seq(LaterType) /\ t # <<>> /\ t[1] = a /\ Tail(t) = s
         /\ Queued(t) = Queued(s) /\ (Apart(t) <=> Apart(s)) /\ (Ephemeral(t) <=> Ephemeral(s))
         /\ Members(t) = {a} \cup Members(s)
<1> DEFINE t == <<a>> \o s
<1>1. t \in Seq(LaterType) /\ t # <<>> /\ t[1] = a /\ Tail(t) = s
  BY Cons
<1> HIDE DEF t
<1>2. a.k # "Send"
  BY DEF Quiet
<1>3. FramesIn(a) = {} /\ InOrder(a) /\ EphemeralAction(a)
  BY <1>2 DEF FramesIn, InOrder, EphemeralAction
<1>4. Queued(t) = Queued(s)
  BY <1>1, <1>3, QueuedOfHead
<1>5. Apart(t) <=> Apart(s)
  <2>1. Ids({}) = {}
    BY DEF Ids
  <2>2. Apart(t) <=> /\ InOrder(t[1]) /\ Apart(Tail(t))
                     /\ Ids(FramesIn(t[1])) \cap Ids(Queued(Tail(t))) = {}
    BY <1>1, ApartOfHead
  <2> QED BY <1>1, <1>3, <2>1, <2>2
<1>6. Ephemeral(t) <=> Ephemeral(s)
  BY <1>1, <1>3, EphemeralOfHead
<1>7. Members(t) = {a} \cup Members(s)
  BY <1>1, MembersOfHeadTail
<1> QED BY <1>1, <1>4, <1>5, <1>6, <1>7 DEF t

LEMMA Actions ==
  ASSUME NEW fs \in Seq(FrameType), NEW n \in Nat
  PROVE  /\ Persist \in LaterType /\ Persist.k = "Persist"
         /\ Read(n) \in LaterType /\ Read(n).k = "Read" /\ Read(n).after = n
         /\ Close("lagged") \in LaterType /\ Close("lagged").k = "Close"
         /\ Close("lagged") \in FollowType /\ Send(fs) \in FollowType
         /\ Send(fs) \in LaterType /\ Send(fs).k = "Send" /\ Send(fs).frames = fs
         /\ Send(fs).out = <<>> /\ Send(fs).follow = <<>> /\ Send(fs).reads = {}
         /\ Persist.k \in Quiet /\ Read(n).k \in Quiet /\ Close("lagged").k \in Quiet
<1>1. Persist \in LaterType /\ Persist.k = "Persist"
  BY DEF Persist, PersistType, LaterType
<1>2. Read(n) \in LaterType /\ Read(n).k = "Read" /\ Read(n).after = n
  BY DEF Read, ReadType, LaterType
<1>3. Close("lagged") \in FollowType /\ Close("lagged").k = "Close"
  BY DEF Close, CloseType, FollowType
<1>4. /\ Send(fs) \in FollowType /\ Send(fs).k = "Send" /\ Send(fs).frames = fs
      /\ Send(fs).out = <<>> /\ Send(fs).follow = <<>> /\ Send(fs).reads = {}
  BY DEF Send, WaitingType, FollowType
<1>5. FollowType \subseteq LaterType
  BY DEF LaterType
<1> QED BY <1>1, <1>2, <1>3, <1>4, <1>5 DEF Quiet

Begins(t, a) == t # <<>> /\ t[1] = a
Climbing(fs) == \A p, q \in DOMAIN fs : p < q => fs[p].id < fs[q].id

\* acts, done before s, is how the frames fs may reach the client.
Planned(t, acts, fs, n, more, s) ==
  /\ t \in Seq(LaterType) /\ Ephemeral(Behind(t)) /\ Apart(t)
  /\ Queued(t) \subseteq Members(fs) \cup Queued(s)
  /\ \/ acts # <<Close("lagged")>> /\ fs # <<>> /\ Front(t) = fs
     \/ /\ acts = <<Close("lagged")>> \/ fs = <<>>
        /\ Front(t) \in Seq(FrameType)
        /\ \A f \in Members(Front(t)) : f.event.seq = 0 /\ f \in Queued(s)
  /\ Members(t) \subseteq Members(s) \cup {Persist, Close("lagged"), Read(n), Send(fs)}
  /\ Members(s) \subseteq Members(t)
  /\ more => Read(n) \in Members(t)
  /\ acts = <<Close("lagged")>> => Close("lagged") \in Members(t)
  /\ acts # <<>> => t # <<>>

LEMMA ResultPlanned ==
  ASSUME NEW fs \in Seq(FrameType), Climbing(fs), NEW n \in Nat, NEW changed \in BOOLEAN, NEW more \in BOOLEAN,
         NEW s \in Seq(LaterType), Ephemeral(s), Apart(s),
         Ids(Members(fs)) \cap Ids(Queued(s)) = {}
  PROVE  /\ Planned(<<Close("lagged")>> \o s, <<Close("lagged")>>, fs, n, FALSE, s)
         /\ LET acts == ActsOf(fs, n, changed, more) IN
            /\ acts # <<Close("lagged")>>
            /\ Planned(acts \o s, acts, fs, n, more, s)
            /\ changed \/ fs # <<>> => acts # <<>> /\ Begins(acts \o s, Persist)
            /\ ~changed /\ fs = <<>> /\ ~more => acts = <<>>
<1>0. /\ Persist \in LaterType /\ Persist.k = "Persist" /\ Persist.k \in Quiet
      /\ Read(n) \in LaterType /\ Read(n).k = "Read" /\ Read(n).k \in Quiet
      /\ Close("lagged") \in LaterType /\ Close("lagged").k = "Close" /\ Close("lagged").k \in Quiet
      /\ Send(fs) \in LaterType /\ Send(fs).k = "Send" /\ Send(fs).frames = fs
  BY Actions
<1>1. ASSUME NEW t \in Seq(LaterType), Ephemeral(t), Queued(t) = Queued(s)
      PROVE /\ Ephemeral(Behind(t)) /\ Front(t) \in Seq(FrameType)
            /\ \A f \in Members(Front(t)) : f.event.seq = 0 /\ f \in Queued(s)
  BY <1>1, EphemeralTodo
<1>2. Planned(<<Close("lagged")>> \o s, <<Close("lagged")>>, fs, n, FALSE, s)
  <2> DEFINE t == <<Close("lagged")>> \o s
  <2>1. /\ t \in Seq(LaterType) /\ t # <<>> /\ Queued(t) = Queued(s) /\ Apart(t) /\ Ephemeral(t)
        /\ Members(t) = {Close("lagged")} \cup Members(s)
    BY <1>0, QuietHead
  <2> HIDE DEF t
  <2>2. /\ Ephemeral(Behind(t)) /\ Front(t) \in Seq(FrameType)
        /\ \A f \in Members(Front(t)) : f.event.seq = 0 /\ f \in Queued(s)
    BY <1>1, <2>1
  <2>3. Planned(t, <<Close("lagged")>>, fs, n, FALSE, s)
    BY <2>1, <2>2 DEF Planned
  <2> QED BY <2>3 DEF t
<1> DEFINE acts == ActsOf(fs, n, changed, more)
           save == IF changed \/ fs # <<>> THEN <<Persist>> ELSE <<>>
           send == IF fs # <<>> THEN <<Send(fs)>> ELSE <<>>
           read == IF more THEN <<Read(n)>> ELSE <<>>
           s1 == read \o s
<1>3. /\ s1 \in Seq(LaterType) /\ Queued(s1) = Queued(s) /\ Apart(s1) /\ Ephemeral(s1)
      /\ Members(s1) \subseteq {Read(n)} \cup Members(s) /\ Members(s) \subseteq Members(s1)
      /\ (more => Read(n) \in Members(s1) /\ s1 # <<>>)
      /\ (~more => s1 = s)
  <2>1. CASE more
    <3>1. s1 = <<Read(n)>> \o s
      BY <2>1
    <3> HIDE DEF s1
    <3>2. LET t == <<Read(n)>> \o s IN
          /\ t \in Seq(LaterType) /\ t # <<>> /\ Queued(t) = Queued(s) /\ (Apart(t) <=> Apart(s))
          /\ (Ephemeral(t) <=> Ephemeral(s)) /\ Members(t) = {Read(n)} \cup Members(s)
      BY <1>0, QuietHead
    <3> QED BY <2>1, <3>1, <3>2
  <2>2. CASE ~more
    <3>1. s1 = s
      BY <2>2, ConcatEmptySeq
    <3> HIDE DEF s1
    <3> QED BY <2>2, <3>1
  <2> QED BY <2>1, <2>2
<1>4. /\ save \in Seq(LaterType) /\ send \in Seq(LaterType) /\ read \in Seq(LaterType)
  <2>1. <<Persist>> \in Seq(LaterType) /\ <<Send(fs)>> \in Seq(LaterType)
        /\ <<Read(n)>> \in Seq(LaterType) /\ <<>> \in Seq(LaterType)
    BY <1>0
  <2> QED BY <2>1
<1>5. acts \o s = save \o (send \o s1) /\ acts = save \o (send \o read)
  <2>1. acts = (save \o send) \o read
    BY DEF ActsOf
  <2> HIDE DEF save, send, read, acts
  <2>2. save \o send \in Seq(LaterType)
    BY <1>4, ConcatProperties
  <2>3. ((save \o send) \o read) \o s = (save \o send) \o (read \o s)
    BY <1>4, <2>2, ConcatAssociative, SMTT(30)
  <2>4. (save \o send) \o (read \o s) = save \o (send \o (read \o s))
    <3>1. read \o s \in Seq(LaterType)
      BY <1>4, ConcatProperties
    <3>2. \A u, v, w \in Seq(LaterType) : (u \o v) \o w = u \o (v \o w)
      BY ConcatAssociative, SMTT(30)
    <3> QED BY <1>4, <3>1, <3>2, SMTT(30)
  <2>5. (save \o send) \o read = save \o (send \o read)
    BY <1>4, ConcatAssociative, SMTT(30)
  <2> QED BY <2>1, <2>3, <2>4, <2>5
<1> HIDE DEF acts
<1>6. ASSUME fs # <<>>
      PROVE /\ Planned(acts \o s, acts, fs, n, more, s)
            /\ acts # <<>> /\ acts # <<Close("lagged")>> /\ Begins(acts \o s, Persist)
  <2> DEFINE t2 == <<Send(fs)>> \o s1
             t == <<Persist>> \o t2
  <2>1. save = <<Persist>> /\ send = <<Send(fs)>>
    BY <1>6
  <2>2. acts \o s = t
    BY <1>5, <2>1
  <2>3. /\ t2 \in Seq(LaterType) /\ t2 # <<>> /\ t2[1] = Send(fs) /\ Tail(t2) = s1
    <3> HIDE DEF s1
    <3> QED BY <1>0, <1>3, Cons
  <2> HIDE DEF t2
  <2>4. FramesIn(Send(fs)) = Members(fs) /\ InOrder(Send(fs))
    BY <1>0 DEF FramesIn, InOrder, Climbing
  <2>5. /\ Queued(t2) = Members(fs) \cup Queued(s) /\ Apart(t2)
        /\ Members(t2) = {Send(fs)} \cup Members(s1)
    <3>1. Queued(t2) = Members(fs) \cup Queued(s)
      BY <1>3, <2>3, <2>4, QueuedOfHead
    <3>2. Apart(t2)
      BY <1>3, <2>3, <2>4, ApartOfHead
    <3>3. Members(t2) = {Send(fs)} \cup Members(s1)
      BY <2>3, MembersOfHeadTail
    <3> QED BY <3>1, <3>2, <3>3
  <2>6. /\ t \in Seq(LaterType) /\ t # <<>> /\ t[1] = Persist /\ Tail(t) = t2
        /\ Queued(t) = Queued(t2) /\ Apart(t) /\ Members(t) = {Persist} \cup Members(t2)
    BY <1>0, <2>3, <2>5, QuietHead
  <2>7. Len(t) > 1 /\ t[2] = Send(fs)
    <3>1. Len(t) = Len(t2) + 1 /\ Len(t2) \in Nat /\ \A i \in 1 .. Len(t2) : t[i + 1] = t2[i]
      BY <1>0, <2>3, Cons
    <3>2. Len(t2) # 0
      BY <2>3, EmptySeq
    <3>3. 1 \in 1 .. Len(t2) /\ 1 + 1 = 2
      BY <3>1, <3>2
    <3> HIDE DEF t
    <3>4. t[2] = t2[1]
      BY <3>1, <3>3
    <3> QED BY <2>3, <3>1, <3>2, <3>4
  <2> HIDE DEF t
  <2>8. Front(t) = fs /\ Behind(t) = s1
    BY <1>0, <2>3, <2>6, <2>7 DEF Front, Behind
  <2>9. acts # <<>> /\ acts # <<Close("lagged")>>
    <3>1. acts = <<Persist>> \o (send \o read)
      BY <1>5, <2>1
    <3>2. send \o read \in Seq(LaterType)
      BY <1>4, ConcatProperties
    <3>3. acts # <<>> /\ acts[1] = Persist
      BY <1>0, <3>1, <3>2, Cons
    <3>4. <<Close("lagged")>>[1] = Close("lagged") /\ Close("lagged") # Persist
      BY DEF Close, Persist
    <3> QED BY <3>3, <3>4
  <2>10. Planned(t, acts, fs, n, more, s)
    <3>1. Queued(t) \subseteq Members(fs) \cup Queued(s)
      BY <2>5, <2>6
    <3>2. Members(t) \subseteq Members(s) \cup {Persist, Close("lagged"), Read(n), Send(fs)}
          /\ Members(s) \subseteq Members(t) /\ (more => Read(n) \in Members(t))
      BY <1>3, <2>5, <2>6
    <3> HIDE DEF s1
    <3> QED BY <1>3, <1>6, <2>6, <2>8, <2>9, <3>1, <3>2 DEF Planned
  <2>11. Begins(acts \o s, Persist)
    BY <2>2, <2>6 DEF Begins
  <2> QED BY <2>2, <2>9, <2>10, <2>11
<1>7. ASSUME fs = <<>>, ~changed
      PROVE /\ Planned(acts \o s, acts, fs, n, more, s)
            /\ acts # <<Close("lagged")>> /\ (~more => acts = <<>>)
  <2>1. save = <<>> /\ send = <<>>
    BY <1>7
  <2>2. acts \o s = s1 /\ acts = read
    <3>1. <<>> \o s1 = s1 /\ <<>> \o read = read
      <4> HIDE DEF s1, read
      <4> QED BY <1>3, <1>4, ConcatEmptySeq
    <3> QED BY <1>5, <2>1, <3>1
  <2>3. acts # <<Close("lagged")>> /\ (~more => acts = <<>>) /\ (acts # <<>> => more)
    <3>1. read = <<Read(n)>> \/ read = <<>>
      OBVIOUS
    <3>2. <<Read(n)>> # <<Close("lagged")>> /\ <<>> # <<Close("lagged")>>
      BY DEF Close, Read
    <3> QED BY <2>2, <3>1, <3>2
  <2> HIDE DEF s1, read, save, send
  <2>4. /\ Ephemeral(Behind(s1)) /\ Front(s1) \in Seq(FrameType)
        /\ \A f \in Members(Front(s1)) : f.event.seq = 0 /\ f \in Queued(s)
    BY <1>1, <1>3
  <2>5. Planned(s1, acts, fs, n, more, s)
    BY <1>3, <1>7, <2>3, <2>4 DEF Planned
  <2> QED BY <2>2, <2>3, <2>5
<1>8. ASSUME fs = <<>>, changed
      PROVE /\ Planned(acts \o s, acts, fs, n, more, s)
            /\ acts # <<Close("lagged")>> /\ acts # <<>> /\ Begins(acts \o s, Persist)
  <2> DEFINE t == <<Persist>> \o s1
  <2>1. save = <<Persist>> /\ send = <<>>
    BY <1>8
  <2>2. acts \o s = t /\ acts = <<Persist>> \o read
    <3>1. <<>> \o s1 = s1 /\ <<>> \o read = read
      <4> HIDE DEF s1, read
      <4> QED BY <1>3, <1>4, ConcatEmptySeq
    <3> QED BY <1>5, <2>1, <3>1
  <2>3. acts # <<>> /\ acts # <<Close("lagged")>>
    <3>1. acts # <<>> /\ acts[1] = Persist
      BY <1>0, <1>4, <2>2, Cons
    <3>2. <<Close("lagged")>>[1] = Close("lagged") /\ Close("lagged") # Persist
      BY DEF Close, Persist
    <3> QED BY <3>1, <3>2
  <2> HIDE DEF s1, read, save, send
  <2>4. /\ t \in Seq(LaterType) /\ t # <<>> /\ t[1] = Persist
        /\ Queued(t) = Queued(s1) /\ Apart(t) /\ Ephemeral(t)
        /\ Members(t) = {Persist} \cup Members(s1)
    BY <1>0, <1>3, QuietHead
  <2> HIDE DEF t
  <2>5. /\ Ephemeral(Behind(t)) /\ Front(t) \in Seq(FrameType)
        /\ \A f \in Members(Front(t)) : f.event.seq = 0 /\ f \in Queued(s)
    BY <1>1, <1>3, <2>4
  <2>6. Planned(t, acts, fs, n, more, s)
    BY <1>3, <1>8, <2>3, <2>4, <2>5 DEF Planned
  <2>7. Begins(acts \o s, Persist)
    BY <2>2, <2>4 DEF Begins
  <2> QED BY <2>2, <2>3, <2>6, <2>7
<1>9. /\ acts # <<Close("lagged")>>
      /\ Planned(acts \o s, acts, fs, n, more, s)
      /\ changed \/ fs # <<>> => acts # <<>> /\ Begins(acts \o s, Persist)
      /\ ~changed /\ fs = <<>> /\ ~more => acts = <<>>
  BY <1>6, <1>7, <1>8
<1> QED BY <1>2, <1>9 DEF acts

\* What a hidden frame asks for: the batch it was in does it later.
Asks(b, x, mid, reads) ==
  /\ x \in BatchType /\ x.frames = b.frames /\ x.out = b.out
  /\ x.follow = b.follow \o mid /\ x.reads = b.reads \cup reads

LEMMA FollowingAsks ==
  ASSUME NEW b \in BatchType, NEW acts, NEW mid \in Seq(FollowType), NEW reads \in SUBSET Nat,
         Following(b, acts) = [b EXCEPT !.follow = b.follow \o mid, !.reads = b.reads \cup reads]
  PROVE  Asks(b, Following(b, acts), mid, reads)
<1> DEFINE x == Following(b, acts)
<1>1. /\ b.follow \o mid \in Seq(FollowType) /\ b.reads \cup reads \in SUBSET Nat
  <2>1. b.follow \in Seq(FollowType) /\ b.reads \in SUBSET Nat
    BY BatchFields
  <2> QED BY <2>1, ConcatProperties
<1>2. x = [b EXCEPT !.follow = b.follow \o mid, !.reads = b.reads \cup reads]
  OBVIOUS
<1> HIDE DEF x
<1>3. Asks(b, x, mid, reads)
  BY <1>1, <1>2 DEF Asks, BatchType
<1> QED BY <1>3 DEF x

LEMMA ShortTuples ==
  \A x, y, z \in LaterType :
           /\ <<x>> \o <<y>> = <<x, y>> /\ (<<x>> \o <<y>>) \o <<z>> = <<x, y, z>>
           /\ SubSeq(<<x>>, 1, 1) = <<x>> /\ SubSeq(<<x>>, 2, 1) = <<>> /\ SubSeq(<<x, y>>, 2, 1) = <<>>
           /\ SubSeq(<<x, y>>, 2, 2) = <<y>> /\ SubSeq(<<x, y, z>>, 2, 2) = <<y>>
<1> DEFINE S == LaterType
<1> HIDE DEF S
<1> SUFFICES ASSUME NEW x \in S, NEW y \in S, NEW z \in S
    PROVE  /\ <<x>> \o <<y>> = <<x, y>> /\ (<<x>> \o <<y>>) \o <<z>> = <<x, y, z>>
           /\ SubSeq(<<x>>, 1, 1) = <<x>> /\ SubSeq(<<x>>, 2, 1) = <<>> /\ SubSeq(<<x, y>>, 2, 1) = <<>>
           /\ SubSeq(<<x, y>>, 2, 2) = <<y>> /\ SubSeq(<<x, y, z>>, 2, 2) = <<y>>
  BY DEF S
<1>1. /\ <<x>> \in Seq(S) /\ <<y>> \in Seq(S) /\ <<z>> \in Seq(S) /\ <<x, y>> \in Seq(S)
      /\ <<x, y, z>> \in Seq(S) /\ Len(<<x>>) = 1 /\ Len(<<y>>) = 1 /\ Len(<<z>>) = 1
      /\ Len(<<x, y>>) = 2 /\ Len(<<x, y, z>>) = 3
  OBVIOUS
<1>2. <<x>> \o <<y>> = <<x, y>>
  <2> DEFINE u == <<x>> \o <<y>>
  <2>1. /\ u \in Seq(S) /\ Len(u) = 1 + 1
        /\ \A i \in 1 .. 1 + 1 : u[i] = IF i <= 1 THEN <<x>>[i] ELSE <<y>>[i - 1]
    BY <1>1, ConcatProperties
  <2> HIDE DEF u
  <2>2. u[1] = x /\ u[2] = y
    BY <2>1
  <2>3. \A i \in 1 .. 2 : u[i] = <<x, y>>[i]
    <3>1. \A i \in 1 .. 2 : i = 1 \/ i = 2
      OBVIOUS
    <3> QED BY <2>2, <3>1
  <2>4. u = <<x, y>>
    BY <1>1, <2>1, <2>3, SeqEqual
  <2> QED BY <2>4 DEF u
<1>3. <<x, y>> \o <<z>> = <<x, y, z>>
  <2> DEFINE u == <<x, y>> \o <<z>>
  <2>1. /\ u \in Seq(S) /\ Len(u) = 2 + 1
        /\ \A i \in 1 .. 2 + 1 : u[i] = IF i <= 2 THEN <<x, y>>[i] ELSE <<z>>[i - 2]
    BY <1>1, ConcatProperties
  <2> HIDE DEF u
  <2>2. u[1] = x /\ u[2] = y /\ u[3] = z
    BY <2>1
  <2>3. \A i \in 1 .. 3 : u[i] = <<x, y, z>>[i]
    <3>1. \A i \in 1 .. 3 : i = 1 \/ i = 2 \/ i = 3
      OBVIOUS
    <3> QED BY <2>2, <3>1
  <2>4. u = <<x, y, z>>
    BY <1>1, <2>1, <2>3, SeqEqual
  <2> QED BY <2>4 DEF u
<1>4. ASSUME NEW s \in Seq(S), NEW i \in 1 .. Len(s) PROVE SubSeq(s, i, i) = <<s[i]>>
  <2>1. i \in Int /\ s[i] \in S /\ \A j \in i .. i : s[j] \in S
    BY ElementOfSeq
  <2>2. /\ SubSeq(s, i, i) \in Seq(S) /\ Len(SubSeq(s, i, i)) = (IF i <= i THEN i - i + 1 ELSE 0)
        /\ \A j \in 1 .. i - i + 1 : SubSeq(s, i, i)[j] = s[i + j - 1]
    BY <2>1, SubSeqProperties
  <2> DEFINE v == SubSeq(s, i, i)
  <2> HIDE DEF v
  <2>3. v \in Seq(S) /\ Len(v) = 1 /\ v[1] = s[i]
    BY <2>1, <2>2 DEF v
  <2>4. <<s[i]>> \in Seq(S) /\ Len(<<s[i]>>) = 1 /\ \A j \in 1 .. 1 : v[j] = <<s[i]>>[j]
    BY <2>1, <2>3
  <2>5. v = <<s[i]>>
    BY <2>3, <2>4, SeqEqual
  <2> QED BY <2>5 DEF v
<1>5. \A s : SubSeq(s, 2, 1) = <<>>
  BY SubSeqEmpty
<1>6. SubSeq(<<x>>, 1, 1) = <<x>> /\ SubSeq(<<x, y>>, 2, 2) = <<y>> /\ SubSeq(<<x, y, z>>, 2, 2) = <<y>>
  <2>1. 1 \in 1 .. Len(<<x>>) /\ 2 \in 1 .. Len(<<x, y>>) /\ 2 \in 1 .. Len(<<x, y, z>>)
    BY <1>1
  <2>2. <<x>>[1] = x /\ <<x, y>>[2] = y /\ <<x, y, z>>[2] = y
    OBVIOUS
  <2>3. SubSeq(<<x>>, 1, 1) = << <<x>>[1] >>
    BY <1>1, <1>4, <2>1
  <2>4. SubSeq(<<x, y>>, 2, 2) = << <<x, y>>[2] >>
    BY <1>1, <1>4, <2>1
  <2>5. SubSeq(<<x, y, z>>, 2, 2) = << <<x, y, z>>[2] >>
    BY <1>1, <1>4, <2>1
  <2> QED BY <2>2, <2>3, <2>4, <2>5
<1> QED BY <1>2, <1>3, <1>5, <1>6

LEMMA FollowingKeepsOrder ==
  ASSUME NEW b \in BatchType, NEW fs \in Seq(FrameType), NEW n \in Nat, NEW more \in BOOLEAN
  PROVE  /\ Asks(b, Following(b, <<Close("lagged")>>), <<Close("lagged")>>, {})
         /\ Asks(b, Following(b, ActsOf(fs, n, TRUE, more)),
                 IF fs = <<>> THEN <<>> ELSE <<Send(fs)>>, IF more THEN {n} ELSE {})
<1>0. /\ Persist.k = "Persist" /\ Read(n).k = "Read" /\ Read(n).after = n
      /\ Close("lagged").k = "Close" /\ Close("lagged") \in FollowType
      /\ Send(fs) \in FollowType /\ Send(fs).k = "Send"
      /\ b.reads \in SUBSET Nat /\ b.follow \in Seq(FollowType)
  BY Actions, BatchFields
<1>1. /\ <<Close("lagged")>> \in Seq(FollowType) /\ <<Send(fs)>> \in Seq(FollowType)
      /\ <<>> \in Seq(FollowType) /\ {n} \in SUBSET Nat /\ {} \in SUBSET Nat
      /\ b.follow \o <<>> = b.follow /\ b.reads \cup {} = b.reads
      /\ b = [b EXCEPT !.follow = b.follow, !.reads = b.reads]
  <2>1. b.follow \o <<>> = b.follow
    BY <1>0, ConcatEmptySeq
  <2>2. b = [b EXCEPT !.follow = b.follow, !.reads = b.reads]
    BY DEF BatchType
  <2> QED BY <1>0, <2>1, <2>2
<1>9. /\ <<Persist>> \o <<Read(n)>> = <<Persist, Read(n)>>
      /\ <<Persist>> \o <<Send(fs)>> = <<Persist, Send(fs)>>
      /\ (<<Persist>> \o <<Send(fs)>>) \o <<Read(n)>> = <<Persist, Send(fs), Read(n)>>
      /\ SubSeq(<<Close("lagged")>>, 1, 1) = <<Close("lagged")>>
      /\ SubSeq(<<Persist>>, 2, 1) = <<>> /\ SubSeq(<<Persist, Read(n)>>, 2, 1) = <<>>
      /\ SubSeq(<<Persist, Send(fs)>>, 2, 2) = <<Send(fs)>>
      /\ SubSeq(<<Persist, Send(fs), Read(n)>>, 2, 2) = <<Send(fs)>>
  <2>1. Persist \in LaterType /\ Read(n) \in LaterType /\ Send(fs) \in LaterType /\ Close("lagged") \in LaterType
    BY Actions
  <2>2. \A x, y, z \in LaterType :
          /\ <<x>> \o <<y>> = <<x, y>> /\ (<<x>> \o <<y>>) \o <<z>> = <<x, y, z>>
          /\ SubSeq(<<x>>, 1, 1) = <<x>> /\ SubSeq(<<x>>, 2, 1) = <<>> /\ SubSeq(<<x, y>>, 2, 1) = <<>>
          /\ SubSeq(<<x, y>>, 2, 2) = <<y>> /\ SubSeq(<<x, y, z>>, 2, 2) = <<y>>
    BY ShortTuples
  <2> QED BY <2>1, <2>2, ZenonT(30)
<1>10. /\ <<Persist>> \o <<>> = <<Persist>> /\ <<Persist, Send(fs)>> \o <<>> = <<Persist, Send(fs)>>
       /\ <<>> \o <<Read(n)>> = <<Read(n)>>
  <2>1. /\ Persist \in LaterType /\ Read(n) \in LaterType /\ Send(fs) \in LaterType
    BY Actions
  <2>2. <<Persist>> \in Seq(LaterType) /\ <<Persist, Send(fs)>> \in Seq(LaterType)
        /\ <<Read(n)>> \in Seq(LaterType)
    BY <2>1
  <2> QED BY <2>2, ConcatEmptySeq
<1>2. Asks(b, Following(b, <<Close("lagged")>>), <<Close("lagged")>>, {})
  <2> DEFINE acts == <<Close("lagged")>>
  <2>1. Len(acts) = 1 /\ acts[1] = Close("lagged") /\ SubSeq(acts, 1, Len(acts)) = acts
    BY <1>9
  <2> HIDE DEF acts
  <2>2. Following(b, acts) = [b EXCEPT !.follow = b.follow \o acts]
    BY <1>0, <2>1 DEF Following
  <2>3. Following(b, acts) = [b EXCEPT !.follow = b.follow \o acts, !.reads = b.reads \cup {}]
    BY <1>1, <2>2 DEF BatchType
  <2>4. acts \in Seq(FollowType)
    BY <1>1 DEF acts
  <2>5. Asks(b, Following(b, acts), acts, {})
    BY <1>1, <2>3, <2>4, FollowingAsks
  <2> QED BY <2>5 DEF acts
<1>3. ASSUME fs = <<>>, ~more PROVE Asks(b, Following(b, ActsOf(fs, n, TRUE, more)), <<>>, {})
  <2> DEFINE acts == ActsOf(fs, n, TRUE, more)
  <2>1. acts = <<Persist>>
    BY <1>3, <1>10 DEF ActsOf
  <2> HIDE DEF acts
  <2>2. Len(acts) = 1 /\ acts[1] = Persist /\ SubSeq(acts, 2, Len(acts)) = <<>>
    <3>1. Len(acts) = 1 /\ Len(acts) - 1 = 0
      BY <2>1
    <3> QED BY <1>9, <2>1, <3>1
  <2>3. Following(b, acts) = [b EXCEPT !.follow = b.follow \o <<>>]
    BY <1>0, <2>2 DEF Following
  <2>4. Following(b, acts) = [b EXCEPT !.follow = b.follow \o <<>>, !.reads = b.reads \cup {}]
    BY <1>1, <2>3 DEF BatchType
  <2>5. Asks(b, Following(b, acts), <<>>, {})
    BY <1>1, <2>4, FollowingAsks
  <2> QED BY <2>5 DEF acts
<1>4. ASSUME fs = <<>>, more PROVE Asks(b, Following(b, ActsOf(fs, n, TRUE, more)), <<>>, {n})
  <2> DEFINE acts == ActsOf(fs, n, TRUE, more)
  <2>1. acts = <<Persist, Read(n)>>
    BY <1>4, <1>9, <1>10 DEF ActsOf
  <2> HIDE DEF acts
  <2>2. Len(acts) = 2 /\ acts[1] = Persist /\ acts[2] = Read(n) /\ SubSeq(acts, 2, Len(acts) - 1) = <<>>
    <3>1. Len(acts) = 2 /\ Len(acts) - 1 = 1
      BY <2>1
    <3> QED BY <1>9, <2>1, <3>1
  <2>3. Following(b, acts) = [b EXCEPT !.follow = b.follow \o <<>>, !.reads = b.reads \cup {n}]
    BY <1>0, <2>2 DEF Following
  <2>4. Asks(b, Following(b, acts), <<>>, {n})
    BY <1>1, <2>3, FollowingAsks
  <2> QED BY <2>4 DEF acts
<1>5. ASSUME fs # <<>>, ~more PROVE Asks(b, Following(b, ActsOf(fs, n, TRUE, more)), <<Send(fs)>>, {})
  <2> DEFINE acts == ActsOf(fs, n, TRUE, more)
  <2>1. acts = <<Persist, Send(fs)>>
    BY <1>5, <1>9, <1>10 DEF ActsOf
  <2> HIDE DEF acts
  <2>2. Len(acts) = 2 /\ acts[1] = Persist /\ acts[2] = Send(fs) /\ SubSeq(acts, 2, Len(acts)) = <<Send(fs)>>
    <3>1. Len(acts) = 2 /\ Len(acts) - 1 = 1
      BY <2>1
    <3> QED BY <1>9, <2>1, <3>1
  <2>3. Following(b, acts) = [b EXCEPT !.follow = b.follow \o <<Send(fs)>>]
    BY <1>0, <2>2 DEF Following
  <2>4. Following(b, acts) = [b EXCEPT !.follow = b.follow \o <<Send(fs)>>, !.reads = b.reads \cup {}]
    BY <1>1, <2>3 DEF BatchType
  <2>5. Asks(b, Following(b, acts), <<Send(fs)>>, {})
    BY <1>1, <2>4, FollowingAsks
  <2> QED BY <2>5 DEF acts
<1>6. ASSUME fs # <<>>, more PROVE Asks(b, Following(b, ActsOf(fs, n, TRUE, more)), <<Send(fs)>>, {n})
  <2> DEFINE acts == ActsOf(fs, n, TRUE, more)
  <2>1. acts = <<Persist, Send(fs), Read(n)>>
    BY <1>6, <1>9, <1>10 DEF ActsOf
  <2> HIDE DEF acts
  <2>2. /\ Len(acts) = 3 /\ acts[1] = Persist /\ acts[2] = Send(fs) /\ acts[3] = Read(n)
        /\ SubSeq(acts, 2, Len(acts) - 1) = <<Send(fs)>>
    <3>1. Len(acts) = 3 /\ Len(acts) - 1 = 2
      BY <2>1
    <3> QED BY <1>9, <2>1, <3>1
  <2>3. Following(b, acts) = [b EXCEPT !.follow = b.follow \o <<Send(fs)>>, !.reads = b.reads \cup {n}]
    BY <1>0, <2>2 DEF Following
  <2>4. Asks(b, Following(b, acts), <<Send(fs)>>, {n})
    BY <1>1, <2>3, FollowingAsks
  <2> QED BY <2>4 DEF acts
<1> QED BY <1>2, <1>3, <1>4, <1>5, <1>6

-----------------------------------------------------------------------------
(* What is known of the frames agrees, whatever the delivery does. *)

LEMMA HeldFields ==
  ASSUME NEW d \in DeliveryType
  PROVE  /\ Held(d) \in SUBSET ReceiptType
         /\ [id |-> d.ackFrame, thru |-> d.ackSeq] \in Held(d)
         /\ \A f \in d.inFlight : f \in Held(d)
         /\ \A r \in d.suppressed : [id |-> r.through, thru |-> r.thru] \in Held(d)
         /\ \A p \in ReceiptType : p.id \in Nat /\ p.thru \in Nat
<1>1. CountedFields(d)
  BY DeliveryFields
<1>2. [id |-> d.ackFrame, thru |-> d.ackSeq] \in ReceiptType
  BY <1>1 DEF ReceiptType, CountedFields
<1>3. \A f \in d.inFlight : f \in ReceiptType
  BY <1>1 DEF CountedFields
<1>4. \A r \in d.suppressed : [id |-> r.through, thru |-> r.thru] \in ReceiptType
  BY <1>1 DEF ReceiptType, CountedFields
<1>5. \A p \in ReceiptType : p.id \in Nat /\ p.thru \in Nat
  BY DEF ReceiptType
<1> QED BY <1>2, <1>3, <1>4, <1>5 DEF Held

LEMMA SettledLess ==
  ASSUME NEW d, NEW R, NEW place, NEW Q, Settled(d, R, place, Q),
         NEW R2 \in SUBSET R, NEW Q2 \in SUBSET Q
  PROVE  Settled(d, R2, place, Q2)
<1>1. Monotone((Held(d) \cup R2) \cup {place}) /\ Within(d, (Held(d) \cup R2) \cup {place})
  BY DEF Settled, Monotone, Within
<1>2. \A o \in R2 : Answerable(d, Q2, o)
  BY DEF Settled, Answerable, Ids
<1> QED BY <1>1, <1>2 DEF Settled

LEMMA SettledEmits ==
  ASSUME NEW d \in DeliveryType, Counted(d), NEW x, NEW e, Emits(d, x, e),
         NEW R \in SUBSET ReceiptType, NEW place \in ReceiptType, NEW Q \in SUBSET FrameType,
         Settled(d, R, place, Q), NEW Q2 \in SUBSET (Q \cup Members(Frames(d, e)))
  PROVE  Settled(x, R, place, Q2)
<1> DEFINE fs == Frames(d, e)
           P == (Held(d) \cup R) \cup {place}
           new == {Receipt(fs[i]) : i \in 1 .. Len(e)}
<1>1. /\ x \in DeliveryType /\ e \in Seq(EventType) /\ Rising(e)
      /\ x.ackSeq = d.ackSeq /\ x.ackFrame = d.ackFrame /\ x.suppressed = d.suppressed
      /\ x.next = d.next + Len(e) /\ x.inFlight = d.inFlight \cup new /\ d.sent <= x.sent
      /\ \A i \in 1 .. Len(e) : fs[i].thru <= x.sent /\ d.sent <= fs[i].thru
  BY Emitted
<1>2. /\ Len(e) \in Nat /\ DOMAIN fs = 1 .. Len(e)
      /\ \A i \in 1 .. Len(e) : fs[i].id = d.next + i - 1 /\ fs[i] \in FrameType
      /\ \A i, j \in 1 .. Len(e) : i <= j => fs[i].thru <= fs[j].thru
  BY <1>1, FramesOfEvents
<1>3. d.next \in Nat /\ d.sent \in Nat /\ x.sent \in Nat /\ x.next \in Nat
  BY <1>1 DEF DeliveryType
<1>4. P \in SUBSET ReceiptType /\ \A p \in ReceiptType : p.id \in Nat /\ p.thru \in Nat
  BY HeldFields
<1> HIDE DEF fs
<1>5. \A i \in 1 .. Len(e) : Receipt(fs[i]) \in ReceiptType
                             /\ Receipt(fs[i]).id = d.next + i - 1 /\ Receipt(fs[i]).thru = fs[i].thru
  BY <1>2 DEF FrameType, Receipt, ReceiptType
<1>6. ASSUME NEW p \in new
      PROVE p \in ReceiptType /\ p.id >= d.next /\ p.id < x.next /\ d.sent <= p.thru /\ p.thru <= x.sent
  <2>1. PICK i \in 1 .. Len(e) : p = Receipt(fs[i])
    OBVIOUS
  <2>2. p \in ReceiptType /\ p.id = d.next + i - 1 /\ p.thru = fs[i].thru
    BY <1>5, <2>1
  <2>3. d.sent <= p.thru /\ p.thru <= x.sent
    BY <1>1, <2>2
  <2>4. i \in 1 .. Len(e) /\ x.next = d.next + Len(e)
    BY <1>1
  <2>5. p.id >= d.next /\ p.id < x.next
    BY ONLY <1>2, <1>3, <2>2, <2>4
  <2> QED BY <2>2, <2>3, <2>5
<1>7. ASSUME NEW p \in P PROVE p.id < d.next /\ p.thru <= d.sent /\ p.id \in Nat /\ p.thru \in Nat
  BY <1>4 DEF Settled, Within
<1>8. (Held(x) \cup R) \cup {place} = P \cup new
  BY <1>1 DEF Held
<1>9. Within(x, P \cup new)
  <2>1. ASSUME NEW p \in P PROVE p.id < x.next /\ p.thru <= x.sent
    BY <1>1, <1>2, <1>3, <1>7
  <2> HIDE DEF P, new
  <2> QED BY <1>6, <2>1 DEF Within
<1>10. Monotone(P \cup new)
  <2>1. ASSUME NEW p \in new, NEW q \in new, p.id <= q.id PROVE p.thru <= q.thru
    <3>1. PICK i \in 1 .. Len(e) : p = Receipt(fs[i])
      OBVIOUS
    <3>2. PICK j \in 1 .. Len(e) : q = Receipt(fs[j])
      OBVIOUS
    <3>3. i <= j
      BY <1>2, <1>3, <1>5, <2>1, <3>1, <3>2, SMTT(30)
    <3> QED BY <1>2, <1>5, <3>1, <3>2, <3>3
  <2>2. ASSUME NEW p \in P, NEW q \in new PROVE p.id < q.id /\ p.thru <= q.thru
    <3>1. p.id < d.next /\ p.thru <= d.sent /\ p.id \in Nat /\ p.thru \in Nat
      BY <1>7
    <3>2. q \in ReceiptType /\ q.id >= d.next /\ d.sent <= q.thru
      BY <1>6
    <3> QED BY <1>3, <1>4, <3>1, <3>2
  <2>3. Monotone(P)
    BY DEF Settled
  <2>4. \A p \in P \cup new : p.id \in Nat /\ p.thru \in Nat
    BY <1>4, <1>6
  <2> HIDE DEF P, new
  <2>5. ASSUME NEW p \in P \cup new, NEW q \in P \cup new
        PROVE (p.id <= q.id => p.thru <= q.thru) /\ (p.id = q.id => p.thru = q.thru)
    <3>1. CASE p \in P /\ q \in P
      BY <2>3, <3>1 DEF Monotone
    <3>2. CASE p \in P /\ q \in new
      BY <2>2, <2>4, <3>2
    <3>3. CASE p \in new /\ q \in P
      BY <2>2, <2>4, <3>3
    <3>4. CASE p \in new /\ q \in new
      BY <2>1, <2>4, <3>4
    <3> QED BY <3>1, <3>2, <3>3, <3>4
  <2> QED BY <2>5 DEF Monotone
<1>11. Members(fs) = {fs[i] : i \in 1 .. Len(e)}
  BY <1>2 DEF Members
<1>12. ASSUME NEW o \in R PROVE Answerable(x, Q2, o)
  <2>1. Answerable(d, Q, o)
    BY DEF Settled
  <2>2. o.id < d.next /\ o.id \in Nat
    BY <1>7
  <2>3. o.id \notin Ids(Members(fs))
    BY <1>2, <1>3, <1>11, <2>2 DEF Ids
  <2>4. o.id \notin Ids(Q) => o.id \notin Ids(Q2)
    BY <2>3 DEF Ids, fs
  <2> QED BY <1>1, <2>1, <2>4 DEF Answerable
<1>13. ASSUME NEW f \in Q2 PROVE Receipt(f) \in x.inFlight
  <2>1. CASE f \in Q
    BY <1>1, <2>1 DEF Settled
  <2>2. CASE f \in Members(fs)
    BY <1>1, <1>11, <2>2
  <2> QED BY <2>1, <2>2 DEF fs
<1> HIDE DEF P, new
<1>14. Settled(x, R, place, Q2)
  BY <1>8, <1>9, <1>10, <1>12, <1>13 DEF Settled
<1> QED BY <1>14

LEMMA SettledAdvance ==
  ASSUME NEW d \in DeliveryType, Counted(d),
         NEW R \in SUBSET ReceiptType, NEW place \in ReceiptType, NEW Q,
         Settled(d, R, place, Q)
  PROVE  Settled(AdvanceSuppressedReceipts(d), R, place, Q)
<1> DEFINE x == AdvanceSuppressedReceipts(d)
           P == (Held(d) \cup R) \cup {place}
<1>1. /\ x \in DeliveryType
      /\ x.sent = d.sent /\ x.next = d.next /\ x.inFlight = d.inFlight
      /\ x.suppressed \subseteq d.suppressed
      /\ \/ x.ackFrame = d.ackFrame /\ x.ackSeq = d.ackSeq
         \/ \E r \in d.suppressed :
              /\ r.from = d.ackFrame + 1
              /\ x.ackFrame = r.through /\ x.ackSeq = Larger(d.ackSeq, r.thru)
  BY AdvanceKeeps
<1> HIDE DEF x
<1>2. CountedFields(d)
  BY DeliveryFields
<1>3. /\ [id |-> x.ackFrame, thru |-> x.ackSeq] \in Held(d)
      /\ d.ackFrame <= x.ackFrame /\ d.ackSeq <= x.ackSeq /\ x.ackFrame \in Nat /\ x.ackSeq \in Nat
  <2>1. CASE x.ackFrame = d.ackFrame /\ x.ackSeq = d.ackSeq
    BY <1>2, <2>1, HeldFields DEF CountedFields
  <2>2. CASE \E r \in d.suppressed :
              /\ r.from = d.ackFrame + 1
              /\ x.ackFrame = r.through /\ x.ackSeq = Larger(d.ackSeq, r.thru)
    <3>1. PICK r \in d.suppressed :
              /\ r.from = d.ackFrame + 1
              /\ x.ackFrame = r.through /\ x.ackSeq = Larger(d.ackSeq, r.thru)
      BY <2>2
    <3>2. /\ r.from \in Nat /\ r.through \in Nat /\ r.thru \in Nat /\ d.ackFrame \in Nat /\ d.ackSeq \in Nat
          /\ r.from <= r.through
      BY <1>2 DEF CountedFields, Counted
    <3> DEFINE p == [id |-> d.ackFrame, thru |-> d.ackSeq]
               q == [id |-> r.through, thru |-> r.thru]
    <3>3. p \in Held(d) /\ q \in Held(d)
      BY HeldFields
    <3>4. p \in P /\ q \in P /\ Monotone(P)
      BY <3>3 DEF Settled
    <3>5. p.id = d.ackFrame /\ p.thru = d.ackSeq /\ q.id = r.through /\ q.thru = r.thru
      OBVIOUS
    <3>6. p.id <= q.id
      BY <3>1, <3>2, <3>5
    <3> HIDE DEF p, q, P
    <3>7. d.ackSeq <= r.thru
      BY <3>4, <3>5, <3>6 DEF Monotone
    <3>8. x.ackSeq = r.thru
      BY <3>1, <3>2, <3>7 DEF Larger
    <3> QED BY <3>1, <3>2, <3>3, <3>7, <3>8 DEF q
  <2> QED BY <1>1, <2>1, <2>2
<1>4. Held(x) \subseteq Held(d)
  <2>1. \A f \in x.inFlight : f \in Held(d)
    BY <1>1, HeldFields
  <2>2. \A r \in x.suppressed : [id |-> r.through, thru |-> r.thru] \in Held(d)
    BY <1>1, HeldFields
  <2> QED BY <1>3, <2>1, <2>2 DEF Held
<1>5. /\ Monotone((Held(x) \cup R) \cup {place}) /\ Within(x, (Held(x) \cup R) \cup {place})
  <2>1. (Held(x) \cup R) \cup {place} \subseteq P
    BY <1>4
  <2>2. Monotone(P) /\ Within(d, P)
    BY DEF Settled
  <2> QED BY <1>1, <2>1, <2>2 DEF Monotone, Within
<1>6. ASSUME NEW o \in R PROVE Answerable(x, Q, o)
  <2>1. Answerable(d, Q, o)
    BY DEF Settled
  <2>2. o.id \in Nat /\ o.thru \in Nat
    BY DEF ReceiptType
  <2>3. CASE o.id <= d.ackFrame /\ o.thru <= d.ackSeq
    BY <1>2, <1>3, <2>2, <2>3 DEF Answerable, CountedFields
  <2>4. CASE o \in d.inFlight /\ o.id \notin Ids(Q)
    BY <1>1, <2>4 DEF Answerable
  <2> QED BY <2>1, <2>3, <2>4 DEF Answerable
<1>7. \A f \in Q : Receipt(f) \in x.inFlight
  BY <1>1 DEF Settled
<1>8. Settled(x, R, place, Q)
  BY <1>5, <1>6, <1>7 DEF Settled
<1> QED BY <1>8 DEF x

LEMMA SettledAck ==
  ASSUME NEW d \in DeliveryType, Counted(d), NEW a \in AckType,
         NEW R \in SUBSET ReceiptType, NEW place \in ReceiptType, Settled(d, R, place, {}),
         [id |-> a.frame, thru |-> a.thru] \in R \cap d.inFlight
  PROVE  Settled(Acknowledged(d, a), R, place, {})
<1> DEFINE x == Acknowledged(d, a)
           P == (Held(d) \cup R) \cup {place}
           m == [id |-> a.frame, thru |-> a.thru]
<1>1. /\ x \in DeliveryType /\ x.sent = d.sent /\ x.next = d.next
      /\ x.ackFrame = a.frame /\ x.ackSeq = a.thru /\ d.ackFrame < a.frame
      /\ x.inFlight = {f \in d.inFlight : f.id > a.frame}
      /\ x.suppressed = {r \in d.suppressed : r.through > a.frame}
  BY AcknowledgedCounts
<1> HIDE DEF x
<1>2. a.frame \in Nat /\ a.thru \in Nat /\ m.id = a.frame /\ m.thru = a.thru /\ m \in P
  BY DEF AckType
<1>3. Held(x) \subseteq P
  <2>1. \A f \in x.inFlight : f \in Held(d)
    BY <1>1, HeldFields
  <2>2. \A r \in x.suppressed : [id |-> r.through, thru |-> r.thru] \in Held(d)
    BY <1>1, HeldFields
  <2>3. [id |-> x.ackFrame, thru |-> x.ackSeq] \in P
    BY <1>1
  <2> QED BY <2>1, <2>2, <2>3, ZenonT(30) DEF Held
<1>4. Monotone(P) /\ Within(d, P)
  BY DEF Settled
<1>5. /\ Monotone((Held(x) \cup R) \cup {place}) /\ Within(x, (Held(x) \cup R) \cup {place})
  <2>1. (Held(x) \cup R) \cup {place} \subseteq P
    BY <1>3
  <2> QED BY <1>1, <1>4, <2>1 DEF Monotone, Within
<1>6. ASSUME NEW o \in R PROVE Answerable(x, {}, o)
  <2>1. o.id \in Nat /\ o.thru \in Nat /\ o \in P
    BY DEF ReceiptType
  <2>2. CASE o.id <= a.frame
    <3>1. o.thru <= a.thru
      <4> HIDE DEF P, m
      <4> QED BY <1>2, <1>4, <2>1, <2>2 DEF Monotone
    <3> QED BY <1>1, <2>2, <3>1 DEF Answerable
  <2>3. CASE ~(o.id <= a.frame)
    <3>1. Answerable(d, {}, o)
      BY DEF Settled
    <3>2. ~(o.id <= d.ackFrame)
      BY <1>1, <1>2, <2>1, <2>3 DEF DeliveryType
    <3>3. o \in d.inFlight /\ o.id > a.frame
      BY <1>2, <2>1, <2>3, <3>1, <3>2 DEF Answerable
    <3>4. o \in x.inFlight /\ o.id \notin Ids({})
      BY <1>1, <3>3 DEF Ids
    <3> QED BY <3>4 DEF Answerable
  <2> QED BY <2>2, <2>3
<1>7. Settled(x, R, place, {})
  BY <1>5, <1>6 DEF Settled
<1> QED BY <1>7 DEF x

LEMMA SettledAnswer ==
  ASSUME NEW d \in DeliveryType, Counted(d), NEW R \in SUBSET ReceiptType,
         NEW place \in ReceiptType, NEW Q \in SUBSET FrameType, Settled(d, R, place, Q),
         NEW frame \in Q, NEW Q2 \in SUBSET Q, \A f \in Q2 : f.id # frame.id
  PROVE  Settled(Answered(d, frame), R, place, Q2)
<1> DEFINE x == Answered(d, frame)
           P == (Held(d) \cup R) \cup {place}
           touching == {r \in d.suppressed : r.through + 1 = frame.id \/ frame.id + 1 = r.from}
<1>0. frame \in FrameType /\ Receipt(frame) \in d.inFlight
      /\ frame.id \in Nat /\ frame.thru \in Nat
      /\ Receipt(frame).id = frame.id /\ Receipt(frame).thru = frame.thru
  BY DEF Settled, Receipt, FrameType
<1>1. /\ x \in DeliveryType /\ Counted(x)
      /\ x.sent = d.sent /\ x.next = d.next /\ x.ackFrame = d.ackFrame /\ x.ackSeq = d.ackSeq
      /\ x.inFlight = {f \in d.inFlight : f.id # frame.id}
      /\ \E m \in RunType :
           /\ Joined(d.suppressed, frame, m)
           /\ x.suppressed = (d.suppressed \ touching) \cup {m}
  BY <1>0, AnsweredCounts
<1> HIDE DEF x
<1>2. PICK m \in RunType : /\ Joined(d.suppressed, frame, m)
                           /\ x.suppressed = (d.suppressed \ touching) \cup {m}
  BY <1>1
<1>3. /\ m.through \in Nat /\ m.thru \in Nat
      /\ \A r \in touching : r.through <= m.through /\ r.thru <= m.thru
      /\ frame.thru <= m.thru
      /\ m.through = frame.id \/ \E r \in touching : frame.id + 1 = r.from /\ m.through = r.through
      /\ m.thru = frame.thru \/ \E r \in touching : m.thru = r.thru
  BY <1>2 DEF Joined, RunType
<1>4. Monotone(P) /\ Within(d, P)
  BY DEF Settled
<1>5. CountedFields(d) /\ \A r \in d.suppressed : r.from <= r.through
  BY DeliveryFields DEF Counted
<1>6. \A r \in d.suppressed : [id |-> r.through, thru |-> r.thru] \in P
  BY HeldFields
<1>7. Receipt(frame) \in P
  BY <1>0, HeldFields
<1>8. \A p, q \in P : p.id <= q.id => p.thru <= q.thru
  BY <1>4 DEF Monotone
<1> HIDE DEF P
<1>9. [id |-> m.through, thru |-> m.thru] \in P
  <2>1. ASSUME NEW top \in d.suppressed, m.through = top.through, frame.id + 1 = top.from
        PROVE m.thru = top.thru
    <3>1. top.through \in Nat /\ top.thru \in Nat /\ top.from \in Nat /\ top.from <= top.through
      BY <1>5 DEF CountedFields
    <3> DEFINE q == [id |-> top.through, thru |-> top.thru]
    <3>2. q \in P /\ q.id = top.through /\ q.thru = top.thru
      BY <1>6
    <3> HIDE DEF q
    <3>3. frame.thru <= top.thru
      <4>1. Receipt(frame).id <= q.id
        BY <1>0, <2>1, <3>1, <3>2
      <4> QED BY <1>0, <1>7, <1>8, <3>2, <4>1
    <3>4. ASSUME NEW r \in touching PROVE r.thru <= top.thru
      <4>1. r \in d.suppressed /\ r.through \in Nat /\ r.thru \in Nat /\ r.through <= m.through
        BY <1>3, <1>5 DEF CountedFields
      <4> DEFINE p == [id |-> r.through, thru |-> r.thru]
      <4>2. p \in P /\ p.id = r.through /\ p.thru = r.thru
        BY <1>6, <4>1
      <4> HIDE DEF p
      <4>3. p.id <= q.id
        BY <2>1, <3>2, <4>1, <4>2
      <4> QED BY <1>8, <3>2, <4>2, <4>3
    <3>5. top \in touching
      BY <2>1
    <3>6. top.thru <= m.thru
      BY <1>3, <3>5
    <3>7. m.thru <= top.thru
      BY <1>3, <3>3, <3>4
    <3> QED BY <1>3, <3>1, <3>6, <3>7
  <2>2. CASE \E r \in touching : frame.id + 1 = r.from /\ m.through = r.through
    <3>1. PICK r \in touching : frame.id + 1 = r.from /\ m.through = r.through
      BY <2>2
    <3>2. r \in d.suppressed /\ m.thru = r.thru
      BY <2>1, <3>1
    <3> QED BY <1>6, <3>1, <3>2
  <2>3. CASE m.through = frame.id /\ ~ \E r \in touching : frame.id + 1 = r.from /\ m.through = r.through
    <3>1. ASSUME NEW r \in touching PROVE r.thru <= frame.thru
      <4>1. r \in d.suppressed /\ r.through \in Nat /\ r.thru \in Nat /\ r.through <= m.through
        BY <1>3, <1>5 DEF CountedFields
      <4> DEFINE p == [id |-> r.through, thru |-> r.thru]
      <4>2. p \in P /\ p.id = r.through /\ p.thru = r.thru
        BY <1>6, <4>1
      <4> HIDE DEF p
      <4>3. p.id <= Receipt(frame).id
        BY <1>0, <2>3, <4>1, <4>2
      <4> QED BY <1>0, <1>7, <1>8, <4>2, <4>3
    <3>2. m.thru <= frame.thru
      BY <1>0, <1>3, <3>1
    <3>3. m.thru = frame.thru
      BY <1>0, <1>3, <3>2
    <3>4. Receipt(frame) = [id |-> m.through, thru |-> m.thru]
      BY <2>3, <3>3 DEF Receipt
    <3> QED BY <1>7, <3>4
  <2> QED BY <1>3, <2>2, <2>3
<1>10. Held(x) \subseteq P
  <2>1. \A f \in x.inFlight : f \in P
    BY <1>1, HeldFields DEF P
  <2>2. \A r \in x.suppressed : [id |-> r.through, thru |-> r.thru] \in P
    BY <1>2, <1>6, <1>9
  <2>3. [id |-> x.ackFrame, thru |-> x.ackSeq] \in P
    BY <1>1, HeldFields DEF P
  <2> QED BY <2>1, <2>2, <2>3 DEF Held
<1>11. /\ Monotone((Held(x) \cup R) \cup {place}) /\ Within(x, (Held(x) \cup R) \cup {place})
  <2>1. (Held(x) \cup R) \cup {place} \subseteq P
    BY <1>10 DEF P
  <2> QED BY <1>1, <1>4, <2>1 DEF Monotone, Within
<1>12. ASSUME NEW o \in R PROVE Answerable(x, Q2, o)
  <2>1. Answerable(d, Q, o)
    BY DEF Settled
  <2>2. CASE o \in d.inFlight /\ o.id \notin Ids(Q)
    <3>1. o.id # frame.id
      BY <2>2 DEF Ids
    <3>2. o \in x.inFlight /\ o.id \notin Ids(Q2)
      BY <1>1, <2>2, <3>1 DEF Ids
    <3> QED BY <3>2 DEF Answerable
  <2>3. CASE o.id <= d.ackFrame /\ o.thru <= d.ackSeq
    BY <1>1, <2>3 DEF Answerable
  <2> QED BY <2>1, <2>2, <2>3 DEF Answerable
<1>13. ASSUME NEW f \in Q2 PROVE Receipt(f) \in x.inFlight
  <2>1. f \in Q /\ Receipt(f).id = f.id
    BY DEF Receipt
  <2>2. Receipt(f) \in d.inFlight /\ f.id # frame.id
    BY <2>1 DEF Settled
  <2> QED BY <1>1, <2>1, <2>2
<1>14. Settled(x, R, place, Q2)
  BY <1>11, <1>12, <1>13 DEF Settled
<1> QED BY <1>14 DEF x

LEMMA SettledOut ==
  ASSUME NEW d, NEW R, NEW place, NEW Q, Settled(d, R, place, Q),
         NEW frame \in Q, NEW Q2 \in SUBSET Q, \A f \in Q2 : f.id # frame.id
  PROVE  Settled(d, R \cup {Receipt(frame)}, place, Q2)
<1>1. Receipt(frame) \in d.inFlight /\ Receipt(frame).id = frame.id
  BY DEF Settled, Receipt
<1>2. (Held(d) \cup (R \cup {Receipt(frame)})) \cup {place} = (Held(d) \cup R) \cup {place}
  BY <1>1 DEF Held
<1>3. Receipt(frame).id \notin Ids(Q2)
  BY <1>1 DEF Ids
<1>4. \A o \in R : Answerable(d, Q2, o)
  BY DEF Settled, Answerable, Ids
<1>5. Answerable(d, Q2, Receipt(frame))
  BY <1>1, <1>3 DEF Answerable
<1> QED BY <1>2, <1>4, <1>5 DEF Settled

-----------------------------------------------------------------------------
(* What is on its way stays on its way. *)

LEMMA TrackedEmits ==
  ASSUME NEW d \in DeliveryType, Counted(d), NEW x, NEW e, Emits(d, x, e),
         NEW M \in SUBSET Nat, NEW F \in SUBSET FrameType, NEW F2, Tracked(d, F, M),
         \A f \in F : f.id < d.next /\ (f.event.seq \in M => f \in F2),
         \A i \in 1 .. Len(e) : d.sent < e[i].seq => Frames(d, e)[i] \in F2,
         \A n \in M : d.sent < n /\ n <= x.sent => \E i \in 1 .. Len(e) : e[i].seq = n
  PROVE  Tracked(x, F2, M)
<1> DEFINE fs == Frames(d, e)
           new == {Receipt(fs[i]) : i \in 1 .. Len(e)}
<1>1. /\ x \in DeliveryType /\ e \in Seq(EventType) /\ Rising(e)
      /\ x.ackSeq = d.ackSeq /\ x.suppressed = d.suppressed
      /\ x.inFlight = d.inFlight \cup new /\ d.sent <= x.sent
  BY Emitted
<1>2. /\ Len(e) \in Nat /\ DOMAIN e = 1 .. Len(e)
      /\ \A i \in 1 .. Len(e) : /\ fs[i].id = d.next + i - 1 /\ fs[i].event = e[i] /\ e[i] \in EventType
                                /\ fs[i].thru = Larger(d.sent, e[i].seq) /\ fs[i] \in FrameType
  BY <1>1, FramesOfEvents, LenProperties
<1>3. CountedFields(d) /\ \A i \in 1 .. Len(e) : e[i].seq \in Nat
  BY <1>2, DeliveryFields DEF EventType
<1>4. \A f \in F : f.id \in Nat
  BY DEF FrameType
<1>5. \A i \in 1 .. Len(e) : d.sent < e[i].seq => fs[i] \in F2
  OBVIOUS
<1> HIDE DEF fs
<1>6. \A i \in 1 .. Len(e) : Receipt(fs[i]).id = d.next + i - 1 /\ Receipt(fs[i]).thru = fs[i].thru
  BY <1>2 DEF Receipt
<1>7. ASSUME NEW n \in M
      PROVE /\ n > x.ackSeq
            /\ n <= x.sent => \E f \in F2 : f.event.seq = n
            /\ \A g \in x.inFlight :
                 n <= g.thru => \E f \in F2 : f.event.seq = n /\ f.id <= g.id
            /\ \A r \in x.suppressed :
                 n <= r.thru => \E f \in F2 : f.event.seq = n /\ f.id < r.from
  <2>0. n \in Nat
    OBVIOUS
  <2>1. n > x.ackSeq
    BY <1>1 DEF Tracked
  <2>2. ASSUME NEW f \in F, f.event.seq = n PROVE f \in F2 /\ f.id < d.next
    BY <2>2
  <2>3. n <= d.sent => \E f \in F2 : f.event.seq = n /\ f.id < d.next /\ f.id \in Nat
    BY <1>4, <2>2 DEF Tracked
  <2>4. ASSUME d.sent < n, NEW k \in 1 .. Len(e), n <= e[k].seq, n <= x.sent
        PROVE \E i \in 1 .. Len(e) : e[i].seq = n /\ fs[i] \in F2 /\ i <= k
    <3>1. PICK i \in 1 .. Len(e) : e[i].seq = n
      BY <2>4
    <3>2. CASE i <= k
      BY <1>5, <2>4, <3>1, <3>2
    <3>3. CASE ~(i <= k)
      <4>1. e[k].seq <= e[i].seq
        BY <1>1, <1>2, <3>3, SMTT(30) DEF Rising
      <4>2. e[k].seq = n
        BY <1>3, <2>0, <2>4, <3>1, <4>1
      <4> QED BY <1>2, <1>5, <2>4, <4>2
    <3> QED BY <3>2, <3>3
  <2>5. n <= x.sent => \E f \in F2 : f.event.seq = n
    <3>1. CASE n <= d.sent
      BY <2>3, <3>1
    <3>2. ASSUME ~(n <= d.sent), n <= x.sent PROVE \E f \in F2 : f.event.seq = n
      <4>1. d.sent < n
        BY <1>3, <2>0, <3>2 DEF CountedFields
      <4>2. PICK i \in 1 .. Len(e) : e[i].seq = n
        BY <3>2, <4>1
      <4>3. fs[i] \in F2 /\ fs[i].event.seq = n
        BY <1>2, <1>5, <4>1, <4>2
      <4> QED BY <4>3
    <3> QED BY <3>1, <3>2
  <2>6. ASSUME NEW g \in d.inFlight, n <= g.thru
        PROVE \E f \in F2 : f.event.seq = n /\ f.id <= g.id
    BY <2>2, <2>6 DEF Tracked
  <2>7. ASSUME NEW g \in new, n <= g.thru
        PROVE \E f \in F2 : f.event.seq = n /\ f.id <= g.id
    <3>1. PICK k \in 1 .. Len(e) : g = Receipt(fs[k])
      OBVIOUS
    <3>2. g.id = d.next + k - 1 /\ g.thru = Larger(d.sent, e[k].seq)
      BY <1>2, <1>6, <3>1
    <3>3. CASE n <= d.sent
      <4>1. PICK f \in F2 : f.event.seq = n /\ f.id < d.next /\ f.id \in Nat
        BY <2>3, <3>3
      <4>2. f.id <= g.id
        BY <1>2, <1>3, <3>2, <4>1 DEF CountedFields
      <4> QED BY <4>1, <4>2
    <3>4. CASE ~(n <= d.sent)
      <4>1. d.sent < n /\ n <= e[k].seq
        BY <1>3, <2>0, <2>7, <3>2, <3>4 DEF CountedFields, Larger
      <4>2. n <= x.sent
        <5>1. fs[k].thru <= x.sent /\ fs[k].thru = Larger(d.sent, e[k].seq)
          BY <1>2, Emitted DEF fs
        <5> QED BY <1>1, <1>3, <2>0, <4>1, <5>1, SMTT(30) DEF CountedFields, Larger, DeliveryType
      <4>3. PICK i \in 1 .. Len(e) : e[i].seq = n /\ fs[i] \in F2 /\ i <= k
        BY <2>4, <4>1, <4>2
      <4>4. fs[i].event.seq = n /\ fs[i].id <= g.id
        BY <1>2, <1>3, <3>2, <4>3, SMTT(30) DEF CountedFields
      <4> QED BY <4>3, <4>4
    <3> QED BY <3>3, <3>4
  <2>8. ASSUME NEW r \in d.suppressed, n <= r.thru
        PROVE \E f \in F2 : f.event.seq = n /\ f.id < r.from
    BY <2>2, <2>8 DEF Tracked
  <2> HIDE DEF new
  <2> QED BY <1>1, <2>1, <2>5, <2>6, <2>7, <2>8
<1> QED BY <1>7 DEF Tracked

LEMMA TrackedAck ==
  ASSUME NEW d \in DeliveryType, Counted(d), NEW a \in AckType,
         [id |-> a.frame, thru |-> a.thru] \in d.inFlight,
         NEW F, NEW M, Tracked(d, F, M), \A n \in M : n > a.thru
  PROVE  Tracked(Acknowledged(d, a), F, M)
<1> DEFINE x == Acknowledged(d, a)
<1>1. /\ x.sent = d.sent /\ x.ackSeq = a.thru
      /\ x.inFlight = {f \in d.inFlight : f.id > a.frame}
      /\ x.suppressed = {r \in d.suppressed : r.through > a.frame}
  BY AcknowledgedCounts
<1> HIDE DEF x
<1>2. Tracked(x, F, M)
  BY <1>1 DEF Tracked
<1> QED BY <1>2 DEF x

\* A frame is acknowledged, or in flight.
Standing(d, f) == (f.id <= d.ackFrame /\ f.thru <= d.ackSeq) \/ Receipt(f) \in d.inFlight

LEMMA TrackedAdvance ==
  ASSUME NEW d \in DeliveryType, Counted(d), NEW M \in SUBSET Nat, NEW F \in SUBSET FrameType,
         Tracked(d, F, M), \A f \in F : Standing(d, f) /\ f.event.seq <= f.thru
  PROVE  Tracked(AdvanceSuppressedReceipts(d), F, M)
<1> DEFINE x == AdvanceSuppressedReceipts(d)
<1>1. /\ x.sent = d.sent /\ x.inFlight = d.inFlight
      /\ x.suppressed \subseteq d.suppressed
      /\ \/ x.ackFrame = d.ackFrame /\ x.ackSeq = d.ackSeq
         \/ \E r \in d.suppressed :
              /\ r.from = d.ackFrame + 1
              /\ x.ackFrame = r.through /\ x.ackSeq = Larger(d.ackSeq, r.thru)
  BY AdvanceKeeps
<1> HIDE DEF x
<1>2. CountedFields(d) /\ \A f \in F : f.id \in Nat /\ f.thru \in Nat /\ f.event.seq \in Nat
  BY DeliveryFields DEF FrameType, EventType
<1>3. ASSUME NEW n \in M PROVE n > x.ackSeq
  <2>0. n \in Nat /\ n > d.ackSeq
    BY DEF Tracked
  <2>1. CASE x.ackSeq = d.ackSeq
    BY <2>0, <2>1
  <2>2. CASE \E r \in d.suppressed :
              /\ r.from = d.ackFrame + 1
              /\ x.ackFrame = r.through /\ x.ackSeq = Larger(d.ackSeq, r.thru)
    <3>1. PICK r \in d.suppressed : r.from = d.ackFrame + 1 /\ x.ackSeq = Larger(d.ackSeq, r.thru)
      BY <2>2
    <3>2. r.thru \in Nat /\ d.ackSeq \in Nat /\ d.ackFrame \in Nat
      BY <1>2 DEF CountedFields
    <3>3. ASSUME n <= r.thru PROVE FALSE
      <4>1. PICK f \in F : f.event.seq = n /\ f.id < r.from
        BY <3>3 DEF Tracked
      <4>2. f.id <= d.ackFrame
        BY <1>2, <3>1, <3>2, <4>1
      <4>3. Receipt(f) \notin d.inFlight
        <5>1. Receipt(f).id = f.id
          BY DEF Receipt
        <5>2. \A g \in d.inFlight : d.ackFrame < g.id /\ g.id \in Nat
          BY <1>2 DEF Counted, CountedFields
        <5> QED BY <1>2, <3>2, <4>2, <5>1, <5>2
      <4>4. f.event.seq <= f.thru /\ f.thru <= d.ackSeq
        BY <4>3 DEF Standing
      <4> QED BY <1>2, <2>0, <3>2, <4>1, <4>4
    <3> QED BY <2>0, <3>1, <3>2, <3>3 DEF Larger
  <2> QED BY <1>1, <2>1, <2>2
<1>4. Tracked(x, F, M)
  BY <1>1, <1>3 DEF Tracked
<1> QED BY <1>4 DEF x

LEMMA TrackedAnswer ==
  ASSUME NEW d \in DeliveryType, Counted(d), NEW M \in SUBSET Nat, NEW F \in SUBSET FrameType,
         Tracked(d, F, M), \A f \in F : Standing(d, f),
         NEW frame \in FrameType, Receipt(frame) \in d.inFlight,
         NEW F2, \A f \in F : f.event.seq \in M => f \in F2 /\ f.id # frame.id
  PROVE  Tracked(Answered(d, frame), F2, M)
<1> DEFINE x == Answered(d, frame)
           touching == {r \in d.suppressed : r.through + 1 = frame.id \/ frame.id + 1 = r.from}
<1>0. /\ frame.id \in Nat /\ frame.thru \in Nat
      /\ Receipt(frame).id = frame.id /\ Receipt(frame).thru = frame.thru
  BY DEF Receipt, FrameType
<1>1. /\ x.sent = d.sent /\ x.ackFrame = d.ackFrame /\ x.ackSeq = d.ackSeq
      /\ x.inFlight = {f \in d.inFlight : f.id # frame.id}
      /\ \E m \in RunType :
           /\ Joined(d.suppressed, frame, m)
           /\ x.suppressed = (d.suppressed \ touching) \cup {m}
  BY AnsweredCounts
<1> HIDE DEF x
<1>2. PICK m \in RunType : /\ Joined(d.suppressed, frame, m)
                           /\ x.suppressed = (d.suppressed \ touching) \cup {m}
  BY <1>1
<1>3. /\ m.from \in Nat
      /\ m.from = frame.id \/ \E r \in touching : r.through + 1 = frame.id /\ m.from = r.from
      /\ m.thru = frame.thru \/ \E r \in touching : m.thru = r.thru
  BY <1>2 DEF Joined, RunType
<1>4. CountedFields(d) /\ \A r \in d.suppressed : r.from <= r.through
  BY DeliveryFields DEF Counted
<1>5. \A f \in F : f.id \in Nat
  BY DEF FrameType
<1>6. ASSUME NEW n \in M, NEW f \in F, f.event.seq = n, f.id <= frame.id
      PROVE f \in F2 /\ f.id < m.from
  <2>1. f \in F2 /\ f.id # frame.id /\ f.id < frame.id
    BY <1>0, <1>5, <1>6
  <2>2. CASE m.from = frame.id
    BY <2>1, <2>2
  <2>3. CASE \E r \in touching : r.through + 1 = frame.id /\ m.from = r.from
    <3>1. PICK r \in touching : r.through + 1 = frame.id /\ m.from = r.from
      BY <2>3
    <3>2. r \in d.suppressed /\ r.from \in Nat /\ r.through \in Nat /\ d.ackFrame \in Nat
          /\ d.ackFrame < r.from
      BY <1>4 DEF CountedFields, Counted
    <3>3. CASE Receipt(f) \in d.inFlight
      <4>1. Receipt(f).id < r.from \/ r.through < Receipt(f).id
        BY <3>2, <3>3 DEF Counted
      <4>2. Receipt(f).id = f.id
        BY DEF Receipt
      <4> QED BY <1>0, <1>5, <2>1, <3>1, <3>2, <4>1, <4>2
    <3>4. CASE f.id <= d.ackFrame
      BY <1>5, <2>1, <3>1, <3>2, <3>4
    <3> QED BY <3>3, <3>4 DEF Standing
  <2> QED BY <1>3, <2>2, <2>3
<1>7. ASSUME NEW n \in M
      PROVE /\ n > x.ackSeq
            /\ n <= x.sent => \E f \in F2 : f.event.seq = n
            /\ \A g \in x.inFlight :
                 n <= g.thru => \E f \in F2 : f.event.seq = n /\ f.id <= g.id
            /\ \A r \in x.suppressed :
                 n <= r.thru => \E f \in F2 : f.event.seq = n /\ f.id < r.from
  <2>1. n > x.ackSeq
    BY <1>1 DEF Tracked
  <2>2. n <= x.sent => \E f \in F2 : f.event.seq = n
    BY <1>1 DEF Tracked
  <2>3. ASSUME NEW g \in x.inFlight, n <= g.thru
        PROVE \E f \in F2 : f.event.seq = n /\ f.id <= g.id
    BY <1>1, <2>3 DEF Tracked
  <2>4. ASSUME NEW r \in d.suppressed, n <= r.thru
        PROVE \E f \in F : f.event.seq = n /\ f.id < r.from
    BY <2>4 DEF Tracked
  <2>5. ASSUME NEW r \in d.suppressed \ touching, n <= r.thru
        PROVE \E f \in F2 : f.event.seq = n /\ f.id < r.from
    BY <2>4, <2>5
  <2>6. ASSUME n <= m.thru
        PROVE \E f \in F2 : f.event.seq = n /\ f.id < m.from
    <3>1. CASE m.thru = frame.thru
      <4>1. PICK f \in F : f.event.seq = n /\ f.id <= frame.id
        BY <1>0, <2>6, <3>1 DEF Tracked
      <4> QED BY <1>6, <4>1
    <3>2. CASE \E r \in touching : m.thru = r.thru
      <4>1. PICK r \in touching : m.thru = r.thru
        BY <3>2
      <4>2. PICK f \in F : f.event.seq = n /\ f.id < r.from
        BY <2>4, <2>6, <4>1
      <4>3. f.id <= frame.id
        <5>1. r.from \in Nat /\ r.through \in Nat /\ r.from <= r.through
          BY <1>4 DEF CountedFields
        <5>2. r.through + 1 = frame.id \/ frame.id + 1 = r.from
          OBVIOUS
        <5> QED BY <1>0, <1>5, <4>2, <5>1, <5>2
      <4> QED BY <1>6, <4>2, <4>3
    <3> QED BY <1>3, <3>1, <3>2
  <2> HIDE DEF touching
  <2> QED BY <1>2, <2>1, <2>2, <2>3, <2>5, <2>6
<1>8. Tracked(x, F2, M)
  BY <1>7 DEF Tracked
<1> QED BY <1>8 DEF x

LEMMA CarriedTail ==
  ASSUME NEW line \in Seq(FrameType), line # <<>>, NEW M, Carried(line, M),
         NEW M2 \in SUBSET M, line[1].event.seq \notin M2
  PROVE  Carried(Tail(line), M2)
<1>1. /\ Len(line) \in Nat \ {0} /\ DOMAIN line = 1 .. Len(line)
      /\ DOMAIN Tail(line) = 1 .. Len(line) - 1
      /\ \A i \in 1 .. Len(line) - 1 : Tail(line)[i] = line[i + 1]
  BY HeadTail
<1>2. ASSUME NEW j \in 1 .. Len(line) - 1, NEW n \in M2, n <= Tail(line)[j].thru
      PROVE \E i \in 1 .. j : Tail(line)[i].event.seq = n
  <2>1. j + 1 \in 1 .. Len(line) /\ Tail(line)[j] = line[j + 1]
    BY <1>1
  <2>2. PICK i \in 1 .. j + 1 : line[i].event.seq = n
    BY <1>1, <1>2, <2>1 DEF Carried
  <2>3. i # 1
    BY <2>2
  <2>4. i - 1 \in 1 .. j /\ i - 1 \in 1 .. Len(line) - 1 /\ (i - 1) + 1 = i
    BY <1>1, <2>3
  <2>5. Tail(line)[i - 1] = line[i]
    BY <1>1, <2>4
  <2> QED BY <2>2, <2>4, <2>5
<1> QED BY <1>1, <1>2 DEF Carried

LEMMA CarriedConcat ==
  ASSUME NEW s \in Seq(FrameType), NEW t \in Seq(FrameType), NEW M, Carried(s, M),
         \A j \in 1 .. Len(t), n \in M :
           n <= t[j].thru => (\E f \in Members(s) : f.event.seq = n)
                             \/ \E i \in 1 .. j : t[i].event.seq = n
  PROVE  Carried(s \o t, M)
<1> DEFINE u == s \o t
<1>1. /\ u \in Seq(FrameType) /\ Len(u) = Len(s) + Len(t)
      /\ \A i \in 1 .. Len(s) + Len(t) : u[i] = IF i <= Len(s) THEN s[i] ELSE t[i - Len(s)]
  BY ConcatProperties
<1> HIDE DEF u
<1>2. /\ Len(s) \in Nat /\ Len(t) \in Nat /\ DOMAIN u = 1 .. Len(s) + Len(t)
      /\ DOMAIN s = 1 .. Len(s)
  BY <1>1, LenProperties
<1>3. ASSUME NEW j \in 1 .. Len(s) + Len(t), NEW n \in M, n <= u[j].thru
      PROVE \E i \in 1 .. j : u[i].event.seq = n
  <2>1. CASE j <= Len(s)
    <3>1. j \in DOMAIN s /\ u[j] = s[j]
      BY <1>1, <1>2, <2>1
    <3>2. PICK i \in 1 .. j : s[i].event.seq = n
      BY <1>3, <3>1 DEF Carried
    <3>3. i \in 1 .. Len(s) + Len(t) /\ i <= Len(s)
      BY <1>2, <2>1
    <3> QED BY <1>1, <3>2, <3>3
  <2>2. CASE ~(j <= Len(s))
    <3>1. j - Len(s) \in 1 .. Len(t) /\ u[j] = t[j - Len(s)]
      BY <1>1, <1>2, <2>2
    <3>2. CASE \E f \in Members(s) : f.event.seq = n
      <4>1. PICK i \in 1 .. Len(s) : s[i].event.seq = n
        BY <1>2, <3>2 DEF Members
      <4>2. i \in 1 .. j /\ i \in 1 .. Len(s) + Len(t) /\ i <= Len(s)
        BY <1>2, <2>2
      <4> QED BY <1>1, <4>1, <4>2
    <3>3. CASE \E i \in 1 .. j - Len(s) : t[i].event.seq = n
      <4>1. PICK i \in 1 .. j - Len(s) : t[i].event.seq = n
        BY <3>3
      <4>2. /\ Len(s) + i \in 1 .. j /\ Len(s) + i \in 1 .. Len(s) + Len(t)
            /\ ~(Len(s) + i <= Len(s)) /\ (Len(s) + i) - Len(s) = i
        BY <1>2, <2>2, <3>1
      <4>3. u[Len(s) + i] = t[i]
        BY <1>1, <4>2
      <4> QED BY <4>1, <4>2, <4>3
    <3> QED BY <1>3, <3>1, <3>2, <3>3
  <2> QED BY <2>1, <2>2
<1>4. Carried(u, M)
  BY <1>2, <1>3 DEF Carried
<1> QED BY <1>4 DEF u

LEMMA CarriedPrefix ==
  ASSUME NEW s \in Seq(FrameType), NEW t \in Seq(FrameType), NEW M, Carried(s \o t, M)
  PROVE  Carried(s, M)
<1> DEFINE u == s \o t
<1>1. /\ u \in Seq(FrameType) /\ Len(u) = Len(s) + Len(t)
      /\ \A i \in 1 .. Len(s) + Len(t) : u[i] = IF i <= Len(s) THEN s[i] ELSE t[i - Len(s)]
  BY ConcatProperties
<1>2. Carried(u, M)
  OBVIOUS
<1> HIDE DEF u
<1>3. /\ Len(s) \in Nat /\ Len(t) \in Nat /\ DOMAIN u = 1 .. Len(s) + Len(t)
      /\ DOMAIN s = 1 .. Len(s)
  BY <1>1, LenProperties
<1>4. \A i \in 1 .. Len(s) : i \in DOMAIN u /\ u[i] = s[i]
  BY <1>1, <1>3
<1>5. ASSUME NEW j \in 1 .. Len(s), NEW n \in M, n <= s[j].thru
      PROVE \E i \in 1 .. j : s[i].event.seq = n
  <2>1. PICK i \in 1 .. j : u[i].event.seq = n
    BY <1>2, <1>4, <1>5 DEF Carried
  <2>2. i \in 1 .. Len(s)
    BY <1>3
  <2> QED BY <1>4, <2>1, <2>2
<1> QED BY <1>3, <1>5 DEF Carried

LEMMA CarriedWithout ==
  ASSUME NEW s \in Seq(FrameType), NEW t \in Seq(FrameType), t # <<>>, NEW M, Carried(s \o t, M),
         t[1].event.seq \notin M
  PROVE  Carried(s \o Tail(t), M)
<1> DEFINE u == s \o t
           v == s \o Tail(t)
<1>0. /\ Tail(t) \in Seq(FrameType) /\ Len(Tail(t)) = Len(t) - 1 /\ Len(t) \in Nat \ {0}
      /\ \A i \in 1 .. Len(t) - 1 : Tail(t)[i] = t[i + 1]
  BY HeadTail
<1>1. /\ u \in Seq(FrameType) /\ Len(u) = Len(s) + Len(t)
      /\ \A i \in 1 .. Len(s) + Len(t) : u[i] = IF i <= Len(s) THEN s[i] ELSE t[i - Len(s)]
  BY ConcatProperties
<1>2. /\ v \in Seq(FrameType) /\ Len(v) = Len(s) + Len(Tail(t))
      /\ \A i \in 1 .. Len(s) + Len(Tail(t)) : v[i] = IF i <= Len(s) THEN s[i] ELSE Tail(t)[i - Len(s)]
  BY <1>0, ConcatProperties
<1>3. Carried(u, M)
  OBVIOUS
<1> HIDE DEF u, v
<1>4. /\ Len(s) \in Nat /\ DOMAIN u = 1 .. Len(s) + Len(t) /\ DOMAIN v = 1 .. (Len(s) + Len(t)) - 1
  BY <1>0, <1>1, <1>2, LenProperties
<1>5. ASSUME NEW i \in 1 .. (Len(s) + Len(t)) - 1
      PROVE /\ i <= Len(s) => v[i] = u[i] /\ i \in DOMAIN u
            /\ ~(i <= Len(s)) => v[i] = u[i + 1] /\ i + 1 \in DOMAIN u
  <2>1. i \in 1 .. Len(s) + Len(Tail(t)) /\ i \in 1 .. Len(s) + Len(t) /\ i + 1 \in 1 .. Len(s) + Len(t)
    BY <1>0, <1>4
  <2>2. CASE i <= Len(s)
    BY <1>1, <1>2, <1>4, <2>1, <2>2
  <2>3. CASE ~(i <= Len(s))
    <3>1. i - Len(s) \in 1 .. Len(t) - 1 /\ ~(i + 1 <= Len(s)) /\ (i + 1) - Len(s) = (i - Len(s)) + 1
      BY <1>0, <1>4, <2>3
    <3>2. v[i] = Tail(t)[i - Len(s)] /\ Tail(t)[i - Len(s)] = t[(i - Len(s)) + 1]
      BY <1>0, <1>2, <2>1, <2>3, <3>1
    <3>3. u[i + 1] = t[(i + 1) - Len(s)]
      BY <1>1, <2>1, <3>1
    <3> QED BY <1>4, <2>1, <2>3, <3>1, <3>2, <3>3
  <2> QED BY <2>2, <2>3
<1>6. u[Len(s) + 1] = t[1]
  <2>1. Len(s) + 1 \in 1 .. Len(s) + Len(t) /\ ~(Len(s) + 1 <= Len(s)) /\ (Len(s) + 1) - Len(s) = 1
    BY <1>0, <1>4
  <2> QED BY <1>1, <2>1
<1>7. ASSUME NEW j \in 1 .. (Len(s) + Len(t)) - 1, NEW n \in M, n <= v[j].thru
      PROVE \E i \in 1 .. j : v[i].event.seq = n
  <2>0. j \in Nat /\ Len(s) \in Nat /\ Len(t) \in Nat
    BY <1>0, <1>4
  <2>1. CASE j <= Len(s)
    <3>1. PICK i \in 1 .. j : u[i].event.seq = n
      BY <1>3, <1>5, <1>7, <2>1 DEF Carried
    <3>2. i \in 1 .. (Len(s) + Len(t)) - 1 /\ i <= Len(s)
      BY <2>0, <2>1
    <3> QED BY <1>5, <3>1, <3>2
  <2>2. CASE ~(j <= Len(s))
    <3>1. PICK i \in 1 .. j + 1 : u[i].event.seq = n
      BY <1>3, <1>5, <1>7, <2>2 DEF Carried
    <3>2. i # Len(s) + 1
      BY <1>6, <3>1
    <3>3. CASE i <= Len(s)
      <4>1. i \in 1 .. (Len(s) + Len(t)) - 1 /\ i \in 1 .. j
        BY <2>0, <2>2, <3>3
      <4> QED BY <1>5, <3>1, <3>3, <4>1
    <3>4. CASE ~(i <= Len(s))
      <4>1. /\ i - 1 \in 1 .. (Len(s) + Len(t)) - 1 /\ i - 1 \in 1 .. j /\ ~(i - 1 <= Len(s))
            /\ (i - 1) + 1 = i
        BY <2>0, <2>2, <3>2, <3>4
      <4>2. v[i - 1] = u[i]
        BY <1>5, <4>1
      <4> QED BY <3>1, <4>1, <4>2
    <3> QED BY <3>3, <3>4
  <2> QED BY <2>1, <2>2
<1>8. Carried(v, M)
  BY <1>4, <1>7 DEF Carried
<1> QED BY <1>8 DEF v

-----------------------------------------------------------------------------
(* What an invariant of the delivery depends on. *)

LEMMA CheckpointSame ==
  ASSUME NEW d \in DeliveryType
  PROVE  LET x == Checkpoint(d) IN
         /\ x \in DeliveryType /\ x.pending = <<>> /\ x.sent = d.sent /\ Buffered(x)
         /\ Capacity(x) = Capacity(d) /\ Checkpoint(x) = x
         /\ (Counted(d) => Counted(x))
         /\ \A R, place, Q : Settled(d, R, place, Q) => Settled(x, R, place, Q)
         /\ \A F, M : Tracked(d, F, M) => Tracked(x, F, M)
<1> DEFINE x == Checkpoint(d)
<1>1. <<>> \in Seq(EventType)
  OBVIOUS
<1>2. x \in DeliveryType /\ x.pending = <<>> /\ x = [d EXCEPT !.pending = <<>>]
  BY <1>1 DEF Checkpoint, DeliveryType
<1>3. /\ x.ackSeq = d.ackSeq /\ x.ackFrame = d.ackFrame /\ x.sent = d.sent /\ x.next = d.next
      /\ x.inFlight = d.inFlight /\ x.suppressed = d.suppressed
  BY DEF Checkpoint, DeliveryType
<1>4. Checkpoint(x) = x
  BY <1>2 DEF Checkpoint, DeliveryType
<1> HIDE DEF x
<1>5. Held(x) = Held(d)
  BY <1>3 DEF Held
<1>6. Buffered(x) /\ Capacity(x) = Capacity(d)
  BY <1>2, <1>3 DEF Buffered, Capacity
<1>7. Counted(d) => Counted(x)
  BY <1>3 DEF Counted
<1>8. ASSUME NEW R, NEW place, NEW Q, Settled(d, R, place, Q) PROVE Settled(x, R, place, Q)
  BY <1>3, <1>5, <1>8 DEF Settled, Answerable, Within
<1>9. ASSUME NEW F, NEW M, Tracked(d, F, M) PROVE Tracked(x, F, M)
  BY <1>3, <1>9 DEF Tracked
<1>10. /\ x \in DeliveryType /\ x.pending = <<>> /\ x.sent = d.sent /\ Buffered(x)
       /\ Capacity(x) = Capacity(d) /\ Checkpoint(x) = x
       /\ (Counted(d) => Counted(x))
       /\ \A R, place, Q : Settled(d, R, place, Q) => Settled(x, R, place, Q)
       /\ \A F, M : Tracked(d, F, M) => Tracked(x, F, M)
  BY <1>2, <1>3, <1>4, <1>6, <1>7, <1>8, <1>9
<1> QED BY <1>10 DEF x

LEMMA TrackedLess ==
  ASSUME NEW d, NEW F, NEW M, Tracked(d, F, M), NEW F2, NEW M2 \in SUBSET M,
         \A f \in F : f.event.seq \in M2 => f \in F2
  PROVE  Tracked(d, F2, M2)
BY DEF Tracked

LEMMA CarriedLess ==
  ASSUME NEW line, NEW M, Carried(line, M), NEW M2 \in SUBSET M
  PROVE  Carried(line, M2)
BY DEF Carried

LEMMA Stands ==
  ASSUME NEW d \in DeliveryType, NEW R, NEW place, NEW Q, Settled(d, R, place, Q),
         NEW f \in FrameType, Receipt(f) \in R \/ f \in Q
  PROVE  Standing(d, f) /\ (Receipt(f) \in R => f.id < d.next)
<1>1. Receipt(f).id = f.id /\ Receipt(f).thru = f.thru
  BY DEF Receipt
<1>2. ASSUME Receipt(f) \in R PROVE Standing(d, f)
  <2>1. Answerable(d, Q, Receipt(f)) /\ Receipt(f).id < d.next
    BY <1>2 DEF Settled, Within
  <2> QED BY <1>1, <2>1 DEF Answerable, Standing
<1>3. ASSUME f \in Q PROVE Standing(d, f)
  BY <1>3 DEF Settled, Standing
<1>4. Receipt(f) \in R => f.id < d.next
  BY <1>1 DEF Settled, Within
<1> QED BY <1>2, <1>3, <1>4

-----------------------------------------------------------------------------
(* What a result plans. *)

\* How the events of a page or a publication follow what was sent.
Continuing(d, e, M) ==
  \A i \in 1 .. Len(e), n \in M :
    d.sent < n /\ n <= e[i].seq => \E k \in 1 .. i : e[k].seq = n

\* The plan of a result in front of the actions s that wait, and its receipts.
PlansOut(d, r, e, changed, more, s, R, place) ==
  LET t  == r.acts \o s
      fs == Frames(d, e) IN
  /\ r.acts \in Seq(LaterType)
  /\ Planned(t, r.acts, fs, r.d.sent, more /\ r.acts # <<Close("lagged")>>, s)
  /\ Settled(r.d, R, place, Queued(t))
  /\ r.d.sent \in Nat /\ fs \in Seq(FrameType)
  /\ r.acts = <<Close("lagged")>> \/ r.acts = ActsOf(fs, r.d.sent, changed, more)
  /\ ActsOf(fs, r.d.sent, changed, more) # <<Close("lagged")>>
  /\ changed /\ r.acts # <<Close("lagged")>> => Begins(t, Persist)
  /\ r.acts # <<Close("lagged")>> /\ fs # <<>> => Begins(t, Persist)
  /\ r.acts = <<Close("lagged")>> => Begins(t, Close("lagged"))

LEMMA SendsPlanned ==
  ASSUME NEW d \in DeliveryType, Counted(d),
         NEW r, NEW e, NEW changed, NEW more, Sends(d, r, e, changed, more),
         NEW s \in Seq(LaterType), Ephemeral(s), Apart(s),
         NEW R \in SUBSET ReceiptType, NEW place \in ReceiptType,
         Settled(d, R, place, Queued(s))
  PROVE  PlansOut(d, r, e, changed, more, s, R, place)
<1> DEFINE x  == r.d
           t  == r.acts \o s
           fs == Frames(d, e)
           c  == <<Close("lagged")>>
           acts == ActsOf(fs, x.sent, changed, more)
<1>1. /\ Emits(d, x, e) /\ changed \in BOOLEAN /\ more \in BOOLEAN
      /\ r.acts = c \/ r.acts = acts
  BY DEF Sends
<1>2. x \in DeliveryType /\ e \in Seq(EventType) /\ Rising(e) /\ x.sent \in Nat
  BY <1>1, Emitted DEF DeliveryType
<1>3. /\ fs \in Seq(FrameType) /\ DOMAIN fs = 1 .. Len(e) /\ Len(e) \in Nat
      /\ \A i \in 1 .. Len(e) : fs[i].id = d.next + i - 1
  BY <1>2, FramesOfEvents
<1>4. d.next \in Nat
  BY DEF DeliveryType
<1>5. Climbing(fs)
  BY <1>3, <1>4 DEF Climbing
<1>6. Ids(Members(fs)) \cap Ids(Queued(s)) = {}
  <2>1. \A n \in Ids(Members(fs)) : n >= d.next
    BY <1>3, <1>4 DEF Ids, Members
  <2>2. ASSUME NEW f \in Queued(s) PROVE f.id < d.next
    <3>1. Receipt(f) \in d.inFlight /\ Receipt(f).id = f.id
      BY DEF Settled, Receipt
    <3> QED BY <3>1 DEF Counted
  <2>3. \A n \in Ids(Queued(s)) : n < d.next
    BY <2>2 DEF Ids
  <2>4. \A f \in Queued(s) : f.id \in Nat
    <3>1. \A f \in d.inFlight : f.id \in Nat
      BY DeliveryFields DEF CountedFields
    <3>2. \A f \in Queued(s) : Receipt(f) \in d.inFlight /\ Receipt(f).id = f.id
      BY DEF Settled, Receipt
    <3> QED BY <3>1, <3>2
  <2>5. \A n \in Ids(Queued(s)) : n \in Nat
    BY <2>4 DEF Ids
  <2> HIDE DEF fs
  <2> QED BY <1>4, <2>1, <2>3, <2>5
<1> HIDE DEF fs, x, t
<1>7. /\ Planned(c \o s, c, fs, x.sent, FALSE, s)
      /\ acts # c
      /\ Planned(acts \o s, acts, fs, x.sent, more, s)
      /\ changed \/ fs # <<>> => acts # <<>> /\ Begins(acts \o s, Persist)
  <2>1. /\ fs \in Seq(FrameType) /\ Climbing(fs) /\ x.sent \in Nat
        /\ changed \in BOOLEAN /\ more \in BOOLEAN
        /\ s \in Seq(LaterType) /\ Ephemeral(s) /\ Apart(s)
        /\ Ids(Members(fs)) \cap Ids(Queued(s)) = {}
    BY <1>1, <1>2, <1>3, <1>5, <1>6
  <2> QED BY ONLY <2>1, ResultPlanned, ZenonT(60)
<1> HIDE DEF acts
<1>8. c \in Seq(LaterType) /\ Begins(c \o s, Close("lagged"))
  <2>1. Close("lagged") \in LaterType
    BY <1>2, <1>3, Actions
  <2> QED BY <2>1, Cons DEF Begins
<1>9. acts \in Seq(LaterType)
  <2>1. Persist \in LaterType /\ Send(fs) \in LaterType /\ Read(x.sent) \in LaterType
    BY <1>2, <1>3, Actions
  <2>2. acts = (IF changed \/ fs # <<>> THEN <<Persist>> ELSE <<>>)
               \o (IF fs # <<>> THEN <<Send(fs)>> ELSE <<>>)
               \o (IF more THEN <<Read(x.sent)>> ELSE <<>>)
    BY DEF acts, ActsOf
  <2>3. /\ (IF changed \/ fs # <<>> THEN <<Persist>> ELSE <<>>) \in Seq(LaterType)
        /\ (IF fs # <<>> THEN <<Send(fs)>> ELSE <<>>) \in Seq(LaterType)
        /\ (IF more THEN <<Read(x.sent)>> ELSE <<>>) \in Seq(LaterType)
    BY <2>1
  <2> QED BY <2>2, <2>3, ConcatProperties
<1>10. Planned(t, r.acts, fs, x.sent, more /\ r.acts # c, s)
  <2>1. CASE r.acts = c
    <3>1. (more /\ r.acts # c) = FALSE
      BY <2>1
    <3> HIDE DEF c
    <3> QED BY <1>7, <2>1, <3>1 DEF t
  <2>2. CASE r.acts = acts
    <3>1. (more /\ r.acts # c) = more
      BY <1>1, <1>7, <2>2
    <3> HIDE DEF c
    <3> QED BY <1>7, <2>2, <3>1 DEF t
  <2> QED BY <1>1, <2>1, <2>2
<1>11. Settled(x, R, place, Queued(t))
  <2>1. Queued(t) \in SUBSET (Queued(s) \cup Members(fs))
    BY <1>10 DEF Planned
  <2>2. Queued(s) \in SUBSET FrameType
    <3>1. ASSUME NEW a \in LaterType PROVE FramesIn(a) \subseteq FrameType
      BY LaterKinds, MembersTyped DEF FramesIn
    <3>2. Members(s) \in SUBSET LaterType
      BY MembersTyped
    <3>3. Queued(s) = UNION {FramesIn(a) : a \in Members(s)}
      BY QueuedByMembers
    <3> QED BY <3>1, <3>2, <3>3
  <2> QED BY <1>1, <2>1, <2>2, SettledEmits DEF fs, x
<1>12. r.acts \in Seq(LaterType)
  BY <1>1, <1>8, <1>9
<1>13. /\ r.acts # c => r.acts = acts
       /\ changed \/ fs # <<>> => acts # <<>> /\ Begins(acts \o s, Persist)
  BY <1>1, <1>7
<1>14. r.acts # c /\ (changed \/ fs # <<>>) => Begins(t, Persist)
  BY <1>13 DEF t
<1>15. r.acts = c => Begins(t, Close("lagged"))
  BY <1>8 DEF t
<1>16. acts # c
  BY <1>7
<1> HIDE DEF c
<1> QED BY <1>1, <1>2, <1>3, <1>10, <1>11, <1>12, <1>14, <1>15, <1>16 DEF x, t, fs, c, acts, PlansOut

LEMMA SendsTracked ==
  ASSUME NEW d \in DeliveryType, Counted(d),
         NEW r, NEW e, NEW changed, NEW more, Sends(d, r, e, changed, more),
         NEW s \in Seq(LaterType), Ephemeral(s), Apart(s),
         NEW R \in SUBSET ReceiptType, NEW place \in ReceiptType,
         Settled(d, R, place, Queued(s)),
         NEW w \in Seq(FrameType), \A f \in Members(w) : Receipt(f) \in R,
         NEW M \in SUBSET Nat, 0 \notin M, Carried(w, M), Tracked(d, Members(w), M),
         Continuing(d, e, M),
         (\A i \in DOMAIN e : e[i].seq = 0) \/ e = <<>>
           \/ r.acts = ActsOf(Frames(d, e), r.d.sent, changed, more)
  PROVE  LET t  == r.acts \o s IN
         /\ Carried(w \o Front(t), M)
         /\ Tracked(r.d, Members(w \o Front(t)), M)
         /\ \A f \in Members(Front(t)) :
              (\E i \in 1 .. Len(e) : f = Frames(d, e)[i]) \/ (f.event.seq = 0 /\ f.thru <= d.sent)
<1> DEFINE x  == r.d
           t  == r.acts \o s
           fs == Frames(d, e)
           c  == <<Close("lagged")>>
           acts == ActsOf(fs, x.sent, changed, more)
           fr == Front(t)
<1>1. /\ Emits(d, x, e) /\ (r.acts = c \/ r.acts = acts)
      /\ Planned(t, r.acts, fs, x.sent, more /\ r.acts # c, s) /\ acts # c
  <2>1. /\ d \in DeliveryType /\ Counted(d) /\ Sends(d, r, e, changed, more)
        /\ s \in Seq(LaterType) /\ Ephemeral(s) /\ Apart(s)
        /\ R \in SUBSET ReceiptType /\ place \in ReceiptType /\ Settled(d, R, place, Queued(s))
    OBVIOUS
  <2>2. PlansOut(d, r, e, changed, more, s, R, place)
    BY ONLY <2>1, SendsPlanned
  <2>3. Emits(d, x, e)
    BY ONLY <2>1 DEF Sends
  <2> QED BY ONLY <2>2, <2>3 DEF PlansOut
<1>2. /\ x \in DeliveryType /\ e \in Seq(EventType) /\ Rising(e) /\ x.sent \in Nat /\ d.sent \in Nat
      /\ x.sent = (IF e = <<>> THEN d.sent ELSE fs[Len(e)].thru)
  BY <1>1, Emitted, SMTT(30) DEF DeliveryType
<1>3. /\ fs \in Seq(FrameType) /\ Len(fs) = Len(e) /\ DOMAIN fs = 1 .. Len(e) /\ Len(e) \in Nat
      /\ \A i \in 1 .. Len(e) : /\ fs[i].id = d.next + i - 1 /\ fs[i].event = e[i] /\ fs[i] \in FrameType
                                /\ fs[i].thru = Larger(d.sent, e[i].seq) /\ e[i].seq \in Nat
      /\ (fs = <<>> <=> e = <<>>) /\ DOMAIN e = 1 .. Len(e)
  BY <1>2, FramesOfEvents, LenProperties DEF EventType
<1>4. ASSUME NEW n \in M, d.sent < n, n <= x.sent PROVE \E i \in 1 .. Len(e) : e[i].seq = n
  <2>1. e # <<>> /\ x.sent = fs[Len(e)].thru
    BY <1>2, <1>4
  <2>2. Len(e) \in 1 .. Len(e)
    BY <1>2, <1>3, <2>1, EmptySeq
  <2>3. n <= e[Len(e)].seq
    <3>1. x.sent = Larger(d.sent, e[Len(e)].seq) /\ e[Len(e)].seq \in Nat
      BY <1>3, <2>1, <2>2
    <3> HIDE DEF x, fs
    <3> QED BY <1>2, <1>4, <3>1 DEF Larger
  <2> QED BY <1>4, <2>2, <2>3 DEF Continuing
<1>5. (\A i \in 1 .. Len(e) : e[i].seq = 0) \/ e = <<>> \/ r.acts = acts
  BY <1>3
<1> HIDE DEF fs, x, t, acts, fr
<1>6. /\ fr \in Seq(FrameType)
      /\ \/ r.acts # c /\ fs # <<>> /\ fr = fs
         \/ /\ r.acts = c \/ fs = <<>>
            /\ \A f \in Members(fr) : f.event.seq = 0 /\ f \in Queued(s)
  BY <1>1, <1>3 DEF Planned, fr
<1>7. ASSUME NEW f \in Queued(s) PROVE f.thru <= d.sent
  <2>1. Receipt(f) \in d.inFlight /\ Receipt(f).thru = f.thru
    BY DEF Settled, Receipt
  <2> QED BY <2>1 DEF Counted
<1>8. ASSUME NEW j \in 1 .. Len(fr), NEW n \in M, n <= fr[j].thru
      PROVE (\E f \in Members(w) : f.event.seq = n) \/ \E i \in 1 .. j : fr[i].event.seq = n
  <2>0. fr[j] \in Members(fr) /\ fr[j] \in FrameType /\ fr[j].thru \in Nat /\ n \in Nat
    <3>1. DOMAIN fr = 1 .. Len(fr) /\ fr[j] \in FrameType
      BY <1>6, LenProperties, ElementOfSeq
    <3> QED BY <3>1 DEF Members, FrameType
  <2>1. n <= d.sent => \E f \in Members(w) : f.event.seq = n
    BY DEF Tracked
  <2>2. CASE fr = fs
    <3>1. fr[j].thru = Larger(d.sent, e[j].seq) /\ j \in 1 .. Len(e)
      BY <1>3, <2>2
    <3>2. ASSUME ~(n <= d.sent) PROVE \E i \in 1 .. j : fr[i].event.seq = n
      <4>1. d.sent < n /\ n <= e[j].seq
        BY <1>2, <1>3, <1>8, <2>0, <3>1, <3>2 DEF Larger
      <4>2. PICK k \in 1 .. j : e[k].seq = n
        BY <3>1, <4>1 DEF Continuing
      <4>3. k \in 1 .. Len(e)
        BY <1>3, <3>1
      <4> QED BY <1>3, <2>2, <4>2, <4>3
    <3> QED BY <2>1, <3>2
  <2>3. CASE \A f \in Members(fr) : f.event.seq = 0 /\ f \in Queued(s)
    <3>1. fr[j].thru <= d.sent
      BY <1>7, <2>0, <2>3
    <3>2. n <= d.sent
      BY <1>2, <1>8, <2>0, <3>1
    <3> QED BY <2>1, <3>2
  <2> QED BY <1>6, <2>2, <2>3
<1>9. Carried(w \o fr, M)
  BY <1>6, <1>8, CarriedConcat
<1>10. Members(w \o fr) = Members(w) \cup Members(fr)
  BY <1>6, MembersOfConcat
<1>11. Tracked(x, Members(w \o fr), M)
  <2>1. Members(w) \in SUBSET FrameType
    BY MembersTyped
  <2>2. ASSUME NEW f \in Members(w) PROVE f.id < d.next
    BY <2>1, Stands
  <2>3. ASSUME NEW i \in 1 .. Len(e), d.sent < e[i].seq PROVE fs[i] \in Members(w \o fr)
    <3>1. e # <<>> /\ e[i].seq # 0
      BY <1>2, <1>3, <2>3, EmptySeq
    <3>2. r.acts = acts /\ fs # <<>>
      BY <1>3, <1>5, <3>1
    <3>3. fr = fs
      BY <1>1, <1>6, <3>2
    <3>4. fs[i] \in Members(fs)
      BY <1>3 DEF Members
    <3> QED BY <1>10, <3>3, <3>4
  <2>4. \A f \in Members(w) : f.id < d.next /\ (f.event.seq \in M => f \in Members(w \o fr))
    BY <1>10, <2>2
  <2>5. \A i \in 1 .. Len(e) : d.sent < e[i].seq => Frames(d, e)[i] \in Members(w \o fr)
    BY <2>3 DEF fs
  <2>6. \A n \in M : d.sent < n /\ n <= x.sent => \E i \in 1 .. Len(e) : e[i].seq = n
    BY <1>4
  <2>7. Emits(d, x, e)
    BY <1>1
  <2>8. Tracked(d, Members(w), M)
    OBVIOUS
  <2> QED BY <2>1, <2>4, <2>5, <2>6, <2>7, <2>8, TrackedEmits
<1>12. \A f \in Members(fr) :
         (\E i \in 1 .. Len(e) : f = fs[i]) \/ (f.event.seq = 0 /\ f.thru <= d.sent)
  <2>1. CASE fr = fs
    BY <1>3, <2>1 DEF Members
  <2>2. CASE \A f \in Members(fr) : f.event.seq = 0 /\ f \in Queued(s)
    BY <1>7, <2>2
  <2> QED BY <1>6, <2>1, <2>2
<1> QED BY <1>9, <1>11, <1>12 DEF fs, x, t, fr

-----------------------------------------------------------------------------
(* The client's answer, and the host's. *)

LEMMA HonestAckAccepted ==
  ASSUME NEW d \in DeliveryType, Counted(d), NEW a \in AckType,
         NEW R \in SUBSET ReceiptType, NEW place \in ReceiptType, NEW Q, Settled(d, R, place, Q),
         [id |-> a.frame, thru |-> a.thru] \in R
  PROVE  /\ ~AckRejected(d, a)
         /\ a.frame <= d.ackFrame \/ [id |-> a.frame, thru |-> a.thru] \in d.inFlight
<1> DEFINE o == [id |-> a.frame, thru |-> a.thru]
<1>1. /\ o.id = a.frame /\ o.thru = a.thru /\ a.frame \in Nat /\ a.thru \in Nat
      /\ d.ackFrame \in Nat /\ d.ackSeq \in Nat /\ d.next \in Nat
      /\ \A r \in d.suppressed : r.from \in Nat /\ r.through \in Nat
  BY DeliveryFields DEF AckType, CountedFields
<1>2. Answerable(d, Q, o)
  BY DEF Settled
<1>3. o \in ReceiptType
  BY <1>1 DEF ReceiptType
<1>3a. o.id <= d.ackFrame => o.thru <= d.ackSeq
  <2> DEFINE h == [id |-> d.ackFrame, thru |-> d.ackSeq]
  <2>1. h \in Held(d) /\ o \in R
    BY DEF Held
  <2>2. o.id <= h.id => o.thru <= h.thru
    BY <2>1 DEF Settled, Monotone
  <2> QED BY <2>2
<1>4. CASE o.id <= d.ackFrame /\ o.thru <= d.ackSeq
  <2>1. a.frame <= d.ackFrame /\ ~(a.thru > d.ackSeq)
    BY <1>1, <1>4
  <2> QED BY <2>1 DEF AckRejected
<1>5. CASE o \in d.inFlight
  <2>1. d.ackFrame < a.frame /\ a.frame < d.next
    BY <1>1, <1>5 DEF Counted
  <2>2. ~(a.thru < d.ackSeq)
    <3> DEFINE h == [id |-> d.ackFrame, thru |-> d.ackSeq]
    <3>1. h \in Held(d) /\ o \in R
      BY DEF Held
    <3>2. h.id <= o.id => h.thru <= o.thru
      BY <3>1 DEF Settled, Monotone
    <3> QED BY <1>1, <2>1, <3>2
  <2>3. ~ \A f \in d.inFlight : f.id > a.frame
    BY <1>1, <1>5
  <2>4. ~ \E r \in d.suppressed : r.from <= a.frame /\ a.frame <= r.through
    <3>1. \A r \in d.suppressed : o.id < r.from \/ r.through < o.id
      BY <1>5 DEF Counted
    <3> QED BY <1>1, <3>1
  <2>5. ~ \A s \in AllowedSeqs(d, a.frame) : a.thru > s
    <3>1. a.thru \in {f.thru : f \in {g \in d.inFlight : g.id <= a.frame}}
      BY <1>1, <1>5
    <3>2. a.thru \in AllowedSeqs(d, a.frame)
      BY <3>1 DEF AllowedSeqs
    <3> QED BY <1>1, <3>2
  <2>6. ~(a.frame <= d.ackFrame) /\ ~(a.frame >= d.next)
    BY <1>1, <2>1
  <2> HIDE DEF o
  <2> QED BY <1>5, <2>2, <2>3, <2>4, <2>5, <2>6 DEF AckRejected, o
<1> QED BY <1>2, <1>4, <1>5 DEF Answerable

LEMMA AckKeeps ==
  ASSUME NEW d \in DeliveryType, Counted(d), NEW a \in AckType,
         NEW R \in SUBSET ReceiptType, NEW place \in ReceiptType, Settled(d, R, place, {}),
         [id |-> a.frame, thru |-> a.thru] \in R \cap d.inFlight,
         NEW M \in SUBSET Nat, NEW F \in SUBSET FrameType, Tracked(d, F, M),
         \A f \in F : Receipt(f) \in R /\ f.event.seq <= f.thru,
         \A n \in M : n > a.thru
  PROVE  LET x == ApplyAck(d, a) IN
         /\ x \in DeliveryType /\ Counted(x) /\ x.sent = d.sent /\ x.pending = d.pending
         /\ Settled(x, R, place, {}) /\ Tracked(x, F, M)
<1> DEFINE y == Acknowledged(d, a)
           x == AdvanceSuppressedReceipts(y)
<1>1. ApplyAck(d, a) = x
  BY DEF ApplyAck, Acknowledged
<1>2. y \in DeliveryType /\ Counted(y) /\ y.sent = d.sent /\ y.pending = d.pending
  BY AcknowledgedCounts
<1>3. Settled(y, R, place, {})
  BY SettledAck
<1>4. Tracked(y, F, M)
  BY TrackedAck
<1> HIDE DEF y
<1>5. x \in DeliveryType /\ Counted(x) /\ x.sent = y.sent /\ x.pending = y.pending
  BY <1>2, AdvanceKeeps
<1>6. Settled(x, R, place, {})
  BY <1>2, <1>3, SettledAdvance
<1>7. \A f \in F : Standing(y, f) /\ f.event.seq <= f.thru
  <2>1. \A f \in FrameType : Receipt(f) \in R => Standing(y, f)
    BY <1>2, <1>3, Stands
  <2> QED BY <2>1
<1>8. Tracked(x, F, M)
  BY <1>2, <1>4, <1>7, TrackedAdvance
<1> HIDE DEF x
<1> QED BY <1>1, <1>2, <1>5, <1>6, <1>8

\* The frame that is answered, of the frames Q not yet encoded and the frames F on their way.
Answers(d, R, place, Q, frame, Q2, M, F, F2) ==
  /\ d \in DeliveryType /\ Counted(d) /\ R \in SUBSET ReceiptType
  /\ place \in ReceiptType /\ Q \in SUBSET FrameType /\ Settled(d, R, place, Q)
  /\ frame \in Q /\ Q2 \in SUBSET Q /\ \A f \in Q2 : f.id # frame.id
  /\ M \in SUBSET Nat /\ F \in SUBSET FrameType /\ Tracked(d, F, M)
  /\ frame.event.seq \notin M
  /\ \A f \in F : (Receipt(f) \in R \/ f \in Q) /\ f.event.seq <= f.thru
  /\ F2 \in SUBSET F
  /\ \A f \in F2 : Receipt(f) \in R \/ f \in Q2
  /\ \A f \in F : f = frame \/ f \in F2

AnswerLeaves(d, R, place, frame, Q2, M, F2, z) ==
  /\ Receipt(frame) \in d.inFlight
  /\ z \in DeliveryType /\ Counted(z) /\ z.sent = d.sent /\ z.pending = d.pending
  /\ Settled(z, R, place, Q2) /\ Tracked(z, F2, M)

LEMMA AnswerKeeps ==
  ASSUME NEW d, NEW R, NEW place, NEW Q, NEW frame, NEW Q2, NEW M, NEW F, NEW F2,
         Answers(d, R, place, Q, frame, Q2, M, F, F2),
         NEW z, z = AdvanceSuppressedReceipts(Answered(d, frame))
  PROVE  AnswerLeaves(d, R, place, frame, Q2, M, F2, z)
<1> DEFINE y == Answered(d, frame)
           x == AdvanceSuppressedReceipts(y)
<1> /\ d \in DeliveryType /\ Counted(d) /\ R \in SUBSET ReceiptType
    /\ place \in ReceiptType /\ Q \in SUBSET FrameType /\ Settled(d, R, place, Q)
    /\ frame \in Q /\ Q2 \in SUBSET Q /\ \A f \in Q2 : f.id # frame.id
    /\ M \in SUBSET Nat /\ F \in SUBSET FrameType /\ Tracked(d, F, M)
    /\ frame.event.seq \notin M
    /\ \A f \in F : (Receipt(f) \in R \/ f \in Q) /\ f.event.seq <= f.thru
    /\ F2 \in SUBSET F
    /\ \A f \in F2 : Receipt(f) \in R \/ f \in Q2
    /\ \A f \in F : f = frame \/ f \in F2
  BY DEF Answers
<1>1. Receipt(frame) \in d.inFlight /\ frame \in FrameType
  BY DEF Settled
<1>2. y \in DeliveryType /\ Counted(y) /\ y.sent = d.sent /\ y.pending = d.pending
  BY <1>1, AnsweredCounts
<1>3. Settled(y, R, place, Q2)
  BY SettledAnswer
<1>4. \A f \in F : Standing(d, f)
  <2>1. \A f \in FrameType : (Receipt(f) \in R \/ f \in Q) => Standing(d, f)
    BY Stands
  <2> QED BY <2>1
<1>5. ASSUME NEW f \in F, f.event.seq \in M PROVE f \in F2 /\ f.id # frame.id
  <2>1. f \in F2
    BY <1>5
  <2>2. CASE f \in Q2
    BY <2>1, <2>2
  <2>3. CASE Receipt(f) \in R
    <3>1. Answerable(d, Q, Receipt(f)) /\ Receipt(f).id = f.id /\ Receipt(frame).id = frame.id
      BY <2>3 DEF Settled, Receipt
    <3>2. d.ackFrame < frame.id /\ d.ackFrame \in Nat /\ frame.id \in Nat
      <4>1. d.ackFrame < Receipt(frame).id /\ Receipt(frame).id = frame.id
        BY <1>1, <3>1 DEF Counted
      <4> QED BY <1>1, <4>1 DEF FrameType, DeliveryType
    <3>3. CASE f.id <= d.ackFrame
      BY <2>1, <3>2, <3>3
    <3>4. CASE f.id \notin Ids(Q)
      BY <2>1, <3>4 DEF Ids
    <3> QED BY <3>1, <3>3, <3>4 DEF Answerable
  <2> QED BY <2>1, <2>2, <2>3
<1>6. Tracked(y, F2, M)
  BY <1>1, <1>4, <1>5, TrackedAnswer
<1> HIDE DEF y
<1>7. x \in DeliveryType /\ Counted(x) /\ x.sent = y.sent /\ x.pending = y.pending
  BY <1>2, AdvanceKeeps
<1>8. Settled(x, R, place, Q2)
  BY <1>2, <1>3, SettledAdvance
<1>9. \A f \in F2 : Standing(y, f) /\ f.event.seq <= f.thru
  <2>1. \A f \in FrameType : (Receipt(f) \in R \/ f \in Q2) => Standing(y, f)
    BY <1>2, <1>3, Stands
  <2> QED BY <2>1
<1>10. Tracked(x, F2, M)
  <2>1. F2 \in SUBSET FrameType
    OBVIOUS
  <2> QED BY <1>2, <1>6, <1>9, <2>1, TrackedAdvance
<1> HIDE DEF x
<1> QED BY <1>1, <1>2, <1>7, <1>8, <1>10 DEF x, y, AnswerLeaves

-----------------------------------------------------------------------------
(* The state. *)

LEMMA StateFacts ==
  ASSUME DeliveryInvariant
  PROVE  /\ log \in Seq(BOOLEAN) /\ Len(log) \in Nat /\ DOMAIN log = 1 .. Len(log)
         /\ socket \in SocketType /\ socket.d \in DeliveryType /\ socket.saved \in DeliveryType
         /\ socket.from \in Nat /\ socket.head \in Nat /\ socket.overdue \in Nat
         /\ ops \in Seq(OpType) /\ TodoType(todo) /\ Plan(todo) \in Seq(ActionType)
         /\ wire \in Seq(FrameType) /\ Front(todo) \in Seq(FrameType) /\ Out(todo) \in Seq(FrameType)
         /\ Line \in Seq(FrameType)
         /\ client \in ClientType /\ client.frame \in Nat /\ client.cursor \in Nat
         /\ Place \in ReceiptType /\ Place.id = client.frame /\ Place.thru = client.cursor
         /\ Said \in SUBSET AckType /\ Theirs \in SUBSET ReceiptType
         /\ Missing \in SUBSET (1 .. Len(log)) /\ Missing \in SUBSET Nat /\ 0 \notin Missing
         /\ Queued(Plan(todo)) \in SUBSET FrameType
<1>0. DeliveryTypeOK
  BY DEF DeliveryInvariant
<1>1. log \in Seq(BOOLEAN) /\ Len(log) \in Nat /\ DOMAIN log = 1 .. Len(log)
  BY <1>0, LenProperties DEF DeliveryTypeOK
<1>2. /\ socket \in SocketType /\ socket.d \in DeliveryType /\ socket.saved \in DeliveryType
      /\ socket.from \in Nat /\ socket.head \in Nat /\ socket.overdue \in Nat
  BY <1>0 DEF DeliveryTypeOK, SocketType
<1>3. /\ ops \in Seq(OpType) /\ TodoType(todo) /\ wire \in Seq(FrameType)
      /\ Front(todo) \in Seq(FrameType) /\ Out(todo) \in Seq(FrameType)
  BY <1>0, FrontTyped DEF DeliveryTypeOK
<1>4. Line \in Seq(FrameType)
  BY <1>3, ConcatProperties DEF Line
<1>5. Plan(todo) \in Seq(ActionType)
  <2>1. CASE todo # <<>> /\ todo[1].k = "Send"
    BY <1>3, <2>1, BatchTodo
  <2>2. CASE todo = <<>> \/ todo[1].k # "Send"
    BY <1>3, <2>2, OtherTodo
  <2> QED BY <2>1, <2>2
<1>6. /\ client \in ClientType /\ client.frame \in Nat /\ client.cursor \in Nat
      /\ Place \in ReceiptType /\ Place.id = client.frame /\ Place.thru = client.cursor
  BY <1>0 DEF DeliveryTypeOK, ClientType, Place, ReceiptType
<1>7. Said \in SUBSET AckType
  <2>1. ASSUME NEW i \in DOMAIN ops, ops[i].k = "ack" PROVE ops[i].ack \in AckType
    <3>1. ops[i] \in OpType
      BY <1>3, ElementOfSeq, LenProperties
    <3> QED BY <2>1, <3>1 DEF OpType, Publication
  <2>2. acks \in SUBSET AckType
    BY <1>0 DEF DeliveryTypeOK
  <2> QED BY <2>1, <2>2 DEF Said
<1>8. Theirs \in SUBSET ReceiptType
  <2>1. SaidReceipts \in SUBSET ReceiptType
    BY <1>7 DEF SaidReceipts, AckType, ReceiptType
  <2>2. Members(wire) \in SUBSET FrameType /\ Members(Out(todo)) \in SUBSET FrameType
    BY <1>3, MembersTyped
  <2>3. \A f \in FrameType : Receipt(f) \in ReceiptType
    BY DEF Receipt, FrameType, ReceiptType
  <2>4. SentReceipts \in SUBSET ReceiptType
    BY <2>2, <2>3 DEF SentReceipts
  <2> QED BY <1>6, <2>1, <2>4 DEF Theirs
<1>9. Missing \in SUBSET (1 .. Len(log)) /\ Missing \in SUBSET Nat /\ 0 \notin Missing
  BY <1>1 DEF Missing, Visible
<1>10. Queued(Plan(todo)) \in SUBSET FrameType
  <2>1. ASSUME NEW a \in ActionType PROVE FramesIn(a) \subseteq FrameType
    <3>1. CASE a.k = "Send"
      <4>1. a.frames \in Seq(FrameType)
        BY <3>1, ActionKinds, BatchFields
      <4> QED BY <4>1, MembersTyped DEF FramesIn
    <3>2. CASE a.k # "Send"
      BY <3>2 DEF FramesIn
    <3> QED BY <3>1, <3>2
  <2>2. Members(Plan(todo)) \in SUBSET ActionType
    BY <1>5, MembersTyped
  <2>3. Queued(Plan(todo)) = UNION {FramesIn(a) : a \in Members(Plan(todo))}
    BY QueuedByMembers
  <2> QED BY <2>1, <2>2, <2>3
<1> QED BY <1>1, <1>2, <1>3, <1>4, <1>5, <1>6, <1>7, <1>8, <1>9, <1>10

LEMMA QuietStep ==
  ASSUME DeliveryInvariant, UNCHANGED <<log, unpublished, ops, running, todo, wire, acks, client>>,
         runtime' \in {"cold", "building", "ready"}, used' \in UsedType, socket' \in SocketType,
         socket'.status = socket.status, socket'.held = socket.held, socket'.d = socket.d,
         socket'.saved = socket.saved, socket'.from = socket.from
  PROVE  DeliveryInvariant'
<1>1. DeliveryTypeOK'
  BY DEF DeliveryInvariant, DeliveryTypeOK, Connected
<1>2. Accounts'
  BY DEF DeliveryInvariant, Accounts, SavedInTime, Connected
<1>3. Sources'
  BY DEF DeliveryInvariant, Sources, Publications, Sourced, Logged
<1>4. Agreed'
  BY DEF DeliveryInvariant, Agreed, Connected, Theirs, Place, SaidReceipts, SentReceipts, Said
<1>5. OnTheWay'
  BY DEF DeliveryInvariant, OnTheWay, Connected, Line, Missing, Visible, FrameTrue, Logged
<1>6. Followed'
  BY DEF DeliveryInvariant, Followed, Connected, Shown, Reading
<1> QED BY <1>1, <1>2, <1>3, <1>4, <1>5, <1>6 DEF DeliveryInvariant

LEMMA FreshDelivery ==
  ASSUME NEW c \in Nat
  PROVE  LET d == NewDelivery(c) IN
         /\ d \in DeliveryType /\ Counted(d) /\ Buffered(d)
         /\ d.inFlight = {} /\ d.suppressed = {} /\ d.pending = <<>>
         /\ d.ackSeq = c /\ d.ackFrame = 0 /\ d.sent = c /\ d.next = 1
<1> DEFINE d == NewDelivery(c)
<1>1. d = [ackSeq |-> c, ackFrame |-> 0, sent |-> c, next |-> 1,
           inFlight |-> {}, suppressed |-> {}, pending |-> <<>>]
  BY DEF NewDelivery
<1> HIDE DEF d
<1>2. /\ d \in DeliveryType /\ d.inFlight = {} /\ d.suppressed = {} /\ d.pending = <<>>
      /\ d.ackSeq = c /\ d.ackFrame = 0 /\ d.sent = c /\ d.next = 1
  <2>1. <<>> \in Seq(EventType) /\ {} \in SUBSET ReceiptType /\ {} \in SUBSET RunType /\ 0 \in Nat /\ 1 \in Nat
    OBVIOUS
  <2> QED BY <1>1, <2>1 DEF DeliveryType
<1>3. Counted(d) /\ Buffered(d)
  <2>1. IsFiniteSet({}) /\ Cardinality({}) = 0 /\ MaxInFlightFrames \in Nat
    BY FS_EmptySet, PolicyAssumption
  <2>2. (d.ackFrame + 1) .. (d.next - 1) = {}
    BY <1>2
  <2>3. Counted(d)
    BY <1>2, <2>1, <2>2 DEF Counted
  <2> QED BY <1>2, <2>3 DEF Buffered
<1> QED BY <1>2, <1>3 DEF d

\* The socket goes; frames on their way may still arrive.
LEMMA DroppedStep ==
  ASSUME DeliveryInvariant, NEW st \in {"none", "failed", "lagged"}, Dropped(st),
         log' = log, client' = client, unpublished' = unpublished \/ unpublished' = <<>>,
         wire' = wire \/ wire' = <<>>, acks' \in SUBSET AckType,
         runtime' \in {"cold", "building", "ready"}, used' \in UsedType
  PROVE  DeliveryInvariant'
<1> DEFINE d == NewDelivery(0)
<1>0. /\ d \in DeliveryType /\ Counted(d) /\ Buffered(d) /\ d.sent = 0 /\ d.pending = <<>>
  <2>1. 0 \in Nat
    OBVIOUS
  <2> QED BY <2>1, FreshDelivery
<1> HIDE DEF d
<1>1. /\ socket' = [NoSocket EXCEPT !.status = st] /\ ops' = <<>> /\ running' = "none" /\ todo' = <<>>
  BY DEF Dropped
<1>2. /\ socket'.status = st /\ ~socket'.held /\ socket'.d = d /\ socket'.saved = d /\ socket'.from = 0
      /\ socket' \in SocketType
  <2>1. NoSocket = [status |-> "none", held |-> FALSE, d |-> d, saved |-> d, from |-> 0, head |-> 0,
                    deferred |-> FALSE, overdue |-> 0]
    BY DEF NoSocket, d
  <2> QED BY <1>0, <1>1, <2>1 DEF SocketType, Statuses
<1>3. ~Connected'
  BY <1>2 DEF Connected
<1>4. DeliveryTypeOK'
  <2>1. TodoType(todo') /\ <<>> \in Seq(OpType) /\ <<>> \in Seq(EventType) /\ <<>> \in Seq(FrameType)
    BY <1>1 DEF TodoType
  <2> QED BY <1>1, <1>2, <2>1 DEF DeliveryInvariant, DeliveryTypeOK, d
<1>5. Accounts'
  <2>1. client.cursor <= Len(log) /\ Len(log) \in Nat
    BY StateFacts DEF DeliveryInvariant, Accounts
  <2> QED BY <1>0, <1>2, <1>3, <2>1 DEF Accounts, SavedInTime
<1>6. Sources'
  BY <1>0, <1>1, <1>2 DEF DeliveryInvariant, Sources, Publications, Sourced, Logged, Members
<1>7. OnTheWay'
  <2>1. /\ wire \in Seq(FrameType) /\ Out(todo) \in Seq(FrameType) /\ Front(todo) \in Seq(FrameType)
    BY StateFacts
  <2>2. Out(todo) \o Front(todo) \in Seq(FrameType) /\ Line = wire \o (Out(todo) \o Front(todo))
    BY <2>1, ConcatProperties, ConcatAssociative DEF Line
  <2>3. Carried(wire, Missing) /\ Members(wire) \subseteq Members(Line)
    <3>1. Carried(wire \o (Out(todo) \o Front(todo)), Missing)
      BY <2>2 DEF DeliveryInvariant, OnTheWay
    <3>2. Carried(wire, Missing)
      BY <2>1, <2>2, <3>1, CarriedPrefix
    <3>3. Members(wire \o (Out(todo) \o Front(todo))) = Members(wire) \cup Members(Out(todo) \o Front(todo))
      <4> DEFINE rest == Out(todo) \o Front(todo)
      <4>1. wire \in Seq(FrameType) /\ rest \in Seq(FrameType)
        BY <2>1, <2>2
      <4>2. Members(wire \o rest) = Members(wire) \cup Members(rest)
        <5> HIDE DEF rest
        <5> QED BY ONLY <4>1, MembersOfConcat
      <4> QED BY ONLY <4>2
    <3> QED BY <2>2, <3>2, <3>3
  <2>4. Line' = wire'
    <3>1. wire' \in Seq(FrameType) /\ Out(todo)' = <<>> /\ Front(todo)' = <<>>
      <4>1. <<>> \in Seq(FrameType)
        OBVIOUS
      <4> QED BY <1>1, <2>1, <4>1 DEF Out, Front
    <3>2. wire' \o <<>> = wire'
      BY <3>1, ConcatEmptySeq
    <3> QED BY <3>1, <3>2 DEF Line
  <2>5. Missing' = Missing
    BY DEF Missing, Visible
  <2>6. Carried(Line', Missing') /\ Members(Line)' \subseteq Members(Line)
    <3>1. Carried(<<>>, Missing) /\ Members(<<>>) = {}
      BY DEF Carried, Members
    <3> QED BY <2>3, <2>4, <2>5, <3>1
  <2>7. Behind(todo)' = <<>> /\ Ephemeral(<<>>)
    BY <1>1 DEF Behind, Ephemeral
  <2> QED BY <1>3, <2>5, <2>6, <2>7 DEF DeliveryInvariant, OnTheWay, FrameTrue, Logged
<1> QED BY <1>3, <1>4, <1>5, <1>6, <1>7 DEF DeliveryInvariant, Agreed, Followed

LEMMA CommitStep ==
  ASSUME DeliveryInvariant, CommitBatch
  PROVE  DeliveryInvariant'
<1>0. PICK n \in 1 .. 2 : \E hidden \in [1 .. n -> Hiding] :
        /\ log' = log \o hidden
        /\ unpublished' = [i \in 1 .. n |-> [seq |-> Len(log) + i, hidden |-> hidden[i]]]
  BY DEF CommitBatch
<1>1. PICK hidden \in [1 .. n -> Hiding] :
        /\ log' = log \o hidden
        /\ unpublished' = [i \in 1 .. n |-> [seq |-> Len(log) + i, hidden |-> hidden[i]]]
  BY <1>0
<1>2. /\ unpublished = <<>> /\ \A i \in DOMAIN ops : ops[i].k \notin Publication
      /\ UNCHANGED <<runtime, socket, ops, running, todo, wire, acks, client, used>>
  BY DEF CommitBatch, GateFree, Observing
<1>3. /\ log \in Seq(BOOLEAN) /\ Len(log) \in Nat /\ DOMAIN log = 1 .. Len(log)
      /\ socket.d.sent \in Nat /\ client.cursor \in Nat
  BY StateFacts DEF DeliveryType
<1>4. Hiding \subseteq BOOLEAN
  BY DEF Hiding
<1>5. hidden \in Seq(BOOLEAN) /\ Len(hidden) = n /\ DOMAIN hidden = 1 .. n
  <2>1. hidden \in [1 .. n -> BOOLEAN] /\ n \in Nat
    BY <1>1, <1>4
  <2>2. hidden \in Seq(BOOLEAN)
    BY <2>1, SeqDef
  <2>3. DOMAIN hidden = 1 .. Len(hidden) /\ Len(hidden) \in Nat /\ DOMAIN hidden = 1 .. n
    BY <2>1, <2>2, LenProperties
  <2> QED BY <2>1, <2>2, <2>3
<1>6. /\ log' \in Seq(BOOLEAN) /\ Len(log') = Len(log) + n /\ DOMAIN log' = 1 .. Len(log) + n
      /\ \A i \in 1 .. Len(log) : log'[i] = log[i]
      /\ \A i \in 1 .. n : log'[Len(log) + i] = hidden[i]
  <2>1. /\ log \o hidden \in Seq(BOOLEAN) /\ Len(log \o hidden) = Len(log) + n
        /\ \A i \in 1 .. Len(log) + n : (log \o hidden)[i] = IF i <= Len(log) THEN log[i] ELSE hidden[i - Len(log)]
    BY <1>3, <1>5, ConcatProperties
  <2>2. DOMAIN (log \o hidden) = 1 .. Len(log) + n
    BY <2>1, LenProperties
  <2>3. ASSUME NEW i \in 1 .. n PROVE (log \o hidden)[Len(log) + i] = hidden[i]
    <3>1. /\ Len(log) + i \in 1 .. Len(log) + n /\ ~(Len(log) + i <= Len(log))
          /\ (Len(log) + i) - Len(log) = i
      BY <1>3
    <3> QED BY <2>1, <3>1
  <2> QED BY <1>1, <1>3, <2>1, <2>2, <2>3, SMTT(30)
<1>7. /\ unpublished' \in Seq(EventType) /\ DOMAIN unpublished' = 1 .. n
      /\ \A i \in 1 .. n : unpublished'[i].seq = Len(log) + i /\ unpublished'[i].hidden = hidden[i]
  <2>1. \A i \in 1 .. n : [seq |-> Len(log) + i, hidden |-> hidden[i]] \in EventType
    BY <1>3, <1>5, ElementOfSeq DEF EventType
  <2>2. unpublished' \in [1 .. n -> EventType] /\ n \in Nat
    BY <1>1, <2>1
  <2> QED BY <1>1, <2>2, SeqDef
<1>8. \A n1 \in 1 .. Len(log) + n : n1 <= Len(log) \/ \E i \in 1 .. n : n1 = Len(log) + i
  <2>1. ASSUME NEW n1 \in 1 .. Len(log) + n, ~(n1 <= Len(log)) PROVE \E i \in 1 .. n : n1 = Len(log) + i
    <3>1. n1 - Len(log) \in 1 .. n /\ n1 = Len(log) + (n1 - Len(log))
      BY <1>3, <2>1
    <3> QED BY <3>1
  <2> QED BY <2>1
<1>9. DeliveryTypeOK'
  BY <1>2, <1>6, <1>7 DEF DeliveryInvariant, DeliveryTypeOK, Connected
<1>10. Accounts'
  <2>1. socket.saved.sent \in Nat /\ n \in Nat
    <3>1. socket.saved \in DeliveryType
      BY StateFacts
    <3> QED BY <3>1 DEF DeliveryType
  <2>2. Accounts
    BY DEF DeliveryInvariant
  <2>3. SavedInTime'
    BY <1>2, <2>2 DEF Accounts, SavedInTime, Connected
  <2>4. /\ Counted(socket.d) /\ Counted(socket.saved) /\ Buffered(socket.d)
        /\ socket.saved.pending = <<>>
        /\ socket.held \/ ~Connected \/ (socket.d = socket.saved /\ todo = <<>> /\ ops = <<>>)
        /\ socket.status = "accepting" => socket.held
        /\ socket.d.sent <= Len(log) + n /\ socket.saved.sent <= Len(log) + n
        /\ client.cursor <= Len(log) + n
    BY <1>3, <2>1, <2>2 DEF Accounts
  <2>5. Connected' = Connected /\ socket' = socket /\ todo' = todo /\ ops' = ops /\ client' = client
    BY <1>2 DEF Connected
  <2> QED BY <1>6, <2>3, <2>4, <2>5 DEF Accounts
<1>11. \A event \in EventType : Logged(event) => Logged(event)'
  <2>1. ASSUME NEW event \in EventType, Logged(event) PROVE Logged(event)'
    <3>1. CASE event.seq = 0
      BY <3>1 DEF Logged
    <3>2. ASSUME event.seq # 0 PROVE Logged(event)'
      <4>1. event.seq <= Len(log) /\ event.hidden = log[event.seq]
        BY <2>1, <3>2 DEF Logged
      <4>2. event.seq \in 1 .. Len(log) /\ n \in Nat
        BY <1>3, <3>2, <4>1 DEF EventType
      <4> QED BY <1>3, <1>6, <4>1, <4>2 DEF Logged
    <3> QED BY <3>1, <3>2
  <2> QED BY <2>1
<1>12. Sources'
  <2>1. \A i \in DOMAIN unpublished' : Logged(unpublished[i])'
    BY <1>3, <1>6, <1>7 DEF Logged
  <2>2. \A i, j \in DOMAIN unpublished' : i < j => unpublished'[i].seq < unpublished'[j].seq
    BY <1>3, <1>7
  <2>3. ASSUME NEW a \in Members(todo) PROVE Sourced(a, socket.d.sent)'
    <3>1. Sourced(a, socket.d.sent)
      BY DEF DeliveryInvariant, Sources, Publications
    <3>2. ASSUME a.k = "Page" PROVE a.head \in Nat /\ \A j \in DOMAIN a.events : a.events[j] \in EventType
      <4>1. TodoType(todo) /\ todo \in Seq(ActionType)
        BY StateFacts DEF TodoType
      <4>2. a \in PageType
        BY <3>2, <4>1, MembersTyped, ActionKinds
      <4> QED BY <4>2, ElementOfSeq, LenProperties DEF PageType
    <3>3. n \in Nat
      OBVIOUS
    <3>4. a.k = "Page" => a.head <= Len(log')
      BY <1>3, <1>6, <3>1, <3>2, <3>3 DEF Sourced
    <3>5. a.k = "Page" => \A j \in DOMAIN a.events : Logged(a.events[j])'
      BY <1>11, <3>1, <3>2 DEF Sourced
    <3> QED BY <1>2, <3>1, <3>4, <3>5 DEF Sourced
  <2> QED BY <1>2, <2>1, <2>2, <2>3 DEF DeliveryInvariant, Sources, Publications, Publication
<1>13. Agreed'
  BY <1>2 DEF DeliveryInvariant, Agreed, Connected, Theirs, Place, SaidReceipts, SentReceipts, Said
<1>14. ASSUME NEW m \in Missing' PROVE m \in Nat /\ (m \in Missing \/ m > Len(log))
  BY <1>2, <1>3, <1>6 DEF Missing, Visible
<1>15. Line' = Line /\ Line \in Seq(FrameType) /\ Members(Line) \in SUBSET FrameType
       /\ \A f \in Members(Line) : FrameTrue(f)
  BY <1>2, StateFacts, MembersTyped DEF Line, DeliveryInvariant, OnTheWay
<1>16. \A f \in FrameType : FrameTrue(f) => FrameTrue(f)' /\ f.thru \in Nat /\ f.thru <= Len(log)
  <2>1. n \in Nat
    OBVIOUS
  <2> QED BY <1>3, <1>6, <1>11, <2>1 DEF FrameTrue, FrameType
<1>17. Carried(Line, Missing)'
  <2>1. \A j \in DOMAIN Line : Line[j] \in Members(Line)
    BY DEF Members
  <2>2. ASSUME NEW j \in DOMAIN Line, NEW m \in Missing', m <= Line[j].thru
        PROVE \E i \in 1 .. j : Line[i].event.seq = m
    <3>1. m \in Missing
      BY <1>3, <1>14, <1>15, <1>16, <2>1, <2>2
    <3> QED BY <2>2, <3>1 DEF Carried, DeliveryInvariant, OnTheWay
  <2> QED BY <1>15, <2>2 DEF Carried
<1>18. ASSUME Connected PROVE Tracked(socket.d, Members(Line), Missing')
  <2>1. Tracked(socket.d, Members(Line), Missing)
    BY <1>18 DEF DeliveryInvariant, OnTheWay
  <2>2. /\ socket.d.ackSeq <= socket.d.sent /\ socket.d.sent <= Len(log) /\ CountedFields(socket.d)
        /\ \A g \in socket.d.inFlight : g.thru <= socket.d.sent
        /\ \A r \in socket.d.suppressed : r.thru <= socket.d.sent
    BY StateFacts, DeliveryFields DEF DeliveryInvariant, Accounts, Counted
  <2>3. ASSUME NEW m \in Nat, m > Len(log)
        PROVE /\ m > socket.d.ackSeq /\ ~(m <= socket.d.sent)
              /\ \A g \in socket.d.inFlight : ~(m <= g.thru)
              /\ \A r \in socket.d.suppressed : ~(m <= r.thru)
    BY <1>3, <2>2, <2>3 DEF CountedFields
  <2> QED BY <1>14, <2>1, <2>3 DEF Tracked
<1>19. OnTheWay'
  <2>1. \A m \in Missing' : m > client.cursor
    BY <1>3, <1>14 DEF DeliveryInvariant, OnTheWay, Accounts
  <2>2. \A f \in Members(Line) : FrameTrue(f)'
    BY <1>15, <1>16
  <2>3. Ephemeral(Behind(todo)) /\ Connected' = Connected /\ socket' = socket /\ todo' = todo /\ client' = client
    BY <1>2 DEF DeliveryInvariant, OnTheWay, Connected
  <2> QED BY <1>15, <1>17, <1>18, <2>1, <2>2, <2>3 DEF OnTheWay
<1>20. Followed'
  <2>1. /\ Connected' = Connected /\ Reading' = Reading /\ socket' = socket /\ todo' = todo /\ ops' = ops
    BY <1>2 DEF Connected, Reading
  <2>2. ASSUME NEW m \in 1 .. Len(log'), m > Len(log) PROVE Shown(m)'
    <3>1. m \in 1 .. Len(log) + n /\ ~(m <= Len(log))
      BY <1>3, <1>6, <2>2
    <3>2. PICK i \in 1 .. n : m = Len(log) + i
      BY <1>8, <3>1
    <3>3. i \in DOMAIN unpublished' /\ unpublished'[i].seq = m
      BY <1>7, <3>2
    <3> QED BY <3>3 DEF Shown
  <2>3. \A m : Shown(m) => Shown(m)'
    BY <1>2, <2>1 DEF Shown
  <2>4. \A m \in 1 .. Len(log') : m \in 1 .. Len(log) \/ m > Len(log)
    BY <1>3
  <2> QED BY <2>1, <2>2, <2>3, <2>4 DEF DeliveryInvariant, Followed
<1> QED BY <1>9, <1>10, <1>12, <1>13, <1>19, <1>20 DEF DeliveryInvariant

LEMMA AppendedOp ==
  ASSUME NEW op, NEW q \in Seq(OpType), op \in OpType
  PROVE  LET u == Append(q, op) IN
         /\ u \in Seq(OpType) /\ Len(q) \in Nat
         /\ DOMAIN q = 1 .. Len(q) /\ DOMAIN u = 1 .. Len(q) + 1
         /\ u[Len(q) + 1] = op /\ \A i \in 1 .. Len(q) : u[i] = q[i]
         /\ \A i \in DOMAIN u : i \in DOMAIN q \/ i = Len(q) + 1
         /\ Members(u) = Members(q) \cup {op}
         /\ (op.k = "ack" => {u[i].ack : i \in {j \in DOMAIN u : u[j].k = "ack"}}
                              = {q[i].ack : i \in {j \in DOMAIN q : q[j].k = "ack"}} \cup {op.ack})
         /\ (op.k # "ack" => {u[i].ack : i \in {j \in DOMAIN u : u[j].k = "ack"}}
                              = {q[i].ack : i \in {j \in DOMAIN q : q[j].k = "ack"}})
<1> DEFINE u == Append(q, op)
<1>1. /\ u \in Seq(OpType) /\ Len(q) \in Nat /\ DOMAIN q = 1 .. Len(q) /\ Len(u) = Len(q) + 1
      /\ u[Len(q) + 1] = op /\ \A i \in 1 .. Len(q) : u[i] = q[i]
  BY AppendProperties, LenProperties
<1>2. DOMAIN u = 1 .. Len(q) + 1
  BY <1>1, LenProperties
<1>3. Members(u) = Members(q) \cup {op}
  BY MembersOfAppend
<1> HIDE DEF u
<1>4. \A i \in DOMAIN u : i \in DOMAIN q \/ i = Len(q) + 1
  BY <1>1, <1>2
<1>5. \A i \in DOMAIN q : i \in DOMAIN u /\ u[i] = q[i]
  BY <1>1, <1>2
<1>6. Len(q) + 1 \in DOMAIN u
  BY <1>1, <1>2
<1>7. op.k = "ack" => {u[i].ack : i \in {j \in DOMAIN u : u[j].k = "ack"}}
                       = {q[i].ack : i \in {j \in DOMAIN q : q[j].k = "ack"}} \cup {op.ack}
  BY <1>1, <1>4, <1>5, <1>6
<1>8. op.k # "ack" => {u[i].ack : i \in {j \in DOMAIN u : u[j].k = "ack"}}
                       = {q[i].ack : i \in {j \in DOMAIN q : q[j].k = "ack"}}
  BY <1>1, <1>4, <1>5, <1>6
<1>9. /\ u \in Seq(OpType) /\ Len(q) \in Nat
      /\ DOMAIN q = 1 .. Len(q) /\ DOMAIN u = 1 .. Len(q) + 1
      /\ u[Len(q) + 1] = op /\ \A i \in 1 .. Len(q) : u[i] = q[i]
      /\ \A i \in DOMAIN u : i \in DOMAIN q \/ i = Len(q) + 1
      /\ Members(u) = Members(q) \cup {op}
  BY <1>1, <1>2, <1>3, <1>4
<1> QED BY <1>7, <1>8, <1>9 DEF u

\* What a queued operation must be, given what is queued and published before it.
Queueable(op) ==
  /\ op.k \in Publication => /\ Logged(op.event) /\ op.k = IF op.event.seq = 0 THEN "ephemeral" ELSE "durable"
  /\ op.k = "durable" => /\ \A i \in DOMAIN ops : ops[i].k # "durable"
                         /\ \A j \in DOMAIN unpublished' : op.event.seq < unpublished'[j].seq

LEMMA QueueStep ==
  ASSUME DeliveryInvariant, NEW op \in OpType, Queueable(op), Connected,
         ops' = Append(ops, op), socket' \in SocketType, Connected',
         socket'.d = socket.d, socket'.saved = socket.saved, socket'.from = socket.from,
         socket'.held,
         unpublished' = unpublished \/ (unpublished # <<>> /\ unpublished' = Tail(unpublished)),
         unpublished' # unpublished => op.k \in Publication /\ op.event = unpublished[1],
         socket.status = "accepting" => socket'.status = "accepting" \/ op.k = "open",
         acks' \in SUBSET acks, acks \subseteq acks' \cup (IF op.k = "ack" THEN {op.ack} ELSE {}),
         op.k = "ack" => op.ack \in acks,
         UNCHANGED <<log, runtime, running, todo, wire, client, used>>
  PROVE  DeliveryInvariant'
<1>0. /\ ops \in Seq(OpType) /\ socket \in SocketType /\ unpublished \in Seq(EventType)
      /\ acks \in SUBSET AckType
  BY StateFacts DEF DeliveryInvariant, DeliveryTypeOK
<1>1. LET u == Append(ops, op) IN
         /\ u \in Seq(OpType) /\ Len(ops) \in Nat
         /\ DOMAIN ops = 1 .. Len(ops) /\ DOMAIN u = 1 .. Len(ops) + 1
         /\ u[Len(ops) + 1] = op /\ \A i \in 1 .. Len(ops) : u[i] = ops[i]
         /\ \A i \in DOMAIN u : i \in DOMAIN ops \/ i = Len(ops) + 1
         /\ (op.k = "ack" => {u[i].ack : i \in {j \in DOMAIN u : u[j].k = "ack"}}
                              = {ops[i].ack : i \in {j \in DOMAIN ops : ops[j].k = "ack"}} \cup {op.ack})
         /\ (op.k # "ack" => {u[i].ack : i \in {j \in DOMAIN u : u[j].k = "ack"}}
                              = {ops[i].ack : i \in {j \in DOMAIN ops : ops[j].k = "ack"}})
  BY <1>0, AppendedOp, SMTT(30)
<1>2. /\ ops' \in Seq(OpType) /\ Len(ops) \in Nat
      /\ DOMAIN ops = 1 .. Len(ops) /\ DOMAIN ops' = 1 .. Len(ops) + 1
      /\ ops'[Len(ops) + 1] = op /\ \A i \in 1 .. Len(ops) : ops'[i] = ops[i]
      /\ \A i \in DOMAIN ops' : i \in DOMAIN ops \/ i = Len(ops) + 1
  BY <1>1
<1>3. Said' = Said
  <2>1. Said' = acks' \cup {ops'[i].ack : i \in {j \in DOMAIN ops' : ops'[j].k = "ack"}}
    BY DEF Said
  <2>2. CASE op.k = "ack"
    BY <1>1, <2>1, <2>2 DEF Said
  <2>3. CASE op.k # "ack"
    BY <1>1, <2>1, <2>3 DEF Said
  <2> QED BY <2>2, <2>3
<1>4. unpublished' \in Seq(EventType)
      /\ \A j \in DOMAIN unpublished' : \E i \in DOMAIN unpublished : unpublished'[j] = unpublished[i]
  <2>1. CASE unpublished' = unpublished
    BY <1>0, <2>1
  <2>2. CASE unpublished # <<>> /\ unpublished' = Tail(unpublished)
    <3>1. /\ Tail(unpublished) \in Seq(EventType)
          /\ Len(unpublished) \in Nat \ {0} /\ DOMAIN unpublished = 1 .. Len(unpublished)
          /\ DOMAIN Tail(unpublished) = 1 .. Len(unpublished) - 1
          /\ \A j \in 1 .. Len(unpublished) - 1 : Tail(unpublished)[j] = unpublished[j + 1]
      BY <1>0, <2>2, HeadTail
    <3>2. \A j \in 1 .. Len(unpublished) - 1 : j + 1 \in 1 .. Len(unpublished)
      BY <3>1
    <3> QED BY <2>2, <3>1, <3>2
  <2> QED BY <2>1, <2>2
<1>5. DeliveryTypeOK'
  BY <1>0, <1>2, <1>4 DEF DeliveryInvariant, DeliveryTypeOK
<1>6. Accounts'
  BY DEF DeliveryInvariant, Accounts, SavedInTime
<1>7. Agreed'
  <2>1. Theirs' = Theirs /\ Place' = Place
    BY <1>3 DEF Theirs, Place, SaidReceipts, SentReceipts
  <2> QED BY <1>3, <2>1 DEF DeliveryInvariant, Agreed
<1>8. OnTheWay'
  BY DEF DeliveryInvariant, OnTheWay, Line, Missing, Visible, FrameTrue, Logged
<1>9. \A n : Shown(n) => Shown(n)'
  <2>1. ASSUME NEW n, Shown(n) PROVE Shown(n)'
    <3>1. CASE n <= socket.d.sent
      BY <3>1 DEF Shown
    <3>2. ASSUME NEW i \in DOMAIN ops, ops[i].k = "durable", ops[i].event.seq = n PROVE Shown(n)'
      <4>1. i \in DOMAIN ops' /\ ops'[i] = ops[i]
        BY <1>2
      <4> QED BY <3>2, <4>1 DEF Shown
    <3>3. ASSUME NEW i \in DOMAIN unpublished, unpublished[i].seq = n PROVE Shown(n)'
      <4>1. CASE unpublished' = unpublished
        BY <3>3, <4>1 DEF Shown
      <4>2. ASSUME unpublished' # unpublished PROVE Shown(n)'
        <5>1. /\ unpublished # <<>> /\ unpublished' = Tail(unpublished)
              /\ op.k \in Publication /\ op.event = unpublished[1]
          BY <4>2
        <5>2. CASE i = 1
          <6>1. CASE n = 0
            BY <6>1, StateFacts, SMTT(30) DEF Shown, DeliveryType
          <6>2. CASE n # 0
            <7>1. op.k = "durable" /\ op.event.seq = n
              BY <3>3, <5>1, <5>2, <6>2 DEF Queueable
            <7>2. Len(ops) + 1 \in DOMAIN ops' /\ ops'[Len(ops) + 1] = op
              BY <1>2
            <7> QED BY <7>1, <7>2 DEF Shown
          <6> QED BY <6>1, <6>2
        <5>3. CASE i # 1
          <6>1. i - 1 \in DOMAIN unpublished' /\ unpublished'[i - 1] = unpublished[i]
            <7>1. /\ Len(unpublished) \in Nat \ {0} /\ DOMAIN unpublished = 1 .. Len(unpublished)
                  /\ DOMAIN Tail(unpublished) = 1 .. Len(unpublished) - 1
                  /\ \A j \in 1 .. Len(unpublished) - 1 : Tail(unpublished)[j] = unpublished[j + 1]
              BY <1>0, <5>1, HeadTail
            <7>2. i - 1 \in 1 .. Len(unpublished) - 1 /\ (i - 1) + 1 = i
              BY <5>3, <7>1
            <7> QED BY <5>1, <7>1, <7>2
          <6> QED BY <3>3, <6>1 DEF Shown
        <5> QED BY <5>2, <5>3
      <4> QED BY <4>1, <4>2
    <3> QED BY <2>1, <3>1, <3>2, <3>3 DEF Shown
  <2> QED BY <2>1
<1>10. Reading => Reading'
  <2>1. ASSUME NEW i \in DOMAIN ops, ops[i].k = "open" PROVE Reading'
    <3>1. i \in DOMAIN ops' /\ ops'[i] = ops[i]
      BY <1>2
    <3> QED BY <2>1, <3>1 DEF Reading
  <2>2. ASSUME op.k = "open" PROVE Reading'
    <3>1. Len(ops) + 1 \in DOMAIN ops' /\ ops'[Len(ops) + 1] = op
      BY <1>2
    <3> QED BY <2>2, <3>1 DEF Reading
  <2> QED BY <2>1, <2>2 DEF Reading
<1>11. Followed'
  BY <1>9, <1>10 DEF DeliveryInvariant, Followed
<1>12. Sources'
  <2>1. Sources
    BY DEF DeliveryInvariant
  <2>2. /\ \A i \in DOMAIN unpublished' : Logged(unpublished[i])'
        /\ \A i, j \in DOMAIN unpublished' : i < j => unpublished'[i].seq < unpublished'[j].seq
    <3>1. CASE unpublished' = unpublished
      BY <2>1, <3>1 DEF Sources, Publications, Logged
    <3>2. CASE unpublished # <<>> /\ unpublished' = Tail(unpublished)
      <4>1. /\ Len(unpublished) \in Nat \ {0} /\ DOMAIN unpublished = 1 .. Len(unpublished)
            /\ DOMAIN Tail(unpublished) = 1 .. Len(unpublished) - 1
            /\ \A j \in 1 .. Len(unpublished) - 1 : Tail(unpublished)[j] = unpublished[j + 1]
        BY <1>0, <3>2, HeadTail
      <4>2. \A j \in 1 .. Len(unpublished) - 1 : j + 1 \in 1 .. Len(unpublished)
        BY <4>1
      <4>3. /\ \A k \in DOMAIN unpublished : Logged(unpublished[k])
            /\ \A k, l \in DOMAIN unpublished : k < l => unpublished[k].seq < unpublished[l].seq
        BY <2>1 DEF Sources, Publications
      <4>4. \A k \in 1 .. Len(unpublished) - 1 : k + 1 \in DOMAIN unpublished /\ unpublished'[k] = unpublished[k + 1]
        BY <3>2, <4>1, <4>2
      <4>5. DOMAIN unpublished' = 1 .. Len(unpublished) - 1
        BY <3>2, <4>1
      <4>6. ASSUME NEW k \in DOMAIN unpublished' PROVE Logged(unpublished[k])'
        <5>1. Logged(unpublished[k + 1]) /\ unpublished'[k] = unpublished[k + 1]
          BY <4>3, <4>4, <4>5
        <5> QED BY <5>1 DEF Logged
      <4>7. ASSUME NEW k \in DOMAIN unpublished', NEW l \in DOMAIN unpublished', k < l
            PROVE unpublished'[k].seq < unpublished'[l].seq
        <5>1. k \in 1 .. Len(unpublished) - 1 /\ l \in 1 .. Len(unpublished) - 1 /\ k + 1 < l + 1
          BY <4>1, <4>5, <4>7
        <5>2. unpublished[k + 1].seq < unpublished[l + 1].seq
          BY <4>3, <4>4, <5>1
        <5> QED BY <4>4, <5>1, <5>2
      <4> QED BY <4>6, <4>7
    <3> QED BY <3>1, <3>2
  <2>3. \A i \in DOMAIN ops' :
         /\ ops'[i].k \in Publication => Logged(ops'[i].event)
         /\ ops'[i].k = "durable" => ops'[i].event.seq # 0
         /\ ops'[i].k = "ephemeral" => ops'[i].event.seq = 0
    <3>1. op.k = "durable" \/ op.k = "ephemeral" => op.k \in Publication
      BY DEF Publication
    <3> QED BY <1>2, <2>1, <3>1 DEF Sources, Publications, Queueable
  <2>4. \A i, j \in DOMAIN ops' : ops'[i].k = "durable" /\ ops'[j].k = "durable" => i = j
    BY <1>2, <2>1 DEF Sources, Publications, Queueable
  <2>5. \A i \in DOMAIN ops', j \in DOMAIN unpublished' :
         ops'[i].k = "durable" => ops'[i].event.seq < unpublished'[j].seq
    BY <1>2, <1>4, <2>1 DEF Sources, Publications, Queueable
  <2>6. \A a \in Members(todo) : Sourced(a, socket.d.sent)'
    BY <2>1 DEF Sources, Publications, Sourced, Logged
  <2>7. \A i \in DOMAIN ops' : ops'[i].k \in Publication => Logged(ops[i].event)'
    BY <2>3 DEF Logged
  <2> QED BY <2>1, <2>2, <2>3, <2>4, <2>5, <2>6, <2>7 DEF Sources, Publications
<1> QED BY <1>5, <1>6, <1>7, <1>8, <1>11, <1>12 DEF DeliveryInvariant

LEMMA PublishedStep ==
  ASSUME DeliveryInvariant, UNCHANGED <<log, runtime, socket, ops, running, todo, wire, acks, client>>,
         used' \in UsedType, unpublished' \in Seq(EventType), unpublished = <<>> \/ ~Connected,
         \A i \in DOMAIN unpublished' : Logged(unpublished'[i]),
         \A i, j \in DOMAIN unpublished' : i < j => unpublished'[i].seq < unpublished'[j].seq,
         \A i \in DOMAIN ops, j \in DOMAIN unpublished' :
           ops[i].k = "durable" => ops[i].event.seq < unpublished'[j].seq
  PROVE  DeliveryInvariant'
<1>1. DeliveryTypeOK'
  BY DEF DeliveryInvariant, DeliveryTypeOK, Connected
<1>2. Accounts'
  BY DEF DeliveryInvariant, Accounts, SavedInTime, Connected
<1>3. Sources'
  BY DEF DeliveryInvariant, Sources, Publications, Sourced, Logged
<1>4. Agreed'
  BY DEF DeliveryInvariant, Agreed, Connected, Theirs, Place, SaidReceipts, SentReceipts, Said
<1>5. OnTheWay'
  BY DEF DeliveryInvariant, OnTheWay, Connected, Line, Missing, Visible, FrameTrue, Logged
<1>6. Followed'
  BY DEF DeliveryInvariant, Followed, Connected, Shown, Reading
<1> QED BY <1>1, <1>2, <1>3, <1>4, <1>5, <1>6 DEF DeliveryInvariant

LEMMA PublishStep ==
  ASSUME DeliveryInvariant, PublishEphemeral
  PROVE  DeliveryInvariant'
<1>1. PICK hidden \in Hiding : unpublished' = <<[seq |-> 0, hidden |-> hidden]>>
  BY DEF PublishEphemeral
<1>2. /\ unpublished = <<>> /\ \A i \in DOMAIN ops : ops[i].k \notin Publication
      /\ UNCHANGED <<log, runtime, socket, ops, running, todo, wire, acks, client>>
      /\ used' = [used EXCEPT !.ephemerals = @ + 1]
  BY DEF PublishEphemeral, GateFree, Observing
<1>3. hidden \in BOOLEAN
  BY DEF Hiding
<1>4. [seq |-> 0, hidden |-> hidden] \in EventType
  BY <1>3 DEF EventType
<1>5. /\ unpublished' \in Seq(EventType) /\ DOMAIN unpublished' = {1}
      /\ unpublished'[1].seq = 0
  BY <1>1, <1>4
<1>6. used' \in UsedType
  BY <1>2 DEF DeliveryInvariant, DeliveryTypeOK, UsedType
<1>7. /\ \A i \in DOMAIN unpublished' : Logged(unpublished'[i])
      /\ \A i, j \in DOMAIN unpublished' : i < j => unpublished'[i].seq < unpublished'[j].seq
  BY <1>5 DEF Logged
<1>8. \A i \in DOMAIN ops : ops[i].k # "durable"
  BY <1>2 DEF Publication
<1> QED BY <1>2, <1>5, <1>6, <1>7, <1>8, PublishedStep

LEMMA RestoredSame ==
  ASSUME DeliveryInvariant, Connected
  PROVE  /\ Restored \in SocketType /\ Restored.held /\ Restored.status = socket.status
         /\ Restored.d = socket.d /\ Restored.saved = socket.saved /\ Restored.from = socket.from
         /\ Restored.overdue = socket.overdue
<1>1. socket \in SocketType /\ socket.saved.sent \in Nat
  <2>1. socket \in SocketType /\ socket.saved \in DeliveryType
    BY StateFacts
  <2> QED BY <2>1 DEF DeliveryType
<1>2. socket.held \/ socket.d = socket.saved
  BY DEF DeliveryInvariant, Accounts
<1>3. CASE socket.held
  BY <1>1, <1>3 DEF Restored
<1>4. CASE ~socket.held
  <2>1. Restored = [socket EXCEPT !.held = TRUE, !.d = socket.saved,
                                  !.head = socket.saved.sent, !.deferred = FALSE]
    BY <1>4 DEF Restored
  <2>2. Restored \in SocketType
    BY <1>1, <2>1 DEF SocketType
  <2> QED BY <1>1, <1>2, <1>4, <2>1, <2>2 DEF SocketType
<1> QED BY <1>3, <1>4

LEMMA FanoutStep ==
  ASSUME DeliveryInvariant, FanoutPublishedEvent
  PROVE  DeliveryInvariant'
<1>1. /\ unpublished # <<>> /\ unpublished' = Tail(unpublished)
      /\ \A i \in DOMAIN ops : ops[i].k \notin Publication
      /\ UNCHANGED <<log, runtime, running, todo, wire, acks, client, used>>
  BY DEF FanoutPublishedEvent, Observing
<1>2. unpublished \in Seq(EventType)
  BY DEF DeliveryInvariant, DeliveryTypeOK
<1>3. /\ Tail(unpublished) \in Seq(EventType) /\ Len(unpublished) \in Nat \ {0}
      /\ DOMAIN unpublished = 1 .. Len(unpublished)
      /\ DOMAIN Tail(unpublished) = 1 .. Len(unpublished) - 1
      /\ Head(unpublished) = unpublished[1] /\ unpublished[1] \in EventType
      /\ \A j \in 1 .. Len(unpublished) - 1 : Tail(unpublished)[j] = unpublished[j + 1]
  BY <1>1, <1>2, HeadTail
<1>4. /\ \A k \in DOMAIN unpublished : Logged(unpublished[k])
      /\ \A k, l \in DOMAIN unpublished : k < l => unpublished[k].seq < unpublished[l].seq
  BY DEF DeliveryInvariant, Sources, Publications
<1>5. \A k \in DOMAIN unpublished' :
        k + 1 \in DOMAIN unpublished /\ k \in Nat \ {0} /\ unpublished'[k] = unpublished[k + 1]
  BY <1>1, <1>3
<1>6. \A i \in DOMAIN ops : ops[i].k # "durable"
  BY <1>1 DEF Publication
<1>7. CASE Connected
  <2> DEFINE event == unpublished[1]
             op == [k |-> IF event.seq = 0 THEN "ephemeral" ELSE "durable", event |-> event]
  <2>1. socket' = Restored /\ ops' = Append(ops, op)
    BY <1>3, <1>7 DEF FanoutPublishedEvent
  <2>2. op \in OpType
    BY <1>3 DEF OpType, Publication
  <2>3. /\ op.k = (IF event.seq = 0 THEN "ephemeral" ELSE "durable") /\ op.event = event
        /\ op.k \in Publication
    BY DEF Publication
  <2>4. \A j \in DOMAIN unpublished' : event.seq < unpublished'[j].seq
    <3>1. 1 \in DOMAIN unpublished
      BY <1>3
    <3> HIDE DEF op
    <3> QED BY <1>4, <1>5, <3>1
  <2>5. Logged(event)
    <3>1. 1 \in DOMAIN unpublished
      BY <1>3
    <3> QED BY <1>4, <3>1
  <2> HIDE DEF event, op
  <2>6. Queueable(op)
    BY <1>6, <2>3, <2>4, <2>5 DEF Queueable
  <2>7. Connected'
    BY <1>7, <2>1, RestoredSame DEF Connected
  <2>8. op.k # "ack" /\ op.k # "open"
    BY <2>3
  <2>9. op.event = unpublished[1]
    BY <2>3 DEF event
  <2>10. /\ socket' \in SocketType /\ socket'.held /\ socket'.status = socket.status
         /\ socket'.d = socket.d /\ socket'.saved = socket.saved /\ socket'.from = socket.from
    BY <1>7, <2>1, RestoredSame
  <2> QED BY <1>1, <1>7, <2>1, <2>2, <2>3, <2>6, <2>7, <2>8, <2>9, <2>10, QueueStep
<1>8. CASE ~Connected
  <2>1. UNCHANGED <<socket, ops>>
    BY <1>8 DEF FanoutPublishedEvent
  <2>2. \A i \in DOMAIN unpublished' : Logged(unpublished'[i])
    BY <1>4, <1>5
  <2>3. ASSUME NEW k \in DOMAIN unpublished', NEW l \in DOMAIN unpublished', k < l
        PROVE unpublished'[k].seq < unpublished'[l].seq
    <3>1. k + 1 < l + 1
      BY <1>5, <2>3
    <3>2. unpublished[k + 1].seq < unpublished[l + 1].seq
      BY <1>4, <1>5, <3>1
    <3> QED BY <1>5, <3>2
  <2>4. unpublished' \in Seq(EventType) /\ used' \in UsedType
    BY <1>1, <1>3 DEF DeliveryInvariant, DeliveryTypeOK
  <2> QED BY <1>1, <1>6, <1>8, <2>1, <2>2, <2>3, <2>4, PublishedStep
<1> QED BY <1>7, <1>8

LEMMA AcceptedStep ==
  ASSUME DeliveryInvariant, FinishAccept \/ FlushDeferredCatchUp \/ AckArrives
  PROVE  DeliveryInvariant'
<1>0. socket \in SocketType
  BY StateFacts
<1>1. CASE FinishAccept
  <2> DEFINE op == [k |-> "open"]
  <2>1. /\ socket.status = "accepting" /\ socket' = [socket EXCEPT !.status = "open"]
        /\ ops' = Append(ops, op)
        /\ UNCHANGED <<log, runtime, unpublished, running, todo, wire, acks, client, used>>
    BY <1>1 DEF FinishAccept
  <2>2. op \in OpType /\ op.k = "open"
    BY DEF OpType
  <2> HIDE DEF op
  <2>3. Queueable(op)
    BY <2>2 DEF Queueable, Publication
  <2>4. Connected /\ Connected' /\ socket' \in SocketType /\ socket'.d = socket.d
        /\ socket'.saved = socket.saved /\ socket'.from = socket.from /\ socket'.held = socket.held
    BY <1>0, <2>1 DEF Connected, SocketType, Statuses
  <2>5. socket'.held
    BY <2>1, <2>4 DEF DeliveryInvariant, Accounts
  <2> QED BY <2>1, <2>2, <2>3, <2>4, <2>5, QueueStep
<1>2. CASE FlushDeferredCatchUp
  <2> DEFINE op == [k |-> "flush"]
  <2>1. /\ Connected /\ socket.held /\ ops' = Append(ops, op)
        /\ UNCHANGED <<log, runtime, unpublished, socket, running, todo, wire, acks, client, used>>
    BY <1>2 DEF FlushDeferredCatchUp
  <2>2. op \in OpType /\ op.k = "flush"
    BY DEF OpType
  <2> HIDE DEF op
  <2>3. Queueable(op)
    BY <2>2 DEF Queueable, Publication
  <2>4. Connected'
    BY <2>1 DEF Connected
  <2> QED BY <1>0, <2>1, <2>2, <2>3, <2>4, QueueStep
<1>3. CASE AckArrives
  <2>1. PICK a \in acks : acks' = acks \ {a} /\ ops' = Append(ops, [k |-> "ack", ack |-> a])
    BY <1>3 DEF AckArrives
  <2>2. /\ Connected /\ socket' = Restored
        /\ UNCHANGED <<log, runtime, unpublished, running, todo, wire, client, used>>
    BY <1>3 DEF AckArrives
  <2> DEFINE op == [k |-> "ack", ack |-> a]
  <2>3. a \in AckType
    BY DEF DeliveryInvariant, DeliveryTypeOK
  <2>4. op \in OpType /\ op.k = "ack" /\ op.ack = a
    BY <2>3 DEF OpType
  <2>5. ops' = Append(ops, op)
    BY <2>1
  <2> HIDE DEF op
  <2>6. Queueable(op)
    BY <2>4 DEF Queueable, Publication
  <2>7. /\ socket' \in SocketType /\ socket'.held /\ socket'.status = socket.status
        /\ socket'.d = socket.d /\ socket'.saved = socket.saved /\ socket'.from = socket.from
    BY <2>2, RestoredSame
  <2>8. Connected'
    BY <2>2, <2>7 DEF Connected
  <2>9. acks' \in SUBSET acks /\ acks \subseteq acks' \cup {op.ack} /\ op.ack \in acks
    BY <2>1, <2>4
  <2> QED BY <2>2, <2>4, <2>5, <2>6, <2>7, <2>8, <2>9, QueueStep
<1> QED BY <1>1, <1>2, <1>3

LEMMA HibernateStep ==
  ASSUME DeliveryInvariant, Hibernate
  PROVE  DeliveryInvariant'
<1>1. /\ Connected /\ ops = <<>> /\ running = "none" /\ todo = <<>> /\ socket \in SocketType
  BY StateFacts DEF Hibernate, Connected, DeliveryInvariant, DeliveryTypeOK
<1>2. /\ runtime' = "cold"
      /\ socket' = [socket EXCEPT !.held = FALSE, !.d = socket.saved, !.head = 0, !.deferred = FALSE]
      /\ used' = [used EXCEPT !.surprises = @ + 1]
      /\ socket.status = "open"
      /\ UNCHANGED <<log, unpublished, ops, running, todo, wire, acks, client>>
  BY DEF Hibernate, Surprise
<1>3. socket.saved = Checkpoint(socket.d)
  BY <1>1 DEF DeliveryInvariant, Accounts, SavedInTime
<1>4. /\ socket'.d = socket.saved /\ socket'.saved = socket.saved /\ socket'.status = "open"
      /\ socket'.from = socket.from /\ socket' \in SocketType
  BY <1>1, <1>2 DEF SocketType
<1>5. Connected'
  BY <1>4 DEF Connected
<1>6. LET x == Checkpoint(socket.d) IN
         /\ x \in DeliveryType /\ x.pending = <<>> /\ x.sent = socket.d.sent /\ Buffered(x)
         /\ Capacity(x) = Capacity(socket.d) /\ Checkpoint(x) = x
         /\ (Counted(socket.d) => Counted(x))
         /\ \A R, place, Q : Settled(socket.d, R, place, Q) => Settled(x, R, place, Q)
         /\ \A F, M : Tracked(socket.d, F, M) => Tracked(x, F, M)
  BY StateFacts, CheckpointSame
<1>7. /\ socket'.d \in DeliveryType /\ socket'.d.pending = <<>> /\ socket'.d.sent = socket.d.sent
      /\ Buffered(socket'.d) /\ Capacity(socket'.d) = Capacity(socket.d)
      /\ Checkpoint(socket'.d) = socket'.d /\ Counted(socket'.d)
      /\ \A R, place, Q : Settled(socket.d, R, place, Q) => Settled(socket'.d, R, place, Q)
      /\ \A F, M : Tracked(socket.d, F, M) => Tracked(socket'.d, F, M)
  BY <1>3, <1>4, <1>6 DEF DeliveryInvariant, Accounts
<1>8. DeliveryTypeOK'
  <2>1. used' \in UsedType
    BY <1>2, SMTT(30) DEF DeliveryInvariant, DeliveryTypeOK, UsedType
  <2> QED BY <1>1, <1>2, <1>4, <1>5, <2>1 DEF DeliveryInvariant, DeliveryTypeOK
<1>9. Accounts'
  BY <1>1, <1>2, <1>4, <1>7 DEF DeliveryInvariant, Accounts, SavedInTime
<1>10. Sources'
  BY <1>2, <1>4, <1>7 DEF DeliveryInvariant, Sources, Publications, Sourced, Logged
<1>11. Agreed'
  <2>1. Theirs' = Theirs /\ Place' = Place /\ Said' = Said /\ Plan(todo)' = Plan(todo)
    BY <1>2 DEF Theirs, Place, SaidReceipts, SentReceipts, Said
  <2> QED BY <1>1, <1>2, <1>7, <2>1 DEF DeliveryInvariant, Agreed
<1>12. OnTheWay'
  <2>1. /\ Line' = Line /\ Missing' = Missing /\ Behind(todo)' = Behind(todo) /\ client' = client
    BY <1>2 DEF Line, Missing, Visible
  <2> QED BY <1>1, <1>2, <1>7, <2>1 DEF DeliveryInvariant, OnTheWay, FrameTrue, Logged
<1>13. Followed'
  <2>1. Reading => Reading'
    BY <1>2 DEF Reading
  <2>2. \A n : Shown(n) => Shown(n)'
    BY <1>2, <1>7 DEF Shown
  <2> QED BY <1>1, <1>2, <1>7, <2>1, <2>2 DEF DeliveryInvariant, Followed
<1> QED BY <1>8, <1>9, <1>10, <1>11, <1>12, <1>13 DEF DeliveryInvariant

LEMMA ConnectStep ==
  ASSUME DeliveryInvariant, Connect
  PROVE  DeliveryInvariant'
<1> DEFINE d == NewDelivery(client.cursor)
           c == client.cursor
<1>1. /\ ~Connected /\ wire = <<>> /\ ops = <<>> /\ todo = <<>>
      /\ acks' = {} /\ client' = [client EXCEPT !.frame = 0, !.acked = 0]
      /\ socket' = [NoSocket EXCEPT !.status = "accepting", !.held = TRUE, !.d = d,
                        !.saved = d, !.from = d.sent, !.head = d.sent]
      /\ UNCHANGED <<log, runtime, unpublished, ops, running, todo, wire, used>>
  BY DEF Connect, DeliveryInvariant, DeliveryTypeOK
<1>2. /\ client \in ClientType /\ c \in Nat /\ Len(log) \in Nat /\ c <= Len(log)
  BY StateFacts DEF DeliveryInvariant, Accounts
<1>3. /\ d \in DeliveryType /\ Counted(d) /\ Buffered(d)
      /\ d.inFlight = {} /\ d.suppressed = {} /\ d.pending = <<>>
      /\ d.ackSeq = c /\ d.ackFrame = 0 /\ d.sent = c /\ d.next = 1
  BY <1>2, FreshDelivery
<1> HIDE DEF d, c
<1>4. /\ d \in DeliveryType /\ d.inFlight = {} /\ d.suppressed = {} /\ d.pending = <<>>
      /\ d.ackSeq = c /\ d.ackFrame = 0 /\ d.sent = c /\ d.next = 1
  BY <1>3
<1>5. Counted(d) /\ Buffered(d)
  BY <1>3
<1>6. Checkpoint(d) = d
  BY <1>4 DEF Checkpoint, DeliveryType
<1>7. /\ socket'.status = "accepting" /\ socket'.held /\ socket'.d = d /\ socket'.saved = d
      /\ socket'.from = c /\ socket' \in SocketType
  <2>1. NoSocket = [status |-> "none", held |-> FALSE, d |-> NewDelivery(0), saved |-> NewDelivery(0),
                    from |-> 0, head |-> 0, deferred |-> FALSE, overdue |-> 0]
    BY DEF NoSocket
  <2> QED BY <1>1, <1>2, <1>4, <2>1 DEF SocketType, Statuses
<1>8. Connected'
  BY <1>7 DEF Connected
<1>9. /\ client' \in ClientType /\ client'.frame = 0 /\ client'.cursor = c /\ client'.seen = client.seen
  BY <1>1, <1>2 DEF ClientType, c
<1>10. DeliveryTypeOK'
  <2>1. {} \in SUBSET AckType
    OBVIOUS
  <2> QED BY <1>1, <1>7, <1>8, <1>9, <2>1 DEF DeliveryInvariant, DeliveryTypeOK
<1>11. Accounts'
  BY <1>1, <1>2, <1>4, <1>5, <1>6, <1>7, <1>9 DEF Accounts, SavedInTime
<1>12. Sources'
  <2>1. Members(<<>>) = {}
    BY DEF Members
  <2> QED BY <1>1, <1>2, <1>4, <1>7, <2>1 DEF DeliveryInvariant, Sources, Publications, Logged
<1>13. Agreed'
  <2>1. Said' = {} /\ SaidReceipts' = {}
    BY <1>1 DEF Said, SaidReceipts
  <2>2. SentReceipts' = {}
    BY <1>1 DEF SentReceipts, Members, Out
  <2>3. Theirs' = {} /\ Place' = [id |-> 0, thru |-> c]
    BY <1>9, <2>1, <2>2 DEF Theirs, Place
  <2>4. Plan(todo)' = <<>> /\ Queued(<<>>) = {} /\ Apart(<<>>)
    BY <1>1, QueuedOfOne, ApartOfOne DEF Plan
  <2>5. Held(d) = {[id |-> 0, thru |-> c]}
    BY <1>4 DEF Held
  <2>6. Settled(d, {}, [id |-> 0, thru |-> c], {})
    BY <1>2, <1>4, <2>5 DEF Settled, Monotone, Within
  <2> QED BY <1>7, <2>1, <2>3, <2>4, <2>6 DEF Agreed
<1>14. OnTheWay'
  <2>1. Line' = <<>>
    <3>1. Line' = (<<>> \o <<>>) \o <<>>
      BY <1>1 DEF Line, Out, Front
    <3> QED BY <3>1
  <2>2. Missing' = Missing /\ Behind(todo)' = <<>> /\ Ephemeral(<<>>)
    BY <1>1, <1>9 DEF Missing, Visible, Behind, Ephemeral
  <2>3. Members(<<>>) = {} /\ Carried(<<>>, Missing)
    BY DEF Members, Carried
  <2>4. \A n \in Missing : n > c /\ n \in Nat
    BY StateFacts DEF DeliveryInvariant, OnTheWay, c
  <2>5. Tracked(d, {}, Missing)
    BY <1>2, <1>4, <2>4 DEF Tracked
  <2> QED BY <1>7, <1>9, <2>1, <2>2, <2>3, <2>4, <2>5 DEF OnTheWay
<1>15. Followed'
  BY <1>1, <1>7 DEF Followed, Reading
<1> QED BY <1>10, <1>11, <1>12, <1>13, <1>14, <1>15 DEF DeliveryInvariant

LEMMA ClientAckStep ==
  ASSUME DeliveryInvariant, ClientAck
  PROVE  DeliveryInvariant'
<1> DEFINE a == [frame |-> client.frame, thru |-> client.cursor]
<1>1. /\ Connected /\ client.frame > client.acked
      /\ acks' = acks \cup {a} /\ client' = [client EXCEPT !.acked = client.frame]
      /\ UNCHANGED <<log, runtime, unpublished, socket, ops, running, todo, wire, used>>
  BY DEF ClientAck
<1>2. client \in ClientType /\ client.frame \in Nat /\ client.cursor \in Nat
  BY StateFacts
<1>3. client.frame > 0 /\ a \in AckType /\ a.frame = client.frame /\ a.thru = client.cursor
  BY <1>1, <1>2 DEF ClientType, AckType
<1> HIDE DEF a
<1>4. /\ client' \in ClientType /\ client'.frame = client.frame /\ client'.cursor = client.cursor
      /\ client'.seen = client.seen
  BY <1>1, <1>2 DEF ClientType
<1>5. DeliveryTypeOK'
  <2>1. acks' \in SUBSET AckType
    BY <1>1, <1>3 DEF DeliveryInvariant, DeliveryTypeOK
  <2> QED BY <1>1, <1>4, <2>1 DEF DeliveryInvariant, DeliveryTypeOK, Connected
<1>6. Accounts'
  BY <1>1, <1>4 DEF DeliveryInvariant, Accounts, SavedInTime, Connected
<1>7. Sources'
  BY <1>1 DEF DeliveryInvariant, Sources, Publications, Sourced, Logged
<1>8. Agreed'
  <2>1. Said' = Said \cup {a}
    BY <1>1 DEF Said
  <2>2. SaidReceipts' = SaidReceipts \cup {Place}
    BY <1>3, <2>1 DEF SaidReceipts, Place
  <2>3. SentReceipts' = SentReceipts /\ Place' = Place
    BY <1>1, <1>4 DEF SentReceipts, Place
  <2>4. Theirs' = Theirs
    BY <1>3, <1>4, <2>2, <2>3 DEF Theirs
  <2> QED BY <1>1, <1>2, <1>3, <1>4, <2>1, <2>3, <2>4 DEF DeliveryInvariant, Agreed
<1>9. OnTheWay'
  BY <1>1, <1>4 DEF DeliveryInvariant, OnTheWay, Connected, Line, Missing, Visible, FrameTrue, Logged
<1>10. Followed'
  BY <1>1 DEF DeliveryInvariant, Followed, Connected, Shown, Reading
<1> QED BY <1>5, <1>6, <1>7, <1>8, <1>9, <1>10 DEF DeliveryInvariant

LEMMA ClientApplyStep ==
  ASSUME DeliveryInvariant, ClientApply
  PROVE  DeliveryInvariant'
<1> DEFINE f == wire[1]
<1>1. /\ wire # <<>> /\ wire' = Tail(wire)
      /\ UNCHANGED <<log, runtime, unpublished, socket, ops, running, todo, acks, used>>
  BY DEF ClientApply
<1>2. /\ wire \in Seq(FrameType) /\ Out(todo) \in Seq(FrameType) /\ Front(todo) \in Seq(FrameType)
      /\ client \in ClientType /\ client.frame \in Nat /\ client.cursor \in Nat /\ Len(log) \in Nat
      /\ Missing \in SUBSET Nat /\ Line \in Seq(FrameType)
      /\ Place \in ReceiptType /\ Place.id = client.frame /\ Place.thru = client.cursor
  BY StateFacts
<1>3. /\ Head(wire) = f /\ f \in FrameType /\ Tail(wire) \in Seq(FrameType)
  BY <1>1, <1>2, HeadTail
<1>4. client' = [client EXCEPT !.frame = Larger(@, f.id), !.cursor = Larger(@, f.thru),
                               !.seen = @ \cup ({f.event.seq} \ {0})]
  BY <1>3 DEF ClientApply
<1> HIDE DEF f
<1>5. /\ f.id \in Nat /\ f.thru \in Nat /\ f.event.seq \in Nat
  BY <1>3 DEF FrameType, EventType
<1>6. /\ client' \in ClientType /\ client'.frame = Larger(client.frame, f.id)
      /\ client'.cursor = Larger(client.cursor, f.thru)
      /\ client'.seen = client.seen \cup ({f.event.seq} \ {0})
      /\ client'.frame \in Nat /\ client'.cursor \in Nat
      /\ client.frame <= client'.frame /\ client.cursor <= client'.cursor
  <2>1. Larger(client.frame, f.id) \in Nat /\ Larger(client.cursor, f.thru) \in Nat
        /\ client.frame <= Larger(client.frame, f.id) /\ client.cursor <= Larger(client.cursor, f.thru)
    BY <1>2, <1>5 DEF Larger
  <2>2. client.seen \cup ({f.event.seq} \ {0}) \in SUBSET Nat
    BY <1>2, <1>5 DEF ClientType
  <2> QED BY <1>2, <1>4, <2>1, <2>2 DEF ClientType
<1>7. /\ Line # <<>> /\ Line[1] = f /\ Line' = Tail(Line)
      /\ Members(Line) = {f} \cup Members(Line') /\ Members(wire) = {f} \cup Members(wire')
  <2> DEFINE rest == Tail(wire) \o (Out(todo) \o Front(todo))
  <2>1. /\ Out(todo) \o Front(todo) \in Seq(FrameType)
        /\ Line = wire \o (Out(todo) \o Front(todo))
    BY <1>2, ConcatProperties, ConcatAssociative, SMTT(30) DEF Line
  <2>2. wire = <<f>> \o Tail(wire) /\ <<f>> \in Seq(FrameType)
    BY <1>1, <1>2, <1>3, HeadThenTail DEF f
  <2>3. (<<f>> \o Tail(wire)) \o (Out(todo) \o Front(todo)) = <<f>> \o rest /\ rest \in Seq(FrameType)
    <3>1. \A u, v, w \in Seq(FrameType) : (u \o v) \o w = u \o (v \o w) /\ v \o w \in Seq(FrameType)
      BY ConcatAssociative, ConcatProperties, SMTT(30)
    <3> QED BY <1>3, <2>1, <2>2, <3>1
  <2>4. Line = <<f>> \o rest
    BY <2>1, <2>2, <2>3
  <2>5. Line' = rest
    <3>1. Line' = (Tail(wire) \o Out(todo)) \o Front(todo)
      BY <1>1 DEF Line
    <3>2. (Tail(wire) \o Out(todo)) \o Front(todo) = rest
      <4>1. \A u, v, w \in Seq(FrameType) : (u \o v) \o w = u \o (v \o w)
        BY ConcatAssociative, SMTT(30)
      <4> QED BY <1>2, <1>3, <4>1, SMTT(30)
    <3> QED BY <3>1, <3>2
  <2> HIDE DEF rest
  <2>6. Line # <<>> /\ Line[1] = f /\ Tail(Line) = rest
    BY <1>3, <2>3, <2>4, Cons
  <2>7. Members(Line) = {f} \cup Members(Tail(Line)) /\ Members(wire) = {f} \cup Members(Tail(wire))
    BY <1>1, <1>2, <2>6, MembersOfHeadTail DEF f
  <2> QED BY <1>1, <2>5, <2>6, <2>7
<1>8. Missing' = Missing \ {f.event.seq}
  <2>1. 0 \notin Missing
    BY StateFacts
  <2> QED BY <1>1, <1>6, <2>1 DEF Missing, Visible
<1>9. FrameTrue(f)
  BY <1>7 DEF DeliveryInvariant, OnTheWay
<1>10. DeliveryTypeOK'
  BY <1>1, <1>3, <1>6 DEF DeliveryInvariant, DeliveryTypeOK, Connected
<1>11. Accounts'
  <2>1. client'.cursor <= Len(log)
    BY <1>2, <1>5, <1>6, <1>9 DEF DeliveryInvariant, Accounts, FrameTrue, Larger
  <2> QED BY <1>1, <2>1 DEF DeliveryInvariant, Accounts, SavedInTime, Connected
<1>12. Sources'
  BY <1>1 DEF DeliveryInvariant, Sources, Publications, Sourced, Logged
<1>13. Agreed'
  <2> SUFFICES ASSUME Connected
               PROVE /\ Settled(socket.d, Theirs', Place', Queued(Plan(todo)))
                     /\ Apart(Plan(todo))
                     /\ \A a \in Said : a.frame > 0 /\ a.frame <= client'.frame /\ a.thru <= client'.cursor
    BY <1>1 DEF Agreed, Connected, Said
  <2>1. /\ Settled(socket.d, Theirs, Place, Queued(Plan(todo))) /\ Apart(Plan(todo))
        /\ \A a \in Said : a.frame > 0 /\ a.frame <= client.frame /\ a.thru <= client.cursor
    BY DEF DeliveryInvariant, Agreed
  <2>2. Receipt(f) \in Theirs /\ Receipt(f).id = f.id /\ Receipt(f).thru = f.thru
    BY <1>7 DEF Theirs, SentReceipts, Receipt
  <2>3. /\ f.id <= client.frame => f.thru <= client.cursor
        /\ client.frame <= f.id => client.cursor <= f.thru
    BY <1>2, <2>1, <2>2 DEF Settled, Monotone
  <2>4. \/ Place' = Place /\ client'.frame = client.frame
        \/ Place' = Receipt(f) /\ client'.frame > 0
    <3>1. CASE f.id <= client.frame
      BY <1>2, <1>5, <1>6, <2>3, <3>1 DEF Place, Larger
    <3>2. CASE ~(f.id <= client.frame)
      BY <1>2, <1>5, <1>6, <2>3, <3>2 DEF Place, Larger, Receipt
    <3> QED BY <3>1, <3>2
  <2>5. SaidReceipts' = SaidReceipts /\ SentReceipts' \subseteq SentReceipts
    BY <1>1, <1>7 DEF SaidReceipts, SentReceipts, Said
  <2>6. Theirs' \subseteq Theirs
    <3>1. Theirs' = (SaidReceipts' \cup SentReceipts') \cup (IF client'.frame > 0 THEN {Place'} ELSE {})
      BY DEF Theirs
    <3>2. CASE Place' = Place /\ client'.frame = client.frame
      BY <2>5, <3>1, <3>2 DEF Theirs
    <3>3. CASE Place' = Receipt(f)
      <4>1. Theirs' \subseteq (SaidReceipts \cup SentReceipts) \cup {Receipt(f)}
        BY <2>5, <3>1, <3>3
      <4>2. SaidReceipts \cup SentReceipts \subseteq Theirs
        BY DEF Theirs
      <4> QED BY <2>2, <4>1, <4>2
    <3> QED BY <2>4, <3>2, <3>3
  <2>7. Settled(socket.d, Theirs', Place', Queued(Plan(todo)))
    <3>1. (Held(socket.d) \cup Theirs') \cup {Place'} \subseteq (Held(socket.d) \cup Theirs) \cup {Place}
      BY <2>2, <2>4, <2>6
    <3> QED BY <2>1, <2>6, <3>1 DEF Settled, Monotone, Within
  <2>8. \A a \in Said : a.frame > 0 /\ a.frame <= client'.frame /\ a.thru <= client'.cursor
    <3>1. \A a \in Said : a.frame \in Nat /\ a.thru \in Nat
      BY StateFacts DEF AckType
    <3> QED BY <1>2, <1>6, <2>1, <3>1
  <2> QED BY <2>1, <2>7, <2>8
<1>14. OnTheWay'
  <2>1. Carried(Line', Missing')
    <3>1. Missing' \in SUBSET Missing /\ Line[1].event.seq \notin Missing'
      BY <1>7, <1>8
    <3>2. Carried(Tail(Line), Missing')
      BY <1>2, <1>7, <3>1, CarriedTail DEF DeliveryInvariant, OnTheWay
    <3> QED BY <1>7, <3>2
  <2>2. ASSUME NEW n \in Missing' PROVE n > client'.cursor
    <3>1. n \in Missing /\ n \in Nat /\ n # f.event.seq
      BY <1>2, <1>8
    <3>2. n > client.cursor
      BY <3>1 DEF DeliveryInvariant, OnTheWay
    <3>3. ASSUME n <= f.thru PROVE FALSE
      <4>1. 1 \in DOMAIN Line
        BY <1>2, <1>7, HeadTail
      <4>2. PICK i \in 1 .. 1 : Line[i].event.seq = n
        BY <1>7, <3>1, <3>3, <4>1 DEF DeliveryInvariant, OnTheWay, Carried
      <4> QED BY <1>7, <3>1, <4>2
    <3> QED BY <1>2, <1>5, <1>6, <3>1, <3>2, <3>3 DEF Larger
  <2>3. ASSUME Connected PROVE Tracked(socket.d, Members(Line'), Missing')
    <3>1. Tracked(socket.d, Members(Line), Missing)
      BY <2>3 DEF DeliveryInvariant, OnTheWay
    <3>2. Missing' \in SUBSET Missing /\ \A g \in Members(Line) : g.event.seq \in Missing' => g \in Members(Line')
      BY <1>7, <1>8
    <3> QED BY <3>1, <3>2, TrackedLess
  <2>4. \A g \in Members(Line') : FrameTrue(g)'
    BY <1>1, <1>7 DEF DeliveryInvariant, OnTheWay, FrameTrue, Logged
  <2>5. Ephemeral(Behind(todo)) /\ socket' = socket /\ todo' = todo /\ Connected' = Connected
    BY <1>1 DEF DeliveryInvariant, OnTheWay, Connected
  <2> QED BY <2>1, <2>2, <2>3, <2>4, <2>5 DEF OnTheWay
<1>15. Followed'
  BY <1>1 DEF DeliveryInvariant, Followed, Connected, Shown, Reading
<1> QED BY <1>10, <1>11, <1>12, <1>13, <1>14, <1>15 DEF DeliveryInvariant

LEMMA QuietSteps ==
  ASSUME DeliveryInvariant,
         Wake \/ BecomeReady \/ BuildFails \/ DeadlinePasses \/ Disconnect \/ Crash \/ DoClose
  PROVE  DeliveryInvariant'
<1>0. /\ socket \in SocketType /\ socket.saved \in DeliveryType /\ used \in UsedType
      /\ acks \in SUBSET AckType /\ runtime \in {"cold", "building", "ready"}
  BY StateFacts DEF DeliveryInvariant, DeliveryTypeOK
<1>1. Surprise => used' \in UsedType
  BY <1>0 DEF Surprise, UsedType
<1>2. {} \in SUBSET AckType
  OBVIOUS
<1>3. CASE Wake
  BY <1>0, <1>3, QuietStep DEF Wake
<1>4. CASE BecomeReady
  BY <1>0, <1>4, QuietStep DEF BecomeReady
<1>5. CASE BuildFails
  <2>1. CASE UNCHANGED <<socket, ops, running, todo>>
    BY <1>0, <1>1, <1>5, <2>1, QuietStep DEF BuildFails
  <2>2. CASE Dropped("failed")
    BY <1>0, <1>1, <1>5, <2>2, DroppedStep DEF BuildFails
  <2> QED BY <1>5, <2>1, <2>2 DEF BuildFails
<1>6. CASE DeadlinePasses
  <2>1. socket' = [socket EXCEPT !.overdue = socket.saved.next - 1]
        /\ UNCHANGED <<log, runtime, unpublished, ops, running, todo, wire, acks, client>>
        /\ used' \in UsedType
    BY <1>1, <1>6 DEF DeadlinePasses
  <2>2. socket.saved.next - 1 \in Nat
    <3>1. Counted(socket.saved)
      BY DEF DeliveryInvariant, Accounts
    <3> QED BY <1>0, <3>1 DEF Counted, DeliveryType
  <2>3. /\ socket' \in SocketType /\ socket'.status = socket.status /\ socket'.held = socket.held
        /\ socket'.d = socket.d /\ socket'.saved = socket.saved /\ socket'.from = socket.from
    BY <1>0, <2>1, <2>2 DEF SocketType
  <2> QED BY <1>0, <2>1, <2>3, QuietStep
<1>7. CASE Disconnect
  BY <1>0, <1>1, <1>2, <1>7, DroppedStep DEF Disconnect
<1>8. CASE Crash
  BY <1>0, <1>1, <1>2, <1>8, DroppedStep DEF Crash
<1>9. CASE DoClose
  <2>1. /\ todo # <<>> /\ Head(todo).k = "Close" /\ Dropped(Head(todo).why)
        /\ UNCHANGED <<log, runtime, unpublished, wire, acks, client, used>>
    BY <1>9 DEF DoClose, Doing
  <2>2. Head(todo) \in ActionType
    BY <2>1, StateFacts, TodoCases
  <2>3. Head(todo).why = "lagged"
    BY <2>1, <2>2, ActionKinds DEF CloseType
  <2> QED BY <1>0, <2>1, <2>3, DroppedStep
<1> QED BY <1>3, <1>4, <1>5, <1>6, <1>7, <1>8, <1>9

LEMMA Dequeued ==
  ASSUME DeliveryInvariant, ops' = ops \/ (ops # <<>> /\ ops' = Tail(ops)),
         UNCHANGED <<log, unpublished, acks, client>>
  PROVE  /\ ops' \in Seq(OpType) /\ Said' \subseteq Said /\ Publications'
         /\ \A i \in DOMAIN ops : \/ ops # ops' /\ i = 1
                                  \/ \E j \in DOMAIN ops' : ops'[j] = ops[i]
<1>1. CASE ops' = ops
  <2>1. Publications'
    BY <1>1 DEF DeliveryInvariant, Sources, Publications, Logged
  <2> QED BY <1>1, <2>1, StateFacts DEF Said
<1>2. CASE ops # <<>> /\ ops' = Tail(ops)
  <2>1. /\ Tail(ops) \in Seq(OpType) /\ Len(ops) \in Nat \ {0} /\ DOMAIN ops = 1 .. Len(ops)
        /\ DOMAIN Tail(ops) = 1 .. Len(ops) - 1
        /\ \A i \in 1 .. Len(ops) - 1 : Tail(ops)[i] = ops[i + 1]
        /\ Len(Tail(ops)) = Len(ops) - 1
    BY <1>2, StateFacts, HeadTail
  <2>a. DOMAIN ops' = 1 .. Len(ops) - 1
    BY <1>2, <2>1
  <2>2. ASSUME NEW i \in DOMAIN ops' PROVE i \in Nat /\ i + 1 \in DOMAIN ops /\ ops'[i] = ops[i + 1]
    <3>1. i \in 1 .. Len(ops) - 1
      BY <2>a
    <3>2. i \in Nat /\ i + 1 \in 1 .. Len(ops)
      BY <2>1, <3>1
    <3> QED BY <1>2, <2>1, <3>1, <3>2
  <2>3. Said' \subseteq Said
    BY <1>2, <2>2 DEF Said
  <2>4. Publications
    BY DEF DeliveryInvariant, Sources
  <2>5. \A i \in DOMAIN ops' :
         /\ ops'[i].k \in Publication => Logged(ops'[i].event)
         /\ ops'[i].k = "durable" => ops'[i].event.seq # 0
         /\ ops'[i].k = "ephemeral" => ops'[i].event.seq = 0
    BY <2>2, <2>4 DEF Publications
  <2>6. ASSUME NEW i \in DOMAIN ops', NEW j \in DOMAIN ops', ops'[i].k = "durable", ops'[j].k = "durable"
        PROVE i = j
    <3>1. ops[i + 1].k = "durable" /\ ops[j + 1].k = "durable" /\ i \in Nat /\ j \in Nat
      BY <2>2, <2>6
    <3>2. i + 1 = j + 1
      BY <2>2, <2>4, <3>1 DEF Publications
    <3> QED BY <3>1, <3>2
  <2>7. \A i \in DOMAIN ops', j \in DOMAIN unpublished :
         ops'[i].k = "durable" => ops'[i].event.seq < unpublished[j].seq
    BY <2>2, <2>4 DEF Publications
  <2>8. Publications'
    BY <2>4, <2>5, <2>6, <2>7 DEF Publications, Logged
  <2>9. ops # ops'
    <3>1. ops = Tail(ops) => Len(ops) = Len(ops) - 1
      BY <2>1, Zenon
    <3>2. Len(ops) \in Nat
      BY <2>1
    <3>3. Len(ops) # Len(ops) - 1
      BY <3>2
    <3>4. ops # Tail(ops)
      BY <3>1, <3>3, Zenon
    <3> QED BY <1>2, <3>4
  <2>10. ASSUME NEW i \in DOMAIN ops, i # 1 PROVE \E j \in DOMAIN ops' : ops'[j] = ops[i]
    <3>1. i - 1 \in DOMAIN ops' /\ (i - 1) + 1 = i
      BY <2>1, <2>a, <2>10
    <3> QED BY <2>2, <3>1
  <2> QED BY <1>2, <2>1, <2>3, <2>8, <2>9, <2>10
<1> QED BY <1>1, <1>2

LEMMA SourcedLater ==
  ASSUME NEW a \in LaterType, NEW n \in Nat, NEW m \in Nat, n <= m, Sourced(a, n)
  PROVE  Sourced(a, m)'
<1>1. a.k # "Page" /\ (a.k = "Send" => a.reads = {}) /\ (a.k = "Read" => a.after \in Nat)
  BY LaterKinds, ActionKinds DEF ReadType
<1> QED BY <1>1 DEF Sourced

\* Nothing but the wire carries frames when an operation begins, or has read a page.
LEMMA BetweenBatches ==
  ASSUME DeliveryInvariant, Connected, todo = <<>> \/ todo[1].k = "Page",
         NEW s, s = IF todo = <<>> THEN <<>> ELSE Tail(todo)
  PROVE  /\ s \in Seq(LaterType) /\ Ephemeral(s) /\ Apart(s)
         /\ Line = wire /\ Theirs = (SaidReceipts \cup {Receipt(f) : f \in Members(wire)})
                                    \cup (IF client.frame > 0 THEN {Place} ELSE {})
         /\ Queued(Plan(todo)) = Queued(s) /\ Settled(socket.d, Theirs, Place, Queued(s))
         /\ Tracked(socket.d, Members(wire), Missing) /\ Carried(wire, Missing)
         /\ Out(todo) = <<>> /\ Plan(todo) = todo
         /\ \A a \in Members(s) : Sourced(a, socket.d.sent)
         /\ \A i \in DOMAIN todo : i = 1 \/ todo[i] \in Members(s)
         /\ SavedInTime => socket.saved = Checkpoint(socket.d)
<1>1. TodoType(todo) /\ wire \in Seq(FrameType)
  BY StateFacts
<1>2. /\ Plan(todo) = todo /\ Out(todo) = <<>> /\ Front(todo) = <<>> /\ Behind(todo) = todo
      /\ todo # <<>> => /\ Queued(todo) = Queued(Tail(todo))
                        /\ Apart(todo) <=> Apart(Tail(todo))
  BY <1>1, OtherTodo DEF Front, Behind
<1>3. Line = wire
  <2>1. wire \o <<>> = wire
    BY <1>1, ConcatEmptySeq
  <2> QED BY <1>2, <2>1 DEF Line
<1>4. /\ Settled(socket.d, Theirs, Place, Queued(todo)) /\ Apart(todo)
      /\ Ephemeral(todo) /\ Carried(wire, Missing) /\ Tracked(socket.d, Members(wire), Missing)
      /\ \A a \in Members(todo) : Sourced(a, socket.d.sent)
  BY <1>2, <1>3 DEF DeliveryInvariant, Agreed, OnTheWay, Sources
<1>5. Theirs = (SaidReceipts \cup {Receipt(f) : f \in Members(wire)})
               \cup (IF client.frame > 0 THEN {Place} ELSE {})
  <2>1. Members(<<>>) = {}
    BY DEF Members
  <2> QED BY <1>2, <2>1 DEF Theirs, SentReceipts
<1>6. SavedInTime => socket.saved = Checkpoint(socket.d)
  BY DEF SavedInTime
<1>7. CASE todo = <<>>
  <2>1. s = <<>> /\ <<>> \in Seq(LaterType)
    BY <1>7
  <2>2. Members(<<>>) = {} /\ Queued(<<>>) = {}
    BY DEF Members, Queued
  <2>3. Ephemeral(<<>>) /\ Apart(<<>>)
    BY <1>4, <1>7
  <2>4. DOMAIN todo = {}
    BY <1>7
  <2> QED BY <1>2, <1>3, <1>4, <1>5, <1>6, <1>7, <2>1, <2>2, <2>3, <2>4
<1>8. CASE todo # <<>>
  <2>1. s = Tail(todo) /\ s \in Seq(LaterType) /\ todo \in Seq(ActionType)
    BY <1>1, <1>8, TodoCases
  <2>2. Ephemeral(s)
    BY <1>4, <1>8, <2>1, EphemeralOfHead
  <2>3. Members(todo) = {todo[1]} \cup Members(s)
    BY <1>8, <2>1, MembersOfHeadTail
  <2>4. \A i \in DOMAIN todo : i = 1 \/ todo[i] \in Members(s)
    <3>1. /\ Len(todo) \in Nat \ {0} /\ DOMAIN todo = 1 .. Len(todo)
          /\ DOMAIN Tail(todo) = 1 .. Len(todo) - 1
          /\ \A i \in 1 .. Len(todo) - 1 : Tail(todo)[i] = todo[i + 1]
      BY <1>8, <2>1, HeadTail
    <3>2. ASSUME NEW i \in 1 .. Len(todo), i # 1 PROVE todo[i] \in Members(s)
      <4>1. i - 1 \in 1 .. Len(todo) - 1 /\ (i - 1) + 1 = i
        BY <3>1, <3>2
      <4> QED BY <2>1, <3>1, <4>1 DEF Members
    <3> QED BY <3>1, <3>2
  <2> QED BY <1>2, <1>3, <1>4, <1>5, <1>6, <1>8, <2>1, <2>2, <2>3, <2>4
<1> QED BY <1>7, <1>8

\* What a result plans, after a batch or a page, keeps the invariant but for what has
\* still to be read.
LEMMA ResultStep ==
  ASSUME DeliveryInvariant, Connected, todo = <<>> \/ todo[1].k = "Page",
         ops # <<>> \/ todo # <<>>,
         NEW s, s = (IF todo = <<>> THEN <<>> ELSE Tail(todo)),
         NEW b \in DeliveryType, Counted(b), b.sent = socket.d.sent,
         Settled(b, Theirs, Place, Queued(s)), Tracked(b, Members(wire), Missing),
         NEW r, NEW e, NEW changed, NEW more, Sends(b, r, e, changed, more),
         b = socket.d \/ changed,
         Continuing(b, e, Missing), \A i \in 1 .. Len(e) : Logged(e[i]),
         (\A i \in DOMAIN e : e[i].seq = 0) \/ e = <<>>
           \/ r.acts = ActsOf(Frames(b, e), r.d.sent, changed, more),
         NEW h \in Nat, socket' = [socket EXCEPT !.head = h, !.d = r.d],
         todo' = r.acts \o s,
         ops' = ops \/ (ops # <<>> /\ ops' = Tail(ops)),
         running' \in Publication \cup {"none", "ack", "flush", "open"},
         running' = "none" <=> todo' = <<>>,
         UNCHANGED <<log, runtime, unpublished, wire, acks, client, used>>
  PROVE  /\ DeliveryTypeOK' /\ Accounts' /\ Sources' /\ Agreed' /\ OnTheWay'
         /\ more \/ r.acts = <<Close("lagged")>> => Reading'
         /\ todo' # <<>> => todo'[1].k # "Page"
         /\ Capacity(r.d) <= Capacity(b) /\ socket.d.sent <= r.d.sent
         /\ \A a \in Members(s) : a \in Members(todo')
         /\ Plan(todo') = todo' /\ socket'.d = r.d /\ socket'.status = socket.status
<1> DEFINE t  == r.acts \o s
           fs == Frames(b, e)
<1>0. /\ socket \in SocketType /\ socket.d \in DeliveryType /\ wire \in Seq(FrameType)
      /\ Theirs \in SUBSET ReceiptType /\ Place \in ReceiptType
      /\ Missing \in SUBSET Nat /\ 0 \notin Missing /\ Len(log) \in Nat
  BY StateFacts
<1>1. /\ s \in Seq(LaterType) /\ Ephemeral(s) /\ Apart(s)
      /\ Theirs = (SaidReceipts \cup {Receipt(f) : f \in Members(wire)})
                  \cup (IF client.frame > 0 THEN {Place} ELSE {})
      /\ Carried(wire, Missing) /\ Out(todo) = <<>> /\ Line = wire
      /\ \A a \in Members(s) : Sourced(a, socket.d.sent)
      /\ SavedInTime => socket.saved = Checkpoint(socket.d)
  BY BetweenBatches
<1>2. /\ r.acts \in Seq(LaterType)
      /\ Planned(t, r.acts, fs, r.d.sent, more /\ r.acts # <<Close("lagged")>>, s)
      /\ Settled(r.d, Theirs, Place, Queued(t))
      /\ r.d.sent \in Nat /\ fs \in Seq(FrameType)
      /\ r.acts = <<Close("lagged")>> \/ r.acts = ActsOf(fs, r.d.sent, changed, more)
      /\ changed /\ r.acts # <<Close("lagged")>> => Begins(t, Persist)
      /\ r.acts # <<Close("lagged")>> /\ fs # <<>> => Begins(t, Persist)
      /\ r.acts = <<Close("lagged")>> => Begins(t, Close("lagged"))
  <2>1. /\ b \in DeliveryType /\ Counted(b) /\ Sends(b, r, e, changed, more)
        /\ Settled(b, Theirs, Place, Queued(s))
    OBVIOUS
  <2>2. s \in Seq(LaterType) /\ Ephemeral(s) /\ Apart(s)
    BY <1>1
  <2>3. PlansOut(b, r, e, changed, more, s, Theirs, Place)
    BY ONLY <1>0, <2>1, <2>2, SendsPlanned
  <2> QED BY <2>3 DEF PlansOut
<1>3. /\ Carried(wire \o Front(t), Missing)
      /\ Tracked(r.d, Members(wire \o Front(t)), Missing)
      /\ \A f \in Members(Front(t)) :
           (\E i \in 1 .. Len(e) : f = fs[i]) \/ (f.event.seq = 0 /\ f.thru <= b.sent)
  <2>1. \A f \in Members(wire) : Receipt(f) \in Theirs
    BY <1>1
  <2>2. /\ b \in DeliveryType /\ Counted(b) /\ Sends(b, r, e, changed, more)
        /\ Settled(b, Theirs, Place, Queued(s)) /\ Tracked(b, Members(wire), Missing)
        /\ Continuing(b, e, Missing)
        /\ (\A i \in DOMAIN e : e[i].seq = 0) \/ e = <<>>
             \/ r.acts = ActsOf(Frames(b, e), r.d.sent, changed, more)
    OBVIOUS
  <2> QED BY ONLY <1>0, <1>1, <2>1, <2>2, SendsTracked, ZenonT(30)
<1>4. /\ Emits(b, r.d, e) /\ Buffered(r.d)
      /\ changed \in BOOLEAN /\ more \in BOOLEAN
  BY DEF Sends
<1>5. /\ Counted(r.d) /\ Capacity(r.d) = Capacity(b) - Len(e)
      /\ r.d \in DeliveryType /\ e \in Seq(EventType) /\ Rising(e)
      /\ r.d.sent = (IF e = <<>> THEN b.sent ELSE fs[Len(e)].thru) /\ b.sent <= r.d.sent
      /\ (e = <<>> => Checkpoint(r.d) = Checkpoint(b))
  BY <1>4, Emitted
<1>6. /\ Len(e) \in Nat
      /\ \A i \in 1 .. Len(e) :
           fs[i].event = e[i] /\ e[i] \in EventType
           /\ fs[i].thru = Larger(b.sent, e[i].seq) /\ fs[i] \in FrameType
      /\ (fs = <<>> <=> e = <<>>)
  BY <1>5, FramesOfEvents
<1>7. /\ TodoType(t) /\ Plan(t) = t /\ Out(t) = <<>>
      /\ (t # <<>> => t[1].k # "Page" /\ (t[1].k = "Send" => t[1].reads = {}))
      /\ t \in Seq(LaterType) /\ Ephemeral(Behind(t)) /\ Apart(t)
      /\ Members(t) \subseteq Members(s) \cup {Persist, Close("lagged"), Read(r.d.sent), Send(fs)}
      /\ Members(s) \subseteq Members(t)
  BY <1>2, LaterTodo DEF Planned
<1>8. b.sent <= Len(log) /\ b.sent \in Nat
  BY <1>0 DEF DeliveryInvariant, Accounts, DeliveryType
<1>9. ASSUME NEW i \in 1 .. Len(e)
      PROVE e[i].seq \in Nat /\ e[i].seq <= Len(log) /\ fs[i].thru <= Len(log) /\ e[i].seq <= fs[i].thru
  <2>1. e[i].seq \in Nat /\ e[i].seq <= Len(log)
    BY <1>0, <1>6 DEF EventType, Logged
  <2>2. fs[i].thru = Larger(b.sent, e[i].seq)
    BY <1>6
  <2> QED BY <1>0, <1>8, <2>1, <2>2 DEF Larger
<1>10. r.d.sent <= Len(log)
  <2>1. CASE e = <<>>
    BY <1>5, <1>8, <2>1
  <2>2. CASE e # <<>>
    <3>1. Len(e) \in 1 .. Len(e)
      BY <1>5, <2>2, EmptySeq, <1>6
    <3> QED BY <1>5, <1>9, <2>2, <3>1
  <2> QED BY <2>1, <2>2
<1>11. Capacity(r.d) <= Capacity(b)
  <2>1. Capacity(b) \in Nat
    BY CapacityIsNat
  <2> QED BY <1>5, <1>6, <2>1
<1> HIDE DEF t, fs
<1>12. todo' = t
  BY DEF t
<1>13. /\ socket' \in SocketType /\ socket'.d = r.d /\ socket'.status = socket.status
       /\ socket'.held = socket.held /\ socket'.saved = socket.saved /\ socket'.from = socket.from
  BY <1>0, <1>5 DEF SocketType
<1>14. Connected' /\ socket.held
  BY <1>13 DEF DeliveryInvariant, Accounts, Connected
<1>15. /\ ops' \in Seq(OpType) /\ Said' \subseteq Said /\ Publications'
  BY Dequeued
<1>16. DeliveryTypeOK'
  BY <1>7, <1>12, <1>13, <1>14, <1>15 DEF DeliveryInvariant, DeliveryTypeOK
<1>17. Accounts'
  <2>1. SavedInTime'
    <3>1. CASE Begins(t, Persist) \/ Begins(t, Close("lagged"))
      <4>1. Persist.k = "Persist" /\ Close("lagged").k = "Close"
        BY DEF Persist, Close
      <4> QED BY <1>12, <3>1, <4>1 DEF SavedInTime, Begins
    <3>2. CASE ~(Begins(t, Persist) \/ Begins(t, Close("lagged")))
      <4>1. ~changed /\ fs = <<>>
        BY <1>2, <1>4, <3>2
      <4>2. Checkpoint(r.d) = Checkpoint(socket.d)
        BY <1>5, <1>6, <4>1
      <4>3. socket.saved = Checkpoint(socket.d)
        BY <1>1 DEF DeliveryInvariant, Accounts
      <4> QED BY <1>13, <4>2, <4>3 DEF SavedInTime
    <3> QED BY <3>1, <3>2
  <2> QED BY <1>4, <1>5, <1>10, <1>13, <1>14, <2>1 DEF DeliveryInvariant, Accounts
<1>18. Sources'
  <2>1. socket'.from <= socket'.d.sent
    <3>1. socket.from \in Nat /\ socket.from <= socket.d.sent
      BY <1>0 DEF SocketType, DeliveryInvariant, Sources
    <3>2. socket'.from = socket.from /\ socket'.d.sent = r.d.sent
      BY <1>13
    <3>3. socket.d.sent <= r.d.sent /\ socket.d.sent \in Nat /\ r.d.sent \in Nat
      BY <1>5, <1>8 DEF DeliveryType
    <3> QED BY ONLY <3>1, <3>2, <3>3
  <2>2. ASSUME NEW a \in Members(t) PROVE Sourced(a, r.d.sent)'
    <3>2. CASE a \in Members(s)
      <4>1. a \in LaterType /\ Sourced(a, socket.d.sent) /\ socket.d.sent \in Nat /\ socket.d.sent <= r.d.sent
        BY <1>1, <1>5, <1>8, <3>2, MembersTyped
      <4> QED BY <1>2, <4>1, SourcedLater
    <3>3. CASE a \in {Persist, Close("lagged"), Read(r.d.sent), Send(fs)}
      BY <1>2, <3>3 DEF Sourced, Persist, Close, Read, Send
    <3> QED BY <1>7, <3>2, <3>3
  <2> QED BY <1>12, <1>13, <1>15, <2>1, <2>2 DEF Sources
<1>19. Agreed'
  <2>1. Theirs' \subseteq Theirs /\ Place' = Place
    <3>1. SaidReceipts' \subseteq SaidReceipts
      BY <1>15 DEF SaidReceipts
    <3>2. SentReceipts' = SentReceipts
      BY <1>1, <1>7, <1>12 DEF SentReceipts
    <3>3. Place' = Place /\ client' = client
      BY DEF Place
    <3> QED BY <3>1, <3>2, <3>3 DEF Theirs
  <2>2. Settled(r.d, Theirs', Place, Queued(t))
    BY <1>2, <2>1, SettledLess
  <2>3. \A a \in Said' : a.frame > 0 /\ a.frame <= client.frame /\ a.thru <= client.cursor
    BY <1>15 DEF DeliveryInvariant, Agreed
  <2> QED BY <1>7, <1>12, <1>13, <2>1, <2>2, <2>3 DEF Agreed
<1>20. OnTheWay'
  <2>1. Front(t) \in Seq(FrameType)
    BY <1>7, FrontTyped
  <2>2. Line' = wire \o Front(t)
    <3>1. wire \o <<>> = wire
      BY <1>0, ConcatEmptySeq
    <3> QED BY <1>7, <1>12, <3>1 DEF Line
  <2>3. Members(wire \o Front(t)) = Members(wire) \cup Members(Front(t))
    BY <1>0, <2>1, MembersOfConcat
  <2>4. ASSUME NEW f \in Members(Front(t)) PROVE FrameTrue(f)
    <3>1. CASE \E i \in 1 .. Len(e) : f = fs[i]
      <4>1. PICK i \in 1 .. Len(e) : f = fs[i]
        BY <3>1
      <4> QED BY <1>6, <1>9, <4>1 DEF FrameTrue
    <3>2. CASE f.event.seq = 0 /\ f.thru <= b.sent
      <4>1. f \in FrameType
        BY <2>1, MembersTyped
      <4> QED BY <1>0, <1>8, <3>2, <4>1 DEF FrameTrue, Logged, FrameType
    <3> QED BY <1>3, <3>1, <3>2
  <2>5. \A f \in Members(wire) : FrameTrue(f)
    BY <1>1 DEF DeliveryInvariant, OnTheWay
  <2>6. \A f \in Members(Line') : FrameTrue(f)'
    BY <2>2, <2>3, <2>4, <2>5 DEF FrameTrue, Logged
  <2>7. Missing' = Missing
    BY DEF Missing, Visible
  <2> QED BY <1>3, <1>7, <1>12, <1>13, <2>2, <2>6, <2>7 DEF DeliveryInvariant, OnTheWay
<1>21. more \/ r.acts = <<Close("lagged")>> => Reading'
  <2> SUFFICES ASSUME more \/ r.acts = <<Close("lagged")>> PROVE Reading'
    OBVIOUS
  <2>1. Read(r.d.sent) \in Members(t) \/ Close("lagged") \in Members(t)
    BY <1>2, <1>4 DEF Planned
  <2>2. Read(r.d.sent).k = "Read" /\ Close("lagged").k = "Close"
    BY DEF Read, Close
  <2>3. \E i \in DOMAIN t : t[i].k \in {"Read", "Page", "Close"}
    BY <2>1, <2>2 DEF Members
  <2> QED BY <1>7, <1>12, <2>3 DEF Reading
<1> QED BY <1>5, <1>7, <1>11, <1>12, <1>13, <1>16, <1>17, <1>18, <1>19, <1>20, <1>21

-----------------------------------------------------------------------------
(* What has been shown stays shown, or is sent. *)

LEMMA ShownLater ==
  ASSUME DeliveryInvariant, NEW n, Shown(n), socket'.d.sent \in Nat, n \in Nat,
         socket.d.sent <= socket'.d.sent, unpublished' = unpublished,
         ops' = ops \/ (ops # <<>> /\ ops' = Tail(ops)), UNCHANGED <<log, acks, client>>,
         ops' # ops /\ ops[1].k = "durable" => ops[1].event.seq <= socket'.d.sent
  PROVE  Shown(n)'
<1>1. socket.d.sent \in Nat
  BY StateFacts DEF DeliveryType
<1>2. \A i \in DOMAIN ops : \/ ops # ops' /\ i = 1
                            \/ \E j \in DOMAIN ops' : ops'[j] = ops[i]
  BY Dequeued
<1>3. CASE n <= socket.d.sent
  BY <1>1, <1>3 DEF Shown
<1>4. CASE \E i \in DOMAIN unpublished : unpublished[i].seq = n
  BY <1>4 DEF Shown
<1>5. CASE \E i \in DOMAIN ops : ops[i].k = "durable" /\ ops[i].event.seq = n
  <2>1. PICK i \in DOMAIN ops : ops[i].k = "durable" /\ ops[i].event.seq = n
    BY <1>5
  <2>2. CASE ops # ops' /\ i = 1
    BY <2>1, <2>2 DEF Shown
  <2>3. CASE \E j \in DOMAIN ops' : ops'[j] = ops[i]
    BY <2>1, <2>3 DEF Shown
  <2> QED BY <1>2, <2>2, <2>3
<1> QED BY <1>3, <1>4, <1>5 DEF Shown

\* An operation that neither reads nor shows less than it takes from the queue.
LEMMA RunFollowed ==
  ASSUME DeliveryInvariant, Connected, todo = <<>>, ops # <<>>, ops' = Tail(ops),
         UNCHANGED <<log, unpublished, acks, client>>, socket'.status = socket.status,
         socket'.d \in DeliveryType, socket.d.sent <= socket'.d.sent,
         Capacity(socket'.d) \in Int, Capacity(socket'.d) <= Capacity(socket.d),
         todo' # <<>> => todo'[1].k # "Page",
         Reading' \/ ~(Capacity(socket'.d) > 0)
           \/ (ops[1].k # "open" /\ (ops[1].k = "durable" => ops[1].event.seq <= socket'.d.sent))
  PROVE  Followed'
<1>1. Capacity(socket.d) \in Nat
  BY StateFacts, CapacityIsNat DEF DeliveryInvariant, Accounts
<1>2. SUFFICES ASSUME Capacity(socket'.d) > 0, ~Reading', NEW n \in 1 .. Len(log)
               PROVE  Shown(n)'
  BY DEF Followed
<1>3. ops[1].k # "open" /\ (ops[1].k = "durable" => ops[1].event.seq <= socket'.d.sent)
  BY <1>2
<1>4. \A i \in DOMAIN ops : \/ ops # ops' /\ i = 1
                            \/ \E j \in DOMAIN ops' : ops'[j] = ops[i]
  BY Dequeued
<1>5. ~Reading
  <2>1. Plan(<<>>) = <<>> /\ DOMAIN <<>> = {}
    BY DEF Plan
  <2>2. socket.status # "accepting"
    BY <1>2 DEF Reading
  <2>3. \A i \in DOMAIN ops : ops[i].k # "open"
    BY <1>2, <1>3, <1>4 DEF Reading
  <2> QED BY <2>1, <2>2, <2>3 DEF Reading
<1>6. Shown(n)
  BY <1>1, <1>2, <1>5 DEF DeliveryInvariant, Followed
<1>7. n \in Nat /\ socket'.d.sent \in Nat
  BY DEF DeliveryType
<1> QED BY <1>3, <1>6, <1>7, ShownLater

-----------------------------------------------------------------------------
(* Operations. *)

\* An operation that at most asks for a page.
LEMMA StartStep ==
  ASSUME DeliveryInvariant, running = "none", ops # <<>>, ops' = Tail(ops), Connected,
         NEW n \in Nat, n <= socket.d.sent, todo' = <<>> \/ todo' = <<Read(n)>>,
         socket' \in SocketType,
         socket'.status = socket.status, socket'.held = socket.held, socket'.d = socket.d,
         socket'.saved = socket.saved, socket'.from = socket.from,
         running' = (IF todo' = <<>> THEN "none" ELSE ops[1].k),
         UNCHANGED <<log, runtime, unpublished, wire, acks, client, used>>,
         todo' # <<>>
           \/ (ops[1].k # "open" /\ (ops[1].k = "durable" => ops[1].event.seq <= socket.d.sent))
           \/ (Capacity(socket.d) > 0 => Reading')
  PROVE  DeliveryInvariant'
<1> DEFINE a == Read(n)
<1>0. /\ socket.d \in DeliveryType /\ wire \in Seq(FrameType) /\ ops \in Seq(OpType)
      /\ Theirs \in SUBSET ReceiptType /\ Place \in ReceiptType
      /\ todo = <<>>
  BY StateFacts DEF DeliveryInvariant, DeliveryTypeOK
<1>1. /\ Line = wire /\ Settled(socket.d, Theirs, Place, {})
      /\ Tracked(socket.d, Members(wire), Missing) /\ Carried(wire, Missing)
      /\ Out(todo) = <<>> /\ (SavedInTime => socket.saved = Checkpoint(socket.d))
  <2>1. Queued(<<>>) = {}
    BY DEF Queued
  <2> QED BY <1>0, <2>1, BetweenBatches
<1>2. a \in LaterType /\ a.k = "Read" /\ a.after = n /\ a.k \in Quiet
  <2>1. <<>> \in Seq(FrameType)
    OBVIOUS
  <2> QED BY <2>1, Actions
<1> HIDE DEF a
<1>3. /\ todo' \in Seq(LaterType) /\ Members(todo') \subseteq {a}
      /\ Queued(todo') = {} /\ Apart(todo') /\ Ephemeral(Behind(todo')) /\ Front(todo') = <<>>
      /\ (todo' # <<>> => a \in Members(todo') /\ todo'[1] = a)
  <2>1. CASE todo' = <<>>
    BY <2>1 DEF Members, Queued, Apart, Ephemeral, Behind, Front
  <2>2. CASE todo' = <<a>>
    <3>1. <<>> \in Seq(LaterType) /\ <<a>> \o <<>> = <<a>>
      <4>1. <<a>> \in Seq(LaterType)
        BY <1>2
      <4> QED BY <4>1, ConcatEmptySeq
    <3>2. Queued(<<>>) = {} /\ Apart(<<>>) /\ Ephemeral(<<>>) /\ Members(<<>>) = {}
      BY DEF Members, Queued, Apart, Ephemeral
    <3>3. /\ <<a>> \in Seq(LaterType) /\ Queued(<<a>>) = {} /\ Apart(<<a>>) /\ Ephemeral(<<a>>)
          /\ Members(<<a>>) = {a} /\ <<a>>[1] = a
      BY <1>2, <3>1, <3>2, QuietHead, ZenonT(30)
    <3>4. Behind(<<a>>) = <<a>> /\ Front(<<a>>) = <<>>
      BY <1>2 DEF Behind, Front
    <3> QED BY <2>2, <3>3, <3>4
  <2> QED BY <2>1, <2>2 DEF a
<1>4. TodoType(todo') /\ Plan(todo') = todo' /\ Out(todo') = <<>>
  BY <1>3, LaterTodo
<1>5. /\ ops' \in Seq(OpType) /\ Said' \subseteq Said /\ Publications'
  BY Dequeued
<1>6. ops[1] \in OpType /\ ops[1].k \in Publication \cup {"ack", "flush", "open"} /\ ops[1].k # "none"
  <2>1. ops[1] \in OpType
    BY <1>0, HeadTail
  <2> QED BY <2>1 DEF OpType, Publication
<1>7. Connected' /\ socket.held
  BY DEF DeliveryInvariant, Accounts, Connected
<1>8. DeliveryTypeOK'
  BY <1>4, <1>5, <1>6, <1>7 DEF DeliveryInvariant, DeliveryTypeOK
<1>9. Accounts'
  <2>1. SavedInTime'
    BY <1>1 DEF DeliveryInvariant, Accounts, SavedInTime
  <2> QED BY <1>7, <2>1 DEF DeliveryInvariant, Accounts
<1>10. Sources'
  <2>1. Sourced(a, socket.d.sent)'
    BY <1>2 DEF Sourced, a
  <2> QED BY <1>3, <1>5, <2>1 DEF DeliveryInvariant, Sources
<1>11. Agreed'
  <2>1. Theirs' \subseteq Theirs /\ Place' = Place
    <3>1. SaidReceipts' \subseteq SaidReceipts
      BY <1>5 DEF SaidReceipts
    <3>2. SentReceipts' = SentReceipts
      BY <1>1, <1>4 DEF SentReceipts
    <3>3. Place' = Place /\ client' = client
      BY DEF Place
    <3> QED BY <3>1, <3>2, <3>3 DEF Theirs
  <2>2. Settled(socket.d, Theirs', Place, {})
    BY <1>1, <2>1, SettledLess
  <2>3. \A x \in Said' : x.frame > 0 /\ x.frame <= client.frame /\ x.thru <= client.cursor
    BY <1>5 DEF DeliveryInvariant, Agreed
  <2> QED BY <1>3, <1>4, <2>1, <2>2, <2>3 DEF Agreed
<1>12. OnTheWay'
  <2>1. Line' = wire
    <3>1. wire \o <<>> = wire
      BY <1>0, ConcatEmptySeq
    <3> QED BY <1>3, <1>4, <3>1 DEF Line
  <2>2. Missing' = Missing
    BY DEF Missing, Visible
  <2>3. \A f \in Members(Line') : FrameTrue(f)'
    BY <1>1, <2>1 DEF DeliveryInvariant, OnTheWay, FrameTrue, Logged
  <2> QED BY <1>1, <1>3, <2>1, <2>2, <2>3 DEF DeliveryInvariant, OnTheWay
<1>13. todo' # <<>> => Reading'
  BY <1>2, <1>3, <1>4 DEF Reading, Members
<1>14. todo' # <<>> => todo'[1].k # "Page"
  BY <1>2, <1>3
<1>15. Capacity(socket.d) \in Nat /\ socket.d.sent \in Nat
  BY <1>0, CapacityIsNat DEF DeliveryInvariant, Accounts, DeliveryType
<1>16. Followed'
  BY <1>0, <1>13, <1>14, <1>15, RunFollowed
<1> QED BY <1>8, <1>9, <1>10, <1>11, <1>12, <1>16 DEF DeliveryInvariant

LEMMA Begun ==
  ASSUME DeliveryInvariant, NEW k, Begin(k)
  PROVE  /\ todo = <<>> /\ running = "none" /\ ops # <<>> /\ ops' = Tail(ops) /\ Connected
         /\ Head(ops) = ops[1] /\ ops[1] \in OpType /\ ops[1].k = k /\ 1 \in DOMAIN ops
         /\ k \in Publication => ops[1].event \in EventType /\ Logged(ops[1].event)
         /\ k = "durable" => ops[1].event.seq # 0
         /\ k = "ephemeral" => ops[1].event.seq = 0
         /\ k = "ack" => ops[1].ack \in AckType /\ ops[1].ack \in Said
         /\ UNCHANGED <<log, runtime, unpublished, wire, acks, client, used>>
         /\ socket \in SocketType /\ socket.d \in DeliveryType /\ socket.overdue \in Nat
         /\ socket.head \in Nat /\ socket.d.sent \in Nat
         /\ Counted(socket.d) /\ Buffered(socket.d) /\ Capacity(socket.d) \in Nat
<1>1. ops \in Seq(OpType) /\ socket \in SocketType /\ socket.d \in DeliveryType /\ socket.overdue \in Nat
      /\ socket.head \in Nat
  BY StateFacts
<1>2. /\ running = "none" /\ ops # <<>> /\ ops' = Tail(ops)
      /\ UNCHANGED <<log, runtime, unpublished, wire, acks, client, used>> /\ Head(ops).k = k
  BY DEF Begin
<1>3. Head(ops) = ops[1] /\ ops[1] \in OpType /\ 1 \in DOMAIN ops
  BY <1>1, <1>2, HeadTail
<1>4. todo = <<>> /\ Connected
  BY <1>2 DEF DeliveryInvariant, DeliveryTypeOK
<1>5. /\ k \in Publication => ops[1].event \in EventType
      /\ k = "ack" => ops[1].ack \in AckType
  BY <1>2, <1>3 DEF OpType, Publication
<1>6. /\ k \in Publication => Logged(ops[1].event)
      /\ k = "durable" => ops[1].event.seq # 0
      /\ k = "ephemeral" => ops[1].event.seq = 0
  BY <1>2, <1>3 DEF DeliveryInvariant, Sources, Publications
<1>7. k = "ack" => ops[1].ack \in Said
  BY <1>2, <1>3 DEF Said
<1>8. /\ socket.d.sent \in Nat /\ Counted(socket.d) /\ Buffered(socket.d)
      /\ Capacity(socket.d) \in Nat
  BY <1>1, CapacityIsNat DEF DeliveryInvariant, Accounts, DeliveryType
<1> QED BY <1>1, <1>2, <1>3, <1>4, <1>5, <1>6, <1>7, <1>8

LEMMA RunFlushStep ==
  ASSUME DeliveryInvariant, RunFlush \/ RunOpen
  PROVE  DeliveryInvariant'
<1>1. CASE RunFlush
  <2>1. Begin("flush")
    BY <1>1 DEF RunFlush
  <2>2. /\ todo = <<>> /\ running = "none" /\ ops # <<>> /\ ops' = Tail(ops) /\ Connected
        /\ Head(ops) = ops[1] /\ ops[1].k = "flush"
        /\ UNCHANGED <<log, runtime, unpublished, wire, acks, client, used>>
        /\ socket \in SocketType /\ socket.d.sent \in Nat
    BY <2>1, Begun
  <2> DEFINE n == socket.d.sent
  <2>3. n \in Nat /\ n <= socket.d.sent
    BY <2>2
  <2>4. /\ socket' \in SocketType
        /\ socket'.status = socket.status /\ socket'.held = socket.held /\ socket'.d = socket.d
        /\ socket'.saved = socket.saved /\ socket'.from = socket.from
        /\ todo' = <<>> \/ todo' = <<Read(n)>>
        /\ running' = (IF todo' = <<>> THEN "none" ELSE ops[1].k)
    BY <1>1, <2>2 DEF RunFlush, Start, Interpret, SocketType
  <2> HIDE DEF n
  <2> QED BY <2>2, <2>3, <2>4, StartStep
<1>2. CASE RunOpen
  <2>1. Begin("open")
    BY <1>2 DEF RunOpen
  <2>2. /\ todo = <<>> /\ running = "none" /\ ops # <<>> /\ ops' = Tail(ops) /\ Connected
        /\ Head(ops) = ops[1] /\ ops[1].k = "open"
        /\ UNCHANGED <<log, runtime, unpublished, wire, acks, client, used>>
        /\ socket \in SocketType /\ socket.d.sent \in Nat
    BY <2>1, Begun
  <2> DEFINE n == socket.from
  <2>3. n \in Nat /\ n <= socket.d.sent
    BY StateFacts DEF DeliveryInvariant, Sources
  <2>4. /\ socket' \in SocketType
        /\ socket'.status = socket.status /\ socket'.held = socket.held /\ socket'.d = socket.d
        /\ socket'.saved = socket.saved /\ socket'.from = socket.from
        /\ todo' = <<Read(n)>>
        /\ running' = (IF todo' = <<>> THEN "none" ELSE ops[1].k)
    BY <1>2, <2>2 DEF RunOpen, Start, Interpret, SocketType
  <2>5. todo' # <<>>
    BY <2>4
  <2> HIDE DEF n
  <2> QED BY <2>2, <2>3, <2>4, <2>5, StartStep
<1> QED BY <1>1, <1>2

LEMMA EphemeralStep ==
  ASSUME DeliveryInvariant, RunEphemeral
  PROVE  DeliveryInvariant'
<1> DEFINE d     == socket.d
           event == ops[1].event
           r     == OnEphemeralEvent(d, event, socket.overdue)
<1>1. Begin("ephemeral")
  BY DEF RunEphemeral
<1>2. "ephemeral" \in Publication
  BY DEF Publication
<1>3. /\ todo = <<>> /\ running = "none" /\ ops # <<>> /\ ops' = Tail(ops) /\ Connected
      /\ Head(ops) = ops[1] /\ ops[1].k = "ephemeral"
      /\ event \in EventType /\ event.seq = 0
      /\ UNCHANGED <<log, runtime, unpublished, wire, acks, client, used>>
      /\ socket \in SocketType /\ d \in DeliveryType /\ socket.overdue \in Nat
      /\ socket.head \in Nat /\ d.sent \in Nat
      /\ Counted(d) /\ Buffered(d) /\ Capacity(d) \in Nat
  BY <1>1, <1>2, Begun
<1>4. PICK e \in Seq(EventType) :
        /\ Sends(d, r, e, FALSE, FALSE)
        /\ \A i \in DOMAIN e : e[i].seq = 0 /\ e[i] = event
  <2> HIDE DEF d, event
  <2>1. /\ d \in DeliveryType /\ Counted(d) /\ Buffered(d) /\ event \in EventType /\ event.seq = 0
        /\ socket.overdue \in Nat
    BY <1>3
  <2> QED BY ONLY <2>1, EphemeralSends
<1>5. /\ socket' = [socket EXCEPT !.head = socket.head, !.d = r.d]
      /\ todo' = r.acts /\ running' = (IF r.acts = <<>> THEN "none" ELSE "ephemeral")
  BY <1>3 DEF RunEphemeral, Interpret, SocketType
<1> DEFINE s == <<>>
<1>6. /\ s \in Seq(LaterType) /\ Ephemeral(s) /\ Apart(s)
      /\ Settled(d, Theirs, Place, Queued(s)) /\ Tracked(d, Members(wire), Missing)
  BY <1>3, BetweenBatches
<1> HIDE DEF r
<1>7. r.acts \in Seq(LaterType) /\ r.d \in DeliveryType /\ d.sent <= r.d.sent
      /\ Capacity(r.d) = Capacity(d) - Len(e) /\ Len(e) \in Nat
  <2>1. Theirs \in SUBSET ReceiptType /\ Place \in ReceiptType
    BY StateFacts
  <2>2. PlansOut(d, r, e, FALSE, FALSE, s, Theirs, Place)
    BY <1>3, <1>4, <1>6, <2>1, SendsPlanned
  <2>3. Emits(d, r.d, e)
    BY <1>4 DEF Sends
  <2> QED BY <1>3, <1>4, <2>2, <2>3, Emitted, LenProperties DEF PlansOut
<1>8. todo' = r.acts \o s
  BY <1>5, <1>7, ConcatEmptySeq
<1>9. Continuing(d, e, Missing) /\ \A i \in 1 .. Len(e) : Logged(e[i])
  <2>1. DOMAIN e = 1 .. Len(e)
    BY <1>4, LenProperties
  <2>2. \A n \in Missing : n \in Nat
    BY StateFacts
  <2> QED BY <1>3, <1>4, <2>1, <2>2, SMTT(30) DEF Continuing, Logged
<1>10. /\ s = (IF todo = <<>> THEN <<>> ELSE Tail(todo))
       /\ running' \in Publication \cup {"none", "ack", "flush", "open"}
       /\ (running' = "none" <=> todo' = <<>>)
  BY <1>3, <1>5 DEF Publication
<1> HIDE DEF s
<1>11. /\ DeliveryTypeOK' /\ Accounts' /\ Sources' /\ Agreed' /\ OnTheWay'
       /\ todo' # <<>> => todo'[1].k # "Page"
       /\ Capacity(r.d) <= Capacity(d) /\ d.sent <= r.d.sent
       /\ socket'.d = r.d /\ socket'.status = socket.status
  <2>1. FALSE \/ d = socket.d
    OBVIOUS
  <2> HIDE DEF d
  <2>2. (\A i \in DOMAIN e : e[i].seq = 0) /\ d.sent = socket.d.sent
    BY <1>4 DEF d
  <2> QED BY <1>3, <1>4, <1>5, <1>6, <1>8, <1>9, <1>10, <2>1, <2>2, ResultStep, ZenonT(30)
<1>12. Followed'
  <2>1. Capacity(r.d) \in Int
    BY <1>3, <1>7
  <2> QED BY <1>3, <1>7, <1>11, <2>1, RunFollowed
<1> QED BY <1>11, <1>12 DEF DeliveryInvariant

LEMMA DurableStep ==
  ASSUME DeliveryInvariant, RunDurable
  PROVE  DeliveryInvariant'
<1> DEFINE d     == socket.d
           event == ops[1].event
           sent  == socket.d.sent
           h     == Larger(socket.head, event.seq)
           one   == <<event>>
           r     == OnDurableEvents(d, one, h, socket.overdue)
<1>1. Begin("durable")
  BY DEF RunDurable
<1>2. "durable" \in Publication
  BY DEF Publication
<1>3. /\ todo = <<>> /\ running = "none" /\ ops # <<>> /\ ops' = Tail(ops) /\ Connected
      /\ Head(ops) = ops[1] /\ ops[1].k = "durable" /\ 1 \in DOMAIN ops
      /\ event \in EventType /\ Logged(event) /\ event.seq # 0
      /\ UNCHANGED <<log, runtime, unpublished, wire, acks, client, used>>
      /\ socket \in SocketType /\ d \in DeliveryType /\ socket.overdue \in Nat
      /\ socket.head \in Nat /\ sent \in Nat
      /\ Counted(d) /\ Buffered(d) /\ Capacity(d) \in Nat
  BY <1>1, <1>2, Begun
<1>4. event.seq \in Nat \ {0} /\ event.seq <= Len(log) /\ h \in Nat
  BY <1>3 DEF EventType, Logged, Larger
<1>5. ASSUME NEW acts, acts = <<>> \/ acts = <<Read(sent)>>,
             socket' \in SocketType,
             socket'.status = socket.status, socket'.held = socket.held, socket'.d = socket.d,
             socket'.saved = socket.saved, socket'.from = socket.from,
             todo' = acts, running' = (IF acts = <<>> THEN "none" ELSE ops[1].k),
             acts # <<>> \/ event.seq <= sent \/ (Capacity(d) > 0 => Reading')
      PROVE  DeliveryInvariant'
  <2>1. sent \in Nat /\ sent <= socket.d.sent
    BY <1>3
  <2>2. /\ todo' = <<>> \/ todo' = <<Read(sent)>>
        /\ running' = (IF todo' = <<>> THEN "none" ELSE ops[1].k)
        /\ \/ todo' # <<>>
           \/ (ops[1].k # "open" /\ (ops[1].k = "durable" => ops[1].event.seq <= socket.d.sent))
           \/ (Capacity(socket.d) > 0 => Reading')
    BY <1>3, <1>5
  <2> HIDE DEF sent
  <2> QED BY <1>3, <1>5, <2>1, <2>2, StartStep
<1>6. CASE event.seq <= sent /\ Start([socket EXCEPT !.head = h], <<>>)
  <2>1. /\ socket' \in SocketType
        /\ socket'.status = socket.status /\ socket'.held = socket.held /\ socket'.d = socket.d
        /\ socket'.saved = socket.saved /\ socket'.from = socket.from
        /\ todo' = <<>> /\ running' = "none"
    BY <1>3, <1>4, <1>6 DEF Start, Interpret, SocketType
  <2> QED BY <1>5, <1>6, <2>1
<1>7. CASE event.seq > sent + 1 /\ runtime = "ready" /\ Start([socket EXCEPT !.head = h], <<Read(sent)>>)
  <2>1. /\ socket' \in SocketType
        /\ socket'.status = socket.status /\ socket'.held = socket.held /\ socket'.d = socket.d
        /\ socket'.saved = socket.saved /\ socket'.from = socket.from
        /\ todo' = <<Read(sent)>> /\ running' = ops[1].k
    BY <1>3, <1>4, <1>7 DEF Start, Interpret, SocketType
  <2>2. <<Read(sent)>> # <<>>
    OBVIOUS
  <2> QED BY <1>5, <2>1, <2>2
<1>8. CASE /\ event.seq > sent + 1 /\ runtime # "ready"
           /\ Start([[socket EXCEPT !.head = h] EXCEPT !.deferred = TRUE], <<>>)
  <2>1. /\ socket' \in SocketType
        /\ socket'.status = socket.status /\ socket'.held = socket.held /\ socket'.d = socket.d
        /\ socket'.saved = socket.saved /\ socket'.from = socket.from
        /\ todo' = <<>> /\ running' = "none"
    BY <1>3, <1>4, <1>8 DEF Start, Interpret, SocketType
  <2>2. sent + 1 \in 1 .. Len(log)
    BY <1>3, <1>4, <1>8, SMTT(30)
  <2>3. ~Shown(sent + 1)
    <3>1. ~(sent + 1 <= socket.d.sent)
      BY <1>3
    <3>2. ASSUME NEW j \in DOMAIN unpublished PROVE unpublished[j].seq # sent + 1
      <4>1. event.seq < unpublished[j].seq
        BY <1>3 DEF DeliveryInvariant, Sources, Publications
      <4>2. unpublished[j].seq \in Nat
        <5>1. unpublished \in Seq(EventType)
          BY DEF DeliveryInvariant, DeliveryTypeOK
        <5>2. unpublished[j] \in EventType
          BY <5>1, LenProperties
        <5> QED BY <5>2 DEF EventType
      <4> QED BY <1>3, <1>4, <1>8, <4>1, <4>2
    <3>3. ASSUME NEW i \in DOMAIN ops, ops[i].k = "durable" PROVE ops[i].event.seq # sent + 1
      <4>1. i = 1
        BY <1>3, <3>3 DEF DeliveryInvariant, Sources, Publications
      <4> QED BY <1>3, <1>4, <1>8, <4>1
    <3> QED BY <3>1, <3>2, <3>3 DEF Shown
  <2>4. Capacity(d) > 0 => Reading
    BY <1>3, <2>2, <2>3 DEF DeliveryInvariant, Followed
  <2>5. Reading => Reading'
    <3>1. \A i \in DOMAIN ops : \/ ops # ops' /\ i = 1
                                \/ \E j \in DOMAIN ops' : ops'[j] = ops[i]
      BY <1>3, Dequeued
    <3>2. Plan(<<>>) = <<>> /\ DOMAIN <<>> = {}
      BY DEF Plan
    <3> QED BY <1>3, <2>1, <3>1, <3>2 DEF Reading
  <2> QED BY <1>5, <2>1, <2>4, <2>5
<1>9. CASE event.seq = sent + 1 /\ Interpret([socket EXCEPT !.head = h], r)
  <2>1. /\ socket' = [socket EXCEPT !.head = h, !.d = r.d]
        /\ todo' = r.acts /\ running' = (IF r.acts = <<>> THEN "none" ELSE "durable")
    BY <1>3, <1>9 DEF Interpret, SocketType
  <2>2. /\ one \in Seq(EventType) /\ one # <<>> /\ Consecutive(one) /\ one[1] = event /\ Len(one) = 1
        /\ Members(one) = {event} /\ DOMAIN one = {1}
    BY <1>3, <1>4 DEF Consecutive, Members
  <2>3. one[1].seq <= d.sent + 1 /\ h \in Nat
    BY <1>4, <1>9, <2>2
  <2> HIDE DEF one, r
  <2>5. PICK e \in Seq(EventType) : \E more \in BOOLEAN : SendsDurable(d, one, h, r, e, more)
    <3> USE DEF r
    <3> HIDE DEF d, h
    <3>1. /\ d \in DeliveryType /\ Counted(d) /\ Buffered(d) /\ socket.overdue \in Nat
      BY <1>3
    <3> QED BY ONLY <2>2, <2>3, <3>1, DurableSends
  <2>6. PICK more \in BOOLEAN :
          /\ Sends(d, r, e, FALSE, more)
          /\ \A i \in 1 .. Len(e) : e[i].seq = d.sent + i /\ e[i] \in Members(one)
          /\ more \/ r.acts = <<Close("lagged")>> \/ Capacity(r.d) = 0 \/ h <= r.d.sent
          /\ e # <<>> \/ Len(Unsent(d, one)) = 0 \/ Capacity(r.d) = 0 \/ r.acts = <<Close("lagged")>>
          /\ e = <<>> \/ r.acts = ActsOf(Frames(d, e), r.d.sent, FALSE, more)
    BY <2>5 DEF SendsDurable
  <2>7. Len(Unsent(d, one)) = 1
    <3>1. {i \in DOMAIN one : one[i].seq <= d.sent} = {}
      BY <1>3, <1>9, <2>2
    <3>2. Cardinality({}) = 0
      BY FS_EmptySet
    <3>a. Unsent(d, one) = SubSeq(one, 1 + Cardinality({i \in DOMAIN one : one[i].seq <= d.sent}), Len(one))
      BY DEF Unsent
    <3>b. Cardinality({i \in DOMAIN one : one[i].seq <= d.sent}) = 0
      BY <3>1, <3>2
    <3>c. 1 + 0 = 1
      OBVIOUS
    <3>3. Unsent(d, one) = SubSeq(one, 1, 1)
      BY <2>2, <3>a, <3>b, <3>c, Zenon
    <3>4. Len(SubSeq(one, 1, 1)) = 1
      BY <2>2, SubSeqProperties
    <3> QED BY <3>3, <3>4
  <2> DEFINE s == <<>>
  <2>8. /\ s \in Seq(LaterType) /\ Ephemeral(s) /\ Apart(s)
        /\ Settled(d, Theirs, Place, Queued(s)) /\ Tracked(d, Members(wire), Missing)
    BY <1>3, BetweenBatches
  <2>9. /\ r.acts \in Seq(LaterType) /\ r.d \in DeliveryType /\ d.sent <= r.d.sent
        /\ Capacity(r.d) = Capacity(d) - Len(e) /\ Len(e) \in Nat
        /\ r.d.sent = (IF e = <<>> THEN d.sent ELSE Frames(d, e)[Len(e)].thru)
        /\ \A i \in 1 .. Len(e) : Frames(d, e)[i].thru <= r.d.sent /\ Frames(d, e)[i].thru = Larger(d.sent, e[i].seq)
    <3>1. Theirs \in SUBSET ReceiptType /\ Place \in ReceiptType
      BY StateFacts
    <3>2. PlansOut(d, r, e, FALSE, more, s, Theirs, Place)
      BY <1>3, <2>6, <2>8, <3>1, SendsPlanned
    <3>3. Emits(d, r.d, e)
      BY <2>6 DEF Sends
    <3>4. e \in Seq(EventType) /\ Rising(e)
      BY <3>3 DEF Emits
    <3>5. \A i \in 1 .. Len(e) : Frames(d, e)[i].thru = Larger(d.sent, e[i].seq)
      BY <1>3, <3>4, FramesOfEvents
    <3> QED BY <1>3, <2>6, <3>2, <3>3, <3>5, Emitted, LenProperties, SMTT(30) DEF PlansOut
  <2>10. todo' = r.acts \o s
    BY <2>1, <2>9, ConcatEmptySeq
  <2>11. Continuing(d, e, Missing) /\ \A i \in 1 .. Len(e) : Logged(e[i])
    <3>1. ASSUME NEW i \in 1 .. Len(e), NEW n \in Missing, d.sent < n, n <= e[i].seq
          PROVE \E k \in 1 .. i : e[k].seq = n
      <4>1. n \in Nat /\ e[i].seq = d.sent + i
        BY <2>6, StateFacts
      <4>2. n - d.sent \in 1 .. i /\ n - d.sent \in 1 .. Len(e) /\ d.sent + (n - d.sent) = n
        BY <1>3, <2>9, <3>1, <4>1, SMTT(30)
      <4>3. e[n - d.sent].seq = d.sent + (n - d.sent)
        BY <2>6, <4>2
      <4> QED BY <4>2, <4>3
    <3>2. \A i \in 1 .. Len(e) : Logged(e[i])
      BY <1>3, <2>2, <2>6
    <3> QED BY <3>1, <3>2 DEF Continuing
  <2>12. /\ s = (IF todo = <<>> THEN <<>> ELSE Tail(todo))
         /\ running' \in Publication \cup {"none", "ack", "flush", "open"}
         /\ (running' = "none" <=> todo' = <<>>)
    BY <1>3, <2>1 DEF Publication
  <2> HIDE DEF s, h
  <2>13. /\ DeliveryTypeOK' /\ Accounts' /\ Sources' /\ Agreed' /\ OnTheWay'
         /\ more \/ r.acts = <<Close("lagged")>> => Reading'
         /\ todo' # <<>> => todo'[1].k # "Page"
         /\ Capacity(r.d) <= Capacity(d) /\ d.sent <= r.d.sent
         /\ socket'.d = r.d /\ socket'.status = socket.status
    <3>1. FALSE \/ d = socket.d
      OBVIOUS
    <3> HIDE DEF d
    <3>2. (\A i \in DOMAIN e : e[i].seq = 0) \/ e = <<>>
            \/ r.acts = ActsOf(Frames(d, e), r.d.sent, FALSE, more)
      BY <2>6
    <3>3. d.sent = socket.d.sent
      BY DEF d
    <3> QED BY <1>3, <1>4, <2>1, <2>6, <2>8, <2>10, <2>11, <2>12, <3>1, <3>2, <3>3, ResultStep, ZenonT(30)
  <2>14. Reading' \/ ~(Capacity(r.d) > 0) \/ event.seq <= r.d.sent
    <3>1. CASE e # <<>>
      <4>1. 1 \in 1 .. Len(e)
        BY <2>5, <2>9, <3>1, EmptySeq
      <4>2. e[1].seq = d.sent + 1 /\ Frames(d, e)[1].thru <= r.d.sent
            /\ Frames(d, e)[1].thru = Larger(d.sent, e[1].seq)
        BY <2>6, <2>9, <4>1
      <4>3. Frames(d, e)[1].thru = d.sent + 1
        BY <1>3, <4>2 DEF Larger
      <4> QED BY <1>9, <4>2, <4>3
    <3>2. CASE e = <<>>
      BY <2>6, <2>7, <2>13, <3>2
    <3> QED BY <3>1, <3>2
  <2>15. Followed'
    <3>1. Capacity(r.d) \in Int
      BY <1>3, <2>9
    <3> QED BY <1>3, <2>9, <2>13, <2>14, <3>1, RunFollowed
  <2> QED BY <2>13, <2>15 DEF DeliveryInvariant
<1>10. /\ [socket EXCEPT !.head = Larger(@, event.seq)] = [socket EXCEPT !.head = h]
       /\ [socket EXCEPT !.head = h].d = d /\ [socket EXCEPT !.head = h].head = h
       /\ [socket EXCEPT !.head = h].overdue = socket.overdue
  BY <1>3 DEF SocketType
<1> QED BY <1>3, <1>6, <1>7, <1>8, <1>9, <1>10 DEF RunDurable

LEMMA AckStep ==
  ASSUME DeliveryInvariant, RunAck
  PROVE  DeliveryInvariant'
<1> DEFINE d == socket.d
           a == ops[1].ack
           o == [id |-> a.frame, thru |-> a.thru]
           b == ApplyAck(d, a)
           r == ReopenDeliveryWindow(b, socket.overdue)
           s == <<>>
<1>1. Begin("ack")
  BY DEF RunAck
<1>2. /\ todo = <<>> /\ running = "none" /\ ops # <<>> /\ ops' = Tail(ops) /\ Connected
      /\ Head(ops) = ops[1] /\ ops[1].k = "ack"
      /\ a \in AckType /\ a \in Said
      /\ UNCHANGED <<log, runtime, unpublished, wire, acks, client, used>>
      /\ socket \in SocketType /\ d \in DeliveryType /\ socket.overdue \in Nat
      /\ socket.head \in Nat /\ d.sent \in Nat
      /\ Counted(d) /\ Buffered(d) /\ Capacity(d) \in Nat
  BY <1>1, Begun
<1>3. /\ Theirs \in SUBSET ReceiptType /\ Place \in ReceiptType /\ wire \in Seq(FrameType)
      /\ Missing \in SUBSET Nat /\ client.cursor \in Nat
  BY StateFacts
<1>4. /\ s \in Seq(LaterType) /\ Ephemeral(s) /\ Apart(s)
      /\ Settled(d, Theirs, Place, Queued(s)) /\ Tracked(d, Members(wire), Missing)
      /\ Line = wire
      /\ Theirs = (SaidReceipts \cup {Receipt(f) : f \in Members(wire)})
                  \cup (IF client.frame > 0 THEN {Place} ELSE {})
  BY <1>2, BetweenBatches
<1>5. Queued(s) = {}
  BY DEF Queued
<1>6. o \in Theirs /\ a.thru <= client.cursor /\ a.frame \in Nat /\ a.thru \in Nat
  <2>1. o \in SaidReceipts
    BY <1>2 DEF SaidReceipts
  <2>2. a.thru <= client.cursor
    BY <1>2 DEF DeliveryInvariant, Agreed
  <2>3. a.frame \in Nat /\ a.thru \in Nat
    BY <1>2 DEF AckType
  <2> QED BY <2>1, <2>2, <2>3 DEF Theirs
<1>7. ~AckRejected(d, a) /\ (a.frame <= d.ackFrame \/ o \in d.inFlight)
  <2> HIDE DEF d, a
  <2>1. /\ d \in DeliveryType /\ Counted(d) /\ a \in AckType /\ Settled(d, Theirs, Place, Queued(s))
        /\ o \in Theirs
    BY <1>2, <1>4, <1>6
  <2> QED BY ONLY <1>3, <2>1, HonestAckAccepted
<1>8. CASE a.frame <= d.ackFrame
  <2>1. OnClientAck(d, a, socket.overdue) = [d |-> d, acts |-> <<>>]
    BY <1>7, <1>8 DEF OnClientAck
  <2>2. /\ socket' \in SocketType
        /\ socket'.status = socket.status /\ socket'.held = socket.held /\ socket'.d = socket.d
        /\ socket'.saved = socket.saved /\ socket'.from = socket.from
        /\ todo' = <<>> /\ running' = "none"
    BY <1>2, <2>1 DEF RunAck, Interpret, SocketType
  <2>3. 0 \in Nat /\ 0 <= socket.d.sent
    BY <1>2
  <2> QED BY <1>2, <2>2, <2>3, StartStep
<1>9. CASE ~(a.frame <= d.ackFrame)
  <2>1. OnClientAck(d, a, socket.overdue) = r
    BY <1>7, <1>9 DEF OnClientAck
  <2>2. /\ b \in DeliveryType /\ Counted(b) /\ b.sent = d.sent /\ b.pending = d.pending
        /\ Settled(b, Theirs, Place, {}) /\ Tracked(b, Members(wire), Missing)
    <3>1. o \in Theirs \cap d.inFlight
      BY <1>6, <1>7, <1>9
    <3>2. \A f \in Members(wire) : Receipt(f) \in Theirs /\ f.event.seq <= f.thru
      BY <1>4 DEF DeliveryInvariant, OnTheWay, FrameTrue
    <3>3. \A n \in Missing : n > a.thru
      <4>1. \A n \in Missing : n > client.cursor /\ n \in Nat
        BY <1>3 DEF DeliveryInvariant, OnTheWay
      <4> QED BY <1>3, <1>6, <4>1
    <3>4. Members(wire) \in SUBSET FrameType
      BY <1>3, MembersTyped
    <3> HIDE DEF d, a
    <3>5. /\ d \in DeliveryType /\ Counted(d) /\ a \in AckType /\ Settled(d, Theirs, Place, {})
          /\ Tracked(d, Members(wire), Missing)
      BY <1>2, <1>4, <1>5
    <3> QED BY ONLY <1>3, <3>1, <3>2, <3>3, <3>4, <3>5, AckKeeps
  <2>3. socket' = [socket EXCEPT !.head = socket.head, !.d = r.d]
        /\ todo' = r.acts /\ running' = (IF r.acts = <<>> THEN "none" ELSE "ack")
    BY <1>2, <2>1 DEF RunAck, Interpret, SocketType
  <2> HIDE DEF b
  <2>4. PICK e \in Seq(EventType), more \in BOOLEAN :
          /\ Sends(b, r, e, TRUE, more)
          /\ \A i \in DOMAIN e : e[i].seq = 0
          /\ more \/ r.acts = <<Close("lagged")>> \/ Capacity(r.d) = 0
    <3>1. \A i \in DOMAIN b.pending : b.pending[i].seq = 0
      BY <1>2, <2>2 DEF Buffered
    <3>2. b \in DeliveryType /\ Counted(b) /\ socket.overdue \in Nat
      BY <1>2, <2>2
    <3> QED BY ONLY <3>1, <3>2, ReopenSends
  <2> HIDE DEF r
  <2>5. r.acts \in Seq(LaterType)
    <3>1. PlansOut(b, r, e, TRUE, more, s, Theirs, Place)
      BY <1>3, <1>4, <1>5, <2>2, <2>4, SendsPlanned
    <3> QED BY <3>1 DEF PlansOut
  <2>6. todo' = r.acts \o s
    BY <2>3, <2>5, ConcatEmptySeq
  <2>7. Continuing(b, e, Missing) /\ \A i \in 1 .. Len(e) : Logged(e[i])
    <3>1. DOMAIN e = 1 .. Len(e)
      BY <2>4, LenProperties
    <3>2. \A n \in Missing : n \in Nat
      BY <1>3
    <3>3. b.sent \in Nat
      BY <2>2 DEF DeliveryType
    <3>4. \A i \in 1 .. Len(e) : e[i].seq = 0
      BY <2>4, <3>1
    <3> QED BY <3>2, <3>3, <3>4 DEF Continuing, Logged
  <2>8. /\ s = (IF todo = <<>> THEN <<>> ELSE Tail(todo))
        /\ running' \in Publication \cup {"none", "ack", "flush", "open"}
        /\ (running' = "none" <=> todo' = <<>>)
    BY <1>2, <2>3
  <2>9. Settled(b, Theirs, Place, Queued(s))
    BY <1>5, <2>2
  <2> HIDE DEF s
  <2>10. /\ DeliveryTypeOK' /\ Accounts' /\ Sources' /\ Agreed' /\ OnTheWay'
         /\ more \/ r.acts = <<Close("lagged")>> => Reading'
         /\ todo' # <<>> => todo'[1].k # "Page"
         /\ socket'.d = r.d /\ socket'.status = socket.status
    <3>1. b = socket.d \/ TRUE
      OBVIOUS
    <3>2. b.sent = socket.d.sent
      BY <2>2
    <3> HIDE DEF d
    <3> QED BY <1>2, <1>4, <2>2, <2>3, <2>4, <2>6, <2>7, <2>8, <2>9, <3>1, <3>2, ResultStep
  <2>11. Followed'
    <3>1. Reading' \/ ~(Capacity(r.d) > 0)
      BY <2>4, <2>10
    <3> QED BY <2>10, <3>1 DEF Followed
  <2> QED BY <2>10, <2>11 DEF DeliveryInvariant
<1> QED BY <1>8, <1>9

-----------------------------------------------------------------------------
(* Actions. *)

\* Ephemeral frames that go no further than what was sent may follow what is on its way.
LEMMA EphemeralFront ==
  ASSUME NEW d \in DeliveryType, NEW w \in Seq(FrameType), NEW g \in Seq(FrameType),
         NEW M \in SUBSET Nat, Carried(w, M), Tracked(d, Members(w), M),
         \A f \in Members(g) : f.event.seq = 0 /\ f.thru <= d.sent
  PROVE  Carried(w \o g, M) /\ Tracked(d, Members(w \o g), M)
<1>1. Members(w \o g) = Members(w) \cup Members(g)
  BY MembersOfConcat
<1>2. Tracked(d, Members(w \o g), M)
  <2>1. M \in SUBSET M /\ \A f \in Members(w) : f.event.seq \in M => f \in Members(w \o g)
    BY <1>1
  <2> QED BY <2>1, TrackedLess
<1>3. DOMAIN g = 1 .. Len(g) /\ Members(g) \in SUBSET FrameType
  BY LenProperties, MembersTyped
<1>4. ASSUME NEW j \in 1 .. Len(g), NEW n \in M, n <= g[j].thru
      PROVE \E f \in Members(w) : f.event.seq = n
  <2>1. g[j] \in Members(g)
    BY <1>3 DEF Members
  <2>2. g[j].thru <= d.sent /\ g[j].thru \in Nat /\ d.sent \in Nat /\ n \in Nat
    BY <1>3, <2>1 DEF FrameType, DeliveryType
  <2>3. n <= d.sent
    BY <1>4, <2>2
  <2> QED BY <2>3 DEF Tracked
<1>5. Carried(w \o g, M)
  <2>1. /\ w \in Seq(FrameType) /\ g \in Seq(FrameType) /\ Carried(w, M)
        /\ \A j \in 1 .. Len(g), n \in M :
             n <= g[j].thru => (\E f \in Members(w) : f.event.seq = n)
                               \/ \E i \in 1 .. j : g[i].event.seq = n
    BY <1>4
  <2> QED BY ONLY <2>1, CarriedConcat
<1> QED BY <1>2, <1>5

LEMMA SameInterval ==
  ASSUME NEW m \in Nat, NEW n \in Nat, 1 .. m = 1 .. n
  PROVE  m = n
<1>1. m # 0 => m \in 1 .. n
  OBVIOUS
<1>2. n # 0 => n \in 1 .. m
  OBVIOUS
<1> QED BY <1>1, <1>2

LEMMA TailLength ==
  ASSUME NEW S, NEW s \in Seq(S), s # <<>>
  PROVE  /\ Tail(s) = <<>> => ~(Len(s) > 1)
         /\ Tail(s) # <<>> => Len(s) > 1 /\ Tail(s)[1] = s[2]
<1> DEFINE t == Tail(s)
<1>1. /\ Len(s) \in Nat \ {0} /\ t \in Seq(S) /\ Len(t) = Len(s) - 1
      /\ \A i \in 1 .. Len(s) - 1 : t[i] = s[i + 1]
  BY HeadTail
<1> HIDE DEF t
<1>2. t = <<>> => Len(t) = 0
  OBVIOUS
<1>3. t # <<>> => Len(t) \in Nat \ {0}
  BY <1>1, HeadTail
<1>4. t # <<>> => 1 \in 1 .. Len(s) - 1
  BY <1>1, <1>3
<1>5. t # <<>> => t[1] = s[1 + 1]
  BY <1>1, <1>4
<1>6. 1 + 1 = 2
  OBVIOUS
<1> QED BY <1>1, <1>2, <1>3, <1>5, <1>6 DEF t

LEMMA DoingFacts ==
  ASSUME DeliveryInvariant, todo # <<>>
  PROVE  /\ Connected /\ socket.held /\ running # "none"
         /\ running \in Publication \cup {"ack", "flush", "open"}
         /\ TodoType(todo) /\ Head(todo) = todo[1] /\ todo[1] \in ActionType
         /\ Tail(todo) \in Seq(LaterType) /\ todo \in Seq(ActionType)
         /\ Members(todo) = {todo[1]} \cup Members(Tail(todo))
         /\ Sourced(todo[1], socket.d.sent)
         /\ \A a \in Members(Tail(todo)) : a \in LaterType /\ Sourced(a, socket.d.sent)
         /\ socket \in SocketType /\ socket.d \in DeliveryType /\ socket.overdue \in Nat
         /\ socket.d.sent \in Nat /\ socket.d.sent <= Len(log) /\ socket.head \in Nat
         /\ Counted(socket.d) /\ Buffered(socket.d) /\ Capacity(socket.d) \in Nat
<1>1. TodoType(todo) /\ socket \in SocketType /\ socket.d \in DeliveryType /\ socket.overdue \in Nat
      /\ socket.head \in Nat
  BY StateFacts
<1>2. Connected /\ running # "none"
      /\ running \in Publication \cup {"ack", "flush", "open"}
  BY DEF DeliveryInvariant, DeliveryTypeOK
<1>3. /\ Head(todo) = todo[1] /\ todo[1] \in ActionType
      /\ Tail(todo) \in Seq(LaterType) /\ todo \in Seq(ActionType)
  BY <1>1, TodoCases
<1>4. Members(todo) = {todo[1]} \cup Members(Tail(todo))
  BY <1>3, MembersOfHeadTail
<1>5. \A a \in Members(Tail(todo)) : a \in LaterType
  BY <1>3, MembersTyped
<1>6. \A a \in Members(todo) : Sourced(a, socket.d.sent)
  BY DEF DeliveryInvariant, Sources
<1>7. socket.d.sent \in Nat /\ socket.d.sent <= Len(log) /\ socket.held
      /\ Counted(socket.d) /\ Buffered(socket.d)
  BY <1>1, <1>2 DEF DeliveryInvariant, Accounts, DeliveryType
<1>8. Capacity(socket.d) \in Nat
  BY <1>1, <1>7, CapacityIsNat
<1> QED BY <1>1, <1>2, <1>3, <1>4, <1>5, <1>6, <1>7, <1>8

LEMMA ReadStep ==
  ASSUME DeliveryInvariant, DoRead
  PROVE  DeliveryInvariant'
<1> DEFINE after  == todo[1].after
           n      == Smaller(Len(log) - after, MaxInFlightFrames)
           events == [i \in 1 .. n |-> Durable(after + i)]
           page   == [k |-> "Page", head |-> Len(log), events |-> events]
           s      == Tail(todo)
<1>1. todo # <<>>
  BY DEF DoRead, Doing
<1>2. /\ Connected /\ TodoType(todo) /\ Head(todo) = todo[1] /\ todo[1] \in ActionType
      /\ s \in Seq(LaterType) /\ todo \in Seq(ActionType)
      /\ Members(todo) = {todo[1]} \cup Members(s)
      /\ Sourced(todo[1], socket.d.sent)
      /\ \A a \in Members(s) : a \in LaterType /\ Sourced(a, socket.d.sent)
      /\ socket.d.sent \in Nat /\ socket.d.sent <= Len(log)
      /\ running # "none" /\ running \in Publication \cup {"ack", "flush", "open"}
  BY <1>1, DoingFacts
<1>3. /\ todo[1].k = "Read" /\ todo' = <<page>> \o s
      /\ UNCHANGED <<log, runtime, unpublished, socket, ops, running, wire, acks, client, used>>
  BY <1>2 DEF DoRead, Doing
<1>4. after \in Nat /\ after <= socket.d.sent
  <2>1. todo[1] \in ReadType
    BY <1>2, <1>3, ActionKinds
  <2> QED BY <1>2, <1>3, <2>1 DEF ReadType, Sourced
<1>5. /\ log \in Seq(BOOLEAN) /\ Len(log) \in Nat /\ DOMAIN log = 1 .. Len(log)
      /\ \A i \in 1 .. Len(log) : log[i] \in BOOLEAN
  BY StateFacts, ElementOfSeq
<1>6. /\ n \in Nat /\ after + n <= Len(log) /\ (n = 0 => after = Len(log))
  BY <1>2, <1>4, <1>5, PolicyAssumption DEF Smaller
<1> HIDE DEF n, after
<1>7. ASSUME NEW i \in 1 .. n
      PROVE /\ events[i] = [seq |-> after + i, hidden |-> log[after + i]]
            /\ events[i] \in EventType /\ Logged(events[i]) /\ after + i # 0
            /\ events[i].seq = after + i
  <2>1. after + i \in 1 .. Len(log) /\ after + i \in Nat
    BY <1>4, <1>5, <1>6
  <2>2. events[i] = [seq |-> after + i, hidden |-> log[after + i]]
    BY DEF Durable
  <2>3. log[after + i] \in BOOLEAN
    BY <1>5, <2>1
  <2> HIDE DEF events
  <2> QED BY <1>5, <2>1, <2>2, <2>3 DEF EventType, Logged
<1>8. events \in Seq(EventType) /\ DOMAIN events = 1 .. n
  <2>1. events \in [1 .. n -> EventType]
    BY <1>7
  <2>2. events \in Seq(EventType)
    BY <1>6, <2>1, SeqDef
  <2> QED BY <2>1, <2>2
<1>9. events = <<>> <=> n = 0
  <2>1. Len(events) \in Nat /\ DOMAIN events = 1 .. Len(events)
    BY <1>8, LenProperties
  <2>2. Len(events) = n
    <3> HIDE DEF events
    <3>1. 1 .. Len(events) = 1 .. n
      BY <1>8, <2>1
    <3> QED BY <1>6, <2>1, <3>1, SameInterval
  <2> HIDE DEF events
  <2> QED BY <1>8, <2>2, EmptySeq
<1> HIDE DEF events
<1>10. page \in PageType /\ page \in ActionType /\ page.k = "Page" /\ page.head = Len(log)
       /\ page.events = events
  BY <1>5, <1>8 DEF PageType, ActionType
<1>11. PICK p \in PageType :
         /\ todo' = <<p>> \o s /\ p \in ActionType /\ p.k = "Page" /\ p.head = Len(log)
         /\ \A j \in DOMAIN p.events : Logged(p.events[j])
         /\ Consecutive(p.events)
         /\ IF p.events = <<>> THEN p.head <= socket.d.sent ELSE p.events[1].seq <= socket.d.sent + 1
  <2>1. \A j \in DOMAIN events : Logged(events[j])
    BY <1>7, <1>8
  <2>2. Consecutive(events)
    <3>1. ASSUME NEW i \in 1 .. n PROVE events[i].seq # 0 /\ events[i].seq = events[1].seq + i - 1
      <4>1. 1 \in 1 .. n
        BY <1>6
      <4>2. events[1].seq = after + 1
        BY <1>7, <4>1
      <4>3. events[i].seq = after + i /\ after + i # 0
        BY <1>7
      <4>4. i \in Nat
        BY <1>6
      <4> QED BY <1>4, <4>2, <4>3, <4>4
    <3> QED BY <1>8, <3>1 DEF Consecutive
  <2>3. IF events = <<>> THEN Len(log) <= socket.d.sent ELSE events[1].seq <= socket.d.sent + 1
    <3>1. CASE n = 0
      BY <1>4, <1>6, <1>9, <3>1
    <3>2. CASE n # 0
      <4>1. 1 \in 1 .. n
        BY <1>6, <3>2
      <4>2. events[1].seq = after + 1
        BY <1>7, <4>1
      <4> QED BY <1>2, <1>4, <1>9, <3>2, <4>2
    <3> QED BY <3>1, <3>2
  <2> HIDE DEF page
  <2> QED BY <1>3, <1>10, <2>1, <2>2, <2>3
<1> HIDE DEF page
<1>12. /\ TodoType(todo') /\ todo' # <<>> /\ todo'[1] = p /\ Tail(todo') = s
  BY <1>2, <1>11, TodoOf, ZenonT(30)
<1>13. /\ Plan(todo') = todo' /\ Out(todo') = <<>> /\ todo' \in Seq(ActionType)
       /\ Queued(todo') = Queued(s) /\ (Apart(todo') <=> Apart(s))
  <2>1. todo'[1].k # "Send"
    BY <1>11, <1>12
  <2> QED BY <1>12, <2>1, OtherTodo
<1>14. /\ Plan(todo) = todo /\ Out(todo) = <<>>
       /\ Queued(todo) = Queued(s) /\ (Apart(todo) <=> Apart(s))
  <2>1. todo[1].k # "Send"
    BY <1>3
  <2> QED BY <1>1, <1>2, <2>1, OtherTodo
<1>15. Front(todo) = <<>> /\ Front(todo') = <<>> /\ Behind(todo) = todo /\ Behind(todo') = todo'
  BY <1>1, <1>3, <1>11, <1>12 DEF Front, Behind
<1>16. Members(todo') = {p} \cup Members(s)
  BY <1>12, <1>13, MembersOfHeadTail
<1>17. DeliveryTypeOK'
  BY <1>2, <1>3, <1>12 DEF DeliveryInvariant, DeliveryTypeOK, Connected
<1>18. Accounts'
  BY <1>1, <1>3 DEF DeliveryInvariant, Accounts, SavedInTime, Connected
<1>19. Sources'
  <2>1. \A a \in Members(s) : Sourced(a, socket.d.sent)'
    <3>1. socket.d.sent <= socket.d.sent
      BY <1>2
    <3> QED BY <1>2, <1>3, <3>1 DEF Sourced, Logged
  <2>2. Sourced(p, socket.d.sent)'
    <3>1. Len(log) <= Len(log)
      BY <1>5
    <3> QED BY <1>3, <1>11, <3>1 DEF Sourced, Logged, Consecutive
  <2>3. Publications'
    BY <1>3 DEF DeliveryInvariant, Sources, Publications, Logged
  <2> QED BY <1>3, <1>16, <2>1, <2>2, <2>3 DEF DeliveryInvariant, Sources
<1>20. Agreed'
  <2>1. Theirs' = Theirs /\ Place' = Place /\ Said' = Said
    BY <1>3, <1>13, <1>14 DEF Theirs, SaidReceipts, SentReceipts, Said, Place
  <2> QED BY <1>3, <1>13, <1>14, <2>1 DEF DeliveryInvariant, Agreed, Connected
<1>21. OnTheWay'
  <2>1. Line' = Line /\ Missing' = Missing
    BY <1>3, <1>13, <1>14, <1>15 DEF Line, Missing, Visible
  <2>2. Ephemeral(todo')
    <3>1. Ephemeral(s)
      BY <1>1, <1>2, <1>15, EphemeralOfHead DEF DeliveryInvariant, OnTheWay
    <3>2. EphemeralAction(p)
      BY <1>11 DEF EphemeralAction
    <3> QED BY <1>12, <1>13, <3>1, <3>2, EphemeralOfHead
  <2> QED BY <1>3, <1>15, <2>1, <2>2 DEF DeliveryInvariant, OnTheWay, FrameTrue, Logged, Connected
<1>22. Followed'
  <2>1. Reading'
    <3>1. 1 \in DOMAIN todo'
      BY <1>12, <1>13, HeadTail
    <3> QED BY <1>11, <1>12, <1>13, <3>1 DEF Reading
  <2>2. \A m \in 1 .. Len(log) : ~(m > Len(log))
    BY <1>5
  <2> QED BY <1>3, <1>11, <1>12, <2>1, <2>2 DEF Followed
<1> QED BY <1>17, <1>18, <1>19, <1>20, <1>21, <1>22 DEF DeliveryInvariant

LEMMA PersistStep ==
  ASSUME DeliveryInvariant, DoPersist
  PROVE  DeliveryInvariant'
<1> DEFINE d == socket.d
           s == Tail(todo)
<1>1. todo # <<>>
  BY DEF DoPersist, Doing
<1>2. /\ Connected /\ socket.held /\ TodoType(todo) /\ Head(todo) = todo[1]
      /\ s \in Seq(LaterType) /\ todo \in Seq(ActionType)
      /\ Members(todo) = {todo[1]} \cup Members(s)
      /\ \A a \in Members(s) : a \in LaterType /\ Sourced(a, d.sent)
      /\ socket \in SocketType /\ d \in DeliveryType /\ d.sent \in Nat /\ d.sent <= Len(log)
      /\ running # "none" /\ running \in Publication \cup {"ack", "flush", "open"} /\ Counted(d)
  BY <1>1, DoingFacts
<1>3. /\ todo[1].k = "Persist" /\ todo' = s
      /\ socket' = [socket EXCEPT !.saved = Checkpoint(d)]
      /\ running' = (IF s = <<>> THEN "none" ELSE running)
      /\ UNCHANGED <<log, runtime, unpublished, ops, wire, acks, client, used>>
  BY <1>2 DEF DoPersist, Doing, Continue
<1>4. Checkpoint(d) \in DeliveryType /\ Checkpoint(d).pending = <<>> /\ Checkpoint(d).sent = d.sent
      /\ Counted(Checkpoint(d))
  BY <1>2, CheckpointSame
<1>5. /\ socket' \in SocketType /\ socket'.d = d /\ socket'.status = socket.status
      /\ socket'.held = socket.held /\ socket'.saved = Checkpoint(d) /\ socket'.from = socket.from
  BY <1>2, <1>3, <1>4 DEF SocketType
<1>6. Connected'
  BY <1>2, <1>5 DEF Connected
<1>7. /\ TodoType(s) /\ Plan(s) = s /\ Out(s) = <<>>
      /\ (s # <<>> => s[1].k # "Page" /\ (s[1].k = "Send" => s[1].reads = {}))
  BY <1>2, LaterTodo
<1>8. /\ Plan(todo) = todo /\ Out(todo) = <<>>
      /\ Queued(todo) = Queued(s) /\ (Apart(todo) <=> Apart(s))
  <2>1. todo[1].k # "Send"
    BY <1>3
  <2> QED BY <1>1, <1>2, <2>1, OtherTodo
<1>9. /\ wire \in Seq(FrameType) /\ Missing \in SUBSET Nat /\ Line \in Seq(FrameType)
      /\ Front(todo) \in Seq(FrameType) /\ Front(s) \in Seq(FrameType)
  BY <1>7, StateFacts, FrontTyped
<1>10. DeliveryTypeOK'
  BY <1>2, <1>3, <1>5, <1>6, <1>7 DEF DeliveryInvariant, DeliveryTypeOK
<1>11. Accounts'
  <2>1. SavedInTime'
    BY <1>5 DEF SavedInTime
  <2> QED BY <1>2, <1>3, <1>4, <1>5, <1>6, <2>1 DEF DeliveryInvariant, Accounts
<1>12. Sources'
  <2>1. ASSUME NEW a \in Members(s) PROVE Sourced(a, d.sent)'
    <3>1. a \in LaterType /\ Sourced(a, d.sent)
      BY <1>2
    <3>2. a.k # "Page"
      BY <3>1, LaterKinds
    <3> QED BY <1>5, <3>1, <3>2 DEF Sourced
  <2> QED BY <1>3, <1>5, <2>1 DEF DeliveryInvariant, Sources, Publications, Logged
<1>13. Agreed'
  <2>1. Theirs' = Theirs /\ Place' = Place /\ Said' = Said
    BY <1>3, <1>7, <1>8 DEF Theirs, SaidReceipts, SentReceipts, Said, Place
  <2> QED BY <1>3, <1>5, <1>6, <1>7, <1>8, <2>1 DEF DeliveryInvariant, Agreed, Connected
<1>14. /\ Carried(Line, Missing) /\ Tracked(d, Members(Line), Missing)
       /\ \A f \in Members(Line) : FrameTrue(f)
       /\ Line = wire \o Front(todo) /\ Line' = wire \o Front(s)
       /\ Ephemeral(Behind(todo))
  <2>1. wire \o <<>> = wire
    BY <1>9, ConcatEmptySeq
  <2> QED BY <1>2, <1>3, <1>7, <1>8, <2>1 DEF DeliveryInvariant, OnTheWay, Line
<1>15. /\ Carried(Line', Missing) /\ Tracked(d, Members(Line'), Missing)
       /\ \A f \in Members(Line') : FrameTrue(f)
       /\ Ephemeral(Behind(s))
  <2>1. CASE s # <<>> /\ s[1].k = "Send"
    <3>1. Len(todo) > 1 /\ s[1] = todo[2]
      BY <1>1, <1>2, <2>1, TailLength
    <3>2. Front(todo) = todo[2].frames /\ Front(s) = s[1].frames
      BY <1>1, <1>3, <2>1, <3>1 DEF Front
    <3>3. Behind(todo) = Tail(s)
      BY <1>1, <1>3, <3>1 DEF Behind
    <3>4. Behind(s) = Tail(s)
      <4>1. s[1] \in LaterType /\ Tail(s) \in Seq(LaterType)
        BY <1>2, <2>1, HeadTail
      <4>2. s[1].follow = <<>>
        BY <2>1, <4>1, LaterKinds
      <4>3. <<>> \o Tail(s) = Tail(s)
        BY <4>1, ConcatEmptySeq
      <4> QED BY <2>1, <4>2, <4>3 DEF Behind
    <3> QED BY <1>14, <3>1, <3>2, <3>3, <3>4
  <2>2. CASE ~(s # <<>> /\ s[1].k = "Send")
    <3>1. Ephemeral(s) /\ Front(todo) = <<>>
      <4>1. CASE s = <<>>
        <5>3. ~(Len(todo) > 1)
          BY <1>1, <1>2, <4>1, TailLength
        <5>4. Front(todo) = <<>>
          BY <1>3, <5>3 DEF Front
        <5>5. Ephemeral(<<>>)
          BY DEF Ephemeral
        <5> QED BY <4>1, <5>4, <5>5
      <4>2. CASE s # <<>>
        <5>1. s[1].k # "Send"
          BY <2>2, <4>2
        <5>2. Len(todo) > 1 /\ s[1] = todo[2]
          BY <1>1, <1>2, <4>2, TailLength
        <5>3. Front(todo) = <<>>
          BY <1>3, <5>1, <5>2 DEF Front
        <5>4. Behind(todo) = Tail(s)
          BY <1>1, <1>3, <5>2 DEF Behind
        <5>5. EphemeralAction(s[1])
          BY <5>1 DEF EphemeralAction
        <5> QED BY <1>2, <1>14, <4>2, <5>3, <5>4, <5>5, EphemeralOfHead
      <4> QED BY <4>1, <4>2
    <3>2. Line = wire
      <4>1. wire \o <<>> = wire
        BY <1>9, ConcatEmptySeq
      <4> QED BY <1>14, <3>1, <4>1
    <3>3. Ephemeral(Behind(s)) /\ \A f \in Members(Front(s)) : f.event.seq = 0 /\ f \in Queued(s)
      BY <1>2, <3>1, EphemeralTodo
    <3>4. ASSUME NEW f \in Members(Front(s)) PROVE f.thru <= d.sent /\ FrameTrue(f)
      <4>1. Receipt(f) \in d.inFlight
        BY <1>2, <1>8, <3>3 DEF DeliveryInvariant, Agreed, Settled
      <4>2. f.thru <= d.sent
        BY <4>1 DEF Receipt, DeliveryInvariant, Accounts, Counted
      <4>a. Members(Front(s)) \in SUBSET FrameType
        BY <1>9, MembersTyped
      <4>b. f \in FrameType
        BY <4>a
      <4>3. f.thru \in Nat /\ f.event.seq = 0
        BY <3>3, <4>b DEF FrameType
      <4>4. Len(log) \in Nat
        BY StateFacts
      <4> QED BY <1>2, <4>2, <4>3, <4>4 DEF FrameTrue, Logged
    <3>5. Carried(wire \o Front(s), Missing) /\ Tracked(d, Members(wire \o Front(s)), Missing)
      <4>1. \A f \in Members(Front(s)) : f.event.seq = 0 /\ f.thru <= d.sent
        BY <3>3, <3>4
      <4>2. Carried(wire, Missing) /\ Tracked(d, Members(wire), Missing)
        BY <1>14, <3>2
      <4> HIDE DEF d, s
      <4> QED BY <1>2, <1>9, <4>1, <4>2, EphemeralFront
    <3>6. Members(wire \o Front(s)) = Members(wire) \cup Members(Front(s))
      BY <1>9, MembersOfConcat
    <3> QED BY <1>14, <3>2, <3>3, <3>4, <3>5, <3>6
  <2> QED BY <2>1, <2>2
<1>16. OnTheWay'
  <2>1. Missing' = Missing
    BY <1>3 DEF Missing, Visible
  <2> QED BY <1>3, <1>5, <1>15, <2>1 DEF DeliveryInvariant, OnTheWay, FrameTrue, Logged
<1>17. Followed'
  <2>1. Reading => Reading'
    <3>1. ASSUME NEW i \in DOMAIN todo, todo[i].k \in {"Read", "Page", "Close"}
          PROVE \E j \in DOMAIN s : s[j] = todo[i]
      <4>1. todo[i] \in Members(todo) /\ todo[i] # todo[1]
        BY <1>3, <3>1 DEF Members
      <4>2. todo[i] \in Members(s)
        BY <1>2, <4>1
      <4> QED BY <4>2 DEF Members
    <3> QED BY <1>3, <1>5, <1>7, <1>8, <3>1 DEF Reading
  <2> QED BY <1>2, <1>3, <1>5, <1>7, <2>1, ZenonT(30) DEF DeliveryInvariant, Followed, Shown
<1> QED BY <1>10, <1>11, <1>12, <1>13, <1>16, <1>17 DEF DeliveryInvariant

LEMMA DeliverStep ==
  ASSUME DeliveryInvariant, DoDeliver
  PROVE  DeliveryInvariant'
<1> DEFINE d    == socket.d
           page == todo[1]
           s    == Tail(todo)
           h    == Larger(socket.head, page.head)
<1>1. todo # <<>>
  BY DEF DoDeliver, Doing
<1>2. /\ Connected /\ TodoType(todo) /\ Head(todo) = page /\ page \in ActionType
      /\ s \in Seq(LaterType) /\ Sourced(page, d.sent)
      /\ socket \in SocketType /\ d \in DeliveryType /\ socket.overdue \in Nat
      /\ d.sent \in Nat /\ d.sent <= Len(log) /\ socket.head \in Nat
      /\ running # "none" /\ running \in Publication \cup {"ack", "flush", "open"}
      /\ Counted(d) /\ Buffered(d) /\ Capacity(d) \in Nat
  BY <1>1, DoingFacts
<1>3. page.k = "Page" /\ UNCHANGED <<log, runtime, unpublished, ops, wire, acks, client, used>>
  BY <1>2 DEF DoDeliver, Doing
<1>4. page \in PageType /\ page.head \in Nat /\ page.events \in Seq(EventType)
  BY <1>2, <1>3, ActionKinds DEF PageType
<1>5. /\ page.head <= Len(log)
      /\ \A j \in DOMAIN page.events : Logged(page.events[j])
      /\ Consecutive(page.events)
      /\ IF page.events = <<>> THEN page.head <= d.sent ELSE page.events[1].seq <= d.sent + 1
  BY <1>2, <1>3 DEF Sourced
<1>6. h \in Nat /\ page.head <= h
  BY <1>2, <1>4 DEF Larger
<1>7. /\ Ephemeral(s) /\ Apart(s)
      /\ Settled(d, Theirs, Place, Queued(s)) /\ Tracked(d, Members(wire), Missing)
      /\ s = (IF todo = <<>> THEN <<>> ELSE Tail(todo))
  BY <1>1, <1>2, <1>3, BetweenBatches
<1>8. \A n \in 1 .. Len(log) : n > page.head => Shown(n)
  BY <1>1, <1>2, <1>3 DEF DeliveryInvariant, Followed
<1>9. ASSUME NEW r, NEW e \in Seq(EventType), NEW more \in BOOLEAN, Sends(d, r, e, FALSE, more),
             \A i \in 1 .. Len(e) : e[i].seq = d.sent + i /\ e[i] \in Members(page.events),
             e = <<>> \/ r.acts = ActsOf(Frames(d, e), r.d.sent, FALSE, more),
             socket' = [socket EXCEPT !.head = h, !.d = r.d],
             Continue(r.acts \o s),
             more \/ r.acts = <<Close("lagged")>> \/ Capacity(r.d) = 0 \/ page.head <= r.d.sent
      PROVE  DeliveryInvariant'
  <2>1. Continuing(d, e, Missing) /\ \A i \in 1 .. Len(e) : Logged(e[i])
    <3>1. ASSUME NEW i \in 1 .. Len(e), NEW n \in Missing, d.sent < n, n <= e[i].seq
          PROVE \E k \in 1 .. i : e[k].seq = n
      <4>1. n \in Nat /\ e[i].seq = d.sent + i /\ Len(e) \in Nat
        BY <1>9, StateFacts, LenProperties
      <4>a. /\ d.sent \in Nat /\ n \in Nat /\ Len(e) \in Nat /\ i \in 1 .. Len(e)
            /\ d.sent < n /\ n <= d.sent + i
        BY <1>2, <3>1, <4>1
      <4>2. n - d.sent \in 1 .. i /\ n - d.sent \in 1 .. Len(e) /\ d.sent + (n - d.sent) = n
        BY ONLY <4>a
      <4>3. e[n - d.sent].seq = d.sent + (n - d.sent)
        BY <1>9, <4>2
      <4> QED BY <4>2, <4>3
    <3>2. \A i \in 1 .. Len(e) : Logged(e[i])
      BY <1>5, <1>9 DEF Members
    <3> QED BY <3>1, <3>2 DEF Continuing
  <2>2. /\ todo' = r.acts \o s
        /\ running' \in Publication \cup {"none", "ack", "flush", "open"}
        /\ (running' = "none" <=> todo' = <<>>)
    BY <1>2, <1>9 DEF Continue
  <2>3. FALSE \/ d = socket.d
    OBVIOUS
  <2>4. d.sent = socket.d.sent /\ (todo = <<>> \/ todo[1].k = "Page") /\ (ops # <<>> \/ todo # <<>>)
        /\ (ops' = ops \/ (ops # <<>> /\ ops' = Tail(ops)))
    BY <1>1, <1>3
  <2>5. (\A i \in DOMAIN e : e[i].seq = 0) \/ e = <<>>
          \/ r.acts = ActsOf(Frames(d, e), r.d.sent, FALSE, more)
    BY <1>9
  <2> HIDE DEF h, s, page, d
  <2>6. /\ DeliveryTypeOK' /\ Accounts' /\ Sources' /\ Agreed' /\ OnTheWay'
        /\ more \/ r.acts = <<Close("lagged")>> => Reading'
        /\ todo' # <<>> => todo'[1].k # "Page"
        /\ d.sent <= r.d.sent
        /\ socket'.d = r.d /\ socket'.status = socket.status
    BY <1>2, <1>3, <1>6, <1>7, <1>9, <2>1, <2>2, <2>3, <2>4, <2>5, ResultStep
  <2> USE DEF d
  <2>7. r.d \in DeliveryType /\ r.d.sent \in Nat
    BY <1>9 DEF Sends, Emits, DeliveryType
  <2>8. ASSUME Capacity(r.d) > 0, ~Reading', NEW n \in 1 .. Len(log) PROVE Shown(n)'
    <3>1. page.head <= r.d.sent
      BY <1>9, <2>6, <2>8
    <3>2. n \in Nat
      OBVIOUS
    <3>3. CASE n > page.head
      <4>1. Shown(n)
        BY <1>8, <3>3
      <4> QED BY <1>3, <2>6, <2>7, <3>2, <4>1, ShownLater
    <3>4. CASE ~(n > page.head)
      <4>1. n <= r.d.sent
        BY <1>4, <2>7, <3>1, <3>2, <3>4
      <4> QED BY <2>6, <4>1 DEF Shown
    <3> QED BY <3>3, <3>4
  <2>9. Followed'
    BY <1>3, <2>6, <2>8 DEF Followed
  <2> QED BY <2>6, <2>9 DEF DeliveryInvariant
<1>10. CASE page.events = <<>>
  <2> DEFINE r == [d |-> d, acts |-> <<>>]
  <2>1. socket' = [socket EXCEPT !.head = h, !.d = r.d] /\ Continue(r.acts \o s)
    BY <1>2, <1>10 DEF DoDeliver
  <2>2. Emits(d, d, <<>>)
    <3>1. <<>> \in Seq(EventType) /\ d = [d EXCEPT !.pending = d.pending]
      BY <1>2 DEF DeliveryType
    <3> QED BY <1>2, <3>1, EmitsNothing
  <2>3. Frames(d, <<>>) = <<>>
    <3>1. <<>> \in Seq(EventType) /\ Rising(<<>>)
      BY DEF Rising
    <3> QED BY <1>2, <3>1, FramesOfEvents
  <2>4. ActsOf(Frames(d, <<>>), d.sent, FALSE, FALSE) = <<>>
    <3>1. <<>> \o <<>> = <<>>
      <4>1. <<>> \in Seq({})
        OBVIOUS
      <4> QED BY <4>1, ConcatEmptySeq
    <3> QED BY <2>3, <3>1 DEF ActsOf
  <2>5. Sends(d, r, <<>>, FALSE, FALSE)
    BY <1>2, <2>2, <2>4 DEF Sends
  <2>6. /\ \A i \in 1 .. Len(<<>>) : <<>>[i].seq = d.sent + i /\ <<>>[i] \in Members(page.events)
        /\ <<>> \in Seq(EventType) /\ FALSE \in BOOLEAN /\ page.head <= r.d.sent
    BY <1>5, <1>10
  <2> HIDE DEF r, d, h, page, s
  <2> QED BY <1>9, <2>1, <2>5, <2>6
<1>11. CASE page.events # <<>>
  <2> DEFINE r == OnDurableEvents(d, page.events, h, socket.overdue)
  <2>1. socket' = [socket EXCEPT !.head = h, !.d = r.d] /\ Continue(r.acts \o s)
    BY <1>2, <1>11 DEF DoDeliver
  <2>2. PICK e \in Seq(EventType), more \in BOOLEAN : SendsDurable(d, page.events, h, r, e, more)
    <3>1. /\ page.events \in Seq(EventType) /\ Consecutive(page.events)
          /\ page.events[1].seq <= d.sent + 1
      BY <1>4, <1>5, <1>11
    <3> HIDE DEF d, h, page
    <3> QED BY <1>2, <1>6, <1>11, <3>1, DurableSends
  <2> HIDE DEF r
  <2>3. /\ Sends(d, r, e, FALSE, more)
        /\ \A i \in 1 .. Len(e) : e[i].seq = d.sent + i /\ e[i] \in Members(page.events)
        /\ e = <<>> \/ r.acts = ActsOf(Frames(d, e), r.d.sent, FALSE, more)
        /\ more \/ r.acts = <<Close("lagged")>> \/ Capacity(r.d) = 0 \/ h <= r.d.sent
    BY <2>2 DEF SendsDurable
  <2>4. h <= r.d.sent => page.head <= r.d.sent
    <3>1. r.d.sent \in Nat
      BY <2>3 DEF Sends, Emits, DeliveryType
    <3> HIDE DEF h
    <3> QED BY <1>4, <1>6, <3>1
  <2> HIDE DEF h, s, page, d
  <2> QED BY <1>9, <2>1, <2>3, <2>4
<1> QED BY <1>10, <1>11

LEMMA SendStep ==
  ASSUME DeliveryInvariant, DoSend
  PROVE  DeliveryInvariant'
<1> DEFINE d == socket.d
           b == todo[1]
           s == Tail(todo)
           t == CoalesceFollowUpActions(b) \o s
<1>1. todo # <<>>
  BY DEF DoSend, Doing
<1>2. /\ Connected /\ socket.held /\ TodoType(todo) /\ Head(todo) = b
      /\ s \in Seq(LaterType) /\ todo \in Seq(ActionType) /\ Sourced(b, d.sent)
      /\ Members(todo) = {b} \cup Members(s)
      /\ \A a \in Members(s) : a \in LaterType /\ Sourced(a, d.sent)
      /\ socket \in SocketType /\ d \in DeliveryType /\ d.sent \in Nat /\ d.sent <= Len(log)
      /\ running # "none" /\ running \in Publication \cup {"ack", "flush", "open"} /\ Counted(d)
  BY <1>1, DoingFacts
<1>3. /\ b.k = "Send" /\ b.frames = <<>>
      /\ socket' = (IF Projected THEN [socket EXCEPT !.saved = Checkpoint(d)] ELSE socket)
      /\ wire' = wire \o b.out /\ todo' = t /\ running' = (IF t = <<>> THEN "none" ELSE running)
      /\ UNCHANGED <<log, runtime, unpublished, ops, acks, client, used>>
  BY <1>2 DEF DoSend, Doing, Continue
<1>4. /\ b \in BatchType /\ b.follow \o s \in Seq(LaterType)
      /\ Plan(todo) = <<b>> \o (b.follow \o s)
      /\ Out(todo) = b.out /\ Front(todo) = <<>> /\ Behind(todo) = b.follow \o s
      /\ Queued(b.follow \o s) = Queued(b.follow) \cup Queued(s)
      /\ Queued(Plan(todo)) = Members(b.frames) \cup (Queued(b.follow) \cup Queued(s))
      /\ Apart(Plan(todo)) => Apart(b.follow \o s)
  <2>1. TodoType(todo) /\ todo # <<>> /\ todo[1].k = "Send"
    BY <1>1, <1>2, <1>3
  <2>2. /\ b \in BatchType /\ b.follow \o s \in Seq(LaterType)
        /\ Plan(todo) = <<b>> \o (b.follow \o s)
        /\ Out(todo) = b.out /\ Front(todo) = b.frames /\ Behind(todo) = b.follow \o s
        /\ Queued(b.follow \o s) = Queued(b.follow) \cup Queued(s)
        /\ Queued(Plan(todo)) = Members(b.frames) \cup (Queued(b.follow) \cup Queued(s))
        /\ Apart(Plan(todo)) <=>
              /\ InOrder(b) /\ Apart(b.follow \o s)
              /\ Ids(Members(b.frames)) \cap Ids(Queued(b.follow \o s)) = {}
    BY ONLY <2>1, BatchTodo
  <2> QED BY <1>3, <2>2
<1>5. b.out \in Seq(FrameType) /\ b.follow \in Seq(LaterType) /\ b.reads \in SUBSET Nat
  BY <1>4, BatchFields, LaterIsAction
<1>6. /\ Checkpoint(d) \in DeliveryType /\ Checkpoint(d).pending = <<>> /\ Checkpoint(d).sent = d.sent
      /\ Counted(Checkpoint(d))
  BY <1>2, CheckpointSame
<1>7. /\ socket' \in SocketType /\ socket'.d = d /\ socket'.status = socket.status
      /\ socket'.held = socket.held /\ socket'.from = socket.from
      /\ socket'.saved = Checkpoint(d)
  <2>1. ~Projected => socket.saved = Checkpoint(d)
    BY <1>1, <1>2, <1>3 DEF DeliveryInvariant, Accounts, SavedInTime
  <2> QED BY <1>2, <1>3, <1>6, <2>1 DEF SocketType
<1>8. \A n \in b.reads : n <= d.sent
  BY <1>2, <1>3 DEF Sourced
<1>9. PICK q \in Seq(LaterType) :
        /\ CoalesceFollowUpActions(b) = b.follow \o q
        /\ \/ q = <<>> /\ b.reads = {}
           \/ \E n \in b.reads : q = <<Read(n)>>
  <2>1. CASE b.reads = {}
    <3>1. <<>> \in Seq(LaterType)
      OBVIOUS
    <3> QED BY <2>1, <3>1 DEF CoalesceFollowUpActions
  <2>2. CASE b.reads # {}
    <3> DEFINE top == CHOOSE n \in b.reads : \A m \in b.reads : m <= n
    <3>1. \E n \in b.reads : \A m \in b.reads : m <= n
      BY <1>2, <1>5, <1>8, <2>2, GreatestExists
    <3>2. top \in b.reads
      BY <3>1, Zenon
    <3>3. CoalesceFollowUpActions(b) = b.follow \o <<Read(top)>>
      BY <2>2 DEF CoalesceFollowUpActions
    <3> HIDE DEF top
    <3>4. Read(top) \in LaterType
      <4>1. <<>> \in Seq(FrameType) /\ top \in Nat
        BY <1>5, <3>2
      <4> QED BY <4>1, Actions
    <3>5. <<Read(top)>> \in Seq(LaterType)
      BY <3>4
    <3> QED BY <3>2, <3>3, <3>5
  <2> QED BY <2>1, <2>2
<1>10. Queued(q) = {} /\ Apart(q) /\ Ephemeral(q)
  <2>1. CASE q = <<>>
    BY <2>1 DEF Queued, Apart, Ephemeral
  <2>2. CASE \E n \in b.reads : q = <<Read(n)>>
    <3>1. PICK n \in b.reads : q = <<Read(n)>>
      BY <2>2
    <3>2. Read(n).k = "Read"
      BY DEF Read
    <3>3. FramesIn(Read(n)) = {} /\ InOrder(Read(n)) /\ EphemeralAction(Read(n))
      BY <3>2 DEF FramesIn, InOrder, EphemeralAction
    <3> QED BY <3>1, <3>3, QueuedOfOne, ApartOfOne, EphemeralOfOne
  <2> QED BY <1>9, <2>1, <2>2
<1>11. t = (b.follow \o q) \o s /\ b.follow \o q \in Seq(LaterType) /\ t \in Seq(LaterType)
  BY <1>2, <1>5, <1>9, ConcatProperties
<1> HIDE DEF t
<1>12. /\ Members(t) = (Members(b.follow) \cup Members(q)) \cup Members(s)
       /\ Queued(t) = Queued(b.follow \o s)
       /\ Members(b.follow \o s) = Members(b.follow) \cup Members(s)
  <2> HIDE DEF b, s
  <2>1. Members(b.follow \o q) = Members(b.follow) \cup Members(q)
    BY <1>5, MembersOfConcat
  <2> DEFINE u == b.follow \o q
  <2>a. t = u \o s /\ u \in Seq(LaterType) /\ s \in Seq(LaterType)
    BY <1>2, <1>11
  <2> HIDE DEF u
  <2>b. Members(u \o s) = Members(u) \cup Members(s) /\ Queued(u \o s) = Queued(u) \cup Queued(s)
    BY ONLY <2>a, MembersOfConcat, QueuedOfConcat
  <2>2. Members(t) = Members(b.follow \o q) \cup Members(s)
    BY <2>a, <2>b DEF u
  <2>3. Queued(b.follow \o q) = Queued(b.follow) \cup Queued(q)
    BY <1>5, QueuedOfConcat
  <2>4. Queued(t) = Queued(b.follow \o q) \cup Queued(s)
    BY <2>a, <2>b DEF u
  <2>5. Members(b.follow \o s) = Members(b.follow) \cup Members(s)
    BY <1>2, <1>5, MembersOfConcat
  <2> QED BY <1>4, <1>10, <2>1, <2>2, <2>3, <2>4, <2>5
<1>13. Apart(b.follow \o s) => Apart(t)
  <2>1. Apart(b.follow \o s) => Apart(b.follow) /\ Apart(s) /\ Ids(Queued(b.follow)) \cap Ids(Queued(s)) = {}
    BY <1>2, <1>5, ApartOfConcat
  <2>2. Apart(b.follow \o q) <=> Apart(b.follow) /\ Apart(q) /\ Ids(Queued(b.follow)) \cap Ids(Queued(q)) = {}
    BY <1>5, ApartOfConcat
  <2>3. Queued(b.follow \o q) = Queued(b.follow)
    <3>1. Queued(b.follow \o q) = Queued(b.follow) \cup Queued(q)
      BY <1>5, QueuedOfConcat
    <3> QED BY <1>10, <3>1
  <2>4. Apart(t) <=> Apart(b.follow \o q) /\ Apart(s) /\ Ids(Queued(b.follow \o q)) \cap Ids(Queued(s)) = {}
    BY <1>2, <1>11, ApartOfConcat
  <2>5. Ids(Queued(q)) = {}
    BY <1>10 DEF Ids
  <2> QED BY <1>10, <2>1, <2>2, <2>3, <2>4, <2>5
<1>14. Ephemeral(t)
  <2>a. Ephemeral(b.follow \o s)
    BY <1>4 DEF DeliveryInvariant, OnTheWay
  <2> HIDE DEF b, s
  <2>1. Ephemeral(b.follow) /\ Ephemeral(s)
    BY <1>2, <1>5, <2>a, EphemeralOfConcat
  <2>2. Ephemeral(b.follow \o q)
    BY <1>5, <1>10, <2>1, EphemeralOfConcat
  <2> QED BY <1>2, <1>11, <2>1, <2>2, EphemeralOfConcat
<1>15. /\ TodoType(t) /\ Plan(t) = t /\ Out(t) = <<>>
       /\ (t # <<>> => t[1].k # "Page" /\ (t[1].k = "Send" => t[1].reads = {}))
  BY <1>11, LaterTodo
<1>16. /\ wire \in Seq(FrameType) /\ wire' \in Seq(FrameType) /\ Missing \in SUBSET Nat
       /\ Len(log) \in Nat /\ Front(t) \in Seq(FrameType)
       /\ Members(wire') = Members(wire) \cup Members(b.out)
  <2>1. wire \in Seq(FrameType) /\ Missing \in SUBSET Nat /\ Len(log) \in Nat
    BY StateFacts
  <2>2. Front(t) \in Seq(FrameType)
    BY <1>15, FrontTyped
  <2>3. Members(wire \o b.out) = Members(wire) \cup Members(b.out)
    BY <1>5, <2>1, MembersOfConcat
  <2> QED BY <1>3, <1>5, <2>1, <2>2, <2>3, ConcatProperties
<1>17. Connected'
  BY <1>2, <1>7 DEF Connected
<1>18. DeliveryTypeOK'
  BY <1>2, <1>3, <1>7, <1>15, <1>16, <1>17 DEF DeliveryInvariant, DeliveryTypeOK
<1>19. Accounts'
  <2>1. SavedInTime'
    BY <1>7 DEF SavedInTime
  <2> QED BY <1>2, <1>3, <1>6, <1>7, <1>17, <2>1 DEF DeliveryInvariant, Accounts
<1>20. Sources'
  <2>1. ASSUME NEW a \in Members(t) PROVE Sourced(a, d.sent)'
    <3>1. CASE a \in Members(s)
      <4>1. a \in LaterType /\ Sourced(a, d.sent)
        BY <1>2, <3>1
      <4>2. a.k # "Page"
        BY <4>1, LaterKinds
      <4> QED BY <1>7, <4>1, <4>2 DEF Sourced
    <3>2. CASE a \in Members(b.follow)
      <4>1. a \in FollowType
        BY <1>4, <3>2, BatchFields, MembersTyped
      <4>2. a.k # "Page" /\ a.k # "Read" /\ (a.k = "Send" => a.reads = {})
        BY <4>1 DEF FollowType, CloseType, WaitingType
      <4> QED BY <4>2 DEF Sourced
    <3>3. CASE a \in Members(q)
      <4>1. PICK n \in b.reads : a = Read(n)
        BY <1>9, <3>3 DEF Members
      <4>2. a.k = "Read" /\ a.after = n
        BY <4>1 DEF Read
      <4> QED BY <1>7, <1>8, <4>2 DEF Sourced
    <3> QED BY <1>12, <3>1, <3>2, <3>3
  <2> QED BY <1>3, <1>7, <2>1 DEF DeliveryInvariant, Sources, Publications, Logged
<1>21. Agreed'
  <2>1. SentReceipts' = SentReceipts
    <3>1. Members(<<>>) = {}
      BY DEF Members
    <3> QED BY <1>3, <1>4, <1>15, <1>16, <3>1 DEF SentReceipts
  <2>2. Theirs' = Theirs /\ Place' = Place /\ Said' = Said
    BY <1>3, <2>1 DEF Theirs, SaidReceipts, Said, Place
  <2>3. Queued(t) = Queued(Plan(todo))
    <3>1. Members(<<>>) = {}
      BY DEF Members
    <3> QED BY <1>3, <1>4, <1>12, <3>1
  <2> QED BY <1>2, <1>3, <1>4, <1>7, <1>13, <1>15, <2>2, <2>3 DEF DeliveryInvariant, Agreed
<1>22. OnTheWay'
  <2>1. Line = wire'
    <3>1. wire' \o <<>> = wire'
      BY <1>16, ConcatEmptySeq
    <3> QED BY <1>3, <1>4, <3>1 DEF Line
  <2>2. Line' = wire' \o Front(t)
    <3>1. wire' \o <<>> = wire'
      BY <1>16, ConcatEmptySeq
    <3> QED BY <1>3, <1>15, <3>1 DEF Line
  <2>3. Missing' = Missing
    BY <1>3 DEF Missing, Visible
  <2>4. Ephemeral(Behind(t)) /\ \A f \in Members(Front(t)) : f.event.seq = 0 /\ f \in Queued(t)
    BY <1>11, <1>14, EphemeralTodo
  <2>5. ASSUME NEW f \in Members(Front(t)) PROVE f.thru <= d.sent /\ FrameTrue(f)
    <3>1. Receipt(f) \in d.inFlight
      BY <1>2, <1>4, <1>12, <2>4 DEF DeliveryInvariant, Agreed, Settled
    <3>2. f.thru <= d.sent
      BY <3>1 DEF Receipt, DeliveryInvariant, Accounts, Counted
    <3>3. Members(Front(t)) \in SUBSET FrameType
      BY <1>16, MembersTyped
    <3>4. f \in FrameType
      BY <3>3
    <3>5. f.thru \in Nat /\ f.event.seq = 0
      BY <2>4, <3>4 DEF FrameType
    <3> QED BY <1>2, <1>16, <3>2, <3>5 DEF FrameTrue, Logged
  <2>6. Carried(wire' \o Front(t), Missing) /\ Tracked(d, Members(wire' \o Front(t)), Missing)
    <3>1. \A f \in Members(Front(t)) : f.event.seq = 0 /\ f.thru <= d.sent
      BY <2>4, <2>5
    <3>2. Carried(wire', Missing) /\ Tracked(d, Members(wire'), Missing)
      BY <1>2, <2>1 DEF DeliveryInvariant, OnTheWay
    <3> DEFINE w == wire'
    <3>3. w \in Seq(FrameType) /\ Carried(w, Missing) /\ Tracked(d, Members(w), Missing)
      BY <1>16, <3>2
    <3> HIDE DEF d, w
    <3>4. Carried(w \o Front(t), Missing) /\ Tracked(d, Members(w \o Front(t)), Missing)
      BY <1>2, <1>16, <3>1, <3>3, EphemeralFront
    <3> QED BY <3>4 DEF w
  <2>7. \A f \in Members(Line') : FrameTrue(f)
    <3>1. Members(wire' \o Front(t)) = Members(wire') \cup Members(Front(t))
      BY <1>16, MembersOfConcat
    <3>2. \A f \in Members(wire') : FrameTrue(f)
      BY <2>1 DEF DeliveryInvariant, OnTheWay
    <3> QED BY <2>2, <2>5, <3>1, <3>2
  <2> QED BY <1>3, <1>7, <2>2, <2>3, <2>4, <2>6, <2>7 DEF DeliveryInvariant, OnTheWay, FrameTrue, Logged
<1>23. Followed'
  <2>1. Reading => Reading'
    <3>1. ASSUME NEW i \in DOMAIN Plan(todo), Plan(todo)[i].k \in {"Read", "Page", "Close"}
          PROVE \E j \in DOMAIN t : t[j].k \in {"Read", "Page", "Close"}
      <4>1. Members(Plan(todo)) = {b} \cup Members(b.follow \o s)
        <5>1. b.follow \o s \in Seq(ActionType) /\ b \in ActionType
          BY <1>4, LaterIsAction DEF ActionType
        <5>2. /\ <<b>> \o (b.follow \o s) \in Seq(ActionType) /\ <<b>> \o (b.follow \o s) # <<>>
              /\ (<<b>> \o (b.follow \o s))[1] = b /\ Tail(<<b>> \o (b.follow \o s)) = b.follow \o s
          BY <5>1, Cons
        <5> QED BY <1>4, <5>2, MembersOfHeadTail
      <4>2. Plan(todo)[i] \in Members(Plan(todo)) /\ Plan(todo)[i] # b
        BY <1>3, <3>1 DEF Members
      <4>3. Plan(todo)[i] \in Members(t)
        BY <1>12, <4>1, <4>2
      <4> QED BY <3>1, <4>3 DEF Members
    <3>2. ASSUME b.reads # {} PROVE \E j \in DOMAIN t : t[j].k = "Read"
      <4>1. PICK n \in b.reads : q = <<Read(n)>>
        BY <1>9, <3>2
      <4>2. Read(n) \in Members(q)
        BY <4>1 DEF Members
      <4>3. Read(n) \in Members(t) /\ Read(n).k = "Read"
        BY <1>12, <4>2 DEF Read
      <4> QED BY <4>3 DEF Members
    <3> QED BY <1>3, <1>7, <1>15, <3>1, <3>2 DEF Reading
  <2> QED BY <1>2, <1>3, <1>7, <1>15, <2>1 DEF DeliveryInvariant, Followed, Shown
<1> QED BY <1>18, <1>19, <1>20, <1>21, <1>22, <1>23 DEF DeliveryInvariant

\* The batch b that is being encoded: its frames are known, and nobody else has them.
Encodes(b, s, frame) ==
  /\ b \in BatchType /\ s \in Seq(LaterType) /\ frame \in FrameType
  /\ b.frames \in Seq(FrameType) /\ Tail(b.frames) \in Seq(FrameType) /\ b.out \in Seq(FrameType)
  /\ b.follow \in Seq(FollowType) /\ b.follow \in Seq(LaterType) /\ b.reads \in SUBSET Nat
  /\ b.follow \o s \in Seq(LaterType) /\ Queued(b.follow \o s) \in SUBSET FrameType
  /\ Members(b.frames) = {frame} \cup Members(Tail(b.frames))
  /\ Settled(socket.d, Theirs, Place, Members(b.frames) \cup Queued(b.follow \o s))
  /\ \A f \in Members(Tail(b.frames)) \cup Queued(b.follow \o s) : f.id # frame.id
  /\ Climbing(Tail(b.frames)) /\ Apart(b.follow \o s) /\ Ephemeral(b.follow \o s)
  /\ Ids(Members(Tail(b.frames))) \cap Ids(Queued(b.follow \o s)) = {}
  /\ Theirs = (SaidReceipts \cup {Receipt(f) : f \in Members(wire) \cup Members(b.out)})
              \cup (IF client.frame > 0 THEN {Place} ELSE {})
  /\ Line = (wire \o b.out) \o b.frames
  /\ FrameTrue(frame) /\ \A n \in b.reads : n <= socket.d.sent
  /\ Members(Plan(todo)) = {b} \cup Members(b.follow \o s)

LEMMA Encoding ==
  ASSUME DeliveryInvariant, todo # <<>>, NEW b, b = todo[1], b.k = "Send", b.frames # <<>>,
         NEW s, s = Tail(todo), NEW frame, frame = b.frames[1]
  PROVE  Encodes(b, s, frame)
<1>1. /\ Connected /\ TodoType(todo) /\ b \in ActionType /\ s \in Seq(LaterType)
      /\ Sourced(b, socket.d.sent)
  BY DoingFacts
<1>2. /\ b \in BatchType /\ b.follow \o s \in Seq(LaterType)
      /\ Plan(todo) = <<b>> \o (b.follow \o s) /\ Plan(todo) \in Seq(ActionType)
      /\ Out(todo) = b.out /\ Front(todo) = b.frames /\ Behind(todo) = b.follow \o s
      /\ Queued(b.follow \o s) = Queued(b.follow) \cup Queued(s)
      /\ Queued(Plan(todo)) = Members(b.frames) \cup (Queued(b.follow) \cup Queued(s))
      /\ Apart(Plan(todo)) <=>
            /\ InOrder(b) /\ Apart(b.follow \o s)
            /\ Ids(Members(b.frames)) \cap Ids(Queued(b.follow \o s)) = {}
  <2>1. TodoType(todo) /\ todo # <<>> /\ todo[1].k = "Send" /\ b = todo[1] /\ s = Tail(todo)
    BY <1>1
  <2> QED BY ONLY <2>1, BatchTodo
<1>3. /\ b.frames \in Seq(FrameType) /\ b.out \in Seq(FrameType) /\ b.follow \in Seq(FollowType)
      /\ b.follow \in Seq(LaterType) /\ b.reads \in SUBSET Nat
  BY <1>2, BatchFields, LaterIsAction
<1>4. /\ frame \in FrameType /\ Tail(b.frames) \in Seq(FrameType)
      /\ Members(b.frames) = {frame} \cup Members(Tail(b.frames))
      /\ Len(b.frames) \in Nat \ {0} /\ DOMAIN b.frames = 1 .. Len(b.frames)
      /\ DOMAIN Tail(b.frames) = 1 .. Len(b.frames) - 1
      /\ \A i \in 1 .. Len(b.frames) - 1 : Tail(b.frames)[i] = b.frames[i + 1]
  BY <1>3, HeadTail, MembersOfHeadTail
<1>5. /\ Settled(socket.d, Theirs, Place, Queued(Plan(todo))) /\ Apart(Plan(todo))
      /\ Ephemeral(Behind(todo)) /\ \A f \in Members(Line) : FrameTrue(f)
  BY <1>1 DEF DeliveryInvariant, Agreed, OnTheWay
<1>6. Queued(Plan(todo)) = Members(b.frames) \cup Queued(b.follow \o s)
  BY <1>2
<1>7. Queued(b.follow \o s) \in SUBSET FrameType
  BY <1>6, StateFacts
<1>8. \A p, q \in 1 .. Len(b.frames) : p < q => b.frames[p].id < b.frames[q].id
  BY <1>1, <1>2, <1>4, <1>5 DEF InOrder
<1>9. ASSUME NEW f \in Members(Tail(b.frames)) PROVE f.id # frame.id
  <2>1. PICK i \in 1 .. Len(b.frames) - 1 : f = Tail(b.frames)[i]
    BY <1>4, <1>9 DEF Members
  <2>2. f = b.frames[i + 1] /\ i + 1 \in 1 .. Len(b.frames) /\ 1 \in 1 .. Len(b.frames) /\ 1 < i + 1
    BY <1>4, <2>1
  <2>3. frame.id < f.id
    BY <1>8, <2>2
  <2>4. f \in FrameType
    BY <1>4, MembersTyped
  <2>5. f.id \in Nat /\ frame.id \in Nat
    BY <1>4, <2>4 DEF FrameType
  <2> QED BY ONLY <2>3, <2>5
<1>10. ASSUME NEW f \in Queued(b.follow \o s) PROVE f.id # frame.id
  <2>1. frame.id \in Ids(Members(b.frames)) /\ f.id \in Ids(Queued(b.follow \o s))
    BY <1>4 DEF Ids
  <2> QED BY <1>2, <1>5, <2>1
<1>11. Climbing(Tail(b.frames))
  <2>1. ASSUME NEW p \in 1 .. Len(b.frames) - 1, NEW q \in 1 .. Len(b.frames) - 1, p < q
        PROVE Tail(b.frames)[p].id < Tail(b.frames)[q].id
    <3>1. p + 1 \in 1 .. Len(b.frames) /\ q + 1 \in 1 .. Len(b.frames) /\ p + 1 < q + 1
      BY <1>4, <2>1
    <3>2. b.frames[p + 1].id < b.frames[q + 1].id
      BY <1>8, <3>1
    <3> QED BY <1>4, <3>2
  <2> QED BY <1>4, <2>1 DEF Climbing
<1>12. Ids(Members(Tail(b.frames))) \cap Ids(Queued(b.follow \o s)) = {}
  <2>1. Ids(Members(Tail(b.frames))) \subseteq Ids(Members(b.frames))
    BY <1>4 DEF Ids
  <2> QED BY <1>2, <1>5, <2>1
<1>13. Theirs = (SaidReceipts \cup {Receipt(f) : f \in Members(wire) \cup Members(b.out)})
                \cup (IF client.frame > 0 THEN {Place} ELSE {})
  BY <1>2 DEF Theirs, SentReceipts
<1>14. Line = (wire \o b.out) \o b.frames
  BY <1>2 DEF Line
<1>15. FrameTrue(frame)
  <2>1. wire \o b.out \in Seq(FrameType)
    BY <1>3, StateFacts, ConcatProperties
  <2> DEFINE u == wire \o b.out
             v == b.frames
  <2>2. u \in Seq(FrameType) /\ v \in Seq(FrameType)
    BY <1>3, <2>1
  <2> HIDE DEF u, v
  <2>3. Members(u \o v) = Members(u) \cup Members(v)
    BY ONLY <2>2, MembersOfConcat
  <2>4. Line = u \o v /\ frame \in Members(v)
    BY <1>4, <1>14 DEF u, v
  <2> QED BY <1>5, <2>3, <2>4
<1>16. Members(Plan(todo)) = {b} \cup Members(b.follow \o s)
  <2>1. b.follow \o s \in Seq(ActionType) /\ b \in ActionType
    BY <1>1, <1>2, LaterIsAction
  <2> DEFINE v == b.follow \o s
             u == <<b>> \o v
  <2>2. v \in Seq(ActionType) /\ b \in ActionType
    BY <2>1
  <2> HIDE DEF v
  <2>3. u \in Seq(ActionType) /\ u # <<>> /\ u[1] = b /\ Tail(u) = v
    BY ONLY <2>2, Cons
  <2> HIDE DEF u
  <2>4. Members(u) = {u[1]} \cup Members(Tail(u))
    BY ONLY <2>3, MembersOfHeadTail
  <2>5. Plan(todo) = u
    BY <1>2 DEF u, v
  <2> QED BY <2>3, <2>4, <2>5 DEF v
<1>17. \A n \in b.reads : n <= socket.d.sent
  BY <1>1 DEF Sourced
<1>18. Apart(b.follow \o s) /\ Ephemeral(b.follow \o s)
  BY <1>2, <1>5
<1>19. Settled(socket.d, Theirs, Place, Members(b.frames) \cup Queued(b.follow \o s))
  BY <1>5, <1>6
<1> QED BY <1>1, <1>2, <1>3, <1>4, <1>7, <1>9, <1>10, <1>11, <1>12, <1>13, <1>14, <1>15, <1>16,
           <1>17, <1>18, <1>19 DEF Encodes

\* The batch b becomes x, with mid behind what it is followed by; the rest as they were.
EncodedPart(b, s, mid, reads, x) ==
  /\ todo # <<>> /\ b = todo[1] /\ b.k = "Send" /\ b.frames # <<>> /\ s = Tail(todo)
  /\ mid \in Seq(FollowType) /\ reads \in SUBSET Nat /\ x \in BatchType
  /\ x.frames = Tail(b.frames) /\ x.follow = b.follow \o mid
  /\ x.reads = b.reads \cup reads /\ \A n \in reads : n <= socket.d.sent
  /\ todo' = <<x>> \o s /\ Ephemeral(mid) /\ Apart(mid)
  /\ Ids(Queued(mid)) \cap Ids(Members(Tail(b.frames)) \cup Queued(b.follow \o s)) = {}
  /\ UNCHANGED <<log, runtime, unpublished, ops, running, wire, acks, client, used>>

\* The delivery becomes d2; R is what the client may have, line the frames on their way.
EncodedState(b, s, mid, reads, x, d2, R, line) ==
  /\ d2 \in DeliveryType /\ Counted(d2) /\ Buffered(d2) /\ d2.sent = socket.d.sent
  /\ socket' = [socket EXCEPT !.d = d2] /\ (Projected \/ d2 = socket.d)
  /\ R = (SaidReceipts \cup {Receipt(f) : f \in Members(wire) \cup Members(x.out)})
         \cup (IF client.frame > 0 THEN {Place} ELSE {})
  /\ Settled(d2, R, Place, (Members(x.frames) \cup Queued(mid)) \cup Queued(b.follow \o s))
  /\ line = (wire \o x.out) \o x.frames /\ Carried(line, Missing)
  /\ Tracked(d2, Members(line), Missing) /\ Members(line) \subseteq Members(Line)
  /\ \/ reads # {} \/ (\E i \in DOMAIN mid : mid[i].k = "Close") \/ Capacity(d2) = 0
     \/ d2 = socket.d

LEMMA EncodedStep ==
  ASSUME DeliveryInvariant, NEW b, NEW s, NEW mid, NEW reads, NEW x, NEW d2, NEW R, NEW line,
         EncodedPart(b, s, mid, reads, x), EncodedState(b, s, mid, reads, x, d2, R, line)
  PROVE  DeliveryInvariant'
<1> /\ todo # <<>> /\ b = todo[1] /\ b.k = "Send" /\ b.frames # <<>> /\ s = Tail(todo)
    /\ mid \in Seq(FollowType) /\ reads \in SUBSET Nat /\ x \in BatchType
    /\ x.frames = Tail(b.frames) /\ x.follow = b.follow \o mid
    /\ x.reads = b.reads \cup reads /\ \A n \in reads : n <= socket.d.sent
    /\ todo' = <<x>> \o s /\ Ephemeral(mid) /\ Apart(mid)
    /\ Ids(Queued(mid)) \cap Ids(Members(Tail(b.frames)) \cup Queued(b.follow \o s)) = {}
    /\ UNCHANGED <<log, runtime, unpublished, ops, running, wire, acks, client, used>>
  BY DEF EncodedPart
<1> /\ d2 \in DeliveryType /\ Counted(d2) /\ Buffered(d2) /\ d2.sent = socket.d.sent
    /\ socket' = [socket EXCEPT !.d = d2] /\ (Projected \/ d2 = socket.d)
    /\ R = (SaidReceipts \cup {Receipt(f) : f \in Members(wire) \cup Members(x.out)})
           \cup (IF client.frame > 0 THEN {Place} ELSE {})
    /\ Settled(d2, R, Place, (Members(x.frames) \cup Queued(mid)) \cup Queued(b.follow \o s))
    /\ line = (wire \o x.out) \o x.frames /\ Carried(line, Missing)
    /\ Tracked(d2, Members(line), Missing) /\ Members(line) \subseteq Members(Line)
    /\ \/ reads # {} \/ (\E i \in DOMAIN mid : mid[i].k = "Close") \/ Capacity(d2) = 0
       \/ d2 = socket.d
  BY DEF EncodedState
<1> DEFINE rest == b.follow \o s
           after == x.follow \o s
<1>1. /\ Connected /\ socket.held /\ socket \in SocketType
      /\ \A a \in Members(s) : a \in LaterType /\ Sourced(a, socket.d.sent)
      /\ socket.d.sent \in Nat /\ socket.d.sent <= Len(log)
      /\ running # "none" /\ running \in Publication \cup {"ack", "flush", "open"}
  BY DoingFacts
<1>2. PICK frame : frame = b.frames[1]
  OBVIOUS
<1>2a. Encodes(b, s, frame)
  BY <1>2, Encoding
<1>3. /\ b \in BatchType /\ s \in Seq(LaterType)
      /\ b.follow \in Seq(FollowType) /\ b.follow \in Seq(LaterType) /\ b.reads \in SUBSET Nat
      /\ rest \in Seq(LaterType) /\ Climbing(Tail(b.frames)) /\ Apart(rest) /\ Ephemeral(rest)
      /\ Ids(Members(Tail(b.frames))) \cap Ids(Queued(rest)) = {}
      /\ \A n \in b.reads : n <= socket.d.sent
      /\ Members(Plan(todo)) = {b} \cup Members(rest)
  BY <1>2a DEF Encodes
<1>4. mid \in Seq(LaterType) /\ x \in ActionType
  BY LaterIsAction DEF ActionType
<1>5. TodoType(todo') /\ todo' # <<>> /\ todo'[1] = x /\ Tail(todo') = s
  BY <1>3, <1>4, TodoOf
<1>6. /\ x.k = "Send" /\ x.out \in Seq(FrameType) /\ x.frames \in Seq(FrameType)
  BY BatchFields
<1>7. /\ after \in Seq(LaterType)
      /\ Plan(todo') = <<x>> \o after /\ Plan(todo') \in Seq(ActionType)
      /\ Out(todo') = x.out /\ Front(todo') = x.frames /\ Behind(todo') = after
      /\ Queued(Plan(todo')) = Members(x.frames) \cup (Queued(x.follow) \cup Queued(s))
      /\ Queued(after) = Queued(x.follow) \cup Queued(s)
      /\ Apart(Plan(todo')) <=>
            /\ InOrder(x) /\ Apart(after) /\ Ids(Members(x.frames)) \cap Ids(Queued(after)) = {}
  <2> DEFINE u == todo'
  <2>1. TodoType(u) /\ u # <<>> /\ u[1].k = "Send" /\ x = u[1] /\ s = Tail(u)
    BY <1>5, <1>6
  <2> HIDE DEF u
  <2>2. /\ after \in Seq(LaterType)
        /\ Plan(u) = <<x>> \o after /\ Plan(u) \in Seq(ActionType)
        /\ Out(u) = x.out /\ Front(u) = x.frames /\ Behind(u) = after
        /\ Queued(Plan(u)) = Members(x.frames) \cup (Queued(x.follow) \cup Queued(s))
        /\ Queued(after) = Queued(x.follow) \cup Queued(s)
        /\ Apart(Plan(u)) <=>
              /\ InOrder(x) /\ Apart(after) /\ Ids(Members(x.frames)) \cap Ids(Queued(after)) = {}
    BY ONLY <2>1, BatchTodo
  <2> QED BY <2>2 DEF u
<1>8. /\ Queued(x.follow) = Queued(b.follow) \cup Queued(mid)
      /\ Queued(rest) = Queued(b.follow) \cup Queued(s)
      /\ Members(after) = (Members(b.follow) \cup Members(mid)) \cup Members(s)
      /\ Members(rest) = Members(b.follow) \cup Members(s)
      /\ x.follow \in Seq(LaterType)
  <2>1. b.follow \o mid \in Seq(LaterType)
    BY <1>3, <1>4, ConcatProperties
  <2> DEFINE u == b.follow
             v == x.follow
  <2>2. u \in Seq(LaterType) /\ mid \in Seq(LaterType) /\ s \in Seq(LaterType) /\ v \in Seq(LaterType)
    BY <1>3, <1>4, <2>1
  <2>3. v = u \o mid
    OBVIOUS
  <2> HIDE DEF u, v
  <2>4. Queued(u \o mid) = Queued(u) \cup Queued(mid)
    BY ONLY <2>2, QueuedOfConcat
  <2>5. Members(u \o mid) = Members(u) \cup Members(mid)
    BY ONLY <2>2, MembersOfConcat
  <2>6. Queued(u \o s) = Queued(u) \cup Queued(s)
    BY ONLY <2>2, QueuedOfConcat
  <2>7. Members(u \o s) = Members(u) \cup Members(s)
    BY ONLY <2>2, MembersOfConcat
  <2>8. Members(v \o s) = Members(v) \cup Members(s)
    BY ONLY <2>2, MembersOfConcat
  <2> QED BY <2>2, <2>3, <2>4, <2>5, <2>6, <2>7, <2>8 DEF u, v
<1>9. Apart(Plan(todo'))
  <2> DEFINE u == b.follow
             v == x.follow
             A == Queued(mid)
             B == Members(Tail(b.frames))
  <2>0. /\ u \in Seq(LaterType) /\ mid \in Seq(LaterType) /\ s \in Seq(LaterType) /\ v \in Seq(LaterType)
        /\ v = u \o mid
    BY <1>3, <1>4, <1>8
  <2>a. /\ Queued(v) = Queued(u) \cup A /\ Queued(rest) = Queued(u) \cup Queued(s)
        /\ Ids(A) \cap Ids(B \cup Queued(rest)) = {} /\ Ids(B) \cap Ids(Queued(rest)) = {}
        /\ Apart(u \o s) /\ Apart(mid)
    BY <1>3, <1>8
  <2>b. \A P, Q : Ids(P \cup Q) = Ids(P) \cup Ids(Q)
    BY DEF Ids
  <2> HIDE DEF u, v, A, B
  <2>1. Apart(u) /\ Apart(s) /\ Ids(Queued(u)) \cap Ids(Queued(s)) = {}
    BY ONLY <2>0, <2>a, ApartOfConcat
  <2>c. /\ Ids(Queued(rest)) = Ids(Queued(u)) \cup Ids(Queued(s))
        /\ Ids(B \cup Queued(rest)) = Ids(B) \cup Ids(Queued(rest))
        /\ Ids(Queued(v)) = Ids(Queued(u)) \cup Ids(A)
    BY ONLY <2>a, <2>b
  <2>d. /\ Ids(A) \cap Ids(B) = {} /\ Ids(A) \cap Ids(Queued(u)) = {} /\ Ids(A) \cap Ids(Queued(s)) = {}
        /\ Ids(B) \cap Ids(Queued(u)) = {} /\ Ids(B) \cap Ids(Queued(s)) = {}
    BY ONLY <2>a, <2>c
  <2>3. Apart(v)
    <3>1. Ids(Queued(u)) \cap Ids(Queued(mid)) = {}
      BY <2>d DEF A
    <3>2. Apart(u \o mid)
      BY ONLY <2>0, <2>a, <2>1, <3>1, ApartOfConcat
    <3> QED BY <2>0, <3>2
  <2>4. Ids(Queued(v)) \cap Ids(Queued(s)) = {}
    BY ONLY <2>1, <2>c, <2>d
  <2>e. Apart(v \o s)
    BY ONLY <2>0, <2>1, <2>3, <2>4, ApartOfConcat
  <2>5. Apart(after)
    BY <2>e DEF v
  <2>6. InOrder(x)
    BY <1>3 DEF InOrder, Climbing
  <2>7. Ids(Members(x.frames)) \cap Ids(Queued(after)) = {}
    <3>1. Queued(after) = Queued(v) \cup Queued(s) /\ Members(x.frames) = B
      BY <1>7 DEF v, B
    <3>2. Ids(Queued(after)) = Ids(Queued(v)) \cup Ids(Queued(s))
      BY ONLY <2>b, <3>1
    <3> QED BY <2>c, <2>d, <3>1, <3>2
  <2> QED BY <1>7, <2>5, <2>6, <2>7
<1>10. Ephemeral(after)
  <2> DEFINE u == b.follow
             v == x.follow
  <2>0. /\ u \in Seq(LaterType) /\ mid \in Seq(LaterType) /\ s \in Seq(LaterType) /\ v \in Seq(LaterType)
        /\ v = u \o mid /\ Ephemeral(u \o s) /\ Ephemeral(mid)
    BY <1>3, <1>4, <1>8
  <2> HIDE DEF u, v
  <2>1. Ephemeral(u) /\ Ephemeral(s)
    BY ONLY <2>0, EphemeralOfConcat
  <2>2. Ephemeral(v)
    BY ONLY <2>0, <2>1, EphemeralOfConcat
  <2>3. Ephemeral(v \o s)
    BY ONLY <2>0, <2>1, <2>2, EphemeralOfConcat
  <2> QED BY <2>3 DEF v
<1>11. Queued(Plan(todo')) = (Members(x.frames) \cup Queued(mid)) \cup Queued(rest)
  BY <1>7, <1>8
<1> HIDE DEF rest, after
<1>12. /\ socket' \in SocketType /\ socket'.d = d2 /\ socket'.status = socket.status
       /\ socket'.held = socket.held /\ socket'.saved = socket.saved /\ socket'.from = socket.from
  BY <1>1 DEF SocketType
<1>13. Connected'
  BY <1>1, <1>12 DEF Connected
<1>14. DeliveryTypeOK'
  BY <1>1, <1>5, <1>12, <1>13 DEF DeliveryInvariant, DeliveryTypeOK
<1>15. Accounts'
  <2>1. SavedInTime'
    BY <1>1, <1>5, <1>6, <1>12 DEF DeliveryInvariant, Accounts, SavedInTime
  <2> QED BY <1>1, <1>12, <1>13, <2>1 DEF DeliveryInvariant, Accounts
<1>16. Sources'
  <2>1. Members(todo') = {x} \cup Members(s)
    BY <1>5, MembersOfHeadTail DEF TodoType
  <2>2. ASSUME NEW a \in Members(s) PROVE Sourced(a, d2.sent)'
    <3>1. a \in LaterType /\ Sourced(a, d2.sent)
      BY <1>1, <2>2
    <3>2. a.k # "Page"
      BY <3>1, LaterKinds
    <3> QED BY <3>1, <3>2 DEF Sourced
  <2>3. Sourced(x, d2.sent)'
    BY <1>3, <1>6 DEF Sourced
  <2> QED BY <1>12, <2>1, <2>2, <2>3 DEF DeliveryInvariant, Sources, Publications, Logged
<1>17. Agreed'
  <2>1. Theirs' = R /\ Place' = Place /\ Said' = Said
    BY <1>7, ZenonT(30) DEF Theirs, SaidReceipts, SentReceipts, Said, Place
  <2>2. Settled(d2, R, Place, Queued(Plan(todo')))
    BY <1>11 DEF rest
  <2>3. \A a \in Said : a.frame > 0 /\ a.frame <= client.frame /\ a.thru <= client.cursor
    BY <1>1 DEF DeliveryInvariant, Agreed
  <2>4. Settled(socket.d, Theirs, Place, Queued(Plan(todo)))'
    BY <1>12, <2>1, <2>2 DEF Settled, Answerable, Receipt
  <2> QED BY <1>9, <2>1, <2>3, <2>4 DEF Agreed
<1>18. OnTheWay'
  <2>1. Line' = line
    BY <1>7 DEF Line
  <2>2. Missing' = Missing
    BY DEF Missing, Visible
  <2>3. \A f \in Members(line) : FrameTrue(f)
    BY DEF DeliveryInvariant, OnTheWay
  <2> QED BY <1>7, <1>10, <1>12, <2>1, <2>2, <2>3 DEF DeliveryInvariant, OnTheWay, FrameTrue, Logged
<1>19. Members(Plan(todo')) = {x} \cup Members(after)
  <2>1. after \in Seq(ActionType)
    BY <1>7, LaterIsAction
  <2> DEFINE u == <<x>> \o after
  <2>2. u \in Seq(ActionType) /\ u # <<>> /\ u[1] = x /\ Tail(u) = after
    BY ONLY <1>4, <2>1, Cons
  <2> HIDE DEF u
  <2>3. Members(u) = {u[1]} \cup Members(Tail(u))
    BY ONLY <2>2, MembersOfHeadTail
  <2> QED BY <1>7, <2>2, <2>3 DEF u
<1>20. ASSUME NEW a \in Members(after), a.k \in {"Read", "Page", "Close"} PROVE Reading'
  <2>1. a \in Members(Plan(todo'))
    BY <1>19
  <2>2. \E i \in DOMAIN Plan(todo') : Plan(todo')[i].k \in {"Read", "Page", "Close"}
    BY <1>20, <2>1 DEF Members
  <2> QED BY <2>2 DEF Reading
<1>21. Followed'
  <2>1. CASE reads # {}
    <3>1. Reading'
      BY <1>5, <1>6, <2>1 DEF Reading
    <3> QED BY <1>5, <1>6, <3>1 DEF Followed
  <2>2. CASE \E i \in DOMAIN mid : mid[i].k = "Close"
    <3>1. PICK i \in DOMAIN mid : mid[i].k = "Close"
      BY <2>2
    <3>2. mid[i] \in Members(after)
      BY <1>8 DEF Members
    <3>3. Reading'
      BY <1>20, <3>1, <3>2
    <3> QED BY <1>5, <1>6, <3>3 DEF Followed
  <2>3. CASE Capacity(d2) = 0
    BY <1>5, <1>6, <1>12, <2>3 DEF Followed
  <2>4. CASE d2 = socket.d
    <3>1. Reading => Reading'
      <4>1. ASSUME NEW i \in DOMAIN Plan(todo), Plan(todo)[i].k \in {"Read", "Page", "Close"}
            PROVE Reading'
        <5>1. Plan(todo)[i] \in Members(rest)
          <6>1. Plan(todo)[i] \in Members(Plan(todo)) /\ Plan(todo)[i] # b
            BY <4>1 DEF Members
          <6> QED BY <1>3, <6>1
        <5>2. Plan(todo)[i] \in Members(after)
          BY <1>8, <5>1
        <5> QED BY <1>20, <4>1, <5>2
      <4>2. todo[1].reads # {} => Reading'
        BY <1>5, <1>6 DEF Reading
      <4>3. socket.status = "accepting" \/ (\E i \in DOMAIN ops : ops[i].k = "open") => Reading'
        BY <1>12 DEF Reading
      <4> QED BY <4>1, <4>2, <4>3 DEF Reading
    <3>2. \A n : Shown(n) => Shown(n)'
      BY <1>12, <2>4 DEF Shown
    <3>3. Capacity(socket.d) > 0 /\ ~Reading => \A n \in 1..Len(log) : Shown(n)
      BY <1>1 DEF DeliveryInvariant, Followed
    <3>4. Capacity(socket'.d) = Capacity(socket.d)
      BY <1>12, <2>4
    <3>5. Capacity(socket'.d) > 0 /\ ~Reading' => \A n \in 1..Len(log) : Shown(n)'
      BY ONLY <3>1, <3>2, <3>3, <3>4
    <3> QED BY <1>5, <1>6, <3>5 DEF Followed
  <2> QED BY <2>1, <2>2, <2>3, <2>4
<1> QED BY <1>14, <1>15, <1>16, <1>17, <1>18, <1>21 DEF DeliveryInvariant

\* A frame that is encoded is still at the same place of the line.
LEMMA MoveAcross ==
  ASSUME NEW w \in Seq(FrameType), NEW o \in Seq(FrameType), NEW f \in Seq(FrameType), f # <<>>
  PROVE  (w \o Append(o, f[1])) \o Tail(f) = (w \o o) \o f
<1> DEFINE h == <<f[1]>>
           g == Tail(f)
<1>1. f[1] \in FrameType /\ g \in Seq(FrameType)
  BY HeadTail
<1>2. Append(o, f[1]) = o \o h
  BY <1>1, AppendIsConcat
<1>3. f = h \o g
  BY HeadThenTail
<1>4. h \in Seq(FrameType)
  BY <1>1
<1> HIDE DEF h, g
<1>5. w \o (o \o h) = (w \o o) \o h
  BY <1>4, ConcatAssociative, SMTT(30)
<1>6. w \o o \in Seq(FrameType)
  BY ConcatProperties
<1> DEFINE u == w \o o
<1>7. u \in Seq(FrameType)
  BY <1>6
<1> HIDE DEF u
<1>8. (u \o h) \o g = u \o (h \o g)
  BY ONLY <1>1, <1>4, <1>7, ConcatAssociative, SMTT(30)
<1> QED BY <1>2, <1>3, <1>5, <1>8 DEF u, g

\* A frame that the client may see goes out with its batch.
LEMMA VisibleStep ==
  ASSUME DeliveryInvariant, DoEncode, ~(Projected /\ todo[1].frames[1].event.hidden)
  PROVE  DeliveryInvariant'
<1>1. todo # <<>>
  BY DEF DoEncode, Doing
<1>2. PICK b : b = todo[1]
  OBVIOUS
<1>3. PICK s : s = Tail(todo)
  OBVIOUS
<1>4. PICK frame : frame = b.frames[1]
  OBVIOUS
<1>5. Head(todo) = b /\ b.k = "Send" /\ b.frames # <<>>
  <2>1. Head(todo) = b
    BY <1>1, <1>2, DoingFacts
  <2> QED BY <2>1 DEF DoEncode, Doing
<1>6. Encodes(b, s, frame)
  BY <1>1, <1>2, <1>3, <1>4, <1>5, Encoding
<1>7. Head(b.frames) = frame
  BY <1>4, <1>5, <1>6, HeadTail DEF Encodes
<1>8. PICK x : x = [[b EXCEPT !.frames = Tail(@)] EXCEPT !.out = Append(@, frame)]
  OBVIOUS
<1>9. /\ x \in BatchType /\ x.frames = Tail(b.frames) /\ x.out = Append(b.out, frame)
      /\ x.follow = b.follow /\ x.reads = b.reads
  <2>1. Append(b.out, frame) \in Seq(FrameType)
    BY <1>6, AppendProperties DEF Encodes
  <2> QED BY <1>6, <1>8, <2>1 DEF Encodes, BatchType
<1>10. /\ todo' = <<x>> \o s /\ socket' = socket
       /\ UNCHANGED <<log, runtime, unpublished, ops, running, wire, acks, client, used>>
  BY <1>2, <1>3, <1>4, <1>5, <1>7, <1>8 DEF DoEncode
<1>11. PICK d : d = socket.d
  OBVIOUS
<1>12. /\ d \in DeliveryType /\ Counted(d) /\ Buffered(d) /\ d.sent = socket.d.sent
       /\ socket' = [socket EXCEPT !.d = d]
  BY <1>1, <1>10, <1>11, DoingFacts DEF SocketType
<1>13. PICK mid : mid = <<>>
  OBVIOUS
<1>14. /\ mid \in Seq(FollowType) /\ Ephemeral(mid) /\ Apart(mid) /\ Queued(mid) = {}
       /\ x.follow = b.follow \o mid
  <2>1. b.follow \o <<>> = b.follow
    BY <1>6, ConcatEmptySeq DEF Encodes
  <2>2. mid \in Seq(FollowType)
    BY <1>13
  <2> QED BY <1>9, <1>13, <2>1, <2>2 DEF Ephemeral, Apart, Queued
<1>15. PICK reads : reads = {}
  OBVIOUS
<1>16. PICK R : R = (SaidReceipts \cup {Receipt(f) : f \in Members(wire) \cup Members(x.out)})
                    \cup (IF client.frame > 0 THEN {Place} ELSE {})
  OBVIOUS
<1>17. R = Theirs \cup {Receipt(frame)}
  <2>1. Members(x.out) = Members(b.out) \cup {frame}
    BY <1>6, <1>9, MembersOfAppend DEF Encodes
  <2>2. Theirs = (SaidReceipts \cup {Receipt(f) : f \in Members(wire) \cup Members(b.out)})
                 \cup (IF client.frame > 0 THEN {Place} ELSE {})
    BY <1>6 DEF Encodes
  <2> QED BY <1>16, <2>1, <2>2
<1> DEFINE rest == Queued(b.follow \o s)
           Q    == Members(b.frames) \cup rest
           Q2   == (Members(x.frames) \cup Queued(mid)) \cup rest
<1>18. /\ Settled(d, Theirs, Place, Q) /\ frame \in Q /\ Q2 \in SUBSET Q
       /\ \A f \in Q2 : f.id # frame.id
  BY <1>6, <1>9, <1>11, <1>14 DEF Encodes
<1>19. Settled(d, R, Place, Q2)
  <2> HIDE DEF Q, Q2
  <2> QED BY <1>17, <1>18, SettledOut
<1>20. PICK line : line = (wire \o x.out) \o x.frames
  OBVIOUS
<1>21. line = Line
  <2>1. wire \in Seq(FrameType)
    BY StateFacts
  <2> DEFINE o == b.out
             g == b.frames
  <2>a. o \in Seq(FrameType) /\ g \in Seq(FrameType) /\ g # <<>>
    BY <1>5, <1>6 DEF Encodes
  <2> HIDE DEF o, g
  <2>b. (wire \o Append(o, g[1])) \o Tail(g) = (wire \o o) \o g
    BY ONLY <2>1, <2>a, MoveAcross
  <2>2. (wire \o Append(b.out, b.frames[1])) \o Tail(b.frames) = (wire \o b.out) \o b.frames
    BY <2>b DEF o, g
  <2> QED BY <1>4, <1>6, <1>9, <1>20, <2>2 DEF Encodes
<1>22. Carried(line, Missing) /\ Tracked(d, Members(line), Missing) /\ Members(line) \subseteq Members(Line)
  BY <1>1, <1>11, <1>21, DoingFacts DEF DeliveryInvariant, OnTheWay
<1>23. /\ x.reads = b.reads \cup reads /\ reads \in SUBSET Nat
       /\ \A n \in reads : n <= socket.d.sent
  BY <1>9, <1>15
<1>24. Ids(Queued(mid)) \cap Ids(Members(Tail(b.frames)) \cup Queued(b.follow \o s)) = {}
  BY <1>14 DEF Ids
<1>25. Settled(d, R, Place, (Members(x.frames) \cup Queued(mid)) \cup Queued(b.follow \o s))
  BY <1>19
<1> HIDE DEF rest, Q, Q2
<1>26. EncodedPart(b, s, mid, reads, x)
  BY <1>1, <1>2, <1>3, <1>5, <1>9, <1>10, <1>14, <1>23, <1>24 DEF EncodedPart
<1>27. EncodedState(b, s, mid, reads, x, d, R, line)
  BY <1>11, <1>12, <1>16, <1>20, <1>22, <1>25 DEF EncodedState
<1> QED BY <1>26, <1>27, EncodedStep

\* What the actions acts ask for is put behind the batch b: mid, and page reads from n.
Postpones(b, acts, fs, n, more, mid, reads) ==
  /\ Asks(b, Following(b, acts), mid, reads)
  /\ Ephemeral(mid) /\ Apart(mid) /\ Queued(mid) \subseteq Members(fs) /\ reads \subseteq {n}
  /\ acts = <<Close("lagged")>> => \E i \in DOMAIN mid : mid[i].k = "Close"
  /\ acts = <<Close("lagged")>> \/ ~more \/ reads # {}

LEMMA Postponed ==
  ASSUME NEW b \in BatchType, NEW fs \in Seq(FrameType), Climbing(fs), NEW n \in Nat,
         \A f \in Members(fs) : f.event.seq = 0,
         NEW acts, NEW more \in BOOLEAN,
         acts \in {<<Close("lagged")>>, ActsOf(fs, n, TRUE, more)}
  PROVE  \E mid \in Seq(FollowType) : \E reads \in SUBSET Nat :
           Postpones(b, acts, fs, n, more, mid, reads)
<1>1. /\ Asks(b, Following(b, <<Close("lagged")>>), <<Close("lagged")>>, {})
      /\ Asks(b, Following(b, ActsOf(fs, n, TRUE, more)),
              IF fs = <<>> THEN <<>> ELSE <<Send(fs)>>, IF more THEN {n} ELSE {})
  BY FollowingKeepsOrder
<1>2. /\ Close("lagged") \in FollowType /\ Close("lagged").k = "Close" /\ Send(fs) \in FollowType
      /\ Send(fs).k = "Send" /\ Send(fs).frames = fs
  BY Actions
<1>3. CASE acts = <<Close("lagged")>>
  <2> DEFINE a == Close("lagged")
             mid == <<a>>
  <2>1. mid \in Seq(FollowType)
    BY <1>2
  <2>2. FramesIn(a) = {} /\ InOrder(a) /\ EphemeralAction(a) /\ a.k = "Close"
    BY <1>2 DEF FramesIn, InOrder, EphemeralAction
  <2>3. Asks(b, Following(b, acts), mid, {})
    BY <1>1, <1>3
  <2> HIDE DEF a
  <2>4. Ephemeral(mid) /\ Apart(mid) /\ Queued(mid) = {}
    BY <2>2, EphemeralOfOne, ApartOfOne, QueuedOfOne
  <2>5. \E i \in DOMAIN mid : mid[i].k = "Close"
    BY <2>2
  <2> HIDE DEF mid
  <2> QED BY <1>3, <2>1, <2>3, <2>4, <2>5 DEF Postpones
<1>4. CASE acts = ActsOf(fs, n, TRUE, more)
  <2> DEFINE reads == IF more THEN {n} ELSE {}
  <2>1. CASE acts = <<Close("lagged")>>
    BY <1>3, <2>1
  <2>2. CASE acts # <<Close("lagged")>> /\ fs = <<>>
    <3> DEFINE mid == <<>>
    <3>1. mid \in Seq(FollowType)
      OBVIOUS
    <3>2. Ephemeral(mid) /\ Apart(mid) /\ Queued(mid) = {}
      BY DEF Ephemeral, Apart, Queued
    <3>3. Asks(b, Following(b, acts), mid, reads)
      BY <1>1, <1>4, <2>2
    <3> HIDE DEF mid
    <3> QED BY <2>2, <3>1, <3>2, <3>3 DEF Postpones
  <2>3. CASE acts # <<Close("lagged")>> /\ fs # <<>>
    <3> DEFINE a == Send(fs)
               mid == <<a>>
    <3>1. mid \in Seq(FollowType)
      BY <1>2
    <3>2. FramesIn(a) = Members(fs) /\ InOrder(a)
      BY <1>2 DEF FramesIn, InOrder, Climbing
    <3>3. EphemeralAction(a)
      BY <1>2 DEF EphemeralAction, Members
    <3>4. Asks(b, Following(b, acts), mid, reads)
      BY <1>1, <1>4, <2>3
    <3> HIDE DEF a
    <3>5. Ephemeral(mid) /\ Apart(mid) /\ Queued(mid) = Members(fs)
      BY <3>2, <3>3, EphemeralOfOne, ApartOfOne, QueuedOfOne
    <3> HIDE DEF mid
    <3> QED BY <2>3, <3>1, <3>4, <3>5 DEF Postpones
  <2> QED BY <2>1, <2>2, <2>3
<1> QED BY <1>3, <1>4

\* What is sent from y, of ephemeral events: frames with new numbers, that go no further.
LEMMA NewFrames ==
  ASSUME NEW y \in DeliveryType, Counted(y), NEW z, NEW e, Emits(y, z, e),
         \A i \in DOMAIN e : e[i].seq = 0
  PROVE  LET fs == Frames(y, e) IN
         /\ fs \in Seq(FrameType) /\ Climbing(fs) /\ z.sent = y.sent /\ z \in DeliveryType /\ Counted(z)
         /\ \A f \in Members(fs) : f.event.seq = 0 /\ f.id >= y.next /\ f.id \in Nat
<1> DEFINE fs == Frames(y, e)
<1>1. e \in Seq(EventType) /\ Rising(e) /\ z \in DeliveryType /\ Counted(z)
  BY Emitted
<1>2. /\ fs \in Seq(FrameType) /\ DOMAIN fs = 1 .. Len(e) /\ Len(e) \in Nat /\ DOMAIN e = 1 .. Len(e)
      /\ \A i \in 1 .. Len(e) : fs[i].id = y.next + i - 1 /\ fs[i].event = e[i] /\ fs[i] \in FrameType
  BY <1>1, FramesOfEvents, LenProperties
<1>3. y.next \in Nat
  BY DEF DeliveryType
<1> HIDE DEF fs
<1>4. Climbing(fs)
  BY <1>2, <1>3 DEF Climbing
<1>5. z.sent = y.sent
  BY <1>1, EphemeralEvents
<1>6. \A f \in Members(fs) : f.event.seq = 0 /\ f.id >= y.next /\ f.id \in Nat
  BY <1>2, <1>3 DEF Members
<1> QED BY <1>1, <1>2, <1>4, <1>5, <1>6 DEF fs

\* The line without the frame that is answered: everything on it is still accounted for.
HiddenAnswered(frame, line, Q2, y) ==
  /\ Receipt(frame) \in socket.d.inFlight
  /\ y \in DeliveryType /\ Counted(y) /\ y.sent = socket.d.sent /\ y.pending = socket.d.pending
  /\ Settled(y, Theirs, Place, Q2) /\ Tracked(y, Members(line), Missing)
  /\ Carried(line, Missing) /\ Members(line) \subseteq Members(Line)
  /\ Members(line) \in SUBSET FrameType /\ Q2 \in SUBSET FrameType
  /\ \A f \in Members(line) : Receipt(f) \in Theirs \/ f \in Q2

LEMMA HiddenFrame ==
  ASSUME DeliveryInvariant, todo # <<>>, NEW b, NEW s, NEW frame, Encodes(b, s, frame),
         b.frames # <<>>, frame = b.frames[1], Connected, frame.event.hidden,
         NEW line, line = (wire \o b.out) \o Tail(b.frames),
         NEW Q2, Q2 = Members(Tail(b.frames)) \cup Queued(b.follow \o s),
         NEW y, y = AdvanceSuppressedReceipts(Answered(socket.d, frame))
  PROVE  HiddenAnswered(frame, line, Q2, y)
<1> DEFINE d == socket.d
           w == wire \o b.out
           g == b.frames
           Q == Members(g) \cup Queued(b.follow \o s)
           F == Members(Line)
           F2 == Members(line)
<1>1. d \in DeliveryType /\ Counted(d)
  BY DoingFacts
<1>2. /\ Theirs \in SUBSET ReceiptType /\ Place \in ReceiptType /\ Missing \in SUBSET Nat
      /\ 0 \notin Missing /\ wire \in Seq(FrameType) /\ F \in SUBSET FrameType
  <2>1. Line \in Seq(FrameType)
    BY StateFacts
  <2>2. F \in SUBSET FrameType
    BY <2>1, MembersTyped
  <2> QED BY <2>2, StateFacts
<1>3. /\ frame \in FrameType /\ g \in Seq(FrameType) /\ Tail(g) \in Seq(FrameType)
      /\ b.out \in Seq(FrameType) /\ Members(g) = {frame} \cup Members(Tail(g))
      /\ Q \in SUBSET FrameType /\ Q2 \in SUBSET Q /\ frame \in Q
      /\ Settled(d, Theirs, Place, Q) /\ \A f \in Q2 : f.id # frame.id
      /\ Line = w \o g /\ FrameTrue(frame)
      /\ Theirs = (SaidReceipts \cup {Receipt(f) : f \in Members(wire) \cup Members(b.out)})
                  \cup (IF client.frame > 0 THEN {Place} ELSE {})
  <2>1. Members(b.frames) \in SUBSET FrameType
    BY MembersTyped DEF Encodes
  <2> QED BY <2>1 DEF Encodes
<1>4. w \in Seq(FrameType) /\ Members(w) = Members(wire) \cup Members(b.out)
  BY <1>2, <1>3, ConcatProperties, MembersOfConcat
<1> HIDE DEF d, w, g, Q, F, F2
<1>5. Members(w \o g) = Members(w) \cup Members(g)
  BY ONLY <1>3, <1>4, MembersOfConcat
<1>6. Members(w \o Tail(g)) = Members(w) \cup Members(Tail(g))
  <2> DEFINE h == Tail(g)
  <2>1. h \in Seq(FrameType) /\ w \in Seq(FrameType)
    BY <1>3, <1>4
  <2> HIDE DEF h
  <2>2. Members(w \o h) = Members(w) \cup Members(h)
    BY ONLY <2>1, MembersOfConcat
  <2> QED BY <2>2 DEF h
<1>7. line = w \o Tail(g)
  BY DEF w, g
<1>8. F = Members(w) \cup Members(g) /\ F2 = Members(w) \cup Members(Tail(g))
  BY <1>3, <1>5, <1>6, <1>7 DEF F, F2
<1>9. \A f \in Members(w) : Receipt(f) \in Theirs
  BY <1>3, <1>4
<1>10. F2 \in SUBSET F /\ F2 \in SUBSET FrameType /\ \A f \in F : f = frame \/ f \in F2
  BY <1>2, <1>3, <1>8
<1>11. \A f \in F2 : Receipt(f) \in Theirs \/ f \in Q2
  BY <1>8, <1>9 DEF g
<1>12. \A f \in F : (Receipt(f) \in Theirs \/ f \in Q) /\ f.event.seq <= f.thru
  <2>1. \A f \in F : f.event.seq <= f.thru
    BY DEF F, DeliveryInvariant, OnTheWay, FrameTrue
  <2> QED BY <1>8, <1>9, <2>1 DEF Q
<1>13. frame.event.seq \notin Missing
  <2>1. CASE frame.event.seq = 0
    BY <1>2, <2>1
  <2>2. CASE frame.event.seq # 0
    BY <1>3, <2>2 DEF FrameTrue, Logged, Missing, Visible
  <2> QED BY <2>1, <2>2
<1>14. Tracked(d, F, Missing) /\ Carried(w \o g, Missing)
  BY <1>3 DEF d, F, DeliveryInvariant, OnTheWay
<1>15. y = AdvanceSuppressedReceipts(Answered(d, frame))
  BY DEF d
<1>16. /\ Receipt(frame) \in d.inFlight
       /\ y \in DeliveryType /\ Counted(y) /\ y.sent = d.sent /\ y.pending = d.pending
       /\ Settled(y, Theirs, Place, Q2) /\ Tracked(y, F2, Missing)
  <2>1. Answers(d, Theirs, Place, Q, frame, Q2, Missing, F, F2)
    BY <1>1, <1>2, <1>3, <1>10, <1>11, <1>12, <1>13, <1>14 DEF Answers
  <2>2. AnswerLeaves(d, Theirs, Place, frame, Q2, Missing, F2, y)
    BY ONLY <1>15, <2>1, AnswerKeeps
  <2> QED BY <2>2 DEF AnswerLeaves
<1>17. Carried(w \o Tail(g), Missing)
  <2>1. g # <<>> /\ g[1].event.seq \notin Missing
    BY <1>13 DEF g
  <2> QED BY ONLY <1>3, <1>4, <1>14, <2>1, CarriedWithout
<1>18. Q2 \in SUBSET FrameType
  BY <1>3
<1> QED BY <1>7, <1>10, <1>11, <1>16, <1>17, <1>18 DEF d, F, F2, HiddenAnswered

\* A hidden frame is answered by the host, and what that asks for waits for its batch.
LEMMA HiddenStep ==
  ASSUME DeliveryInvariant, DoEncode, Projected, todo[1].frames[1].event.hidden
  PROVE  DeliveryInvariant'
<1>1. todo # <<>>
  BY DEF DoEncode, Doing
<1>2. PICK b : b = todo[1]
  OBVIOUS
<1>3. PICK s : s = Tail(todo)
  OBVIOUS
<1>4. PICK frame : frame = b.frames[1]
  OBVIOUS
<1>5. Head(todo) = b /\ b.k = "Send" /\ b.frames # <<>>
  <2>1. Head(todo) = b
    BY <1>1, <1>2, DoingFacts
  <2> QED BY <2>1 DEF DoEncode, Doing
<1>6. Encodes(b, s, frame)
  BY <1>1, <1>2, <1>3, <1>4, <1>5, Encoding
<1>7. Head(b.frames) = frame
  BY <1>4, <1>5, <1>6, HeadTail DEF Encodes
<1>8. PICK line : line = (wire \o b.out) \o Tail(b.frames)
  OBVIOUS
<1>9. PICK Q2 : Q2 = Members(Tail(b.frames)) \cup Queued(b.follow \o s)
  OBVIOUS
<1>10. PICK y : y = AdvanceSuppressedReceipts(Answered(socket.d, frame))
  OBVIOUS
<1>11. /\ Connected /\ socket \in SocketType /\ socket.overdue \in Nat /\ Buffered(socket.d)
       /\ socket.d.sent \in Nat
  BY <1>1, DoingFacts
<1>12. /\ Receipt(frame) \in socket.d.inFlight
       /\ y \in DeliveryType /\ Counted(y) /\ y.sent = socket.d.sent /\ y.pending = socket.d.pending
       /\ Settled(y, Theirs, Place, Q2) /\ Tracked(y, Members(line), Missing)
       /\ Carried(line, Missing) /\ Members(line) \subseteq Members(Line)
       /\ Members(line) \in SUBSET FrameType /\ Q2 \in SUBSET FrameType
       /\ \A f \in Members(line) : Receipt(f) \in Theirs \/ f \in Q2
  <2>1. frame.event.hidden
    BY <1>2, <1>4
  <2>2. HiddenAnswered(frame, line, Q2, y)
    BY ONLY DeliveryInvariant, <1>1, <1>4, <1>5, <1>6, <1>8, <1>9, <1>10, <1>11, <2>1, HiddenFrame
  <2> QED BY <2>2 DEF HiddenAnswered
<1>13. PICK r : r = ReopenDeliveryWindow(y, socket.overdue)
  OBVIOUS
<1>14. OnHostSuppressedFrame(socket.d, frame, socket.overdue) = r
  BY <1>10, <1>12, <1>13 DEF OnHostSuppressedFrame, Answered
<1>15. PICK others : others = [b EXCEPT !.frames = Tail(@)]
  OBVIOUS
<1>16. PICK x : x = Following(others, r.acts)
  OBVIOUS
<1>17. /\ todo' = <<x>> \o s /\ socket' = [socket EXCEPT !.d = r.d]
       /\ UNCHANGED <<log, runtime, unpublished, ops, running, wire, acks, client, used>>
  <2>1. frame.event.hidden
    BY <1>2, <1>4
  <2> QED BY <1>3, <1>5, <1>7, <1>14, <1>15, <1>16, <2>1 DEF DoEncode
<1>18. PICK e \in Seq(EventType), more \in BOOLEAN :
         /\ Sends(y, r, e, TRUE, more)
         /\ \A i \in DOMAIN e : e[i].seq = 0
         /\ more \/ r.acts = <<Close("lagged")>> \/ Capacity(r.d) = 0
  <2>1. \A i \in DOMAIN y.pending : y.pending[i].seq = 0
    BY <1>11, <1>12 DEF Buffered
  <2>2. y \in DeliveryType /\ Counted(y) /\ socket.overdue \in Nat
    BY <1>11, <1>12
  <2> QED BY ONLY <1>13, <2>1, <2>2, ReopenSends
<1>19. PICK fs : fs = Frames(y, e)
  OBVIOUS
<1>20. PICK d2 : d2 = r.d
  OBVIOUS
<1>21. /\ Emits(y, d2, e) /\ Buffered(d2)
       /\ r.acts \in {<<Close("lagged")>>, ActsOf(fs, d2.sent, TRUE, more)}
  BY <1>18, <1>19, <1>20 DEF Sends
<1>22. /\ fs \in Seq(FrameType) /\ Climbing(fs) /\ d2.sent = y.sent /\ d2 \in DeliveryType /\ Counted(d2)
       /\ \A f \in Members(fs) : f.event.seq = 0 /\ f.id >= y.next /\ f.id \in Nat
  BY <1>12, <1>18, <1>19, <1>21, NewFrames
<1>23. others \in BatchType /\ others.frames = Tail(b.frames) /\ others.out = b.out
       /\ others.follow = b.follow /\ others.reads = b.reads
  BY <1>6, <1>15 DEF Encodes, BatchType
<1>24. PICK mid \in Seq(FollowType) : \E reads \in SUBSET Nat :
         Postpones(others, r.acts, fs, d2.sent, more, mid, reads)
  <2>1. d2.sent \in Nat
    BY <1>11, <1>12, <1>22
  <2>2. \A f \in Members(fs) : f.event.seq = 0
    BY <1>22
  <2>3. /\ others \in BatchType /\ fs \in Seq(FrameType) /\ Climbing(fs) /\ more \in BOOLEAN
        /\ r.acts \in {<<Close("lagged")>>, ActsOf(fs, d2.sent, TRUE, more)}
    BY <1>18, <1>21, <1>22, <1>23
  <2> QED BY ONLY <2>1, <2>2, <2>3, Postponed
<1>24a. PICK reads \in SUBSET Nat : Postpones(others, r.acts, fs, d2.sent, more, mid, reads)
  BY <1>24
<1>25. /\ Asks(others, x, mid, reads)
       /\ Ephemeral(mid) /\ Apart(mid) /\ Queued(mid) \subseteq Members(fs) /\ reads \subseteq {d2.sent}
       /\ r.acts = <<Close("lagged")>> => \E i \in DOMAIN mid : mid[i].k = "Close"
       /\ r.acts = <<Close("lagged")>> \/ ~more \/ reads # {}
  BY <1>16, <1>24a DEF Postpones
<1>26. /\ x \in BatchType /\ x.frames = Tail(b.frames) /\ x.out = b.out
       /\ x.follow = b.follow \o mid /\ x.reads = b.reads \cup reads
  BY <1>23, <1>25 DEF Asks
<1>27. \A n \in reads : n <= socket.d.sent
  BY <1>11, <1>12, <1>22, <1>25
<1>28. \A f \in Q2 : f.id < y.next /\ f.id \in Nat
  <2>1. ASSUME NEW f \in Q2 PROVE f.id < y.next
    <3>1. Receipt(f) \in y.inFlight /\ Receipt(f).id = f.id
      BY <1>12 DEF Settled, Receipt
    <3> QED BY <1>12, <3>1 DEF Counted
  <2>2. \A f \in Q2 : f.id \in Nat
    BY <1>12 DEF FrameType
  <2> QED BY <2>1, <2>2
<1>29. Ids(Queued(mid)) \cap Ids(Members(Tail(b.frames)) \cup Queued(b.follow \o s)) = {}
  <2>1. ASSUME NEW f \in Queued(mid), NEW g \in Q2 PROVE f.id # g.id
    <3>1. f.id >= y.next /\ g.id < y.next /\ f.id \in Nat /\ g.id \in Nat /\ y.next \in Nat
      BY <1>12, <1>22, <1>25, <1>28 DEF DeliveryType
    <3> QED BY ONLY <3>1
  <2> QED BY <1>9, <2>1 DEF Ids
<1>30. EncodedPart(b, s, mid, reads, x)
  BY <1>1, <1>2, <1>3, <1>5, <1>17, <1>25, <1>26, <1>27, <1>29 DEF EncodedPart
<1>31. PICK R : R = (SaidReceipts \cup {Receipt(f) : f \in Members(wire) \cup Members(x.out)})
                    \cup (IF client.frame > 0 THEN {Place} ELSE {})
  OBVIOUS
<1>32. R = Theirs
  BY <1>6, <1>26, <1>31 DEF Encodes
<1>33. Settled(d2, R, Place, (Members(x.frames) \cup Queued(mid)) \cup Queued(b.follow \o s))
  <2> DEFINE Q3 == (Members(x.frames) \cup Queued(mid)) \cup Queued(b.follow \o s)
  <2>1. Q3 \in SUBSET (Q2 \cup Members(fs))
    BY <1>9, <1>25, <1>26
  <2>2. Theirs \in SUBSET ReceiptType /\ Place \in ReceiptType
    BY StateFacts
  <2> HIDE DEF Q3
  <2>3. Settled(d2, Theirs, Place, Q3)
    BY ONLY <1>12, <1>19, <1>21, <2>1, <2>2, SettledEmits
  <2> QED BY <1>32, <2>3 DEF Q3
<1>34. Tracked(d2, Members(line), Missing)
  <2> DEFINE F == Members(line)
  <2>1. /\ Missing \in SUBSET Nat /\ F \in SUBSET FrameType /\ Tracked(y, F, Missing)
        /\ y \in DeliveryType /\ Counted(y) /\ Emits(y, d2, e)
    BY <1>12, <1>21, StateFacts
  <2>2. \A f \in F : f.id < y.next /\ (f.event.seq \in Missing => f \in F)
    <3>1. ASSUME NEW f \in F, Receipt(f) \in Theirs PROVE f.id < y.next
      BY <1>12, <3>1, Stands
    <3> QED BY <1>12, <1>28, <3>1
  <2>3. y.sent \in Nat /\ DOMAIN e = 1 .. Len(e)
    BY <1>11, <1>12, <1>18, LenProperties
  <2>4. \A i \in 1 .. Len(e) : y.sent < e[i].seq => Frames(y, e)[i] \in F
    BY <1>18, <2>3
  <2>5. \A n \in Missing : y.sent < n /\ n <= d2.sent => \E i \in 1 .. Len(e) : e[i].seq = n
    <3>1. \A n \in Missing : n \in Nat
      BY <2>1
    <3>2. d2.sent = y.sent
      BY <1>22
    <3> QED BY ONLY <2>3, <3>1, <3>2
  <2> HIDE DEF F
  <2>6. Tracked(d2, F, Missing)
    BY ONLY <2>1, <2>2, <2>4, <2>5, TrackedEmits
  <2> QED BY <2>6 DEF F
<1>35. EncodedState(b, s, mid, reads, x, d2, R, line)
  <2>1. reads # {} \/ (\E i \in DOMAIN mid : mid[i].k = "Close") \/ Capacity(d2) = 0
    BY <1>18, <1>20, <1>25
  <2> QED BY <1>8, <1>12, <1>17, <1>20, <1>21, <1>22, <1>26, <1>31, <1>33, <1>34, <2>1 DEF EncodedState
<1> QED BY <1>30, <1>35, EncodedStep

LEMMA EncodeStep ==
  ASSUME DeliveryInvariant, DoEncode
  PROVE  DeliveryInvariant'
<1> QED BY VisibleStep, HiddenStep

-----------------------------------------------------------------------------
(* The invariant of the specification, and what it says. *)

LEMMA DeliveryStarts ==
  ASSUME Init
  PROVE  DeliveryInvariant
<1> DEFINE d == NewDelivery(0)
<1>1. /\ d \in DeliveryType /\ Counted(d) /\ Buffered(d)
      /\ d.inFlight = {} /\ d.suppressed = {} /\ d.pending = <<>>
      /\ d.ackSeq = 0 /\ d.ackFrame = 0 /\ d.sent = 0 /\ d.next = 1
  <2>1. 0 \in Nat
    OBVIOUS
  <2> QED BY <2>1, FreshDelivery
<1>2. /\ log = <<>> /\ runtime = "cold" /\ unpublished = <<>> /\ ops = <<>> /\ running = "none"
      /\ todo = <<>> /\ wire = <<>> /\ acks = {}
      /\ client = [frame |-> 0, acked |-> 0, cursor |-> 0, seen |-> {}]
      /\ used = [ephemerals |-> 0, surprises |-> 0]
      /\ socket = [status |-> "none", held |-> FALSE, d |-> d, saved |-> d, from |-> 0, head |-> 0,
                   deferred |-> FALSE, overdue |-> 0]
  BY DEF Init, NoSocket
<1> HIDE DEF d
<1>3. /\ socket \in SocketType /\ socket.status = "none" /\ ~socket.held /\ socket.d = d
      /\ socket.saved = d /\ socket.from = 0 /\ client.cursor = 0
  BY <1>1, <1>2 DEF SocketType, Statuses
<1>4. ~Connected
  BY <1>3 DEF Connected
<1>5. DeliveryTypeOK
  <2>1. /\ <<>> \in Seq(BOOLEAN) /\ <<>> \in Seq(EventType) /\ <<>> \in Seq(OpType)
        /\ <<>> \in Seq(FrameType) /\ <<>> \in Seq(ActionType)
    OBVIOUS
  <2>2. TodoType(todo)
    BY <1>2, <2>1 DEF TodoType
  <2>3. client \in ClientType /\ used \in UsedType /\ acks \in SUBSET AckType
    BY <1>2 DEF ClientType, UsedType
  <2> QED BY <1>2, <1>3, <2>1, <2>2, <2>3 DEF DeliveryTypeOK, d
<1>6. Accounts
  <2>1. Len(log) = 0
    BY <1>2
  <2> QED BY <1>1, <1>3, <1>4, <2>1 DEF Accounts, SavedInTime
<1>7. Sources
  BY <1>1, <1>2, <1>3 DEF Sources, Publications, Members
<1>8. OnTheWay
  <2>1. Out(todo) = <<>> /\ Front(todo) = <<>> /\ Behind(todo) = <<>>
    BY <1>2 DEF Out, Front, Behind
  <2>2. Line = <<>>
    BY <1>2, <2>1 DEF Line
  <2>3. Missing = {}
    BY <1>2 DEF Missing, Visible
  <2> QED BY <1>4, <2>1, <2>2, <2>3 DEF OnTheWay, Members, Ephemeral, Carried
<1>9. Agreed /\ Followed
  BY <1>4 DEF Agreed, Followed
<1> QED BY <1>5, <1>6, <1>7, <1>8, <1>9 DEF DeliveryInvariant

LEMMA DeliveryGoesOn ==
  ASSUME DeliveryInvariant, [Next]_vars
  PROVE  DeliveryInvariant'
<1>1. CASE Wake \/ BecomeReady \/ BuildFails \/ DeadlinePasses \/ Disconnect \/ Crash \/ DoClose
  BY <1>1, QuietSteps
<1>2. CASE CommitBatch \/ PublishEphemeral \/ FanoutPublishedEvent
  BY <1>2, CommitStep, PublishStep, FanoutStep
<1>3. CASE FinishAccept \/ FlushDeferredCatchUp \/ AckArrives
  BY <1>3, AcceptedStep
<1>4. CASE Connect \/ ClientApply \/ ClientAck \/ Hibernate
  BY <1>4, ConnectStep, ClientApplyStep, ClientAckStep, HibernateStep
<1>5. CASE RunOp
  BY <1>5, EphemeralStep, DurableStep, AckStep, RunFlushStep DEF RunOp
<1>6. CASE DoPersist \/ DoEncode \/ DoSend \/ DoRead \/ DoDeliver
  BY <1>6, PersistStep, EncodeStep, SendStep, ReadStep, DeliverStep
<1>7. CASE UNCHANGED vars
  <2>1. /\ UNCHANGED <<log, runtime, unpublished, socket, ops, running, todo, wire, acks, client, used>>
    BY <1>7 DEF vars
  <2>2. socket \in SocketType /\ runtime \in {"cold", "building", "ready"} /\ used \in UsedType
    BY DEF DeliveryInvariant, DeliveryTypeOK
  <2> QED BY <2>1, <2>2, QuietStep
<1> QED BY <1>1, <1>2, <1>3, <1>4, <1>5, <1>6, <1>7 DEF Next, Host, DoAction

\* The invariant holds: receipts agree wherever they are, an event the client has not got is on
\* its way ahead of all that would count it, and what has not been shown to the socket is read
\* for it (delivery.ts, connection-manager.ts, and the client of docs/websocket-protocol.md).
THEOREM DeliveryInvariantHolds == Spec => []DeliveryInvariant
<1>1. Init => DeliveryInvariant
  BY DeliveryStarts
<1>2. DeliveryInvariant /\ [Next]_vars => DeliveryInvariant'
  BY DeliveryGoesOn
<1> QED BY <1>1, <1>2, PTL DEF Spec

\* Every frame that was sent is acknowledged, in flight or suppressed, and only one of them, and no
\* more than the window holds are in flight (sendEventsFrame, onHostSuppressedFrame,
\* insertSuppressedReceipt, onClientAck), through hibernations, reconnects and answered frames.
THEOREM FramesStayAccounted == Spec => []FrameAccounting
<1>1. DeliveryInvariant => FrameAccounting
  <2> SUFFICES ASSUME DeliveryInvariant PROVE FrameAccounting
    OBVIOUS
  <2> DEFINE d == socket.d
  <2>1. d \in DeliveryType /\ Counted(d)
    BY StateFacts DEF DeliveryInvariant, Accounts
  <2> HIDE DEF d
  <2>2. IsFiniteSet(d.inFlight) /\ Cardinality(d.inFlight) <= MaxInFlightFrames
    BY <2>1 DEF Counted
  <2>3. Cardinality({f.id : f \in d.inFlight}) = Cardinality(d.inFlight)
    <3> DEFINE T == {f.id : f \in d.inFlight}
               g == [f \in d.inFlight |-> f.id]
    <3>1. \A f, h \in d.inFlight : f.id = h.id => f = h
      BY <2>1 DEF Counted
    <3>2. g \in Bijection(d.inFlight, T)
      BY <3>1 DEF Bijection, Injection, Surjection, IsInjective
    <3>3. ExistsBijection(d.inFlight, T)
      BY <3>2 DEF ExistsBijection
    <3> HIDE DEF T
    <3>4. Cardinality(T) = Cardinality(d.inFlight)
      BY <2>2, <3>3, FS_Bijection
    <3> QED BY <3>4 DEF T
  <2>4. ASSUME NEW f \in 1 .. (d.next - 1)
        PROVE  Cardinality({c \in {"acked", "inFlight", "suppressed"} :
                 \/ c = "acked" /\ f <= d.ackFrame
                 \/ c = "inFlight" /\ \E g \in d.inFlight : g.id = f
                 \/ c = "suppressed" /\ \E r \in d.suppressed : r.from <= f /\ f <= r.through}) = 1
    <3> DEFINE A == f <= d.ackFrame
               B == \E g \in d.inFlight : g.id = f
               C == \E r \in d.suppressed : r.from <= f /\ f <= r.through
               S == {c \in {"acked", "inFlight", "suppressed"} :
                       (c = "acked" /\ A) \/ (c = "inFlight" /\ B) \/ (c = "suppressed" /\ C)}
    <3>1. d.next \in Nat /\ d.ackFrame \in Nat /\ f \in Nat
          /\ \A g \in d.inFlight : g.id \in Nat /\ d.ackFrame < g.id
          /\ \A r \in d.suppressed : r.from \in Nat /\ r.through \in Nat /\ d.ackFrame < r.from
      BY <2>1, DeliveryFields DEF Counted, CountedFields
    <3>2. A => ~B /\ ~C
      <4>1. ASSUME f <= d.ackFrame, NEW g \in d.inFlight PROVE g.id # f
        BY <3>1, <4>1
      <4>2. ASSUME f <= d.ackFrame, NEW r \in d.suppressed PROVE ~(r.from <= f)
        <5>1. d.ackFrame < r.from
          BY <2>1 DEF Counted
        <5>2. r.from \in Nat /\ d.ackFrame \in Nat /\ f \in Nat
          BY <2>1, <3>1, DeliveryFields DEF CountedFields
        <5> QED BY ONLY <4>2, <5>1, <5>2
      <4> QED BY <4>1, <4>2
    <3>3. ~A => B \/ C
      <4>1. ~A => f \in (d.ackFrame + 1) .. (d.next - 1)
        BY <2>4, <3>1
      <4> QED BY <2>1, <4>1 DEF Counted
    <3>4. ~(B /\ C)
      <4>1. \A g \in d.inFlight, r \in d.suppressed : g.id < r.from \/ r.through < g.id
        BY <2>1 DEF Counted
      <4> QED BY <3>1, <4>1
    <3> HIDE DEF A, B, C
    <3>5. S = {"acked"} \/ S = {"inFlight"} \/ S = {"suppressed"}
      BY <3>2, <3>3, <3>4
    <3> HIDE DEF S
    <3>6. Cardinality(S) = 1
      BY <3>5, FS_Singleton
    <3> QED BY <3>6 DEF S, A, B, C
  <2> QED BY <2>2, <2>3, <2>4 DEF FrameAccounting, d
<1> QED BY <1>1, DeliveryInvariantHolds, PTL

\* A client that applies frames in order, acknowledges what it applied and reconnects from its own
\* cursor is never closed for a protocol error, whatever is delayed, answered for it or restored
\* (onClientAck, onHostSuppressedFrame, advanceSuppressedReceipts).
THEOREM HonestClientsStay == Spec => []HonestClientKept
<1>1. DeliveryInvariant => HonestClientKept
  BY DEF DeliveryInvariant, DeliveryTypeOK, SocketType, Statuses, HonestClientKept
<1> QED BY <1>1, DeliveryInvariantHolds, PTL

\* Neither the client's cursor nor the server's acknowledged one passes a durable event that the
\* client may see and has not got (onDurableEvents, handleDurableEvent, onClientAck).
THEOREM NothingIsSkipped == Spec => []NothingSkipped
<1>1. DeliveryInvariant => NothingSkipped
  <2> SUFFICES ASSUME DeliveryInvariant, NEW n \in Visible, n \notin client.seen
               PROVE  ~(n <= client.cursor) /\ ~(Connected /\ n <= socket.d.ackSeq)
    BY DEF NothingSkipped
  <2>1. n \in Missing /\ n \in Nat /\ client.cursor \in Nat /\ socket.d \in DeliveryType
    BY StateFacts DEF Missing
  <2>2. n > client.cursor
    BY <2>1 DEF DeliveryInvariant, OnTheWay
  <2>3. Connected => n > socket.d.ackSeq
    BY <2>1 DEF DeliveryInvariant, OnTheWay, Tracked
  <2>4. socket.d.ackSeq \in Nat
    BY <2>1 DEF DeliveryType
  <2> QED BY <2>1, <2>2, <2>3, <2>4
<1> QED BY <1>1, DeliveryInvariantHolds, PTL

\* When the runtime is ready, the socket idle and its window open, it was sent everything: no
\* catch-up is forgotten, whether it was lagging, deferred or restored (flushDeferredCatchUp,
\* handleDurableEvent, reopenDeliveryWindow).
THEOREM NothingIsLeftBehind == Spec => []NothingLeftBehind
<1>1. DeliveryInvariant => NothingLeftBehind
  <2> SUFFICES ASSUME DeliveryInvariant, GateFree, socket.status = "open", ops = <<>>,
                      running = "none", Capacity(socket.d) > 0
               PROVE  socket.d.sent = Len(log) /\ socket.d.pending = <<>>
    BY DEF NothingLeftBehind
  <2>1. Connected /\ todo = <<>> /\ unpublished = <<>>
    BY DEF Connected, GateFree, DeliveryInvariant, DeliveryTypeOK
  <2>2. ~Reading
    <3>1. Plan(todo) = <<>>
      BY <2>1 DEF Plan
    <3> QED BY <2>1, <3>1 DEF Reading
  <2>3. \A n \in 1 .. Len(log) : n <= socket.d.sent
    BY <2>1, <2>2 DEF DeliveryInvariant, Followed, Shown
  <2>4. socket.d.sent <= Len(log) /\ Buffered(socket.d)
    BY DEF DeliveryInvariant, Accounts
  <2>5. socket.d.sent \in Nat /\ Len(log) \in Nat
    BY StateFacts DEF DeliveryType
  <2>6. Len(log) <= socket.d.sent
    <3>1. Len(log) = 0 \/ Len(log) \in 1 .. Len(log)
      BY <2>5
    <3> QED BY <2>3, <2>5, <3>1
  <2> QED BY <2>4, <2>5, <2>6 DEF Buffered
<1> QED BY <1>1, DeliveryInvariantHolds, PTL
=============================================================================
