-------------------------- MODULE TranscriptSockets --------------------------
(***************************************************************************)
(* A transcript-window socket of the Durable Object host, from the commit  *)
(* of an event to the window its client holds: the publication fence, the  *)
(* drain that reads, plans and sends one update at a time                  *)
(* (transcript-sockets.ts), frames, chunks and receipts                    *)
(* (transcript-delivery.ts) and the client (transcript-client.ts).         *)
(***************************************************************************)
EXTENDS TranscriptWindows

CONSTANTS
  MaxInFlightFrames,     \* flow control
  FrameSize,             \* the records one frame holds
  MaxPendingRequests,
  InitialLog,            \* what the session has committed so far
  MaxCommits, MaxEvents  \* bounds: more commits; deltas, requests of the client, faults

ASSUME SocketsAssumption ==
  /\ {MaxInFlightFrames, FrameSize, MaxPendingRequests} \subseteq Nat \ {0}
  /\ InitialLog \in Seq(Kinds) /\ {MaxCommits, MaxEvents} \subseteq Nat

VARIABLES
  log,          \* the committed events, with the projection that each leaves
  served,       \* the version that is read: [scope, frozen: the cut it stopped at, or -1]
  published,    \* how far publication is
  active,       \* the accumulator: [through, revision, id, text]
  socket,       \* the delivery state and the volatile state of the socket
  scheduled,    \* whether a drain is queued
  work,         \* the operation that runs: [at, reads, window, holds]
  timer,        \* whether the cadence timer is armed
  down, up,     \* frames on their way to the client, and its own
  client,       \* the reference client, and whether something was refused
  events        \* bound

wire == <<down, up>>
host == <<active, socket, scheduled, work, timer>>
sockets_vars == <<log, served, published, active, socket, scheduled, work, timer, down, up, client, events>>

NoTransfer == [update |-> 0, count |-> 0, next |-> 0]
Transferring(s) == s.transfer.count > 0
Unread == [scope |-> 0, through |-> 0, ready |-> FALSE, hasNewer |-> FALSE, ids |-> {}]
Volatile(s) == [s EXCEPT !.sentRevision = -1, !.last = Unread, !.waiting = FALSE, !.due = TRUE,
                      !.withheld = -1]
NewSocket ==
  [is |-> "open", lastAck |-> 0, nextFrame |-> 1, nextUpdate |-> 1, completed |-> 0,
   completedThrough |-> 0, applied |-> 0, transfer |-> NoTransfer, base |-> NoBase,
   requests |-> <<>>, dirty |-> FALSE, sentRevision |-> -1, last |-> Unread, waiting |-> FALSE,
   due |-> TRUE, withheld |-> -1]   \* withheld: the revision that went out without its content
EmptyActive == [through |-> 0, revision |-> 0, id |-> 0, text |-> 0]
Resting == [at |-> "idle", reads |-> Latest, holds |-> NoBase, window |-> Unread]

\* emptyEDATranscriptClientState
NewClient ==
  [scope |-> 0, through |-> 0, ready |-> FALSE, from |-> 0, to |-> 0, hasNewer |-> FALSE,
   records |-> {}, deps |-> {}, content |-> NoContent,
   lastFrame |-> 0, applied |-> 0, parts |-> 0, refused |-> FALSE]

\* edaTranscriptSubscribeRequest
Subscribe(c) ==
  [tag |-> "subscribe", scope |-> c.scope, from |-> c.from, to |-> c.to, tail |-> ~c.hasNewer,
   since |-> c.through]

SocketsInit ==
  /\ log = FoldLeft(Appended, <<>>, InitialLog) /\ published = Len(InitialLog)
  /\ served = [scope |-> 1, frozen |-> -1]
  /\ active = EmptyActive /\ socket = NewSocket /\ scheduled = FALSE /\ work = Resting /\ timer = FALSE
  /\ down = <<>> /\ client = NewClient /\ up = <<Subscribe(NewClient)>>
  /\ events = {}
Once(event) ==
  /\ event \notin events /\ Cardinality(events) < MaxEvents /\ events' = events \cup {event}

Source ==
  LET through == IF served.frozen >= 0 THEN served.frozen ELSE Len(log)
  IN [scope |-> served.scope, through |-> through, ready |-> served.frozen < 0,
      rows |-> RowsAt(log, through)]

-----------------------------------------------------------------------------
(* Operations of the socket run one at a time, in order.                   *)

\* close: the client will come back.
Closed == [socket EXCEPT !.is = "closed"]
Close == /\ socket' = Closed /\ scheduled' = FALSE /\ work' = Resting /\ up' = <<>>

Rest == work' = Resting
Drains == work' = [Resting EXCEPT !.at = "drain"]
Idle(s) == /\ socket' = s /\ Rest

\* Mutant: a transfer that was lost is forgotten, and the socket goes on.
RestoredAnyway ==
  IF socket.is # "asleep" THEN socket
  ELSE [socket EXCEPT !.is = "open", !.dirty = TRUE, !.transfer = NoTransfer]

\* restore: a socket that was amid a transfer cannot go on.
Restored ==
  IF socket.is # "asleep" THEN socket
  ELSE IF Transferring(socket) THEN Closed
  ELSE [socket EXCEPT !.is = "open", !.dirty = TRUE]

-----------------------------------------------------------------------------
(* The session: commits, publication, live content.                        *)

Commit ==
  /\ published = Len(log) /\ Len(log) < Len(InitialLog) + MaxCommits
  /\ \E kind \in Kinds :
       Possible(RowsAt(log, Len(log)), kind) /\ log' = Appended(log, kind)
\* The served version may fail at an event, and then stays at the cut before it.
CommitEvent ==
  /\ Commit /\ UNCHANGED <<served, published, host, wire, client, events>>
CommitAndFreeze ==
  /\ Commit /\ served.frozen < 0 /\ served' = [served EXCEPT !.frozen = Len(log)]
  /\ Once("fault")
  /\ UNCHANGED <<published, host, wire, client>>

\* foldTranscriptActiveContent
FoldedDurable(seq) ==
  LET kind == log[seq].kind
      retired == kind = "settle" /\ active.id > 0
  IN [active EXCEPT !.through = seq,
        !.revision = IF kind = "infer" \/ retired THEN @ + 1 ELSE @,
        !.id = IF kind = "infer" THEN seq ELSE IF retired THEN 0 ELSE @,
        !.text = IF kind = "infer" \/ retired THEN 0 ELSE @]

\* onPublished
Publish ==
  /\ published < Len(log) /\ published' = published + 1
  /\ active' = FoldedDurable(published + 1)
  /\ IF Restored.is = "open"
       THEN socket' = [Restored EXCEPT !.dirty = TRUE] /\ scheduled' = TRUE
       ELSE socket' = Restored /\ UNCHANGED scheduled
  /\ UNCHANGED <<log, served, work, timer, wire, client, events>>

PublishDelta ==
  /\ published = Len(log) /\ active.id > 0 /\ Once("delta")
  /\ active' = [active EXCEPT !.revision = @ + 1, !.text = @ + 1]
  /\ timer' = TRUE
  /\ UNCHANGED <<log, served, published, socket, scheduled, work, wire, client>>

TimerFires ==
  /\ timer /\ timer' = FALSE
  /\ IF socket.is = "open"
       THEN socket' = [socket EXCEPT !.due = TRUE] /\ scheduled' = TRUE
       ELSE UNCHANGED <<socket, scheduled>>
  /\ UNCHANGED <<log, served, published, active, work, wire, client, events>>

\* A rebuilt version is activated, and every socket reads again (refreshTranscript).
Activate ==
  /\ Once("fault") /\ served' = [scope |-> served.scope + 1, frozen |-> -1]
  /\ IF Restored.is = "open"
       THEN socket' = [Restored EXCEPT !.dirty = TRUE] /\ scheduled' = TRUE
       ELSE socket' = Restored /\ UNCHANGED scheduled
  /\ UNCHANGED <<log, published, active, work, timer, wire, client>>

-----------------------------------------------------------------------------
(* Frames of the client.                                                   *)

\* onTranscriptAck
AckRefused(a) ==
  IF a.frame <= socket.lastAck THEN a.applied > socket.applied
  ELSE \/ a.frame >= socket.nextFrame \/ a.applied < socket.applied \/ a.applied > socket.completed
       \/ /\ a.applied > socket.applied /\ a.applied = socket.completed
          /\ a.through # socket.completedThrough
Acked(s, a) ==
  IF a.frame <= s.lastAck THEN s ELSE [s EXCEPT !.lastAck = a.frame, !.applied = a.applied]

Refuse == Close /\ client' = [client EXCEPT !.refused = TRUE]
Receives(frame) ==
  /\ socket.is # "closed" /\ work.at = "idle" /\ up # <<>> /\ up[1] = frame
HandleAck ==
  \E frame \in ToSet(up) :
    /\ Receives(frame) /\ frame.tag = "ack"
    /\ IF Restored.is = "closed" THEN Close /\ UNCHANGED client
       ELSE IF AckRefused(frame) THEN Refuse
       ELSE /\ socket' = Acked(Restored, frame) /\ up' = Tail(up) /\ UNCHANGED <<scheduled, client>>
            /\ work' = IF frame.frame <= socket.lastAck THEN Resting ELSE [Resting EXCEPT !.at = "drain"]
  /\ UNCHANGED <<log, served, published, active, timer, down, events>>
HandleRequest ==
  \E frame \in ToSet(up) :
    /\ Receives(frame) /\ frame.tag # "ack"
    /\ IF Restored.is = "closed" THEN Close /\ UNCHANGED client
       ELSE IF Len(socket.requests) >= MaxPendingRequests THEN Refuse
       ELSE /\ socket' = [Restored EXCEPT !.requests = Append(@, frame)] /\ up' = Tail(up)
            /\ Drains /\ UNCHANGED <<scheduled, client>>
  /\ UNCHANGED <<log, served, published, active, timer, down, events>>

-----------------------------------------------------------------------------
(* drainNow, one turn of its loop at a time.                               *)

Capacity(s) == MaxInFlightFrames - (s.nextFrame - 1 - s.lastAck)
Frames(s, update, first, count, n) ==
  [i \in 1..n |-> [frame |-> s.nextFrame + i - 1, index |-> first + i - 1, count |-> count,
                   update |-> update]]

\* pumpTranscriptTransfer: as many chunks as flow control allows.
Pumped(s, n) ==
  LET next == s.transfer.next + n
      t == s.transfer
  IN IF next < t.count THEN [s EXCEPT !.nextFrame = @ + n, !.transfer.next = next]
     ELSE [s EXCEPT !.nextFrame = @ + n, !.completed = t.update.seq,
             !.completedThrough = t.update.through, !.transfer = NoTransfer]
Pump(s) ==
  LET left == s.transfer.count - s.transfer.next
      n == IF left < Capacity(s) THEN left ELSE Capacity(s)
  IN /\ socket' = Pumped(s, n)
     /\ down' = down \o Frames(s, s.transfer.update, s.transfer.next, s.transfer.count, n)

\* startTranscriptUpdate: the next update is planned against this one, whatever the client has.
Chunks(u) == 1 + (Cardinality(u.records) + Cardinality(u.deps) - 1) \div FrameSize
Start(s, u, base) ==
  Pump([s EXCEPT !.nextUpdate = @ + 1, !.base = base,
          !.transfer = [update |-> u, count |-> IF Chunks(u) = 0 THEN 1 ELSE Chunks(u), next |-> 0]])

\* The client has not acknowledged in time.
Lag ==
  /\ work.at = "drain" /\ Capacity(socket) < MaxInFlightFrames /\ Once("fault") /\ Close
  /\ UNCHANGED <<log, served, published, active, timer, down, client>>

Content == [id |-> active.id, text |-> active.text]

\* sendActiveOnly: without a read, while the accumulator is at the subscriber's cut.
ContentUpdate ==
  [seq |-> socket.nextUpdate, patch |-> TRUE, scope |-> socket.base.scope,
   through |-> socket.base.through, ready |-> socket.last.ready, from |-> socket.base.from,
   to |-> socket.base.to, hasNewer |-> socket.last.hasNewer, records |-> {}, deps |-> {},
   ids |-> socket.last.ids, content |-> <<Content>>]

SendContent ==
  IF socket.last.scope > 0 /\ ~socket.last.ready
    THEN socket' = [socket EXCEPT !.sentRevision = active.revision] /\ Drains /\ UNCHANGED <<timer, down>>
  ELSE IF socket.last.scope = 0 \/ active.through # socket.base.through
    THEN socket' = [socket EXCEPT !.dirty = TRUE] /\ Drains /\ UNCHANGED <<timer, down>>
  ELSE /\ Start([socket EXCEPT !.sentRevision = active.revision, !.due = FALSE], ContentUpdate,
                 socket.base)
       /\ Drains /\ UNCHANGED timer

\* Live content alone is sent at the display cadence.
DrainContent ==
  IF socket.sentRevision = active.revision
    THEN Idle([socket EXCEPT !.due = FALSE]) /\ UNCHANGED <<timer, down>>
  ELSE \E elapsed \in BOOLEAN :
         IF socket.due \/ elapsed THEN SendContent
         ELSE timer' = TRUE /\ Idle(socket) /\ UNCHANGED down

Refresh == [tag |-> "refresh"]
Request == IF socket.requests = <<>> THEN Refresh ELSE socket.requests[1]

Served(answer) ==
  IF Mismatch(Source, answer.reads)
    THEN [Resting EXCEPT !.at = "serve", !.window = LatestWindow(Source, InitialCount)]
  ELSE [at |-> "serve", reads |-> Latest, holds |-> answer.holds,
        window |-> ReadCoverage(Source, answer.reads)]

\* The dirty mark is consumed before the read; a page is found by a read of its own.
DrainRead ==
  /\ socket' = [socket EXCEPT !.dirty = FALSE]
  /\ LET answer == Answer(Source, socket.base, Request)
     IN work' = IF Request.tag = "page"
                  THEN [Resting EXCEPT !.at = "read", !.reads = answer.reads, !.holds = answer.holds]
                  ELSE Served(answer)
  /\ UNCHANGED <<timer, down>>

Drain ==
  /\ work.at = "drain" \/ (work.at = "idle" /\ scheduled)
  /\ scheduled' = (scheduled /\ work.at = "drain")
  /\ IF Transferring(socket) /\ Capacity(socket) > 0 THEN Pump(socket) /\ Drains /\ UNCHANGED timer
     ELSE IF Capacity(socket) = 0 \/ (Request = Refresh /\ socket.base = NoBase)
       THEN Idle(socket) /\ UNCHANGED <<timer, down>>
     ELSE IF Request = Refresh /\ ~socket.dirty THEN DrainContent
     ELSE DrainRead
  /\ UNCHANGED <<log, served, published, active, up, client, events>>

FinishRead ==
  /\ work.at = "read" /\ work' = Served(work)
  /\ UNCHANGED <<log, served, published, active, socket, scheduled, timer, wire, client, events>>

\* Mutant: a cut is served with whatever is live.
FencedAlways(w) == TRUE

\* The publication fence: live content goes with exactly the cut that it is of.
Fenced(w) ==
  ~w.ready \/ w.through = active.through \/ (w.through > active.through /\ active.id = 0)

\* isNoop
Noop(u) ==
  /\ Request = Refresh /\ socket.base # NoBase /\ socket.last.scope > 0
  /\ u.patch /\ u.records = {} /\ u.deps = {} /\ u.content = <<>>
  /\ u.through = socket.base.through /\ u.hasNewer = socket.last.hasNewer
  /\ u.from = socket.base.from /\ u.to = socket.base.to /\ u.ready = socket.last.ready

\* Mutant: an answer settles what was published since it was read.
SettledClean(s) == [s EXCEPT !.waiting = FALSE, !.dirty = FALSE]
Settled(s) == [s EXCEPT !.waiting = FALSE]
ServeWindow(w, fenced) ==
  LET returned == w.ready /\ socket.last.scope > 0 /\ ~socket.last.ready
      withContent == ~fenced \/ socket.sentRevision # active.revision \/ returned
      u == Update(socket.nextUpdate, work.holds, w, IF fenced THEN Content ELSE NoContent, withContent)
  IN IF Noop(u) THEN socket' = Settled(socket) /\ UNCHANGED down
     ELSE Start([Settled(socket) EXCEPT
                   !.requests = IF @ = <<>> THEN @ ELSE Tail(@), !.sentRevision = active.revision,
                   !.due = @ /\ u.content = <<>>, !.withheld = IF fenced THEN @ ELSE active.revision,
                   !.last = [scope |-> w.scope, through |-> w.through, ready |-> w.ready,
                             hasNewer |-> w.hasNewer, ids |-> u.ids]], u, BaseOf(w))

\* A capture ahead of publication waits for it, for a while.
Awaited(s) == [s EXCEPT !.dirty = TRUE, !.waiting = TRUE]
AwaitPublication ==
  /\ work.at = "serve" /\ ~Fenced(work.window)
  /\ Idle(Awaited(socket)) /\ timer' = TRUE
  /\ UNCHANGED <<log, served, published, active, scheduled, wire, client, events>>
Serve ==
  /\ work.at = "serve" /\ (Fenced(work.window) \/ socket.waiting)
  /\ ServeWindow(work.window, Fenced(work.window))
  /\ Drains
  /\ UNCHANGED <<log, served, published, active, scheduled, timer, up, client, events>>

-----------------------------------------------------------------------------
(* The client.                                                             *)

Acknowledged(c) ==
  up' = IF socket.is = "closed" THEN up
        ELSE Append(up, [tag |-> "ack", frame |-> c.lastFrame, applied |-> c.applied,
                         through |-> IF c.applied = 0 THEN 0 ELSE c.through])

Merged(old, new) == new \cup {r \in old : \A q \in new : q.id # r.id}

\* applyUpdate
Patched(u) == IF u.patch THEN Merged(client.records, u.records) ELSE u.records
PatchedDeps(u) == {d \in IF u.patch THEN Merged(client.deps, u.deps) ELSE u.deps : d.id \in u.ids}
Unusable(u) ==
  \/ u.seq # client.applied + 1
  \/ u.patch /\ client.scope # u.scope
  \/ {d.id : d \in PatchedDeps(u)} # u.ids
Applied(u) ==
  [client EXCEPT !.scope = u.scope, !.through = u.through, !.ready = u.ready, !.from = u.from,
     !.to = u.to, !.hasNewer = u.hasNewer, !.deps = PatchedDeps(u),
     !.records = {r \in Patched(u) : u.from <= r.at /\ r.at <= u.to},
     !.content = IF ~u.ready THEN NoContent ELSE IF u.content # <<>> THEN u.content[1]
                 ELSE IF u.patch THEN @ ELSE NoContent,
     !.applied = u.seq, !.parts = 0]

\* applyEDATranscriptServerMessage
ClientReceives ==
  /\ down # <<>> /\ down' = Tail(down)
  /\ LET f == down[1] IN
     IF \/ f.frame # client.lastFrame + 1 \/ f.index # client.parts
        \/ f.index + 1 = f.count /\ Unusable(f.update)
       THEN client' = [client EXCEPT !.refused = TRUE] /\ UNCHANGED up
     ELSE /\ client' = [IF f.index + 1 = f.count THEN Applied(f.update)
                        ELSE [client EXCEPT !.parts = @ + 1] EXCEPT !.lastFrame = f.frame]
          /\ Acknowledged(client')
  /\ UNCHANGED <<log, served, published, host, events>>

\* edaTranscriptPageRequest, edaTranscriptRetainRequest
Asks(request) ==
  /\ socket.is # "closed" /\ client.applied > 0 /\ client.from > 0 /\ Once("request")
  /\ up' = Append(up, request)
  /\ UNCHANGED <<log, served, published, host, down, client>>
AskPage ==
  \E direction \in {"before", "after"} :
    Asks([tag |-> "page", direction |-> direction, scope |-> client.scope, count |-> 1,
          from |-> IF direction = "before" THEN client.from ELSE client.to])
AskRetain ==
  \E first, last \in client.records :
    /\ first.at <= last.at
    /\ Asks([tag |-> "retain", scope |-> client.scope, from |-> first.at, to |-> last.at])

\* edaTranscriptClientReconnected, then edaTranscriptSubscribeRequest.
Reconnect ==
  /\ socket.is = "closed" /\ socket' = NewSocket /\ down' = <<>>
  /\ client' = [client EXCEPT !.lastFrame = 0, !.applied = 0, !.parts = 0]
  /\ up' = <<Subscribe(client)>>
  /\ UNCHANGED <<log, served, published, active, scheduled, work, timer, events>>

-----------------------------------------------------------------------------
(* The platform.                                                           *)

\* An object with nothing to do is evicted and keeps its sockets; a crash loses them.
Hibernate ==
  /\ socket.is = "open" /\ work.at = "idle" /\ ~scheduled /\ ~timer
  /\ published = Len(log) /\ active.id = 0 /\ Once("fault")
  /\ socket' = [Volatile(socket) EXCEPT !.is = "asleep"] /\ active' = EmptyActive
  /\ UNCHANGED <<log, served, published, scheduled, work, timer, wire, client>>
Crash ==
  /\ Once("fault") /\ Close /\ active' = EmptyActive /\ timer' = FALSE
  /\ published' = Len(log)
  /\ UNCHANGED <<log, served, down, client>>

SocketsNext ==
  \/ CommitEvent \/ CommitAndFreeze \/ Publish \/ PublishDelta \/ TimerFires \/ Activate
  \/ HandleAck \/ HandleRequest \/ Lag \/ Drain \/ FinishRead \/ AwaitPublication \/ Serve
  \/ ClientReceives \/ AskPage \/ AskRetain \/ Reconnect
  \/ Hibernate \/ Crash

SocketsSpec == SocketsInit /\ [][SocketsNext]_sockets_vars

-----------------------------------------------------------------------------
(* Properties.                                                             *)

\* Whatever pages, patches, chunks, lost transfers and reconnections made of it, the window a
\* client shows is the projection of one cut of the log over one span of the history, complete
\* with its dependencies.
HoldsACompleteCut ==
  client.scope > 0 =>
    LET rows == RowsAt(log, client.through)
        span == {r \in rows.top : client.from <= r.at /\ r.at <= client.to}
    IN /\ client.records = span /\ client.deps = DepsOf(rows, span)
       /\ client.hasNewer <=> \E r \in rows.top : r.at > client.to

\* Live content is never shown over a cut in which its inference has ended or not begun.
LiveIsOfTheCut ==
  client.content.id > 0 => \E r \in RowsAt(log, client.through).top : r.id = client.content.id /\ r.live

\* When nothing is under way any more, the client has the newest cut of its version and, unless
\* that is degraded, the live content of the moment.  What a capture that waited too long left
\* out stays out until the content changes (README, disagreements).
Quiet ==
  /\ socket.is # "closed" /\ work.at = "idle" /\ ~scheduled /\ up = <<>> /\ down = <<>>
  /\ ~timer /\ published = Len(log)
NothingOwed ==
  Quiet => /\ client.scope = served.scope /\ client.through = Source.through
           /\ client.ready = Source.ready
           /\ \/ client.content = IF client.ready THEN Content ELSE NoContent
              \/ socket.withheld = active.revision /\ client.content = NoContent

\* No client that follows the protocol is refused, and none has to refuse its server.
HonestSocketKept == ~client.refused
=============================================================================
