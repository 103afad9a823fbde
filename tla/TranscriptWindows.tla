-------------------------- MODULE TranscriptWindows --------------------------
(***************************************************************************)
(* The transcript as its readers see it: what the projection of a log      *)
(* holds at a cut, how a window of it is read (window-read.ts), how a      *)
(* subscription chooses the window that answers a request, and which       *)
(* update moves a client from one window to the next (subscription.ts).    *)
(*                                                                         *)
(* A record is named by the event that created it and stands at the event  *)
(* that made it history; a dependency stands at 0.  Dependencies: a tool   *)
(* has the negative name of its assistant, the session context is 0, a     *)
(* pending user has the name it keeps as history.                          *)
(***************************************************************************)
EXTENDS Integers, SequencesExt

CONSTANTS
  MaxRecords, MaxSize,        \* TranscriptWindowLimits: top-level records, and all of a window
  InitialCount                \* TranscriptSubscriptionPolicy.initialCount

ASSUME WindowsAssumption == {MaxRecords, MaxSize, InitialCount} \subseteq Nat \ {0}

-----------------------------------------------------------------------------
(* The projection at a cut.                                                *)

Kinds == {"submit", "consume", "infer", "settle", "tool"}
Record(id, at, seq, live) == [id |-> id, at |-> at, updated |-> seq, live |-> live]
NothingProjected == [top |-> {}, deps |-> {}]

PendingUsers(rows) == {d \in rows.deps : d.id > 0}
Streaming(rows) == {r \in rows.top : r.live}
Answers(rows) == {r \in rows.top : r.id = r.at}
Youngest(rs) == CHOOSE r \in rs : \A q \in rs : q.id <= r.id
Oldest(rs) == CHOOSE r \in rs : \A q \in rs : r.id <= q.id

WithDep(deps, id, seq) == {d \in deps : d.id # id} \cup {Record(id, 0, seq, FALSE)}

\* interpretEvent: what an event leaves of the rows.
SubmittedRows(rows, seq) == [rows EXCEPT !.deps = @ \cup {Record(seq, 0, seq, FALSE)}]
ConsumedRows(rows, seq) ==
  LET user == Oldest(PendingUsers(rows))
  IN [top |-> rows.top \cup {Record(user.id, seq, seq, FALSE)},
      deps |-> WithDep(rows.deps \ {user}, 0, seq)]
StartedRows(rows, seq) == [rows EXCEPT !.top = @ \cup {Record(seq, seq, seq, TRUE)}]
SettledRows(rows, seq) ==
  [top |-> {IF r.live THEN [r EXCEPT !.updated = seq, !.live = FALSE] ELSE r : r \in rows.top},
   deps |-> WithDep(rows.deps, 0, seq)]
ToolRows(rows, seq) == [rows EXCEPT !.deps = WithDep(@, -Youngest(Answers(rows)).id, seq)]

\* planTranscriptBatch
Projected(rows, kind, seq) ==
  CASE kind = "submit" -> SubmittedRows(rows, seq)
    [] kind = "consume" -> ConsumedRows(rows, seq)
    [] kind = "infer" -> StartedRows(rows, seq)
    [] kind = "settle" -> SettledRows(rows, seq)
    [] kind = "tool" -> ToolRows(rows, seq)

\* The events the session can commit next; a bound: one message waits at a time.
Possible(rows, kind) ==
  CASE kind = "submit" -> PendingUsers(rows) = {}
    [] kind = "consume" -> PendingUsers(rows) # {} /\ Streaming(rows) = {}
    [] kind = "infer" -> Streaming(rows) = {}
    [] kind = "settle" -> Streaming(rows) # {}
    [] kind = "tool" -> Answers(rows) # {}

\* A log keeps with each event the projection it leaves.
RowsAt(log, through) == IF through = 0 THEN NothingProjected ELSE log[through].rows
Appended(log, kind) ==
  Append(log, [kind |-> kind, rows |-> Projected(RowsAt(log, Len(log)), kind, Len(log) + 1)])

-----------------------------------------------------------------------------
(* One read.  A source is the served version: its name, its cursor, its    *)
(* rows and whether it keeps up with the log.                              *)

Newest(rs, n) == {r \in rs : Cardinality({q \in rs : q.at > r.at}) < n}
Earliest(rs, n) == {r \in rs : Cardinality({q \in rs : q.at < r.at}) < n}
AfterAll == 1000

\* dependencyGroups: the tools of the records, the session context and every pending user.
DepsOf(rows, top) == {d \in rows.deps : d.id < 0 => \E r \in top : r.id = -d.id}
Size(rows, top) == Cardinality(top) + Cardinality(DepsOf(rows, top))

\* trimToBudget: records go from the far end until the window fits, but one stays.
Trimmed(rows, top, keepNewest) ==
  LET keep(n) == IF keepNewest THEN Newest(top, n) ELSE Earliest(top, n)
      fits == {n \in 1..Cardinality(top) : n = 1 \/ Size(rows, keep(n)) <= MaxSize}
  IN IF top = {} THEN top ELSE keep(CHOOSE n \in fits : \A m \in fits : m <= n)

\* readTranscriptWindowFrom; beyond is where the neighbours of an empty selection are looked for.
Window(source, selected, keepNewest, beyond) ==
  LET top == Trimmed(source.rows, selected, keepNewest)
  IN [scope |-> source.scope, through |-> source.through, ready |-> source.ready, top |-> top,
      deps |-> DepsOf(source.rows, top),
      hasNewer |-> \E r \in source.rows.top :
                     IF top = {} THEN r.at > beyond ELSE \A q \in top : r.at > q.at]

LatestWindow(source, n) ==
  Window(source, Newest(source.rows.top, IF n < MaxRecords THEN n ELSE MaxRecords), TRUE, AfterAll)
RangeWindow(source, from, to) ==
  Window(source, {r \in Earliest({q \in source.rows.top : q.at >= from}, MaxRecords) : r.at <= to},
         FALSE, to)
PageWindow(source, direction, cursor, n) ==
  IF direction = "before"
    THEN Window(source, Newest({r \in source.rows.top : r.at < cursor}, n), TRUE, cursor - 1)
    ELSE Window(source, Earliest({r \in source.rows.top : r.at > cursor}, n), FALSE, AfterAll)

From(top) == IF top = {} THEN 0 ELSE Min({r.at : r \in top})
To(top) == IF top = {} THEN 0 ELSE Max({r.at : r \in top})

-----------------------------------------------------------------------------
(* The subscription.  A coverage from 0 is none.                           *)

\* transcriptSubscriptionBaseOf
BaseOf(w) ==
  [scope |-> w.scope, through |-> w.through, from |-> From(w.top), to |-> To(w.top),
   tail |-> ~w.hasNewer]
NoBase == [scope |-> 0, through |-> 0, from |-> 0, to |-> 0, tail |-> FALSE]

\* readCoverage
Latest == [scope |-> 0, from |-> 0, to |-> 0, tail |-> FALSE, overflow |-> FALSE]
Covering(base, from, to, tail, overflow) ==
  [scope |-> base.scope, from |-> from, to |-> to, tail |-> tail, overflow |-> overflow]
ReadCoverage(source, c) ==
  IF c.from = 0 THEN LatestWindow(source, InitialCount)
  ELSE IF ~c.tail THEN RangeWindow(source, c.from, c.to)
  ELSE LET w == RangeWindow(source, c.from, AfterAll)
       IN IF w.hasNewer /\ c.overflow
            THEN LatestWindow(source, IF w.top = {} THEN 1 ELSE Cardinality(w.top))
            ELSE w

\* evictOldest: where a coverage that ends there may start.
EvictOldest(source, from, to) ==
  IF MaxRecords <= 1 THEN to
  ELSE LET oldest == From(PageWindow(source, "before", to, MaxRecords - 1).top)
       IN IF oldest <= from THEN from ELSE oldest

\* The answer to a page request: what the page adds, within the bound.
PageCoverage(source, base, request) ==
  LET page == PageWindow(source, request.direction, request.from, request.count).top
      newer == PageWindow(source, request.direction, request.from, request.count).hasNewer
      edge == IF request.direction = "before" THEN base.from ELSE base.to
      same == Covering(base, base.from, base.to, base.tail, TRUE)
  IN IF base.from = 0 \/ edge # request.from \/ request.scope # base.scope \/ page = {} THEN same
     ELSE IF request.direction = "before"
       THEN Covering(base, From(page), base.to, base.tail, FALSE)
       ELSE Covering(base, EvictOldest(source, base.from, To(page)), To(page), ~newer, FALSE)

RetainCoverage(base, request) ==
  LET inside == /\ base.from > 0 /\ request.scope = base.scope
                /\ base.from <= request.from /\ request.from <= request.to /\ request.to <= base.to
  IN IF inside
       THEN Covering(base, request.from, request.to, base.tail /\ request.to = base.to, TRUE)
       ELSE Covering(base, base.from, base.to, base.tail, TRUE)

\* readTranscriptSubscription: what is read for a request, and what the client is taken to hold.
\* A cursor of another version is answered with the latest records, afresh.
Answer(source, base, request) ==
  CASE request.tag = "subscribe" ->
         [reads |-> Covering(request, request.from, request.to, request.tail, TRUE),
          holds |-> IF request.from = 0 THEN NoBase
                    ELSE [scope |-> request.scope, through |-> request.since,
                          from |-> request.from, to |-> request.to, tail |-> request.tail]]
    [] base = NoBase -> [reads |-> Latest, holds |-> NoBase]
    [] request.tag = "page" -> [reads |-> PageCoverage(source, base, request), holds |-> base]
    [] request.tag = "retain" -> [reads |-> RetainCoverage(base, request), holds |-> base]
    [] OTHER -> [reads |-> Covering(base, base.from, base.to, base.tail, TRUE), holds |-> base]

Mismatch(source, reads) == reads.from > 0 /\ reads.scope # source.scope

-----------------------------------------------------------------------------
(* The update.                                                             *)

NoContent == [id |-> 0, text |-> 0]

\* servedActiveContent: none on a degraded cut, none for what the window shows as settled.
ServedContent(w, content) ==
  IF w.ready /\ ~\E r \in w.top : r.id = content.id /\ ~r.live THEN content ELSE NoContent

\* Mutant: a record that was outside of the coverage is sent only when it has changed.
ChangedOnly(base, w) == {r \in w.top : r.updated > base.through}

\* What a patch must send of the history and of the rest.
ChangedRecords(base, w) ==
  {r \in w.top : r.updated > base.through \/ r.at < base.from \/ r.at > base.to}

ChangedDeps(base, w, sent) ==
  {d \in w.deps : \/ d.updated > base.through
                  \/ IF d.id < 0 THEN \E r \in sent : r.id = -d.id ELSE sent # {}}

\* planTranscriptUpdate
Update(seq, base, w, content, withContent) ==
  LET patch == base # NoBase /\ base.scope = w.scope /\ base.through <= w.through
      records == IF patch THEN ChangedRecords(base, w) ELSE w.top
  IN [seq |-> seq, patch |-> patch, scope |-> w.scope, through |-> w.through, ready |-> w.ready,
      from |-> From(w.top), to |-> To(w.top), hasNewer |-> w.hasNewer, records |-> records,
      deps |-> IF patch THEN ChangedDeps(base, w, records) ELSE w.deps,
      ids |-> {d.id : d \in w.deps},
      content |-> IF patch /\ ~withContent THEN <<>> ELSE <<ServedContent(w, content)>>]
=============================================================================
