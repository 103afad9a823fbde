----------------------------- MODULE EventStore -----------------------------
(* The durable log of one session as the host keeps it in SQL                  *)
(* (effect-durable-agent-cloudflare, durable-object-store.ts): an event is one *)
(* row of the log plus, for some types, rows beside it that hold its body or   *)
(* index it.  An append is one synchronous transaction.                        *)
(*                                                                             *)
(* An event is [id, type, ref, key]: the identity it was minted with, the      *)
(* command, message or summary it is about, and an admission's idempotency     *)
(* key.  A body is stood for by the id of the event that carried it.           *)
EXTENDS Integers, Sequences, FiniteSets, SequencesExt

CONSTANT None           \* no key, no reference, no such row
ASSUME NoneAssumption == None \notin Nat

\* The tables that hold rows beside the log's, and the types each is about.
SidecarsOf(type) ==
    CASE type = "CommandAdmitted" -> {"state", "inputs"}
      [] type = "Message" -> {"messages"}
      [] type = "SummaryCreated" -> {"summaries"}
      [] OTHER -> {}

EmptyStore == [rows |-> <<>>, sidecars |-> {}]
LogHead(store) == Len(store.rows)

SidecarRow(store, table, ref) ==
    {r \in store.sidecars : r.table = table /\ r.ref = ref}

\* INSERT ... ON CONFLICT (the reference) DO UPDATE, in every table of the type.
Upserted(store, event, seq) ==
    LET tables == SidecarsOf(event.type)
    IN  {r \in store.sidecars : ~(r.table \in tables /\ r.ref = event.ref)}
          \cup {[table |-> t, ref |-> event.ref, seq |-> seq,
                 key |-> event.key, body |-> event.id] : t \in tables}

\* A rebase must name a summary whose row is there, this batch's included.
Admissible(store, event) ==
    event.type = "ContextRebased" => SidecarRow(store, "summaries", event.ref) # {}

\* What the log's own row keeps of an event: its identities, never a body.
Fact(event) == [id |-> event.id, type |-> event.type, ref |-> event.ref]

SeqsOf(store, id) == {i \in DOMAIN store.rows : store.rows[i].id = id}

\* Mutant: the log is not searched for the event first.
AlwaysInsert(tx, event) ==
    LET seq == Len(tx.store.rows) + 1
    IN  [store |-> [rows |-> Append(tx.store.rows, Fact(event)),
                    sidecars |-> Upserted(tx.store, event, seq)],
         seqs |-> Append(tx.seqs, seq),
         ok |-> tx.ok /\ Admissible(tx.store, event)]

\* One entry: an event already in the log answers its old position.
InsertOrRead(tx, event) ==
    LET old == SeqsOf(tx.store, event.id)
        seq == Len(tx.store.rows) + 1
    IN  IF old # {}
        THEN [tx EXCEPT !.seqs = Append(@, CHOOSE i \in old : TRUE)]
        ELSE [store |-> [rows |-> Append(tx.store.rows, Fact(event)),
                         sidecars |-> Upserted(tx.store, event, seq)],
              seqs |-> Append(tx.seqs, seq),
              ok |-> tx.ok /\ Admissible(tx.store, event)]

\* The transaction after each entry of the batch.
Transaction(store, batch) ==
    LET tx[i \in 0 .. Len(batch)] ==
          IF i = 0 THEN [store |-> store, seqs |-> <<>>, ok |-> TRUE]
          ELSE InsertOrRead(tx[i - 1], batch[i])
    IN  tx

\* The whole batch or nothing: `seqs` are the positions in the batch's order.
Appended(store, batch) ==
    LET tx == Transaction(store, batch)[Len(batch)]
    IN  IF tx.ok THEN tx ELSE [store |-> store, seqs |-> <<>>, ok |-> FALSE]

-----------------------------------------------------------------------------
(* Reads. *)

\* The rows that hold a body: a command's by its id, the others by the position
\* that wrote them.
CommandInput(store, id) == SidecarRow(store, "inputs", id)
MessageAt(store, seq) == {r \in store.sidecars : r.table = "messages" /\ r.seq = seq}
SummaryAt(store, seq) == {r \in store.sidecars : r.table = "summaries" /\ r.seq = seq}

\* The row that the body of position seq is read from.
BodyRows(store, seq) ==
    LET row == store.rows[seq]
    IN  CASE row.type = "CommandAdmitted" -> CommandInput(store, row.ref)
          [] row.type = "Message" -> MessageAt(store, seq)
          [] row.type = "SummaryCreated" -> SummaryAt(store, seq)
          [] OTHER -> {}

\* What a replay of position seq decodes: the id of the body it finds.
ReadBody(store, seq) ==
    IF SidecarsOf(store.rows[seq].type) = {} THEN store.rows[seq].id
    ELSE IF BodyRows(store, seq) = {} THEN None
    ELSE (CHOOSE r \in BodyRows(store, seq) : TRUE).body

\* Mutant: only the explicit command id is looked up.
FindById(store, command) ==
    LET rows == {r \in store.sidecars : r.table = "state" /\ command.id # None /\ r.ref = command.id}
    IN  IF rows = {} THEN None ELSE (CHOOSE r \in rows : TRUE).seq

\* The admission a command repeats: by its key, and only then by its id.
FindAdmission(store, command) ==
    LET state == {r \in store.sidecars : r.table = "state"}
        byKey == {r \in state : command.key # None /\ r.key = command.key}
        byId  == {r \in state : command.id # None /\ r.ref = command.id}
        rows  == IF byKey # {} THEN byKey ELSE byId
    IN  IF rows = {} THEN None ELSE (CHOOSE r \in rows : TRUE).seq

\* The event an admission's row stands for, read back from the log.
AdmissionAt(store, seq) ==
    LET row == store.rows[seq]
        side == CHOOSE r \in store.sidecars : r.table = "state" /\ r.ref = row.ref
    IN  [id |-> row.id, type |-> row.type, ref |-> row.ref, key |-> side.key]

\* One bounded page of the log, and where the next one starts.
Page(after, through, size) ==
    LET last == IF through - after > size THEN after + size ELSE through
    IN  [seqs |-> after + 1 .. last, last |-> last]
=============================================================================
