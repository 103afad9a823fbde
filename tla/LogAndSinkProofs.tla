--------------------------- MODULE LogAndSinkProofs ---------------------------
(***************************************************************************)
(* The session's log and the sinks that follow it, for every value of the  *)
(* constants.                                                              *)
(*                                                                         *)
(* FoldIsLog: an append is a transaction that only adds positions and      *)
(* answers every one it adds, so that what is past the folded head of its  *)
(* answer is the rest of the log.  EventsOrdered: what is published rises  *)
(* above all that was.  AtLeastOnce and SinkStateExact: a runner's cursor  *)
(* is its row's, what it delivers lies behind the head of the log, and     *)
(* what it staged is in the log before its cursor moves.                   *)
(***************************************************************************)
EXTENDS SinkRunners, SequenceTheorems, FiniteSetTheorems, WellFoundedInduction, TLAPS

-----------------------------------------------------------------------------
(* Induction over the entries of a batch, by its first counterexample.     *)

Below == {p \in Nat \X Nat : p[1] < p[2]}

\* What holds of 0, and of i when it holds of i - 1, holds of every number to n.
LEMMA ByFirstCounterexample ==
  ASSUME NEW n \in Nat, NEW Good \in SUBSET (0 .. n), 0 \in Good,
         \A i \in 1 .. n : i - 1 \in Good => i \in Good
  PROVE  Good = 0 .. n
<1> SUFFICES ASSUME (0 .. n) \ Good # {} PROVE FALSE
  OBVIOUS
<1>1. IsWellFoundedOn(Below, Nat)
  BY NatLessThanWellFounded DEF OpToRel, Below
<1>2. (0 .. n) \ Good \in SUBSET Nat
  OBVIOUS
<1>3. PICK x \in (0 .. n) \ Good : \A y \in (0 .. n) \ Good : ~ (<<y, x>> \in Below)
  BY <1>1, <1>2, WFMin
<1>4. x # 0 /\ x - 1 \in 0 .. n
  BY <1>3
<1>6. <<x - 1, x>> \in Below
  BY <1>3, <1>4 DEF Below
<1>5. x - 1 \in Good
  BY <1>3, <1>4, <1>6
<1> QED BY <1>3, <1>4, <1>5

-----------------------------------------------------------------------------
(* What the log holds.                                                     *)

Tables == {"state", "inputs", "messages", "summaries"}
Types == {"CommandAdmitted", "UserMessageSubmitted", "Note"} \cup UNION {ToSet(b) : b \in Batches}
Refs == Nat \cup {c.id : c \in Commands}
Keys == {None} \cup {c.key : c \in Commands}
EventSet == [id : Nat, type : Types, ref : Refs, key : Keys]
FactSet == [id : Nat, type : Types, ref : Refs]
SidecarSet(head) == [table : Tables, ref : Refs, seq : 1 .. head, key : Keys, body : Nat]

\* The sidecar row r belongs to the event of its position.
IsRowOf(s, r) ==
    LET event == s.rows[r.seq]
    IN  r.table \in SidecarsOf(event.type) /\ r.ref = event.ref /\ r.body = event.id

IsStore(s) ==
    /\ s = [rows |-> s.rows, sidecars |-> s.sidecars]
    /\ s.rows \in Seq(FactSet)
    /\ s.sidecars \subseteq SidecarSet(Len(s.rows))
    /\ \A r \in s.sidecars : IsRowOf(s, r)

LEMMA BatchesAreTyped == Batches \subseteq Seq(Types)
<1> SUFFICES ASSUME NEW types \in Batches PROVE types \in Seq(Types)
  OBVIOUS
<1>1. types \in Seq(STRING)
  BY BoundsAssumption
<1>2. Len(types) \in Nat /\ types \in [1 .. Len(types) -> STRING]
  BY <1>1, LenProperties
<1>3. \A i \in 1 .. Len(types) : types[i] \in ToSet(types)
  BY <1>2 DEF ToSet
<1>4. types \in [1 .. Len(types) -> Types]
  BY <1>2, <1>3 DEF Types
<1> QED BY <1>2, <1>4, SeqDef

\* The log of t is that of s and more.
Extends(s, t) ==
    /\ Len(s.rows) <= Len(t.rows)
    /\ \A i \in 1 .. Len(s.rows) : t.rows[i] = s.rows[i]

\* A transaction that began on s and has done n entries: it answers a position of the
\* log for each, and every position it added.
IsTransaction(s, tx, n) ==
    /\ tx = [store |-> tx.store, seqs |-> tx.seqs, ok |-> tx.ok]
    /\ IsStore(tx.store) /\ Extends(s, tx.store)
    /\ tx.ok \in BOOLEAN
    /\ tx.seqs \in Seq(1 .. Len(tx.store.rows)) /\ Len(tx.seqs) = n
    /\ \A p \in Len(s.rows) + 1 .. Len(tx.store.rows) : \E j \in 1 .. n : tx.seqs[j] = p

LEMMA UpsertedIsStore ==
  ASSUME NEW s, IsStore(s), NEW e \in EventSet
  PROVE  LET t == [rows |-> Append(s.rows, Fact(e)),
                   sidecars |-> Upserted(s, e, Len(s.rows) + 1)]
         IN  /\ IsStore(t)
             /\ Len(t.rows) = Len(s.rows) + 1
             /\ \A i \in 1 .. Len(s.rows) : t.rows[i] = s.rows[i]
             /\ t.rows[Len(s.rows) + 1] = Fact(e)
<1> DEFINE rows == Append(s.rows, Fact(e))
           side == Upserted(s, e, Len(s.rows) + 1)
<1>1. Fact(e) \in FactSet
  BY DEF Fact, FactSet, EventSet
<1>2. s.rows \in Seq(FactSet) /\ s.sidecars \subseteq SidecarSet(Len(s.rows))
  BY DEF IsStore
<1>3. /\ rows \in Seq(FactSet)
      /\ Len(rows) = Len(s.rows) + 1
      /\ \A i \in 1 .. Len(s.rows) : rows[i] = s.rows[i]
      /\ rows[Len(s.rows) + 1] = Fact(e)
  BY <1>1, <1>2, AppendProperties
<1>4. Len(s.rows) \in Nat
  BY <1>2, LenProperties
<1>5. SidecarSet(Len(s.rows)) \subseteq SidecarSet(Len(rows))
  BY <1>3, <1>4 DEF SidecarSet
<1>6. SidecarsOf(e.type) \subseteq Tables
  <2>1. CASE e.type = "CommandAdmitted"
    BY <2>1 DEF SidecarsOf, Tables
  <2>2. CASE e.type = "Message"
    BY <2>2 DEF SidecarsOf, Tables
  <2>3. CASE e.type = "SummaryCreated"
    BY <2>3 DEF SidecarsOf, Tables
  <2>4. CASE e.type \notin {"CommandAdmitted", "Message", "SummaryCreated"}
    BY <2>4 DEF SidecarsOf, Tables
  <2> QED BY <2>1, <2>2, <2>3, <2>4
<1>7. \A t \in SidecarsOf(e.type) :
         [table |-> t, ref |-> e.ref, seq |-> Len(s.rows) + 1, key |-> e.key, body |-> e.id]
           \in SidecarSet(Len(rows))
  BY <1>3, <1>4, <1>6 DEF SidecarSet, EventSet
<1>8. side \subseteq SidecarSet(Len(rows))
  BY <1>2, <1>5, <1>7 DEF Upserted
<1> DEFINE t == [rows |-> rows, sidecars |-> side]
<1>10. ASSUME NEW r \in side PROVE IsRowOf(t, r)
  <2>1. CASE r \in s.sidecars
    <3>1. r.seq \in 1 .. Len(s.rows) /\ IsRowOf(s, r)
      BY <1>2, <2>1 DEF SidecarSet, IsStore
    <3> QED BY <1>3, <3>1 DEF IsRowOf
  <2>2. CASE r \notin s.sidecars
    <3>1. PICK u \in SidecarsOf(e.type) :
            r = [table |-> u, ref |-> e.ref, seq |-> Len(s.rows) + 1, key |-> e.key, body |-> e.id]
      BY <1>10, <2>2 DEF Upserted
    <3> QED BY <1>3, <3>1 DEF IsRowOf, Fact
  <2> QED BY <2>1, <2>2
<1>9. IsStore(t)
  BY <1>3, <1>8, <1>10 DEF IsStore
<1> QED BY <1>3, <1>9

\* One entry, inserted or read: the transaction has done one more.
LEMMA EntryDone ==
  ASSUME NEW s, IsStore(s), NEW n \in Nat, NEW tx, IsTransaction(s, tx, n), NEW e \in EventSet
  PROVE  IsTransaction(s, InsertOrRead(tx, e), n + 1)
<1> DEFINE old == SeqsOf(tx.store, e.id)
           head == Len(tx.store.rows)
           next == InsertOrRead(tx, e)
<1>1. /\ IsStore(tx.store) /\ Extends(s, tx.store) /\ tx.ok \in BOOLEAN
      /\ tx.seqs \in Seq(1 .. head) /\ Len(tx.seqs) = n
      /\ \A p \in Len(s.rows) + 1 .. head : \E j \in 1 .. n : tx.seqs[j] = p
      /\ tx = [store |-> tx.store, seqs |-> tx.seqs, ok |-> tx.ok]
  BY DEF IsTransaction
<1>2. tx.store.rows \in Seq(FactSet) /\ s.rows \in Seq(FactSet)
  BY <1>1 DEF IsStore
<1>3. head \in Nat /\ Len(s.rows) \in Nat
  BY <1>2, LenProperties
<1>4. CASE old # {}
  <2> DEFINE at == CHOOSE i \in old : TRUE
  <2>1. at \in old
    BY <1>4
  <2>2. at \in 1 .. head
    BY <1>2, <2>1, LenProperties DEF SeqsOf
  <2>3. next.store = tx.store /\ next.seqs = Append(tx.seqs, at) /\ next.ok = tx.ok
    BY <1>1, <1>4 DEF InsertOrRead
  <2>6. next = [store |-> next.store, seqs |-> next.seqs, ok |-> next.ok]
    BY <1>1, <1>4 DEF InsertOrRead
  <2>4. /\ next.seqs \in Seq(1 .. head) /\ Len(next.seqs) = n + 1
        /\ \A j \in 1 .. n : next.seqs[j] = tx.seqs[j]
    BY <1>1, <2>2, <2>3, AppendProperties
  <2>5. \A p \in Len(s.rows) + 1 .. head : \E j \in 1 .. n + 1 : next.seqs[j] = p
    <3> TAKE p \in Len(s.rows) + 1 .. head
    <3>1. PICK j \in 1 .. n : tx.seqs[j] = p
      BY <1>1
    <3>2. n \in Nat /\ j \in 1 .. n + 1
      <4>1. n \in Nat
        BY <1>1, LenProperties
      <4> QED BY ONLY <4>1, j \in 1 .. n
    <3>3. next.seqs[j] = p
      BY <2>4, <3>1
    <3> QED BY ONLY <3>2, <3>3
  <2> QED BY <1>1, <2>3, <2>4, <2>5, <2>6 DEF IsTransaction
<1>5. CASE old = {}
  <2> DEFINE t == [rows |-> Append(tx.store.rows, Fact(e)),
                   sidecars |-> Upserted(tx.store, e, head + 1)]
             fit == tx.ok /\ Admissible(tx.store, e)
  <2>1. next = [store |-> t, seqs |-> Append(tx.seqs, head + 1), ok |-> fit]
    BY <1>5 DEF InsertOrRead
  <2>2. /\ IsStore(t) /\ Len(t.rows) = head + 1
        /\ \A i \in 1 .. head : t.rows[i] = tx.store.rows[i]
    BY <1>1, UpsertedIsStore
  <2> HIDE DEF t
  <2>3. Extends(s, t)
    BY <1>1, <1>3, <2>2 DEF Extends
  <2>4. tx.seqs \in Seq(1 .. head + 1)
    <3>1. 1 .. head \subseteq 1 .. head + 1
      BY <1>3
    <3> QED BY <1>1, <3>1, SeqMonotonic
  <2>5. /\ Append(tx.seqs, head + 1) \in Seq(1 .. head + 1)
        /\ Len(Append(tx.seqs, head + 1)) = n + 1
        /\ \A j \in 1 .. n : Append(tx.seqs, head + 1)[j] = tx.seqs[j]
        /\ Append(tx.seqs, head + 1)[n + 1] = head + 1
    BY <1>1, <1>3, <2>4, AppendProperties
  <2>6. \A p \in Len(s.rows) + 1 .. head + 1 :
          \E j \in 1 .. n + 1 : Append(tx.seqs, head + 1)[j] = p
    <3> TAKE p \in Len(s.rows) + 1 .. head + 1
    <3>1. CASE p = head + 1
      BY <2>5, <3>1
    <3>2. CASE p # head + 1
      <4>1. p \in Len(s.rows) + 1 .. head
        BY <1>3, <3>2
      <4>2. PICK j \in 1 .. n : tx.seqs[j] = p
        BY <1>1, <4>1
      <4> QED BY <2>5, <4>2
    <3> QED BY <3>1, <3>2
  <2>7. fit \in BOOLEAN
    BY <1>1 DEF Admissible
  <2> QED BY <2>1, <2>2, <2>3, <2>5, <2>6, <2>7 DEF IsTransaction
<1> QED BY <1>4, <1>5

-----------------------------------------------------------------------------
(* The recursion of a transaction is well founded: its value is a function *)
(* that satisfies it.                                                      *)

TxStep(s, batch, f, i) ==
    IF i = 0 THEN [store |-> s, seqs |-> <<>>, ok |-> TRUE]
    ELSE InsertOrRead(f[i - 1], batch[i])

LEMMA TransactionUnfolds ==
  ASSUME NEW s, NEW batch, Len(batch) \in Nat
  PROVE  Transaction(s, batch)
           = [i \in 0 .. Len(batch) |-> TxStep(s, batch, Transaction(s, batch), i)]
<1> DEFINE n == Len(batch)
           Runs(f, k) == f = [i \in 0 .. k |-> TxStep(s, batch, f, i)]
           Good == {k \in 0 .. n : \E f : Runs(f, k)}
<1>1. 0 \in Good
  <2> DEFINE first == [i \in 0 .. 0 |-> [store |-> s, seqs |-> <<>>, ok |-> TRUE]]
  <2>1. Runs(first, 0)
    BY DEF TxStep
  <2> HIDE DEF first, Runs
  <2>2. \E f : Runs(f, 0)
    BY <2>1
  <2>3. 0 \in 0 .. n
    OBVIOUS
  <2> QED BY <2>2, <2>3
<1>2. ASSUME NEW i \in 1 .. n, i - 1 \in Good PROVE i \in Good
  <2>1. PICK f : Runs(f, i - 1)
    BY <1>2
  <2> DEFINE g == [j \in 0 .. i |-> IF j < i THEN f[j] ELSE InsertOrRead(f[i - 1], batch[i])]
  <2>2. \A j \in 0 .. i : g[j] = TxStep(s, batch, g, j)
    <3> TAKE j \in 0 .. i
    <3>1. CASE j = 0
      BY <2>1, <3>1 DEF TxStep
    <3>2. CASE j \in 1 .. i - 1
      <4>1. g[j] = f[j] /\ g[j - 1] = f[j - 1]
        BY <3>2
      <4>2. f[j] = TxStep(s, batch, f, j)
        BY <2>1, <3>2
      <4> QED BY <3>2, <4>1, <4>2 DEF TxStep
    <3>3. CASE j = i
      <4>1. g[i] = InsertOrRead(f[i - 1], batch[i]) /\ g[i - 1] = f[i - 1]
        OBVIOUS
      <4> QED BY <3>3, <4>1 DEF TxStep
    <3> QED BY <3>1, <3>2, <3>3
  <2>3. Runs(g, i)
    BY <2>2
  <2> HIDE DEF g, Runs
  <2>4. \E g2 : Runs(g2, i)
    BY <2>3
  <2> QED BY <2>4
<1>3. Good = 0 .. n
  <2> HIDE DEF Good
  <2>1. Good \in SUBSET (0 .. n)
    BY DEF Good
  <2> QED BY <1>1, <1>2, <2>1, ByFirstCounterexample
<1>4. \E f : Runs(f, n)
  BY <1>3
<1>5. Transaction(s, batch) = CHOOSE f : Runs(f, n)
  BY DEF Transaction, TxStep
<1> QED BY <1>4, <1>5

LEMMA TransactionDone ==
  ASSUME NEW s, IsStore(s), NEW batch \in Seq(EventSet), NEW i \in 0 .. Len(batch)
  PROVE  IsTransaction(s, Transaction(s, batch)[i], i)
<1> DEFINE n == Len(batch)
           tx == Transaction(s, batch)
           Good == {k \in 0 .. n : IsTransaction(s, tx[k], k)}
<1>1. n \in Nat /\ \A k \in 1 .. n : batch[k] \in EventSet
  BY LenProperties, ElementOfSeq
<1>2. tx = [k \in 0 .. n |-> TxStep(s, batch, tx, k)]
  BY <1>1, TransactionUnfolds
<1> HIDE DEF tx
<1>3. 0 \in Good
  <2>1. tx[0] = [store |-> s, seqs |-> <<>>, ok |-> TRUE]
    BY <1>1, <1>2 DEF TxStep
  <2>2. <<>> \in Seq(1 .. Len(s.rows)) /\ Len(<<>>) = 0
    BY EmptySeq
  <2>3. Len(s.rows) \in Nat
    BY LenProperties DEF IsStore
  <2>4. IsTransaction(s, tx[0], 0)
    BY <2>1, <2>2, <2>3 DEF IsTransaction, Extends
  <2> QED BY <1>1, <2>4
<1>4. ASSUME NEW k \in 1 .. n, k - 1 \in Good PROVE k \in Good
  <2>5. k \in 0 .. n /\ k # 0
    BY <1>1
  <2>6. tx[k] = TxStep(s, batch, tx, k)
    BY <1>2, <2>5
  <2>1. tx[k] = InsertOrRead(tx[k - 1], batch[k])
    BY <2>5, <2>6 DEF TxStep
  <2>2. IsTransaction(s, tx[k - 1], k - 1) /\ k - 1 \in Nat
    BY <1>1, <1>4
  <2>3. IsTransaction(s, InsertOrRead(tx[k - 1], batch[k]), (k - 1) + 1)
    BY <1>1, <2>2, EntryDone
  <2>4. IsTransaction(s, tx[k], k)
    BY <1>1, <2>1, <2>3
  <2> QED BY <1>1, <2>4
<1>5. Good = 0 .. n
  <2> HIDE DEF Good
  <2>1. Good \in SUBSET (0 .. n)
    BY DEF Good
  <2> QED BY <1>1, <1>3, <1>4, <2>1, ByFirstCounterexample
<1> QED BY <1>5 DEF tx

\* An append that is not refused is a whole transaction.
LEMMA AppendedDone ==
  ASSUME NEW s, IsStore(s), NEW batch \in Seq(EventSet), Appended(s, batch).ok
  PROVE  /\ IsTransaction(s, Appended(s, batch), Len(batch))
         /\ Appended(s, batch) = Transaction(s, batch)[Len(batch)]
<1> DEFINE tx == Transaction(s, batch)[Len(batch)]
<1>1. IsTransaction(s, tx, Len(batch))
  BY TransactionDone, LenProperties
<1>2. tx.ok
  BY DEF Appended
<1>3. Appended(s, batch) = tx
  BY <1>2 DEF Appended
<1> QED BY <1>1, <1>3

\* The positions it answers are of its log, and all that it added are among them.
LEMMA AnswersWhatItAdded ==
  ASSUME NEW s, IsStore(s), NEW batch \in Seq(EventSet), Appended(s, batch).ok
  PROVE  LET tx == Appended(s, batch)
         IN  /\ IsStore(tx.store) /\ Extends(s, tx.store)
             /\ ToSet(tx.seqs) \subseteq 1 .. LogHead(tx.store)
             /\ LogHead(s) + 1 .. LogHead(tx.store) \subseteq ToSet(tx.seqs)
<1> DEFINE tx == Appended(s, batch)
<1>1. IsTransaction(s, tx, Len(batch))
  BY AppendedDone
<1> HIDE DEF tx
<1>2. DOMAIN tx.seqs = 1 .. Len(batch) /\ \A i \in 1 .. Len(batch) : tx.seqs[i] \in 1 .. Len(tx.store.rows)
  BY <1>1, LenProperties, ElementOfSeq DEF IsTransaction
<1>3. ToSet(tx.seqs) \subseteq 1 .. Len(tx.store.rows)
  BY <1>2 DEF ToSet
<1>4. \A p \in Len(s.rows) + 1 .. Len(tx.store.rows) : p \in ToSet(tx.seqs)
  BY <1>1, <1>2 DEF IsTransaction, ToSet
<1> QED BY <1>1, <1>3, <1>4 DEF IsTransaction, LogHead, tx

-----------------------------------------------------------------------------
(* What is appended is made of events.                                     *)

LEMMA EventsAreEvents ==
  ASSUME IsStore(store), NEW types \in Seq(Types)
  PROVE  Events(types) \in Seq(EventSet) /\ Len(Events(types)) = Len(types)
<1>1. LogHead(store) \in Nat
  BY LenProperties DEF IsStore, LogHead
<1>2. Len(types) \in Nat /\ DOMAIN types = 1 .. Len(types)
  BY LenProperties
<1>3. \A i \in 1 .. Len(types) : types[i] \in Types
  BY ElementOfSeq
<1>4. \A i \in 1 .. Len(types) : Events(types)[i] \in EventSet
  <2> TAKE i \in 1 .. Len(types)
  <2>1. Fresh(i) \in Nat /\ Fresh(i - 1) \in Nat
    BY <1>1 DEF Fresh
  <2>2. Events(types)[i] = [id |-> Fresh(i), type |-> types[i], key |-> None,
                            ref |-> IF types[i] = "ContextRebased" THEN Fresh(i - 1) ELSE Fresh(i)]
    BY <1>2 DEF Events
  <2> QED BY <1>3, <2>1, <2>2 DEF EventSet, Refs, Keys
<1>5. Events(types) = [i \in 1 .. Len(types) |-> Events(types)[i]]
  BY <1>2 DEF Events
<1>6. Events(types) \in [1 .. Len(types) -> EventSet]
  BY <1>4, <1>5
<1> QED BY <1>2, <1>6, SeqDef

\* The admission found is of a row of the log, and so is what is read back of it.
LEMMA FoundIsAdmission ==
  ASSUME IsStore(store), NEW command, FindAdmission(store, command) # None
  PROVE  /\ FindAdmission(store, command) \in 1 .. LogHead(store)
         /\ AdmissionAt(store, FindAdmission(store, command)) \in EventSet
         /\ Fact(AdmissionAt(store, FindAdmission(store, command)))
              = store.rows[FindAdmission(store, command)]
<1> DEFINE state == {r \in store.sidecars : r.table = "state"}
           byKey == {r \in state : command.key # None /\ r.key = command.key}
           byId  == {r \in state : command.id # None /\ r.ref = command.id}
           rows  == IF byKey # {} THEN byKey ELSE byId
           found == CHOOSE r \in rows : TRUE
           seq == FindAdmission(store, command)
<1>1. rows # {} /\ seq = found.seq
  BY DEF FindAdmission
<1>2. found \in rows
  BY <1>1
<1>3. found \in store.sidecars /\ found.table = "state"
  BY <1>2
<1>4. found \in SidecarSet(LogHead(store)) /\ IsRowOf(store, found)
  BY <1>3 DEF IsStore, LogHead
<1>5. seq \in 1 .. LogHead(store) /\ store.rows[seq].ref = found.ref
  BY <1>1, <1>4 DEF SidecarSet, IsRowOf
<1>6. store.rows[seq] \in FactSet
  BY <1>5, ElementOfSeq DEF IsStore, LogHead
<1> DEFINE side == CHOOSE r \in store.sidecars : r.table = "state" /\ r.ref = store.rows[seq].ref
<1>7. side \in store.sidecars
  BY <1>3, <1>5
<1>8. side.key \in Keys
  BY <1>7 DEF IsStore, SidecarSet
<1>9. AdmissionAt(store, seq)
        = [id |-> store.rows[seq].id, type |-> store.rows[seq].type,
           ref |-> store.rows[seq].ref, key |-> side.key]
  BY DEF AdmissionAt
<1> HIDE DEF side
<1> QED BY <1>5, <1>6, <1>8, <1>9 DEF EventSet, FactSet, Fact

-----------------------------------------------------------------------------
(* What makes the log readable: an event is its position, and no two are    *)
(* about the same command.                                                 *)

Bodied == {"CommandAdmitted", "Message", "SummaryCreated"}
ClientIds == {c.id : c \in Commands} \ {None}

\* An event is about itself, or it admits a command that its client named.
AboutItself(event) ==
    event.type \in Bodied =>
      \/ event.ref = event.id
      \/ event.type = "CommandAdmitted" /\ event.ref \in ClientIds

\* No row admits the command that e is about.
Unadmitted(s, ref) ==
    \A p \in 1 .. Len(s.rows) : s.rows[p].type = "CommandAdmitted" => s.rows[p].ref # ref

IsLog(s) ==
    /\ IsStore(s)
    /\ \A p \in 1 .. Len(s.rows) : s.rows[p].id = p /\ AboutItself(s.rows[p])
    /\ \A p, q \in 1 .. Len(s.rows) :
         /\ s.rows[p].type = "CommandAdmitted" /\ s.rows[q].type = "CommandAdmitted"
         /\ s.rows[p].ref = s.rows[q].ref
         => p = q
    /\ \A p \in 1 .. Len(s.rows) : \A u \in SidecarsOf(s.rows[p].type) :
         \E r \in s.sidecars : r.table = u /\ r.seq = p

\* The tables keep the types apart.
LEMMA TablesOf ==
  /\ \A type : type \notin Bodied => SidecarsOf(type) = {}
  /\ SidecarsOf("CommandAdmitted") = {"state", "inputs"}
  /\ SidecarsOf("Message") = {"messages"} /\ SidecarsOf("SummaryCreated") = {"summaries"}
  /\ \A type, type2, u : u \in SidecarsOf(type) /\ u \in SidecarsOf(type2)
       => type = type2 /\ type \in Bodied
<1>1. \A type : type \notin Bodied => SidecarsOf(type) = {}
  BY DEF Bodied, SidecarsOf
<1>2. SidecarsOf("CommandAdmitted") = {"state", "inputs"}
  BY DEF SidecarsOf
<1>3. SidecarsOf("Message") = {"messages"}
  BY DEF SidecarsOf
<1>4. SidecarsOf("SummaryCreated") = {"summaries"}
  BY DEF SidecarsOf
<1>5. ASSUME NEW type, NEW type2, NEW u, u \in SidecarsOf(type), u \in SidecarsOf(type2)
      PROVE  type = type2 /\ type \in Bodied
  <2>1. type \in Bodied /\ type2 \in Bodied
    BY <1>1, <1>5
  <2> QED BY <1>2, <1>3, <1>4, <1>5, <2>1 DEF Bodied
<1> QED BY <1>1, <1>2, <1>3, <1>4, <1>5

\* A row of the log is not overwritten by an event about something else.
LEMMA InsertedIsLog ==
  ASSUME NEW s, IsLog(s), NEW e \in EventSet, e.id = Len(s.rows) + 1, AboutItself(e),
         e.type = "CommandAdmitted" => Unadmitted(s, e.ref)
  PROVE  IsLog([rows |-> Append(s.rows, Fact(e)),
                sidecars |-> Upserted(s, e, Len(s.rows) + 1)])
<1> DEFINE t == [rows |-> Append(s.rows, Fact(e)),
                 sidecars |-> Upserted(s, e, Len(s.rows) + 1)]
           n == Len(s.rows)
<1>1. /\ IsStore(t) /\ Len(t.rows) = n + 1 /\ t.rows[n + 1] = Fact(e)
      /\ \A i \in 1 .. n : t.rows[i] = s.rows[i]
  BY UpsertedIsStore DEF IsLog
<1>2. t.sidecars = Upserted(s, e, n + 1)
  OBVIOUS
<1> HIDE DEF t
<1>3. n \in Nat
  BY LenProperties DEF IsLog, IsStore
<1>4. \A p \in 1 .. n + 1 : t.rows[p].id = p /\ AboutItself(t.rows[p])
  <2> TAKE p \in 1 .. n + 1
  <2>1. CASE p \in 1 .. n
    BY <1>1, <2>1 DEF IsLog
  <2>2. CASE p = n + 1
    BY <1>1, <2>2 DEF Fact, AboutItself
  <2> QED BY <1>3, <2>1, <2>2
<1>5. Fact(e).type = e.type /\ Fact(e).ref = e.ref /\ Fact(e).id = e.id
  BY DEF Fact
<1>6. ASSUME NEW p \in 1 .. n + 1, NEW q \in 1 .. n + 1,
             t.rows[p].type = "CommandAdmitted", t.rows[q].type = "CommandAdmitted",
             t.rows[p].ref = t.rows[q].ref
      PROVE  p = q
  <2>1. CASE p \in 1 .. n /\ q \in 1 .. n
    BY <1>1, <1>6, <2>1 DEF IsLog
  <2>2. CASE p = n + 1 /\ q \in 1 .. n
    BY <1>1, <1>5, <1>6, <2>2 DEF Unadmitted
  <2>3. CASE q = n + 1 /\ p \in 1 .. n
    BY <1>1, <1>5, <1>6, <2>3 DEF Unadmitted
  <2> QED BY <1>3, <2>1, <2>2, <2>3
<1>7. ASSUME NEW p \in 1 .. n + 1, NEW u \in SidecarsOf(t.rows[p].type)
      PROVE  \E r \in t.sidecars : r.table = u /\ r.seq = p
  <2>1. CASE p = n + 1
    <3> DEFINE r == [table |-> u, ref |-> e.ref, seq |-> n + 1, key |-> e.key, body |-> e.id]
    <3>1. u \in SidecarsOf(e.type)
      BY <1>1, <1>5, <1>7, <2>1
    <3>2. r \in t.sidecars
      BY <1>2, <3>1 DEF Upserted
    <3>3. r.table = u /\ r.seq = p
      BY <2>1
    <3> QED BY <3>2, <3>3
  <2>2. CASE p \in 1 .. n
    <3>1. u \in SidecarsOf(s.rows[p].type)
      BY <1>1, <1>7, <2>2
    <3>2. PICK r \in s.sidecars : r.table = u /\ r.seq = p
      BY <2>2, <3>1 DEF IsLog
    <3>3. r.ref = s.rows[p].ref
      BY <3>2 DEF IsLog, IsStore, IsRowOf
    <3>4. ~(u \in SidecarsOf(e.type) /\ r.ref = e.ref)
      <4> SUFFICES ASSUME u \in SidecarsOf(e.type), r.ref = e.ref PROVE FALSE
        OBVIOUS
      <4>1. s.rows[p].type = e.type /\ e.type \in Bodied
        BY <3>1, TablesOf
      <4>2. s.rows[p].ref = e.ref
        BY <3>3
      <4>3. e.type # "CommandAdmitted"
        BY <2>2, <4>1, <4>2 DEF Unadmitted
      <4>4. e.ref = n + 1
        BY <4>1, <4>3 DEF AboutItself
      <4>5. s.rows[p].ref = p
        BY <2>2, <4>1, <4>3 DEF IsLog, AboutItself
      <4> QED BY <1>3, <2>2, <4>2, <4>4, <4>5
    <3>5. r \in t.sidecars
      BY <1>2, <3>2, <3>4 DEF Upserted
    <3> QED BY <3>2, <3>5
  <2> QED BY <1>3, <2>1, <2>2
<1>8. IsLog(t)
  BY <1>1, <1>4, <1>6, <1>7 DEF IsLog
<1> QED BY <1>8 DEF t

\* LogReadable is what a log is for: the row a body is read from is its event's own.
LEMMA ReadBack ==
  ASSUME NEW s, IsLog(s), NEW p \in 1 .. Len(s.rows)
  PROVE  ReadBody(s, p) = s.rows[p].id
<1> DEFINE entry == s.rows[p]
           found == CHOOSE r \in BodyRows(s, p) : TRUE
<1>1. CASE entry.type \notin Bodied
  BY <1>1, TablesOf DEF ReadBody
<1>2. CASE entry.type \in Bodied
  <2>1. SidecarsOf(entry.type) # {}
    BY <1>2, TablesOf DEF Bodied
  <2>2. CASE entry.type = "CommandAdmitted"
    <3>1. BodyRows(s, p) = {r \in s.sidecars : r.table = "inputs" /\ r.ref = entry.ref}
      BY <2>2 DEF BodyRows, CommandInput, SidecarRow
    <3>2. PICK r \in s.sidecars : r.table = "inputs" /\ r.seq = p
      BY <2>2, TablesOf DEF IsLog
    <3>3. r.ref = entry.ref
      BY <3>2 DEF IsLog, IsStore, IsRowOf
    <3>4. BodyRows(s, p) # {}
      BY <3>1, <3>2, <3>3
    <3>5. found \in s.sidecars /\ found.table = "inputs" /\ found.ref = entry.ref
      BY <3>1, <3>4
    <3> HIDE DEF found
    <3>6. /\ found.seq \in 1 .. Len(s.rows) /\ found.ref = s.rows[found.seq].ref
          /\ found.table \in SidecarsOf(s.rows[found.seq].type)
          /\ found.body = s.rows[found.seq].id
      BY <3>5 DEF IsLog, IsStore, IsRowOf, SidecarSet
    <3>7. s.rows[found.seq].type = "CommandAdmitted"
      BY <3>5, <3>6, TablesOf
    <3>8. found.seq = p
      BY <2>2, <3>5, <3>6, <3>7 DEF IsLog
    <3>9. ReadBody(s, p) = found.body
      BY <2>1, <3>4 DEF ReadBody, found
    <3> QED BY <3>6, <3>8, <3>9
  <2>3. CASE entry.type \in {"Message", "SummaryCreated"}
    <3> DEFINE u == IF entry.type = "Message" THEN "messages" ELSE "summaries"
    <3>1. BodyRows(s, p) = {r \in s.sidecars : r.table = u /\ r.seq = p}
      BY <2>3 DEF BodyRows, MessageAt, SummaryAt
    <3>2. BodyRows(s, p) # {}
      <4>1. u \in SidecarsOf(entry.type)
        BY <2>3, TablesOf
      <4>2. PICK r \in s.sidecars : r.table = u /\ r.seq = p
        BY <4>1 DEF IsLog
      <4> QED BY <3>1, <4>2
    <3>3. found \in s.sidecars /\ found.seq = p
      BY <3>1, <3>2
    <3> HIDE DEF found
    <3>4. found.body = entry.id
      BY <3>3 DEF IsLog, IsStore, IsRowOf
    <3>5. ReadBody(s, p) = found.body
      BY <2>1, <3>2 DEF ReadBody, found
    <3> QED BY <3>4, <3>5
  <2> QED BY <1>2, <2>2, <2>3 DEF Bodied
<1> QED BY <1>1, <1>2

-----------------------------------------------------------------------------
(* A batch mints its ids in order, above those of the log: K is the last.  *)

\* What is minted for the batch is about itself, or about a command that neither the
\* log nor another event of the batch admits.
MintedFor(s, batch, e) ==
    /\ AboutItself(e)
    /\ e.type = "CommandAdmitted" =>
         /\ Unadmitted(s, e.ref)
         /\ \A j \in 1 .. Len(batch) :
              batch[j].type = "CommandAdmitted" /\ batch[j].id # e.id => batch[j].ref # e.ref

IsBatch(s, batch, K) ==
    /\ batch \in Seq(EventSet)
    /\ K \in Nat /\ Len(s.rows) <= K
    /\ \A i \in 1 .. Len(batch) : batch[i].id \in 1 .. K
    /\ \A i \in 1 .. Len(batch) : AboutItself(batch[i])
    /\ K # Len(s.rows) => \E i \in 1 .. Len(batch) : batch[i].id = K
    /\ \A i \in 1 .. Len(batch) : \A m \in Len(s.rows) + 1 .. batch[i].id :
         \E j \in 1 .. i : batch[j].id = m
    /\ \A i \in 1 .. Len(batch) : batch[i].id > Len(s.rows) => MintedFor(s, batch, batch[i])

\* The log of a transaction that has done n entries.
IsTxLog(s, batch, t, n) ==
    /\ IsLog(t)
    /\ \A j \in 1 .. n : batch[j].id <= Len(t.rows)
    /\ \A p \in Len(s.rows) + 1 .. Len(t.rows) : \E j \in 1 .. n : t.rows[p] = Fact(batch[j])

LEMMA EntryKeepsLog ==
  ASSUME NEW s, IsLog(s), NEW batch, NEW K, IsBatch(s, batch, K), NEW i \in 1 .. Len(batch),
         NEW tx, IsTransaction(s, tx, i - 1), IsTxLog(s, batch, tx.store, i - 1)
  PROVE  IsTxLog(s, batch, InsertOrRead(tx, batch[i]).store, i)
<1> DEFINE e == batch[i]
           t == tx.store
           head == Len(t.rows)
           old == SeqsOf(t, e.id)
           next == InsertOrRead(tx, e)
<1>1. /\ IsLog(t) /\ Extends(s, t)
      /\ \A j \in 1 .. i - 1 : batch[j].id <= head
      /\ \A p \in Len(s.rows) + 1 .. head : \E j \in 1 .. i - 1 : t.rows[p] = Fact(batch[j])
  BY DEF IsTransaction, IsTxLog
<1>2. /\ head \in Nat /\ DOMAIN t.rows = 1 .. head /\ Len(s.rows) \in Nat
      /\ Len(s.rows) <= head
  BY <1>1, LenProperties DEF IsLog, IsStore, Extends
<1>3. e \in EventSet /\ Len(batch) \in Nat
  BY ElementOfSeq, LenProperties DEF IsBatch
<1>4. e.id \in Nat /\ e.id >= 1
  BY <1>3 DEF IsBatch, EventSet
<1>5. tx = [store |-> t, seqs |-> tx.seqs, ok |-> tx.ok]
  BY DEF IsTransaction
<1>6. CASE e.id <= head
  <2>1. t.rows[e.id].id = e.id /\ e.id \in 1 .. head
    BY <1>1, <1>2, <1>4, <1>6 DEF IsLog
  <2>2. old # {}
    BY <1>2, <2>1 DEF SeqsOf
  <2>3. next.store = t
    BY <1>5, <2>2 DEF InsertOrRead
  <2>4. \A j \in 1 .. i : batch[j].id <= head
    BY <1>1, <1>6
  <2>5. \A p \in Len(s.rows) + 1 .. head : \E j \in 1 .. i : t.rows[p] = Fact(batch[j])
    <3> TAKE p \in Len(s.rows) + 1 .. head
    <3>1. PICK j \in 1 .. i - 1 : t.rows[p] = Fact(batch[j])
      BY <1>1
    <3> QED BY <3>1
  <2> QED BY <1>1, <2>3, <2>4, <2>5 DEF IsTxLog
<1>7. CASE ~(e.id <= head)
  <2>1. e.id = head + 1
    <3> SUFFICES ASSUME e.id # head + 1 PROVE FALSE
      OBVIOUS
    <3>1. head + 1 \in Len(s.rows) + 1 .. e.id
      BY <1>2, <1>4, <1>7
    <3>2. PICK j \in 1 .. i : batch[j].id = head + 1
      BY <3>1 DEF IsBatch
    <3>3. j \in 1 .. i - 1
      BY <3>2
    <3> QED BY <1>1, <1>2, <3>2, <3>3
  <2>2. old = {}
    BY <1>1, <1>2, <2>1 DEF SeqsOf, IsLog
  <2>3. next.store = [rows |-> Append(t.rows, Fact(e)), sidecars |-> Upserted(t, e, head + 1)]
    BY <2>2 DEF InsertOrRead
  <2>4. MintedFor(s, batch, e)
    BY <1>2, <2>1 DEF IsBatch
  <2>5. e.type = "CommandAdmitted" => Unadmitted(t, e.ref)
    <3> SUFFICES ASSUME e.type = "CommandAdmitted", NEW p \in 1 .. head,
                        t.rows[p].type = "CommandAdmitted"
                 PROVE  t.rows[p].ref # e.ref
      BY DEF Unadmitted
    <3>1. CASE p \in 1 .. Len(s.rows)
      BY <1>1, <2>4, <3>1 DEF Extends, MintedFor, Unadmitted
    <3>2. CASE p \in Len(s.rows) + 1 .. head
      <4>1. PICK j \in 1 .. i - 1 : t.rows[p] = Fact(batch[j])
        BY <1>1, <3>2
      <4>2. /\ batch[j].id = p /\ batch[j].ref = t.rows[p].ref /\ j \in 1 .. Len(batch)
            /\ batch[j].type = "CommandAdmitted"
        BY <1>1, <1>3, <4>1 DEF Fact, IsLog
      <4> QED BY <1>2, <2>1, <2>4, <4>2 DEF MintedFor
    <3> QED BY <1>2, <3>1, <3>2
  <2>6. IsLog(next.store)
    BY <1>1, <1>3, <2>1, <2>3, <2>4, <2>5, InsertedIsLog DEF MintedFor
  <2>7. /\ Len(next.store.rows) = head + 1
        /\ \A p \in 1 .. head : next.store.rows[p] = t.rows[p]
        /\ next.store.rows[head + 1] = Fact(e)
    BY <1>1, <1>3, <2>3, UpsertedIsStore DEF IsLog
  <2> HIDE DEF next
  <2>8. \A j \in 1 .. i : batch[j].id <= head + 1
    <3> TAKE j \in 1 .. i
    <3>1. CASE j = i
      BY <2>1, <3>1, <1>4
    <3>2. CASE j \in 1 .. i - 1
      <4>1. batch[j].id <= head /\ batch[j] \in EventSet
        BY <1>1, <1>3, <3>2, ElementOfSeq DEF IsBatch
      <4> QED BY <1>2, <4>1 DEF EventSet
    <3> QED BY <3>1, <3>2
  <2>9. \A p \in Len(s.rows) + 1 .. head + 1 : \E j \in 1 .. i : next.store.rows[p] = Fact(batch[j])
    <3> TAKE p \in Len(s.rows) + 1 .. head + 1
    <3>1. CASE p = head + 1
      BY <2>7, <3>1
    <3>2. CASE p \in Len(s.rows) + 1 .. head
      <4>1. PICK j \in 1 .. i - 1 : t.rows[p] = Fact(batch[j])
        BY <1>1, <3>2
      <4>2. next.store.rows[p] = t.rows[p]
        BY <1>2, <2>7, <3>2
      <4> QED BY <4>1, <4>2
    <3>3. p = head + 1 \/ p \in Len(s.rows) + 1 .. head
      BY <1>2
    <3> QED BY <3>1, <3>2, <3>3
  <2>10. IsTxLog(s, batch, next.store, i)
    BY <2>6, <2>7, <2>8, <2>9 DEF IsTxLog
  <2> QED BY <2>10 DEF next
<1> QED BY <1>6, <1>7

\* An append leaves a log that can be read.
LEMMA AppendedIsLog ==
  ASSUME NEW s, IsLog(s), NEW batch, NEW K, IsBatch(s, batch, K), Appended(s, batch).ok
  PROVE  IsLog(Appended(s, batch).store)
<1> DEFINE n == Len(batch)
           tx == Transaction(s, batch)
           Good == {k \in 0 .. n : IsTxLog(s, batch, tx[k].store, k)}
<1>1. batch \in Seq(EventSet) /\ n \in Nat
  BY LenProperties DEF IsBatch
<1>2. tx = [k \in 0 .. n |-> TxStep(s, batch, tx, k)]
  BY <1>1, TransactionUnfolds
<1>3. \A k \in 0 .. n : IsTransaction(s, tx[k], k)
  BY <1>1, TransactionDone DEF IsLog
<1>4. Appended(s, batch) = tx[n]
  BY <1>1, AppendedDone DEF IsLog
<1> HIDE DEF tx
<1>5. 0 \in Good
  <2>1. tx[0].store = s
    BY <1>1, <1>2 DEF TxStep
  <2>2. Len(s.rows) \in Nat
    BY LenProperties DEF IsLog, IsStore
  <2> QED BY <1>1, <2>1, <2>2 DEF IsTxLog
<1>6. ASSUME NEW k \in 1 .. n, k - 1 \in Good PROVE k \in Good
  <2>1. k \in 0 .. n /\ k # 0 /\ k - 1 \in 0 .. n
    BY <1>1
  <2>2. tx[k] = TxStep(s, batch, tx, k)
    BY <1>2, <2>1
  <2>3. tx[k] = InsertOrRead(tx[k - 1], batch[k])
    BY <2>1, <2>2 DEF TxStep
  <2>4. IsTxLog(s, batch, tx[k - 1].store, k - 1) /\ IsTransaction(s, tx[k - 1], k - 1)
    BY <1>3, <1>6, <2>1
  <2>5. IsTxLog(s, batch, tx[k].store, k)
    BY <2>3, <2>4, EntryKeepsLog
  <2> QED BY <2>1, <2>5
<1>7. Good = 0 .. n
  <2> HIDE DEF Good
  <2>1. Good \in SUBSET (0 .. n)
    BY DEF Good
  <2> QED BY <1>1, <1>5, <1>6, <2>1, ByFirstCounterexample
<1>8. IsTxLog(s, batch, tx[n].store, n)
  BY <1>1, <1>7
<1> QED BY <1>4, <1>8 DEF IsTxLog

-----------------------------------------------------------------------------
(* The batches of the session.                                             *)

\* No row admits a command that is named by a position past the log.
LEMMA NewIsUnadmitted ==
  ASSUME NEW s, IsLog(s), NEW n \in Nat, Len(s.rows) < n
  PROVE  Unadmitted(s, n)
<1> SUFFICES ASSUME NEW p \in 1 .. Len(s.rows), s.rows[p].type = "CommandAdmitted",
                    s.rows[p].ref = n
             PROVE  FALSE
  BY DEF Unadmitted
<1>1. s.rows[p].ref = p \/ s.rows[p].ref \in ClientIds
  BY DEF IsLog, AboutItself, Bodied
<1>2. Len(s.rows) \in Nat
  BY LenProperties DEF IsLog, IsStore
<1>3. ClientIds \cap Nat = {}
  BY BoundsAssumption DEF ClientIds
<1> QED BY <1>1, <1>2, <1>3

LEMMA EventsAreBatch ==
  ASSUME IsLog(store), NEW types \in Seq(Types)
  PROVE  IsBatch(store, Events(types), LogHead(store) + Len(types))
<1> DEFINE n == Len(types)
           head == Len(store.rows)
           batch == Events(types)
<1>1. batch \in Seq(EventSet) /\ Len(batch) = n /\ n \in Nat
  BY EventsAreEvents, LenProperties DEF IsLog
<1>2. head \in Nat /\ LogHead(store) = head
  BY LenProperties DEF IsLog, IsStore, LogHead
<1>3. ASSUME NEW i \in 1 .. n
      PROVE  /\ batch[i].id = head + i /\ batch[i].type = types[i]
             /\ types[i] # "ContextRebased" => batch[i].ref = head + i
  <2>1. DOMAIN types = 1 .. n
    BY LenProperties
  <2>2. batch[i] = [id |-> Fresh(i), type |-> types[i], key |-> None,
                    ref |-> IF types[i] = "ContextRebased" THEN Fresh(i - 1) ELSE Fresh(i)]
    BY <2>1 DEF Events
  <2> HIDE DEF batch
  <2> QED BY <1>2, <2>2 DEF Fresh
<1> HIDE DEF batch
<1>4. ASSUME NEW i \in 1 .. n PROVE MintedFor(store, batch, batch[i])
  <2>1. AboutItself(batch[i])
    BY <1>3 DEF AboutItself, Bodied
  <2>2. CASE batch[i].type = "CommandAdmitted"
    <3>1. batch[i].ref = head + i
      BY <1>3, <2>2
    <3>2. Unadmitted(store, batch[i].ref)
      BY <1>2, <3>1, NewIsUnadmitted
    <3>3. \A j \in 1 .. n : batch[j].type = "CommandAdmitted" /\ batch[j].id # batch[i].id
                              => batch[j].ref # batch[i].ref
      BY <1>2, <1>3, <3>1
    <3> QED BY <1>1, <2>1, <3>2, <3>3 DEF MintedFor
  <2>3. CASE batch[i].type # "CommandAdmitted"
    BY <2>1, <2>3 DEF MintedFor
  <2> QED BY <2>2, <2>3
<1>5. \A i \in 1 .. n : \A m \in head + 1 .. batch[i].id : \E j \in 1 .. i : batch[j].id = m
  <2> TAKE i \in 1 .. n
  <2> TAKE m \in head + 1 .. batch[i].id
  <2>1. m - head \in 1 .. i /\ m \in Int
    BY <1>2, <1>3
  <2>3. m - head \in 1 .. n
    BY <1>1, <2>1
  <2>4. batch[m - head].id = head + (m - head)
    BY <1>3, <2>3
  <2>2. batch[m - head].id = m
    BY <1>2, <2>1, <2>4
  <2> QED BY <2>1, <2>2
<1>6. head + n # head => \E i \in 1 .. n : batch[i].id = head + n
  <2> SUFFICES ASSUME head + n # head PROVE \E i \in 1 .. n : batch[i].id = head + n
    OBVIOUS
  <2>1. n \in 1 .. n
    BY <1>1, <1>2
  <2> QED BY <1>3, <2>1
<1>7. \A i \in 1 .. n : batch[i].id \in 1 .. head + n
  BY <1>1, <1>2, <1>3
<1>9. \A i \in 1 .. n : AboutItself(batch[i])
  BY <1>4 DEF MintedFor
<1>8. IsBatch(store, batch, head + n)
  <2>1. head + n \in Nat /\ head <= head + n
    BY <1>1, <1>2
  <2>2. \A i \in 1 .. n : batch[i].id > head => MintedFor(store, batch, batch[i])
    BY <1>4
  <2> QED BY <1>1, <1>5, <1>6, <1>7, <1>9, <2>1, <2>2 DEF IsBatch
<1> QED BY <1>2, <1>8 DEF batch

\* The empty batch, and a batch with one more event: a repeated one, or a new one.
LEMMA EmptyIsBatch ==
  ASSUME NEW s, IsLog(s)
  PROVE  IsBatch(s, <<>>, Len(s.rows))
<1>1. <<>> \in Seq(EventSet) /\ Len(<<>>) = 0
  BY EmptySeq
<1>2. Len(s.rows) \in Nat
  BY LenProperties DEF IsLog, IsStore
<1> QED BY <1>1, <1>2 DEF IsBatch

LEMMA RepeatedIsBatch ==
  ASSUME NEW s, IsLog(s), NEW batch, NEW K, IsBatch(s, batch, K), NEW e \in EventSet,
         \/ \E i \in 1 .. Len(batch) : e = batch[i]
         \/ \E p \in 1 .. Len(s.rows) : Fact(e) = s.rows[p]
  PROVE  IsBatch(s, Append(batch, e), K)
<1> DEFINE n == Len(batch)
           head == Len(s.rows)
           more == Append(batch, e)
<1>1. /\ batch \in Seq(EventSet) /\ n \in Nat /\ K \in Nat /\ head \in Nat /\ head <= K
  BY LenProperties DEF IsBatch, IsLog, IsStore
<1>2. /\ more \in Seq(EventSet) /\ Len(more) = n + 1
      /\ \A i \in 1 .. n : more[i] = batch[i]
      /\ more[n + 1] = e
  BY <1>1, AppendProperties
<1> HIDE DEF more
<1>3. \/ \E i \in 1 .. n : e = batch[i]
      \/ e.id \in 1 .. head /\ e.id \in Nat /\ (e.type = "CommandAdmitted" =>
           s.rows[e.id].type = "CommandAdmitted" /\ s.rows[e.id].ref = e.ref)
  <2>1. ASSUME NEW p \in 1 .. head, Fact(e) = s.rows[p]
        PROVE  e.id = p /\ s.rows[p].type = e.type /\ s.rows[p].ref = e.ref
    BY <2>1 DEF IsLog, Fact
  <2> QED BY <1>1, <2>1
<1>4. e.id \in 1 .. K
  <2>1. CASE \E i \in 1 .. n : e = batch[i]
    BY <2>1 DEF IsBatch
  <2>2. CASE e.id \in 1 .. head
    BY <1>1, <2>2
  <2> QED BY <1>3, <2>1, <2>2
<1>5. \A i \in 1 .. n + 1 : more[i].id \in 1 .. K
  <2> TAKE i \in 1 .. n + 1
  <2>1. CASE i = n + 1
    BY <1>2, <1>4, <2>1
  <2>2. CASE i \in 1 .. n
    BY <1>2, <2>2 DEF IsBatch
  <2> QED BY <1>1, <2>1, <2>2
<1>6. \A i \in 1 .. n + 1 : \A m \in head + 1 .. more[i].id : \E j \in 1 .. i : more[j].id = m
  <2> TAKE i \in 1 .. n + 1
  <2> TAKE m \in head + 1 .. more[i].id
  <2>1. CASE i \in 1 .. n
    <3>1. PICK j \in 1 .. i : batch[j].id = m
      BY <1>2, <2>1 DEF IsBatch
    <3> QED BY <1>1, <1>2, <2>1, <3>1, SMTT(30)
  <2>2. CASE i = n + 1
    <3>1. PICK k \in 1 .. n : e = batch[k]
      BY <1>1, <1>2, <1>3, <2>2
    <3>2. m \in head + 1 .. batch[k].id
      BY <1>2, <2>2, <3>1
    <3>3. PICK j \in 1 .. k : batch[j].id = m
      BY <3>1, <3>2 DEF IsBatch
    <3>4. j \in 1 .. n /\ j \in 1 .. i
      BY <1>1, <2>2, <3>1, <3>3
    <3> QED BY <1>2, <3>3, <3>4
  <2> QED BY <1>1, <2>1, <2>2
<1>7. ASSUME NEW i \in 1 .. n, batch[i].id > head
      PROVE  MintedFor(s, more, batch[i])
  <2>1. MintedFor(s, batch, batch[i])
    BY <1>7 DEF IsBatch
  <2> SUFFICES ASSUME batch[i].type = "CommandAdmitted", NEW j \in 1 .. n + 1,
                      more[j].type = "CommandAdmitted", more[j].id # batch[i].id
               PROVE  more[j].ref # batch[i].ref
    BY <1>2, <2>1 DEF MintedFor
  <2>2. CASE j \in 1 .. n
    BY <1>2, <2>1, <2>2 DEF MintedFor
  <2>3. CASE j = n + 1
    <3>1. CASE \E k \in 1 .. n : e = batch[k]
      BY <1>2, <2>1, <2>3, <3>1 DEF MintedFor
    <3>2. CASE e.id \in 1 .. head /\ s.rows[e.id].type = "CommandAdmitted" /\ s.rows[e.id].ref = e.ref
      BY <1>2, <2>1, <2>3, <3>2 DEF MintedFor, Unadmitted
    <3> QED BY <1>2, <1>3, <2>3, <3>1, <3>2
  <2> QED BY <1>1, <2>2, <2>3
<1>8. \A i \in 1 .. n + 1 : more[i].id > head => MintedFor(s, more, more[i])
  <2> TAKE i \in 1 .. n + 1
  <2> HAVE more[i].id > head
  <2>1. CASE i \in 1 .. n
    BY <1>2, <1>7, <2>1
  <2>2. CASE i = n + 1
    <3>1. PICK k \in 1 .. n : e = batch[k]
      BY <1>1, <1>2, <1>3, <2>2
    <3> QED BY <1>2, <1>7, <2>2, <3>1
  <2> QED BY <1>1, <2>1, <2>2
<1>11. AboutItself(e)
  <2>1. ASSUME NEW p \in 1 .. head, Fact(e) = s.rows[p] PROVE AboutItself(e)
    <3>1. AboutItself(s.rows[p])
      BY <2>1 DEF IsLog
    <3>2. e.id = s.rows[p].id /\ e.type = s.rows[p].type /\ e.ref = s.rows[p].ref
      BY <2>1 DEF Fact
    <3> QED BY <3>1, <3>2 DEF AboutItself
  <2> QED BY <2>1 DEF IsBatch
<1>12. \A i \in 1 .. n + 1 : AboutItself(more[i])
  <2> TAKE i \in 1 .. n + 1
  <2>1. CASE i \in 1 .. n
    BY <1>2, <2>1 DEF IsBatch
  <2>2. CASE i = n + 1
    BY <1>2, <1>11, <2>2
  <2> QED BY <1>1, <2>1, <2>2
<1>9. K # head => \E i \in 1 .. n + 1 : more[i].id = K
  <2> SUFFICES ASSUME K # head PROVE \E i \in 1 .. n + 1 : more[i].id = K
    OBVIOUS
  <2>1. PICK i \in 1 .. n : batch[i].id = K
    BY DEF IsBatch
  <2> QED BY <1>1, <1>2, <2>1
<1>10. IsBatch(s, more, K)
  BY <1>1, <1>2, <1>5, <1>6, <1>8, <1>9, <1>12 DEF IsBatch
<1> QED BY <1>10 DEF more

LEMMA MintedIsBatch ==
  ASSUME NEW s, IsLog(s), NEW batch, NEW K, IsBatch(s, batch, K), NEW e \in EventSet,
         e.id = K + 1, AboutItself(e),
         e.type = "CommandAdmitted" =>
           /\ Unadmitted(s, e.ref)
           /\ \A j \in 1 .. Len(batch) :
                batch[j].type = "CommandAdmitted" => batch[j].ref # e.ref
  PROVE  IsBatch(s, Append(batch, e), K + 1)
<1> DEFINE n == Len(batch)
           head == Len(s.rows)
           more == Append(batch, e)
<1>1. /\ batch \in Seq(EventSet) /\ n \in Nat /\ K \in Nat /\ head \in Nat /\ head <= K
  BY LenProperties DEF IsBatch, IsLog, IsStore
<1>2. /\ more \in Seq(EventSet) /\ Len(more) = n + 1
      /\ \A i \in 1 .. n : more[i] = batch[i]
      /\ more[n + 1] = e
  BY <1>1, AppendProperties
<1> HIDE DEF more
<1>3. \A i \in 1 .. n : batch[i].id \in 1 .. K
  BY DEF IsBatch
<1>4. \A i \in 1 .. n + 1 : more[i].id \in 1 .. K + 1
  <2> TAKE i \in 1 .. n + 1
  <2>1. CASE i = n + 1
    BY <1>1, <1>2, <2>1
  <2>2. CASE i \in 1 .. n
    BY <1>1, <1>2, <1>3, <2>2
  <2> QED BY <1>1, <2>1, <2>2
<1>5. \A i \in 1 .. n + 1 : \A m \in head + 1 .. more[i].id : \E j \in 1 .. i : more[j].id = m
  <2> TAKE i \in 1 .. n + 1
  <2> TAKE m \in head + 1 .. more[i].id
  <2>1. CASE i \in 1 .. n
    <3>1. PICK j \in 1 .. i : batch[j].id = m
      BY <1>2, <2>1 DEF IsBatch
    <3> QED BY <1>1, <1>2, <2>1, <3>1
  <2>2. CASE i = n + 1 /\ m = K + 1
    BY <1>1, <1>2, <2>2
  <2>3. CASE i = n + 1 /\ m # K + 1
    <3>1. m \in head + 1 .. K
      BY <1>1, <1>2, <2>3
    <3>2. PICK k \in 1 .. n : batch[k].id = K
      BY <1>1, <3>1 DEF IsBatch
    <3>3. PICK j \in 1 .. k : batch[j].id = m
      BY <3>1, <3>2 DEF IsBatch
    <3>4. j \in 1 .. n /\ j \in 1 .. i
      BY <1>1, <2>3, <3>2, <3>3
    <3> QED BY <1>2, <3>3, <3>4
  <2> QED BY <1>1, <2>1, <2>2, <2>3
<1>6. ASSUME NEW i \in 1 .. n, batch[i].id > head
      PROVE  MintedFor(s, more, batch[i])
  <2>1. MintedFor(s, batch, batch[i])
    BY <1>6 DEF IsBatch
  <2> SUFFICES ASSUME batch[i].type = "CommandAdmitted", NEW j \in 1 .. n + 1,
                      more[j].type = "CommandAdmitted", more[j].id # batch[i].id
               PROVE  more[j].ref # batch[i].ref
    BY <1>2, <2>1 DEF MintedFor
  <2>2. CASE j \in 1 .. n
    BY <1>2, <2>1, <2>2 DEF MintedFor
  <2>3. CASE j = n + 1
    BY <1>2, <2>3
  <2> QED BY <1>1, <2>2, <2>3
<1>7. MintedFor(s, more, e)
  <2>1. ASSUME e.type = "CommandAdmitted", NEW j \in 1 .. n + 1,
               more[j].type = "CommandAdmitted", more[j].id # e.id
        PROVE  more[j].ref # e.ref
    <3>1. j \in 1 .. n
      BY <1>1, <1>2, <2>1
    <3> QED BY <1>2, <2>1, <3>1
  <2> QED BY <1>2, <2>1 DEF MintedFor
<1>8. \A i \in 1 .. n + 1 : more[i].id > head => MintedFor(s, more, more[i])
  <2> TAKE i \in 1 .. n + 1
  <2> HAVE more[i].id > head
  <2>1. CASE i \in 1 .. n
    BY <1>2, <1>6, <2>1
  <2>2. CASE i = n + 1
    BY <1>2, <1>7, <2>2
  <2> QED BY <1>1, <2>1, <2>2
<1>9. \E i \in 1 .. n + 1 : more[i].id = K + 1
  BY <1>1, <1>2
<1>12. \A i \in 1 .. n + 1 : AboutItself(more[i])
  <2> TAKE i \in 1 .. n + 1
  <2>1. CASE i \in 1 .. n
    BY <1>2, <2>1 DEF IsBatch
  <2>2. CASE i = n + 1
    BY <1>2, <2>2
  <2> QED BY <1>1, <2>1, <2>2
<1>10. IsBatch(s, more, K + 1)
  BY <1>1, <1>2, <1>4, <1>5, <1>8, <1>9, <1>12 DEF IsBatch
<1> QED BY <1>10 DEF more

\* The id of a new admission is the next of the batch.
LEMMA NextId ==
  ASSUME NEW s, IsLog(s), NEW batch, NEW K, IsBatch(s, batch, K)
  PROVE  Max({LogHead(s)} \cup {e.id : e \in ToSet(batch)}) = K
<1> DEFINE n == Len(batch)
           head == Len(s.rows)
           S == {LogHead(s)} \cup {e.id : e \in ToSet(batch)}
<1>1. batch \in Seq(EventSet) /\ n \in Nat /\ K \in Nat /\ head \in Nat /\ head <= K
  BY LenProperties DEF IsBatch, IsLog, IsStore
<1>2. DOMAIN batch = 1 .. n /\ ToSet(batch) = {batch[i] : i \in 1 .. n}
  BY <1>1, LenProperties DEF ToSet
<1>3. S = {head} \cup {batch[i].id : i \in 1 .. n}
  BY <1>2 DEF LogHead
<1> HIDE DEF S
<1>4. K \in S
  BY <1>3 DEF IsBatch
<1>7. \A i \in 1 .. n : batch[i].id \in Nat /\ K >= batch[i].id
  BY <1>1 DEF IsBatch
<1>5. \A y \in S : y \in Nat /\ K >= y
  BY <1>1, <1>3, <1>7
<1>6. Max(S) \in S /\ \A y \in S : Max(S) >= y
  BY <1>4, <1>5 DEF Max
<1>9. Max(S) >= K /\ K >= Max(S) /\ Max(S) \in Nat
  BY <1>4, <1>5, <1>6
<1>8. Max(S) = K
  BY <1>1, <1>9
<1> QED BY <1>8 DEF S

LEMMA PreparedIsBatch ==
  ASSUME IsLog(store), NEW batch, NEW K, IsBatch(store, batch, K), NEW command \in Commands
  PROVE  Prepared(batch, command) # <<>> /\ \E J : IsBatch(store, Prepared(batch, command), J)
<1> DEFINE key == {e \in ToSet(batch) : command.key # None /\ e.key = command.key}
           id  == {e \in ToSet(batch) : command.id # None /\ e.ref = command.id}
           old == FindAdmission(store, command)
           n   == Max({LogHead(store)} \cup {e.id : e \in ToSet(batch)}) + 1
           twin == IF key # {} THEN CHOOSE e \in key : TRUE ELSE CHOOSE e \in id : TRUE
           admitted == [id |-> n, type |-> "CommandAdmitted", key |-> command.key,
                        ref |-> IF command.id = None THEN n ELSE command.id]
           submitted == [id |-> n + 1, type |-> "UserMessageSubmitted", ref |-> n + 1, key |-> None]
<1>1. /\ batch \in Seq(EventSet) /\ K \in Nat /\ Len(store.rows) \in Nat /\ Len(store.rows) <= K
      /\ Len(batch) \in Nat
  BY LenProperties DEF IsBatch, IsLog, IsStore
<1>2. ToSet(batch) = {batch[i] : i \in 1 .. Len(batch)}
  BY <1>1, LenProperties DEF ToSet
<1>3. \A i \in 1 .. Len(batch) : batch[i] \in EventSet
  BY <1>1, ElementOfSeq
<1>4. CASE key \cup id # {}
  <2>1. twin \in key \cup id
    BY <1>4
  <2>2. twin \in ToSet(batch)
    BY <2>1
  <2>3. Prepared(batch, command) = Append(batch, twin)
    BY <1>4 DEF Prepared
  <2> HIDE DEF twin
  <2>4. twin \in EventSet /\ \E i \in 1 .. Len(batch) : twin = batch[i]
    BY <1>2, <1>3, <2>2
  <2>5. IsBatch(store, Append(batch, twin), K)
    BY <2>4, RepeatedIsBatch
  <2>6. Append(batch, twin) # <<>>
    BY <1>1, <2>4, AppendProperties
  <2> QED BY <2>3, <2>5, <2>6
<1>5. CASE key \cup id = {} /\ old # None
  <2> DEFINE again == AdmissionAt(store, old)
  <2>1. Prepared(batch, command) = Append(batch, again)
    BY <1>5 DEF Prepared
  <2>2. old \in 1 .. Len(store.rows) /\ again \in EventSet /\ Fact(again) = store.rows[old]
    BY <1>5, FoundIsAdmission DEF IsLog, LogHead
  <2> HIDE DEF again, old
  <2>3. IsBatch(store, Append(batch, again), K)
    BY <2>2, RepeatedIsBatch
  <2>4. Append(batch, again) # <<>>
    BY <1>1, <2>2, AppendProperties
  <2> QED BY <2>1, <2>3, <2>4
<1>6. CASE key \cup id = {} /\ old = None
  <2>1. n = K + 1
    BY NextId
  <2> HIDE DEF n
  <2>2. command.id \notin Nat /\ command.id \in Refs /\ command.key \in Keys /\ command.submits \in BOOLEAN
    BY BoundsAssumption DEF Refs, Keys
  <2>3. admitted \in EventSet
    BY <1>1, <2>1, <2>2 DEF EventSet, Refs, Types
  <2>4. AboutItself(admitted)
    BY DEF AboutItself, ClientIds
  <2>5. Unadmitted(store, admitted.ref)
    <3>1. CASE command.id = None
      BY <1>1, <2>1, <3>1, NewIsUnadmitted
    <3>2. CASE command.id # None
      <4> SUFFICES ASSUME NEW p \in 1 .. Len(store.rows), store.rows[p].type = "CommandAdmitted",
                          store.rows[p].ref = command.id
                   PROVE  FALSE
        BY <3>2 DEF Unadmitted
      <4>1. PICK r \in store.sidecars : r.table = "state" /\ r.seq = p
        BY TablesOf DEF IsLog
      <4>2. r.ref = command.id
        BY <4>1 DEF IsLog, IsStore, IsRowOf
      <4> DEFINE byKey == {q \in {q \in store.sidecars : q.table = "state"} :
                              command.key # None /\ q.key = command.key}
                 byId == {q \in {q \in store.sidecars : q.table = "state"} :
                             command.id # None /\ q.ref = command.id}
                 rows == IF byKey # {} THEN byKey ELSE byId
                 found == CHOOSE q \in rows : TRUE
      <4>3. rows # {}
        BY <3>2, <4>1, <4>2
      <4>4. found \in store.sidecars
        BY <4>3
      <4>5. found.seq \in Nat
        BY <4>4 DEF IsLog, IsStore, SidecarSet
      <4>6. old = found.seq
        BY <4>3 DEF FindAdmission
      <4> QED BY <1>6, <4>5, <4>6, NoneAssumption
    <3> QED BY <3>1, <3>2
  <2>6. \A j \in 1 .. Len(batch) : batch[j].type = "CommandAdmitted" => batch[j].ref # admitted.ref
    <3> TAKE j \in 1 .. Len(batch)
    <3> HAVE batch[j].type = "CommandAdmitted"
    <3>1. CASE command.id # None
      BY <1>2, <1>6, <3>1
    <3>2. CASE command.id = None
      <4>1. batch[j].id \in 1 .. K
        BY DEF IsBatch
      <4>2. batch[j].ref = batch[j].id \/ batch[j].ref \in ClientIds
        BY DEF IsBatch, AboutItself, Bodied
      <4>3. K + 1 \notin ClientIds
        BY <1>1, BoundsAssumption DEF ClientIds
      <4> QED BY <1>1, <2>1, <3>2, <4>1, <4>2, <4>3
    <3> QED BY <3>1, <3>2
  <2>7. admitted.id = K + 1
    BY <2>1
  <2>8. submitted \in EventSet /\ submitted.id = K + 2 /\ AboutItself(submitted)
        /\ submitted.type # "CommandAdmitted"
    BY <1>1, <2>1 DEF EventSet, Refs, Keys, Types, AboutItself, Bodied
  <2>9. Prepared(batch, command)
          = Append(batch, admitted) \o (IF command.submits THEN <<submitted>> ELSE <<>>)
    BY <1>6 DEF Prepared, n
  <2> HIDE DEF admitted, submitted, key, id, old
  <2>10. IsBatch(store, Append(batch, admitted), K + 1)
    BY <2>3, <2>4, <2>5, <2>6, <2>7, MintedIsBatch
  <2> DEFINE more == Append(batch, admitted)
  <2>11. more \in Seq(EventSet) /\ more # <<>>
    BY <1>1, <2>3, AppendProperties
  <2> HIDE DEF more
  <2>12. CASE command.submits
    <3>1. IsBatch(store, Append(more, submitted), K + 2)
      <4>1. submitted.id = (K + 1) + 1 /\ (K + 1) + 1 = K + 2
        BY <1>1, <2>8
      <4>2. IsBatch(store, Append(more, submitted), (K + 1) + 1)
        BY <2>8, <2>10, <4>1, MintedIsBatch DEF more
      <4> QED BY <4>1, <4>2
    <3>2. Append(more, submitted) = more \o <<submitted>>
      BY <2>8, <2>11, AppendIsConcat
    <3>3. Append(more, submitted) # <<>>
      BY <2>8, <2>11, AppendProperties
    <3> QED BY <2>9, <2>12, <3>1, <3>2, <3>3 DEF more
  <2>13. CASE ~command.submits
    <3>1. more \o <<>> = more
      BY <2>11, ConcatEmptySeq
    <3> QED BY <2>9, <2>10, <2>11, <2>13, <3>1 DEF more
  <2> QED BY <2>12, <2>13
<1> QED BY <1>4, <1>5, <1>6

PrepStep(commands, f, i) == IF i = 0 THEN <<>> ELSE Prepared(f[i - 1], commands[i])

LEMMA PreparationUnfolds ==
  ASSUME NEW commands, Len(commands) \in Nat
  PROVE  Preparation(commands)
           = [i \in 0 .. Len(commands) |-> PrepStep(commands, Preparation(commands), i)]
<1> DEFINE n == Len(commands)
           Runs(f, k) == f = [i \in 0 .. k |-> PrepStep(commands, f, i)]
           Good == {k \in 0 .. n : \E f : Runs(f, k)}
<1>1. 0 \in Good
  <2>1. Runs([i \in 0 .. 0 |-> <<>>], 0)
    BY DEF PrepStep
  <2> QED BY <2>1
<1>2. ASSUME NEW i \in 1 .. n, i - 1 \in Good PROVE i \in Good
  <2>1. PICK f : Runs(f, i - 1)
    BY <1>2
  <2> DEFINE g == [j \in 0 .. i |-> IF j < i THEN f[j] ELSE Prepared(f[i - 1], commands[i])]
  <2>2. \A j \in 0 .. i : g[j] = PrepStep(commands, g, j)
    <3> TAKE j \in 0 .. i
    <3>1. CASE j = 0
      BY <2>1, <3>1 DEF PrepStep
    <3>2. CASE j \in 1 .. i - 1
      <4>1. g[j] = f[j] /\ g[j - 1] = f[j - 1]
        BY <3>2
      <4>2. f[j] = PrepStep(commands, f, j)
        BY <2>1, <3>2
      <4> QED BY <3>2, <4>1, <4>2 DEF PrepStep
    <3>3. CASE j = i
      <4>1. g[i] = Prepared(f[i - 1], commands[i]) /\ g[i - 1] = f[i - 1]
        OBVIOUS
      <4> QED BY <3>3, <4>1 DEF PrepStep
    <3> QED BY <3>1, <3>2, <3>3
  <2>3. Runs(g, i)
    BY <2>2
  <2> HIDE DEF g, Runs
  <2>4. \E g2 : Runs(g2, i)
    BY <2>3
  <2> QED BY <2>4
<1>3. Good = 0 .. n
  <2> HIDE DEF Good
  <2>1. Good \in SUBSET (0 .. n)
    BY DEF Good
  <2> QED BY <1>1, <1>2, <2>1, ByFirstCounterexample
<1>4. \E f : Runs(f, n)
  BY <1>3
<1>5. Preparation(commands) = CHOOSE f : Runs(f, n)
  BY DEF Preparation, PrepStep
<1> QED BY <1>4, <1>5

LEMMA AdmissionsAreBatch ==
  ASSUME IsLog(store), NEW commands \in Submissions
  PROVE  Admissions(commands) # <<>> /\ \E K : IsBatch(store, Admissions(commands), K)
<1> DEFINE n == Len(commands)
           prep == Preparation(commands)
           Good == {k \in 0 .. n : /\ k # 0 => prep[k] # <<>>
                                   /\ \E K : IsBatch(store, prep[k], K)}
<1>1. commands \in Seq(Commands) /\ commands # <<>>
  BY BoundsAssumption
<1>2. n \in Nat /\ n # 0
  BY <1>1, LenProperties, EmptySeq
<1>3. prep = [k \in 0 .. n |-> PrepStep(commands, prep, k)]
  BY <1>2, PreparationUnfolds
<1>4. \A k \in 1 .. n : commands[k] \in Commands
  BY <1>1, ElementOfSeq
<1> HIDE DEF prep
<1>5. 0 \in Good
  <2>1. prep[0] = <<>>
    BY <1>2, <1>3 DEF PrepStep
  <2>2. IsBatch(store, prep[0], Len(store.rows))
    BY <2>1, EmptyIsBatch
  <2> QED BY <1>2, <2>2
<1>6. ASSUME NEW k \in 1 .. n, k - 1 \in Good PROVE k \in Good
  <2>1. k \in 0 .. n /\ k # 0
    BY <1>2
  <2>2. prep[k] = PrepStep(commands, prep, k)
    BY <1>3, <2>1
  <2>3. prep[k] = Prepared(prep[k - 1], commands[k])
    BY <2>1, <2>2 DEF PrepStep
  <2>4. PICK K : IsBatch(store, prep[k - 1], K)
    BY <1>6
  <2>5. prep[k] # <<>> /\ \E J : IsBatch(store, prep[k], J)
    BY <1>4, <2>3, <2>4, PreparedIsBatch
  <2> QED BY <2>1, <2>5
<1>7. Good = 0 .. n
  <2> HIDE DEF Good
  <2>1. Good \in SUBSET (0 .. n)
    BY DEF Good
  <2> QED BY <1>2, <1>5, <1>6, <2>1, ByFirstCounterexample
<1>8. n \in Good
  BY <1>2, <1>7
<1> QED BY <1>2, <1>8 DEF Admissions, prep

-----------------------------------------------------------------------------
(* An interval in order. *)

LEMMA SortedInterval ==
  ASSUME NEW a \in Nat, NEW b \in Nat, a <= b
  PROVE  Sorted(a + 1 .. b, <) = [i \in 1 .. b - a |-> a + i]
<1> DEFINE S == a + 1 .. b
<1>4. \A lo, hi \in Int : Cardinality(lo .. hi) = IF lo > hi THEN 0 ELSE hi - lo + 1
  BY FS_Interval
<1>1. Cardinality(S) = b - a
  <2>1. a + 1 \in Int /\ b \in Int
    OBVIOUS
  <2>2. Cardinality(a + 1 .. b) = IF a + 1 > b THEN 0 ELSE b - (a + 1) + 1
    BY <1>4, <2>1
  <2> QED BY <2>2
<1>2. ASSUME NEW x \in S PROVE Cardinality({y \in S : y < x}) = x - a - 1
  <2>1. {y \in S : y < x} = a + 1 .. x - 1
    OBVIOUS
  <2>2. a + 1 \in Int /\ x - 1 \in Int
    OBVIOUS
  <2>3. Cardinality(a + 1 .. x - 1) = IF a + 1 > x - 1 THEN 0 ELSE (x - 1) - (a + 1) + 1
    BY <1>4, <2>2
  <2>4. Cardinality(a + 1 .. x - 1) = x - a - 1
    BY <2>3
  <2> QED BY <2>1, <2>4
<1>3. ASSUME NEW i \in 1 .. b - a
      PROVE  (CHOOSE x \in S : Cardinality({y \in S : y < x}) = i - 1) = a + i
  <2>1. a + i \in S
    OBVIOUS
  <2>2. Cardinality({y \in S : y < a + i}) = i - 1
    BY <1>2, <2>1
  <2>3. \A x \in S : Cardinality({y \in S : y < x}) = i - 1 => x = a + i
    BY <1>2
  <2> QED BY <2>1, <2>2, <2>3
<1> QED BY <1>1, <1>3 DEF Sorted

-----------------------------------------------------------------------------
(* The invariant.  An event is its position, so that a fold of the log is a *)
(* count.                                                                  *)

Count(k) == [i \in 1 .. k |-> i]

MemType == [up : BOOLEAN, fatal : BOOLEAN, folded : [Names -> Seq(Nat)], anchor : Nat, sub : Nat]
Position == Nat \X Nat
GateType ==
    {Free}
    \cup [at : {"committed"}, seqs : SUBSET Nat]
    \cup {g \in [at : {"publishing"}, half : BOOLEAN, todo : Seq(Position), last : Position] :
            g.half => g.todo # <<>>}
CheckpointType == [version : Nat, through : Nat, folded : Seq(Nat)]

\* What is durable: the log, and checkpoints that are folds of it.
Durable ==
    /\ IsLog(store)
    /\ version \in [Names -> Nat]
    /\ checkpoints \in [Names -> CheckpointType]
    /\ \A n \in Names : /\ checkpoints[n].through <= LogHead(store)
                        /\ checkpoints[n].folded = Count(checkpoints[n].through)

\* What the process folded, and is about to fold or to save.
Folded ==
    /\ mem \in MemType /\ gate \in GateType
    /\ LastSeq <= LogHead(store)
    /\ \A n \in Names : mem.folded[n] = Count(LastSeq)
    /\ snapshot # Nothing =>
         \E k \in 0 .. LogHead(store) : snapshot = [n \in Names |-> Count(k)]
    /\ ~mem.up \/ mem.fatal => gate = Free
    /\ gate.at = "committed" =>
         /\ gate.seqs \subseteq 1 .. LogHead(store)
         /\ LastSeq + 1 .. LogHead(store) \subseteq gate.seqs
    /\ gate.at # "committed" /\ Live => LastSeq = LogHead(store)

LogInvariant == Durable /\ Folded

LEMMA CountIsSeq ==
  ASSUME NEW k \in Nat
  PROVE  Count(k) \in Seq(Nat) /\ Len(Count(k)) = k
<1>1. Count(k) \in [1 .. k -> Nat]
  BY DEF Count
<1>2. Count(k) \in Seq(Nat)
  BY <1>1, SeqDef
<1>3. Len(Count(k)) \in Nat /\ DOMAIN Count(k) = 1 .. Len(Count(k)) /\ DOMAIN Count(k) = 1 .. k
  BY <1>1, <1>2, LenProperties
<1>4. ASSUME NEW n \in Nat, 1 .. n = 1 .. k PROVE n = k
  <2>1. CASE n < k
    <3>1. k \in 1 .. k /\ k \notin 1 .. n
      BY <2>1
    <3> QED BY <1>4, <3>1
  <2>2. CASE k < n
    <3>1. n \in 1 .. n /\ n \notin 1 .. k
      BY <2>2
    <3> QED BY <1>4, <3>1
  <2> QED BY <2>1, <2>2
<1> QED BY <1>2, <1>3, <1>4

\* Any part of a count goes on from its first number.
LEMMA CountPart ==
  ASSUME NEW a \in Nat, NEW b \in Nat, NEW c \in Nat, a <= b, b <= c
  PROVE  SubSeq(Count(c), a + 1, b) = [i \in 1 .. b - a |-> a + i]
<1> DEFINE rest == [i \in 1 .. b - a |-> a + i]
<1>1. rest \in Seq(Nat) /\ Len(rest) = b - a
  <2>1. rest \in [1 .. b - a -> Nat] /\ b - a \in Nat
    OBVIOUS
  <2>2. rest \in Seq(Nat)
    BY <2>1, SeqDef
  <2>3. Len(rest) \in Nat /\ DOMAIN rest = 1 .. Len(rest)
    BY <2>2, LenProperties
  <2> QED BY <2>1, <2>2, <2>3
<1>2. \A i \in a + 1 .. b : Count(c)[i] = i
  BY DEF Count
<1>3. /\ SubSeq(Count(c), a + 1, b) \in Seq(Nat)
      /\ Len(SubSeq(Count(c), a + 1, b)) = b - a
      /\ \A i \in 1 .. b - a : SubSeq(Count(c), a + 1, b)[i] = Count(c)[a + i]
  <2>1. \A i \in a + 1 .. b : Count(c)[i] \in Nat
    BY <1>2
  <2>2. /\ SubSeq(Count(c), a + 1, b) \in Seq(Nat)
        /\ Len(SubSeq(Count(c), a + 1, b)) = IF a + 1 <= b THEN b - (a + 1) + 1 ELSE 0
        /\ \A i \in 1 .. b - (a + 1) + 1 :
             SubSeq(Count(c), a + 1, b)[i] = Count(c)[(a + 1) + i - 1]
    BY <2>1, SubSeqProperties
  <2>3. /\ b - (a + 1) + 1 = b - a
        /\ (IF a + 1 <= b THEN b - (a + 1) + 1 ELSE 0) = b - a
    OBVIOUS
  <2>4. Len(SubSeq(Count(c), a + 1, b)) = b - a
    BY ONLY <2>2, <2>3
  <2>5. ASSUME NEW i \in 1 .. b - a
        PROVE  SubSeq(Count(c), a + 1, b)[i] = Count(c)[a + i]
    <3>1. (a + 1) + i - 1 = a + i /\ i \in 1 .. b - (a + 1) + 1
      OBVIOUS
    <3>2. SubSeq(Count(c), a + 1, b)[i] = Count(c)[(a + 1) + i - 1]
      BY ONLY <2>2, <3>1
    <3> QED BY ONLY <3>1, <3>2
  <2> QED BY ONLY <2>2, <2>4, <2>5
<1>4. \A i \in 1 .. b - a : SubSeq(Count(c), a + 1, b)[i] = rest[i]
  BY <1>2, <1>3
<1> QED BY <1>1, <1>3, <1>4, SeqEqual

\* A count goes on where it stopped.
LEMMA CountGoesOn ==
  ASSUME NEW a \in Nat, NEW b \in Nat, a <= b
  PROVE  /\ Count(a) \o [i \in 1 .. b - a |-> a + i] = Count(b)
         /\ SubSeq(Count(b), a + 1, b) = [i \in 1 .. b - a |-> a + i]
         /\ SubSeq(Count(b), 1, a) = Count(a)
<1> DEFINE rest == [i \in 1 .. b - a |-> a + i]
<1>1. Count(a) \in Seq(Nat) /\ Len(Count(a)) = a /\ Count(b) \in Seq(Nat) /\ Len(Count(b)) = b
  BY CountIsSeq
<1>2. rest \in Seq(Nat) /\ Len(rest) = b - a
  <2>1. rest \in [1 .. b - a -> Nat] /\ b - a \in Nat
    OBVIOUS
  <2>2. rest \in Seq(Nat)
    BY <2>1, SeqDef
  <2>3. Len(rest) \in Nat /\ DOMAIN rest = 1 .. Len(rest)
    BY <2>2, LenProperties
  <2> QED BY <2>1, <2>2, <2>3
<1>3. /\ Count(a) \o rest \in Seq(Nat) /\ Len(Count(a) \o rest) = b
      /\ \A i \in 1 .. b : (Count(a) \o rest)[i] = IF i <= a THEN Count(a)[i] ELSE rest[i - a]
  <2> HIDE DEF rest
  <2>1. /\ Count(a) \o rest \in Seq(Nat)
        /\ Len(Count(a) \o rest) = Len(Count(a)) + Len(rest)
        /\ \A i \in 1 .. Len(Count(a)) + Len(rest) :
             (Count(a) \o rest)[i] = IF i <= Len(Count(a)) THEN Count(a)[i] ELSE rest[i - Len(Count(a))]
    BY <1>1, <1>2, ConcatProperties
  <2>2. Len(Count(a)) + Len(rest) = b
    BY <1>1, <1>2
  <2> QED BY <1>1, <2>1, <2>2
<1>4. \A i \in 1 .. b : (Count(a) \o rest)[i] = Count(b)[i]
  <2> TAKE i \in 1 .. b
  <2>1. CASE i <= a
    BY <1>3, <2>1 DEF Count
  <2>2. CASE ~(i <= a)
    BY <1>3, <2>2 DEF Count
  <2> QED BY <2>1, <2>2
<1>5. Count(a) \o rest = Count(b)
  BY <1>1, <1>3, <1>4, SeqEqual
<1>6. SubSeq(Count(b), a + 1, b) = rest
  BY CountPart
<1>7. SubSeq(Count(b), 1, a) = Count(a)
  <2>1. \A i \in 1 .. a : Count(b)[i] = i
    BY DEF Count
  <2>2. /\ SubSeq(Count(b), 1, a) \in Seq(Nat)
        /\ Len(SubSeq(Count(b), 1, a)) = a
        /\ \A i \in 1 .. a : SubSeq(Count(b), 1, a)[i] = Count(b)[i]
    <3>1. \A i \in 1 .. a : Count(b)[i] \in Nat
      BY <2>1
    <3>2. /\ SubSeq(Count(b), 1, a) \in Seq(Nat)
          /\ Len(SubSeq(Count(b), 1, a)) = IF 1 <= a THEN a - 1 + 1 ELSE 0
          /\ \A i \in 1 .. a - 1 + 1 : SubSeq(Count(b), 1, a)[i] = Count(b)[1 + i - 1]
      BY <3>1, SubSeqProperties
    <3> QED BY <3>2
  <2>3. \A i \in 1 .. a : SubSeq(Count(b), 1, a)[i] = Count(a)[i]
    BY <2>1, <2>2 DEF Count
  <2> QED BY <1>1, <2>2, <2>3, SeqEqual
<1> QED BY <1>5, <1>6, <1>7

LEMMA IdsAreCount ==
  ASSUME IsLog(store)
  PROVE  LogHead(store) \in Nat /\ Ids = Count(LogHead(store)) /\ Len(Ids) = LogHead(store)
<1>1. LogHead(store) \in Nat /\ DOMAIN store.rows = 1 .. LogHead(store)
  BY LenProperties DEF IsLog, IsStore, LogHead
<1>2. Ids = [i \in 1 .. LogHead(store) |-> store.rows[i].id]
  BY <1>1 DEF Ids
<1>3. Ids = Count(LogHead(store))
  BY <1>2 DEF IsLog, LogHead, Count
<1> QED BY <1>1, <1>3, CountIsSeq

\* The facts about the folds that every action needs.
LEMMA Facts ==
  ASSUME LogInvariant
  PROVE  /\ LogHead(store) \in Nat /\ LastSeq \in Nat
         /\ mem = [up |-> mem.up, fatal |-> mem.fatal, folded |-> mem.folded,
                   anchor |-> mem.anchor, sub |-> mem.sub]
         /\ mem.folded \in [Names -> Seq(Nat)] /\ "framework" \in Names
<1>1. mem \in MemType /\ IsLog(store)
  BY DEF LogInvariant, Durable, Folded
<1>2. mem.folded \in [Names -> Seq(Nat)] /\ "framework" \in Names
  BY <1>1 DEF MemType, Names
<1>3. mem.folded["framework"] \in Seq(Nat)
  BY <1>2
<1> QED BY <1>1, <1>2, <1>3, LenProperties, IdsAreCount DEF MemType, LastSeq

-----------------------------------------------------------------------------
(* An append. *)

\* Any batch of events may be appended.
LEMMA DurableGrows ==
  ASSUME Durable, NEW batch, NEW K, IsBatch(store, batch, K), Appended(store, batch).ok,
         store' = Appended(store, batch).store, UNCHANGED <<checkpoints, version>>
  PROVE  /\ Durable' /\ LogHead(store) \in Nat /\ LogHead(store') \in Nat
         /\ LogHead(store) <= LogHead(store')
         /\ ToSet(Appended(store, batch).seqs) \subseteq 1 .. LogHead(store')
         /\ LogHead(store) + 1 .. LogHead(store') \subseteq ToSet(Appended(store, batch).seqs)
<1>1. IsLog(store) /\ batch \in Seq(EventSet)
  BY DEF Durable, IsBatch
<1>2. /\ Extends(store, store')
      /\ ToSet(Appended(store, batch).seqs) \subseteq 1 .. LogHead(store')
      /\ LogHead(store) + 1 .. LogHead(store') \subseteq ToSet(Appended(store, batch).seqs)
  BY <1>1, AnswersWhatItAdded DEF IsLog
<1>3. IsLog(store')
  BY <1>1, AppendedIsLog
<1>4. LogHead(store) \in Nat /\ LogHead(store') \in Nat
  BY <1>1, <1>3, LenProperties DEF IsLog, IsStore, LogHead
<1>5. LogHead(store) <= LogHead(store')
  BY <1>2 DEF Extends, LogHead
<1>6. \A n \in Names : checkpoints[n].through \in Nat
  BY DEF Durable, CheckpointType
<1> QED BY <1>2, <1>3, <1>4, <1>5, <1>6 DEF Durable

LEMMA CommittedKeeps ==
  ASSUME LogInvariant, Live, gate = Free,
         NEW batch, NEW K, IsBatch(store, batch, K), Committed(Appended(store, batch)),
         UNCHANGED <<checkpoints, version, mem, snapshot>>
  PROVE  LogInvariant'
<1> DEFINE seqs == ToSet(Appended(store, batch).seqs)
<1>1. /\ Durable' /\ LogHead(store) \in Nat /\ LogHead(store') \in Nat
      /\ LogHead(store) <= LogHead(store')
      /\ seqs \subseteq 1 .. LogHead(store')
      /\ LogHead(store) + 1 .. LogHead(store') \subseteq seqs
  BY DurableGrows DEF LogInvariant, Committed
<1>2. gate' = [at |-> "committed", seqs |-> seqs]
  BY DEF Committed
<1> HIDE DEF seqs
<1>3. gate' \in GateType /\ gate'.at = "committed" /\ gate'.seqs = seqs
  BY <1>1, <1>2 DEF GateType
<1>4. LastSeq = LogHead(store) /\ LastSeq' = LastSeq
  BY DEF LogInvariant, Folded, Free, LastSeq
<1>5. snapshot' # Nothing =>
        \E k \in 0 .. LogHead(store') : snapshot' = [n \in Names |-> Count(k)]
  BY <1>1 DEF LogInvariant, Folded
<1>6. mem' \in MemType /\ (\A n \in Names : mem'.folded[n] = Count(LastSeq'))
  BY <1>4 DEF LogInvariant, Folded
<1>7. mem'.up /\ ~mem'.fatal
  BY DEF Live
<1>8. Folded'
  BY <1>1, <1>3, <1>4, <1>5, <1>6, <1>7 DEF Folded
<1> QED BY <1>1, <1>8 DEF LogInvariant

-----------------------------------------------------------------------------
(* Each action. *)

LEMMA LogInitHolds == ASSUME LogInit PROVE LogInvariant
<1>1. store.rows = <<>> /\ store.sidecars = {} /\ store = [rows |-> <<>>, sidecars |-> {}]
  BY DEF LogInit, EmptyStore
<1>2. store.rows \in Seq(FactSet) /\ Len(store.rows) = 0 /\ LogHead(store) = 0
  BY <1>1, EmptySeq DEF LogHead
<1>3. IsLog(store)
  BY <1>1, <1>2 DEF IsLog, IsStore
<1>4. Count(0) = <<>> /\ <<>> \in Seq(Nat)
  <2>1. Count(0) \in Seq(Nat) /\ Len(Count(0)) = 0
    BY CountIsSeq
  <2>2. Count(0) = <<>>
    BY <2>1, EmptySeq
  <2> QED BY <2>1, <2>2
<1>5. Durable
  <2>1. checkpoints = [n \in Names |-> NoCheckpoint] /\ NoCheckpoint \in CheckpointType
    BY <1>4 DEF LogInit, NoCheckpoint, CheckpointType
  <2>2. \A n \in Names : checkpoints[n].through = 0 /\ checkpoints[n].folded = <<>>
    BY <2>1 DEF NoCheckpoint
  <2>3. version \in [Names -> Nat]
    BY DEF LogInit
  <2> QED BY <1>2, <1>3, <1>4, <2>1, <2>2, <2>3 DEF Durable
<1>6. mem = [up |-> TRUE, fatal |-> FALSE, folded |-> [n \in Names |-> <<>>], anchor |-> 0, sub |-> 0]
  BY DEF LogInit
<1>7. mem \in MemType /\ mem.up /\ ~mem.fatal /\ \A n \in Names : mem.folded[n] = <<>>
  BY <1>4, <1>6 DEF MemType
<1>8. LastSeq = 0
  BY <1>7, EmptySeq DEF LastSeq, Names
<1>9. gate = Free /\ gate.at = "free" /\ gate \in GateType /\ snapshot = Nothing
  BY DEF LogInit, Free, GateType
<1>10. Folded
  BY <1>2, <1>4, <1>7, <1>8, <1>9 DEF Folded
<1> QED BY <1>5, <1>10 DEF LogInvariant

\* An action that leaves the log, the folds and the gate alone.
LEMMA UnchangedKeeps ==
  ASSUME LogInvariant, UNCHANGED <<store, checkpoints, version, mem, gate, snapshot>>
  PROVE  LogInvariant'
BY DEF LogInvariant, Durable, Folded, LastSeq, Live

LEMMA DurableStays ==
  ASSUME Durable, UNCHANGED <<store, checkpoints, version>>
  PROVE  Durable'
BY DEF Durable

LEMMA SubmitKeeps ==
  ASSUME LogInvariant, NEW c \in Submissions, Submit(c) PROVE LogInvariant'
<1>1. PICK K : IsBatch(store, Admissions(c), K)
  BY AdmissionsAreBatch DEF LogInvariant, Durable
<1>2. /\ Live /\ gate = Free /\ Committed(Appended(store, Admissions(c)))
      /\ UNCHANGED <<checkpoints, version, mem, snapshot>>
  BY DEF Submit, MayAppend
<1> QED BY <1>1, <1>2, CommittedKeeps

LEMMA EngineAppendKeeps ==
  ASSUME LogInvariant, NEW types \in Batches, EngineAppend(types) PROVE LogInvariant'
<1>1. types \in Seq(Types)
  BY BatchesAreTyped
<1>2. IsBatch(store, Events(types), LogHead(store) + Len(types))
  BY <1>1, EventsAreBatch DEF LogInvariant, Durable
<1>3. /\ Live /\ gate = Free /\ Committed(Appended(store, Events(types)))
      /\ UNCHANGED <<checkpoints, version, mem, snapshot>>
  BY DEF EngineAppend, MayAppend
<1> QED BY <1>2, <1>3, CommittedKeeps

\* A failure stops the process with the gate open.
LEMMA FailedFolds ==
  ASSUME LogInvariant, Failed, gate = Free, UNCHANGED <<gate, snapshot>>,
         LogHead(store') \in Nat, LogHead(store) <= LogHead(store')
  PROVE  Folded'
<1>1. /\ mem' \in MemType /\ mem'.fatal /\ mem'.folded = mem.folded
  <2>1. mem' = [up |-> mem.up, fatal |-> TRUE, folded |-> mem.folded,
                anchor |-> mem.anchor, sub |-> mem.sub]
    BY Facts DEF Failed
  <2> QED BY <2>1 DEF MemType, LogInvariant, Folded
<1>2. gate' = Free /\ gate'.at = "free" /\ gate' \in GateType
  BY DEF Free, GateType
<1>3. LastSeq' = LastSeq
  BY <1>1 DEF LastSeq
<1>4. LastSeq \in Nat /\ LogHead(store) \in Nat
  BY Facts
<1>5. LastSeq' <= LogHead(store') /\ \A n \in Names : mem'.folded[n] = Count(LastSeq')
  BY <1>1, <1>3, <1>4 DEF LogInvariant, Folded
<1>6. snapshot' # Nothing =>
        \E k \in 0 .. LogHead(store') : snapshot' = [n \in Names |-> Count(k)]
  BY <1>4 DEF LogInvariant, Folded
<1> QED BY <1>1, <1>2, <1>5, <1>6 DEF Folded, Live

LEMMA TransactionFailsKeeps ==
  ASSUME LogInvariant, TransactionFails PROVE LogInvariant'
<1>1. Durable'
  BY DurableStays DEF LogInvariant, TransactionFails
<1>2. LogHead(store') = LogHead(store) /\ LogHead(store) \in Nat
  BY Facts DEF TransactionFails
<1>3. Folded'
  BY <1>2, FailedFolds DEF TransactionFails, MayAppend
<1> QED BY <1>1, <1>3 DEF LogInvariant

LEMMA DecodeFailsKeeps ==
  ASSUME LogInvariant, NEW types \in Batches, DecodeFails(types) PROVE LogInvariant'
<1>1. types \in Seq(Types)
  BY BatchesAreTyped
<1>2. IsBatch(store, Events(types), LogHead(store) + Len(types))
  BY <1>1, EventsAreBatch DEF LogInvariant, Durable
<1>3. /\ Appended(store, Events(types)).ok /\ store' = Appended(store, Events(types)).store
      /\ Failed /\ gate = Free /\ UNCHANGED <<checkpoints, version, gate, snapshot>>
  BY DEF DecodeFails, MayAppend
<1>4. /\ Durable' /\ LogHead(store) \in Nat /\ LogHead(store') \in Nat
      /\ LogHead(store) <= LogHead(store')
  BY <1>2, <1>3, DurableGrows DEF LogInvariant
<1>5. Folded'
  BY <1>3, <1>4, FailedFolds
<1> QED BY <1>4, <1>5 DEF LogInvariant

\* What is past the folded head of the answer is the rest of the log.
LEMMA FoldKeeps ==
  ASSUME LogInvariant, Fold PROVE LogInvariant'
<1> DEFINE head == LogHead(store)
           fresh == Sorted({s \in gate.seqs : s > LastSeq}, <)
           rest == [i \in 1 .. head - LastSeq |-> LastSeq + i]
<1>1. /\ head \in Nat /\ LastSeq \in Nat /\ LastSeq <= head
      /\ gate.seqs \subseteq 1 .. head /\ LastSeq + 1 .. head \subseteq gate.seqs
      /\ \A n \in Names : mem.folded[n] = Count(LastSeq)
      /\ IsLog(store)
  BY Facts DEF LogInvariant, Durable, Folded, Fold
<1>2. {s \in gate.seqs : s > LastSeq} = LastSeq + 1 .. head
  BY <1>1
<1>3. fresh = rest
  BY <1>1, <1>2, SortedInterval
<1>4. Publishing(gate.seqs) /\ UNCHANGED <<store, checkpoints, version, snapshot>>
  BY DEF Fold
<1>5. Durable'
  BY <1>4, DurableStays DEF LogInvariant
<1>6. head' = head /\ mem.up /\ ~mem.fatal
  <2>1. gate # Free
    BY DEF Fold, Free
  <2> QED BY <1>4, <2>1 DEF LogInvariant, Folded
<1>7. rest \in Seq(Nat) /\ Len(rest) = head - LastSeq /\ DOMAIN rest = 1 .. head - LastSeq
  <2>1. rest \in [1 .. head - LastSeq -> Nat] /\ head - LastSeq \in Nat
    BY <1>1
  <2>2. rest = SubSeq(Count(head), LastSeq + 1, head)
    BY <1>1, CountGoesOn
  <2>3. Count(head) \in Seq(Nat) /\ Len(Count(head)) = head
    BY <1>1, CountIsSeq
  <2>4. rest \in Seq(Nat)
    BY <2>1, SeqDef
  <2>5. \A i \in LastSeq + 1 .. head : Count(head)[i] \in Nat
    BY <1>1 DEF Count
  <2>6. Len(SubSeq(Count(head), LastSeq + 1, head))
          = IF LastSeq + 1 <= head THEN head - (LastSeq + 1) + 1 ELSE 0
    BY <1>1, <2>5, SubSeqProperties
  <2>7. Len(rest) = head - LastSeq
    BY <1>1, <2>2, <2>6
  <2> QED BY <2>1, <2>4, <2>7
<1>8. CASE fresh = <<>>
  <2>1. gate' = Free /\ mem' = mem
    BY <1>4, <1>8 DEF Publishing
  <2>2. LastSeq = head
    <3>1. <<>> \in Seq(Nat) /\ Len(<<>>) = 0
      BY EmptySeq
    <3>2. rest = <<>>
      BY <1>3, <1>8
    <3>3. head - LastSeq = 0
      BY <1>7, <3>1, <3>2
    <3> QED BY <1>1, <3>3
  <2>3. LastSeq' = LastSeq
    BY <2>1 DEF LastSeq
  <2>4. gate'.at = "free" /\ gate' \in GateType
    BY <2>1 DEF Free, GateType
  <2>5. snapshot' # Nothing =>
          \E k \in 0 .. head' : snapshot' = [n \in Names |-> Count(k)]
    BY <1>4, <1>6 DEF LogInvariant, Folded
  <2>6. mem' \in MemType /\ \A n \in Names : mem'.folded[n] = Count(LastSeq')
    BY <1>1, <2>1, <2>3 DEF LogInvariant, Folded
  <2>7. LastSeq' <= head' /\ LastSeq' = head'
    BY <1>1, <1>6, <2>2, <2>3
  <2>8. Folded'
    BY <2>1, <2>4, <2>5, <2>6, <2>7 DEF Folded
  <2> QED BY <1>5, <2>8 DEF LogInvariant
<1>9. CASE fresh # <<>>
  <2> DEFINE folded == [n \in Names |-> mem.folded[n] \o [i \in DOMAIN fresh |-> Ids[fresh[i]]]]
             todo == [i \in DOMAIN fresh |-> <<fresh[i], 0>>]
             last == <<fresh[Len(fresh)], 0>>
  <2>1. /\ mem' = [mem EXCEPT !.folded = folded]
        /\ gate' = [at |-> "publishing", half |-> FALSE, todo |-> todo, last |-> last]
    BY <1>4, <1>9 DEF Publishing
  <2>2. [i \in DOMAIN fresh |-> Ids[fresh[i]]] = rest
    <3>1. Ids = Count(head)
      BY <1>1, IdsAreCount
    <3>2. \A i \in 1 .. head - LastSeq : Count(head)[rest[i]] = rest[i]
      BY <1>1 DEF Count
    <3> QED BY <1>3, <1>7, <3>1, <3>2
  <2>3. Count(LastSeq) \o rest = Count(head)
    BY <1>1, CountGoesOn
  <2>4. \A n \in Names : folded[n] = Count(head)
    BY <1>1, <2>2, <2>3
  <2>5. folded \in [Names -> Seq(Nat)]
    <3>1. Count(head) \in Seq(Nat)
      BY <1>1, CountIsSeq
    <3>2. folded = [n \in Names |-> folded[n]]
      OBVIOUS
    <3> HIDE DEF folded
    <3> QED BY <2>4, <3>1, <3>2
  <2>6. todo \in Seq(Position) /\ last \in Position
    <3>1. todo = [i \in 1 .. head - LastSeq |-> <<rest[i], 0>>] /\ last = <<rest[Len(rest)], 0>>
      BY <1>3, <1>7
    <3>2. \A i \in 1 .. head - LastSeq : rest[i] \in Nat
      BY <1>1
    <3>3. todo \in [1 .. head - LastSeq -> Position]
      BY <3>1, <3>2 DEF Position
    <3>4. Len(rest) \in 1 .. head - LastSeq
      <4>1. rest # <<>>
        BY <1>3, <1>9
      <4> HIDE DEF rest
      <4>2. Len(rest) \in Nat \ {0}
        BY <1>7, <4>1, EmptySeq
      <4> QED BY <1>7, <4>2
    <3>5. rest[Len(rest)] \in Nat
      BY <3>2, <3>4
    <3>6. head - LastSeq \in Nat
      BY <1>1
    <3>7. todo \in Seq(Position)
      <4> HIDE DEF todo
      <4> QED BY <3>3, <3>6, SeqDef
    <3>8. last \in Position
      BY <3>1, <3>5 DEF Position
    <3> QED BY <3>7, <3>8
  <2> HIDE DEF folded, todo, last, fresh, rest
  <2>7. mem' = [up |-> mem.up, fatal |-> mem.fatal, folded |-> folded,
                anchor |-> mem.anchor, sub |-> mem.sub]
    BY <2>1, Facts
  <2>8. mem' \in MemType /\ mem'.folded = folded
    BY <2>5, <2>7 DEF MemType, LogInvariant, Folded
  <2>9. gate' \in GateType /\ gate'.at = "publishing"
    BY <2>1, <2>6 DEF GateType
  <2>10. LastSeq' = head
    <3>1. LastSeq' = Len(Count(head))
      BY <2>4, <2>8, Facts DEF LastSeq
    <3> QED BY <1>1, <3>1, CountIsSeq
  <2>11. \A n \in Names : mem'.folded[n] = Count(LastSeq')
    BY <2>4, <2>8, <2>10
  <2>12. snapshot' # Nothing =>
          \E k \in 0 .. head' : snapshot' = [n \in Names |-> Count(k)]
    BY <1>4, <1>6 DEF LogInvariant, Folded
  <2>13. mem'.up /\ ~mem'.fatal
    BY <1>6, <2>7
  <2>14. LastSeq' <= head' /\ LastSeq' = head'
    BY <1>1, <1>6, <2>10
  <2>15. Folded'
    BY <2>8, <2>9, <2>11, <2>12, <2>13, <2>14 DEF Folded
  <2> QED BY <1>5, <2>15 DEF LogInvariant
<1> QED BY <1>8, <1>9

LEMMA PublishEphemeralKeeps ==
  ASSUME LogInvariant, PublishEphemeral PROVE LogInvariant'
<1> DEFINE sub == NextSub
           todo == <<<<LastSeq, sub>>>>
<1>1. /\ Live /\ gate = Free /\ mem' = [mem EXCEPT !.anchor = LastSeq, !.sub = sub]
      /\ gate' = [at |-> "publishing", half |-> FALSE, todo |-> todo, last |-> <<LastSeq, sub>>]
      /\ UNCHANGED <<store, checkpoints, version, snapshot>>
  BY DEF PublishEphemeral
<1>2. LogHead(store) \in Nat /\ LastSeq \in Nat /\ mem \in MemType
  BY Facts DEF LogInvariant, Folded
<1>3. sub \in Nat
  BY <1>2 DEF NextSub, MemType
<1> HIDE DEF sub
<1>4. <<LastSeq, sub>> \in Position
  BY <1>2, <1>3 DEF Position
<1>5. todo \in Seq(Position)
  <2>1. \A p \in Position : <<p>> \in Seq(Position)
    <3> TAKE p \in Position
    <3>1. <<p>> = [i \in 1 .. 1 |-> p]
      OBVIOUS
    <3>2. [i \in 1 .. 1 |-> p] \in [1 .. 1 -> Position]
      OBVIOUS
    <3> QED BY <3>1, <3>2, SeqDef
  <2> QED BY <1>4, <2>1
<1>6. gate' \in GateType /\ gate'.at = "publishing"
  <2> HIDE DEF todo
  <2> QED BY <1>1, <1>4, <1>5 DEF GateType
<1>7. mem' = [up |-> mem.up, fatal |-> mem.fatal, folded |-> mem.folded,
              anchor |-> LastSeq, sub |-> sub]
  BY <1>1, Facts
<1>8. mem' \in MemType /\ mem'.up = mem.up /\ mem'.fatal = mem.fatal /\ mem'.folded = mem.folded
  BY <1>2, <1>3, <1>7 DEF MemType
<1>9. LastSeq' = LastSeq /\ LogHead(store') = LogHead(store)
  BY <1>1, <1>8 DEF LastSeq
<1>10. gate.at # "committed"
  BY <1>1 DEF Free
<1>11. Folded'
  BY <1>1, <1>6, <1>8, <1>9, <1>10 DEF LogInvariant, Folded, Live
<1>12. Durable'
  BY <1>1, DurableStays DEF LogInvariant
<1> QED BY <1>11, <1>12 DEF LogInvariant

\* The gate's holder goes on publishing, or opens it.
LEMMA PublishingKeeps ==
  ASSUME LogInvariant, gate.at = "publishing", gate' \in GateType,
         gate' = Free \/ gate'.at = "publishing",
         UNCHANGED <<store, checkpoints, version, mem, snapshot>>
  PROVE  LogInvariant'
<1>1. gate'.at # "committed" /\ gate # Free
  BY DEF Free
<1>2. mem.up /\ ~mem.fatal
  BY <1>1 DEF LogInvariant, Folded
<1>3. LastSeq' = LastSeq
  BY DEF LastSeq
<1>4. Durable'
  BY DurableStays DEF LogInvariant
<1>5. Folded'
  BY <1>1, <1>2, <1>3 DEF LogInvariant, Folded, Live
<1> QED BY <1>4, <1>5 DEF LogInvariant

\* Only a publication has events to do.
LEMMA PublishingGate ==
  ASSUME LogInvariant, gate.at = "publishing"
  PROVE  /\ gate = [at |-> "publishing", half |-> gate.half, todo |-> gate.todo, last |-> gate.last]
         /\ gate.half \in BOOLEAN /\ gate.todo \in Seq(Position) /\ gate.last \in Position
         /\ gate.half => gate.todo # <<>>
<1>1. /\ gate \in [at : {"publishing"}, half : BOOLEAN, todo : Seq(Position), last : Position]
      /\ gate.half => gate.todo # <<>>
  BY DEF LogInvariant, Folded, GateType, Free
<1> QED BY <1>1

LEMMA AnnounceKeeps ==
  ASSUME LogInvariant, Announce PROVE LogInvariant'
<1>1. /\ gate.at = "publishing" /\ gate.todo # <<>> /\ gate' = [gate EXCEPT !.half = TRUE]
      /\ UNCHANGED <<store, checkpoints, version, mem, snapshot>>
  BY DEF Announce
<1>2. gate' = [at |-> "publishing", half |-> TRUE, todo |-> gate.todo, last |-> gate.last]
  BY <1>1, PublishingGate
<1>3. gate' \in GateType /\ gate'.at = "publishing"
  BY <1>1, <1>2, PublishingGate DEF GateType
<1> QED BY <1>1, <1>3, PublishingKeeps

LEMMA DeliverKeeps ==
  ASSUME LogInvariant, Deliver PROVE LogInvariant'
<1>1. /\ gate.at = "publishing" /\ gate.half /\ gate' = [gate EXCEPT !.half = FALSE, !.todo = Tail(@)]
      /\ UNCHANGED <<store, checkpoints, version, mem, snapshot>>
  BY DEF Deliver
<1>2. gate' = [at |-> "publishing", half |-> FALSE, todo |-> Tail(gate.todo), last |-> gate.last]
  BY <1>1, PublishingGate
<1>3. Tail(gate.todo) \in Seq(Position) /\ gate.last \in Position
  BY <1>1, PublishingGate, HeadTailProperties
<1>4. gate' \in GateType /\ gate'.at = "publishing"
  BY <1>2, <1>3 DEF GateType
<1> QED BY <1>1, <1>4, PublishingKeeps

LEMMA ReleaseKeeps ==
  ASSUME LogInvariant, Release PROVE LogInvariant'
<1>1. gate' \in GateType
  BY DEF Release, GateType
<1> QED BY <1>1, PublishingKeeps DEF Release

LEMMA ReaderKeeps ==
  ASSUME LogInvariant, NEW r, ReaderNext(r) PROVE LogInvariant'
<1>1. UNCHANGED <<store, checkpoints, version, mem, gate, snapshot>>
  BY DEF ReaderNext, Subscribe, ReadHead, ReadPage, ReadActiveTurn, Merge, Follow, Step
<1> QED BY <1>1, UnchangedKeeps

LEMMA RequestSnapshotKeeps ==
  ASSUME LogInvariant, RequestSnapshot PROVE LogInvariant'
<1>1. snapshot' = mem.folded /\ UNCHANGED <<store, checkpoints, version, mem, gate>>
  BY DEF RequestSnapshot
<1>2. mem.folded = [n \in Names |-> Count(LastSeq)] /\ LastSeq \in 0 .. LogHead(store)
  BY Facts DEF LogInvariant, Folded
<1>3. LastSeq' = LastSeq
  BY <1>1 DEF LastSeq
<1>4. Durable'
  BY <1>1, DurableStays DEF LogInvariant
<1>5. \E k \in 0 .. LogHead(store') : snapshot' = [n \in Names |-> Count(k)]
  BY <1>1, <1>2
<1>6. Folded'
  BY <1>1, <1>3, <1>5 DEF LogInvariant, Folded, Live
<1> QED BY <1>4, <1>6 DEF LogInvariant

LEMMA WriteSnapshotKeeps ==
  ASSUME LogInvariant, WriteSnapshot PROVE LogInvariant'
<1>1. /\ snapshot # Nothing /\ checkpoints' = [n \in Names |-> Saved(n)] /\ snapshot' = Nothing
      /\ UNCHANGED <<store, version, mem, gate>>
  BY DEF WriteSnapshot
<1>2. PICK k \in 0 .. LogHead(store) : snapshot = [n \in Names |-> Count(k)]
  BY <1>1 DEF LogInvariant, Folded
<1>3. LogHead(store) \in Nat /\ k \in Nat /\ "framework" \in Names
  BY Facts
<1>4. Count(k) \in Seq(Nat) /\ Len(Count(k)) = k
  BY <1>3, CountIsSeq
<1>5. \A n \in Names : Saved(n) = [version |-> version[n], through |-> k, folded |-> Count(k)]
  BY <1>2, <1>3, <1>4 DEF Saved
<1>6. \A n \in Names : version[n] \in Nat
  BY DEF LogInvariant, Durable
<1>7. checkpoints' \in [Names -> CheckpointType]
  BY <1>1, <1>3, <1>4, <1>5, <1>6 DEF CheckpointType
<1>8. \A n \in Names : /\ checkpoints'[n].through <= LogHead(store')
                       /\ checkpoints'[n].folded = Count(checkpoints'[n].through)
  BY <1>1, <1>2, <1>3, <1>5
<1>9. Durable'
  BY <1>1, <1>7, <1>8 DEF LogInvariant, Durable
<1>10. LastSeq' = LastSeq
  BY <1>1 DEF LastSeq
<1>11. Folded'
  BY <1>1, <1>10 DEF LogInvariant, Folded, Live
<1> QED BY <1>9, <1>11 DEF LogInvariant

LEMMA CrashKeeps ==
  ASSUME LogInvariant, Crash PROVE LogInvariant'
<1>1. /\ mem' = [mem EXCEPT !.up = FALSE] /\ gate' = Free /\ snapshot' = Nothing
      /\ UNCHANGED <<store, checkpoints, version>>
  BY DEF Crash
<1>2. mem' = [up |-> FALSE, fatal |-> mem.fatal, folded |-> mem.folded,
              anchor |-> mem.anchor, sub |-> mem.sub]
  BY <1>1, Facts
<1>3. mem' \in MemType /\ ~mem'.up /\ mem'.folded = mem.folded
  BY <1>2 DEF MemType, LogInvariant, Folded
<1>4. LastSeq' = LastSeq /\ gate' \in GateType /\ gate'.at = "free"
  BY <1>1, <1>3 DEF LastSeq, Free, GateType
<1>5. Folded'
  BY <1>1, <1>3, <1>4 DEF LogInvariant, Folded, Live
<1>6. Durable'
  BY <1>1, DurableStays DEF LogInvariant
<1> QED BY <1>5, <1>6 DEF LogInvariant

\* Whatever version its checkpoint is of, a reducer starts from the whole log.
LEMMA HydratedIsLog ==
  ASSUME LogInvariant, NEW n \in Names
  PROVE  Hydrated[n] = Count(LogHead(store))
<1> DEFINE head == LogHead(store)
           seed == Seed(n)
<1>1. head \in Nat /\ Ids = Count(head) /\ Len(Ids) = head
  BY IdsAreCount DEF LogInvariant, Durable
<1>2. Count(0) = <<>>
  <2>1. Count(0) \in Seq(Nat) /\ Len(Count(0)) = 0
    BY CountIsSeq
  <2> QED BY <2>1, EmptySeq
<1>3. checkpoints[n].through \in Nat
  BY DEF LogInvariant, Durable, CheckpointType
<1>4. /\ seed.through \in Nat /\ seed.through <= head
      /\ seed.folded = Count(seed.through)
  BY <1>1, <1>2, <1>3 DEF Seed, NoCheckpoint, LogInvariant, Durable
<1>5. Hydrated[n] = seed.folded \o SubSeq(Ids, seed.through + 1, Len(Ids))
  BY DEF Hydrated
<1> HIDE DEF seed
<1>6. Count(seed.through) \o SubSeq(Count(head), seed.through + 1, head) = Count(head)
  <2>1. \A a, b \in Nat : a <= b => Count(a) \o SubSeq(Count(b), a + 1, b) = Count(b)
    <3> TAKE a, b \in Nat
    <3> HAVE a <= b
    <3>1. /\ Count(a) \o [i \in 1 .. b - a |-> a + i] = Count(b)
          /\ SubSeq(Count(b), a + 1, b) = [i \in 1 .. b - a |-> a + i]
      BY CountGoesOn
    <3> QED BY <3>1
  <2> HIDE DEF head
  <2> QED BY <1>1, <1>4, <2>1
<1> QED BY <1>1, <1>4, <1>5, <1>6

LEMMA RestartKeeps ==
  ASSUME LogInvariant, Restart PROVE LogInvariant'
<1> DEFINE head == LogHead(store)
<1>1. /\ ~mem.up /\ version' \in [Names -> 1 .. MaxVersion]
      /\ mem' = [up |-> TRUE, fatal |-> FALSE, folded |-> Hydrated, anchor |-> 0, sub |-> 0]
      /\ UNCHANGED <<store, checkpoints, gate, snapshot>>
  BY DEF Restart
<1>2. head \in Nat /\ "framework" \in Names
  BY Facts
<1>3. \A n \in Names : Hydrated[n] = Count(head)
  BY HydratedIsLog
<1>4. Count(head) \in Seq(Nat) /\ Len(Count(head)) = head
  BY <1>2, CountIsSeq
<1>5. Hydrated \in [Names -> Seq(Nat)]
  <2>1. Hydrated = [n \in Names |-> Hydrated[n]]
    BY DEF Hydrated
  <2> QED BY <1>3, <1>4, <2>1
<1>6. mem' \in MemType /\ mem'.up /\ ~mem'.fatal /\ mem'.folded = Hydrated
  BY <1>1, <1>5 DEF MemType
<1>7. LastSeq' = head /\ LogHead(store') = head
  BY <1>1, <1>2, <1>3, <1>4, <1>6 DEF LastSeq
<1>8. gate' = Free /\ gate' \in GateType /\ gate'.at = "free"
  BY <1>1 DEF LogInvariant, Folded, Free, GateType
<1>9. Folded'
  BY <1>1, <1>2, <1>3, <1>6, <1>7, <1>8 DEF LogInvariant, Folded
<1>10. version' \in [Names -> Nat]
  BY <1>1, BoundsAssumption
<1>11. Durable'
  BY <1>1, <1>10 DEF LogInvariant, Durable
<1> QED BY <1>9, <1>11 DEF LogInvariant

-----------------------------------------------------------------------------
(* The theorems. *)

LEMMA LogStepKeeps ==
  ASSUME LogInvariant, LogStep \/ Release \/ Crash \/ Restart PROVE LogInvariant'
<1>1. CASE \E s \in Submissions : Submit(s)
  BY <1>1, SubmitKeeps
<1>2. CASE \E b \in Batches : EngineAppend(b) \/ DecodeFails(b)
  BY <1>2, EngineAppendKeeps, DecodeFailsKeeps
<1>3. CASE TransactionFails
  BY <1>3, TransactionFailsKeeps
<1>4. CASE Fold
  BY <1>4, FoldKeeps
<1>5. CASE PublishEphemeral
  BY <1>5, PublishEphemeralKeeps
<1>6. CASE Announce
  BY <1>6, AnnounceKeeps
<1>7. CASE Deliver
  BY <1>7, DeliverKeeps
<1>8. CASE \E r \in Readers : ReaderNext(r)
  BY <1>8, ReaderKeeps
<1>9. CASE RequestSnapshot
  BY <1>9, RequestSnapshotKeeps
<1>10. CASE WriteSnapshot
  BY <1>10, WriteSnapshotKeeps
<1>11. CASE Release
  BY <1>11, ReleaseKeeps
<1>12. CASE Crash
  BY <1>12, CrashKeeps
<1>13. CASE Restart
  BY <1>13, RestartKeeps
<1> QED BY <1>1, <1>2, <1>3, <1>4, <1>5, <1>6, <1>7, <1>8, <1>9, <1>10, <1>11, <1>12, <1>13 DEF LogStep

\* The inductive invariant of the log: an event is its position and is about itself,
\* every row beside the log belongs to its event, checkpoints and pending snapshots are
\* folds of a prefix, and what a committed append answered past the folded head is the
\* rest of the log.
THEOREM LogInvariantHolds == LogSpec => []LogInvariant
<1>1. LogInit => LogInvariant
  BY LogInitHolds
<1>2. LogInvariant /\ [LogNext]_logVars => LogInvariant'
  <2>1. ASSUME LogInvariant, LogNext PROVE LogInvariant'
    BY <2>1, LogStepKeeps DEF LogNext
  <2>2. ASSUME LogInvariant, UNCHANGED logVars PROVE LogInvariant'
    BY <2>2, UnchangedKeeps DEF logVars
  <2> QED BY <2>1, <2>2
<1> QED BY <1>1, <1>2, PTL DEF LogSpec

\* The invariant says what FoldIsLog and LogReadable ask.
LEMMA InvariantFolds == ASSUME LogInvariant PROVE FoldIsLog
<1> DEFINE head == LogHead(store)
<1>1. head \in Nat /\ LastSeq \in Nat /\ LastSeq <= head /\ Ids = Count(head)
  BY Facts, IdsAreCount DEF LogInvariant, Durable, Folded
<1>2. SubSeq(Ids, 1, LastSeq) = Count(LastSeq)
  BY <1>1, CountGoesOn
<1>3. \A n \in Names : mem.folded[n] = SubSeq(Ids, 1, LastSeq)
  BY <1>2 DEF LogInvariant, Folded
<1>4. mem.up /\ gate.at # "committed" /\ ~mem.fatal => LastSeq = LogHead(store)
  BY DEF LogInvariant, Folded, Live
<1> QED BY <1>1, <1>3, <1>4 DEF FoldIsLog

LEMMA InvariantReads == ASSUME LogInvariant PROVE LogReadable
<1>1. IsLog(store) /\ DOMAIN store.rows = 1 .. Len(store.rows)
  BY LenProperties DEF LogInvariant, Durable, IsLog, IsStore
<1> QED BY <1>1, ReadBack DEF LogReadable

\* FoldIsLog for every value of the constants: whatever batches clients and engine
\* append, repeated admissions included, and from whatever checkpoints of whatever
\* versions a crashed session is hydrated, each live fold is that of the log up to one
\* position, its head unless an append is under way or has failed (publishFreshDurables,
\* hydrateAppReducerStates).
THEOREM FoldsAreOfTheLog == LogSpec => []FoldIsLog
BY LogInvariantHolds, InvariantFolds, PTL

\* LogReadable for every value of the constants: no append overwrites the sidecar row
\* that an earlier event's body is read from (writeSidecars).
THEOREM LogStaysReadable == LogSpec => []LogReadable
BY LogInvariantHolds, InvariantReads, PTL

-----------------------------------------------------------------------------
(* The order of the stream.  Everything the bus was given so far is at most *)
(* Top, and what is still to be delivered lies above all that was.          *)

\* The position of the last event folded, or of the last ephemeral behind it.
Top == <<LastSeq, IF mem.anchor = LastSeq THEN mem.sub ELSE 0>>
AtMost(p, q) == ~Before(q, p)
ToDo == IF gate.at = "publishing" THEN gate.todo ELSE <<>>

Rising(s) == \A i, j \in DOMAIN s : i < j => Before(s[i], s[j])
NeverFalling(s) == \A i, j \in DOMAIN s : i < j => AtMost(s[i], s[j])

\* Given to the replay buffer, and perhaps not yet to the subscriptions.
IsAnnounced(p) ==
    p \in Position /\ AtMost(p, Top) /\ \A t \in ToSet(ToDo) : AtMost(p, t)
\* Given to the subscriptions.
IsDelivered(p) ==
    p \in Position /\ AtMost(p, Top) /\ \A t \in ToSet(ToDo) : Before(p, t)

GateInOrder ==
    /\ mem.anchor <= LastSeq
    /\ Rising(ToDo)
    /\ \A t \in ToSet(ToDo) : t \in Position /\ AtMost(t, Top) /\ (t[2] > 0 => t[1] = LastSeq)

BusInOrder ==
    /\ bus \in [turn : Nat, events : Seq(Position)]
    /\ \A p \in ToSet(bus.events) : p[2] > 0 /\ IsAnnounced(p)
    /\ ~mem.up => bus = EmptyBus

ReaderType ==
    [at : {"off", "subscribed", "replaying", "replayed", "merging", "following"},
     from : Nat, head : Nat, through : Nat, cursor : Nat,
     active : SUBSET Position, queue : Seq(Position), got : Seq(Position)]

\* A reader that follows is given what comes after all it was given; one that is about to
\* merge holds, or is about to be sent, what the bus keeps.
InOrder(rd) ==
    /\ rd.head <= LastSeq
    /\ rd.at # "following" => rd.got = <<>>
    /\ rd.at = "off" => rd = Off(rd.from)
    /\ IsFiniteSet(rd.active) /\ \A p \in rd.active : IsAnnounced(p)
    /\ Rising(rd.queue) /\ \A p \in ToSet(rd.queue) : IsDelivered(p)
    /\ NeverFalling(rd.got)
    /\ \A p \in ToSet(rd.got) :
         /\ AtMost(p, Top)
         /\ \A q \in ToSet(rd.queue) \cup ToSet(ToDo) : ShouldEmit(q, rd.head) => AtMost(p, q)
    /\ rd.at = "merging" =>
         ToSet(bus.events) \subseteq rd.active \cup ToSet(rd.queue) \cup ToSet(ToDo)
    /\ rd.at = "following" =>
         ToSet(bus.events) \subseteq ToSet(rd.got) \cup ToSet(rd.queue) \cup ToSet(ToDo)

ReadersInOrder ==
    /\ reader \in [Readers -> ReaderType]
    /\ \A r \in Readers : InOrder(reader[r])
    /\ ~mem.up => \A r \in Readers : reader[r].at = "off"

OrderInvariant == GateInOrder /\ BusInOrder /\ ReadersInOrder

\* Positions are totally ordered.
LEMMA BeforeIsOrder ==
  /\ \A p, q \in Position : Before(p, q) \/ p = q \/ Before(q, p)
  /\ \A p, q \in Position : Before(p, q) => AtMost(p, q) /\ p # q
  /\ \A p \in Position : AtMost(p, p)
  /\ \A p, q, t \in Position : Before(p, q) /\ Before(q, t) => Before(p, t)
  /\ \A p, q, t \in Position : AtMost(p, q) /\ Before(q, t) => Before(p, t)
  /\ \A p, q, t \in Position : Before(p, q) /\ AtMost(q, t) => Before(p, t)
  /\ \A p, q, t \in Position : AtMost(p, q) /\ AtMost(q, t) => AtMost(p, t)
<1>1. \A p \in Position : p = <<p[1], p[2]>> /\ p[1] \in Nat /\ p[2] \in Nat
  BY DEF Position
<1>2. \A p, q \in Position : Before(p, q) \/ p = q \/ Before(q, p)
  <2> TAKE p, q \in Position
  <2>1. p[1] = q[1] /\ p[2] = q[2] => p = q
    BY <1>1
  <2> QED BY <1>1, <2>1 DEF Before
<1>3. /\ \A p, q \in Position : Before(p, q) => AtMost(p, q) /\ p # q
      /\ \A p \in Position : AtMost(p, p)
  BY <1>1 DEF Before, AtMost
<1>4. \A p, q, t \in Position : Before(p, q) /\ Before(q, t) => Before(p, t)
  BY <1>1 DEF Before
<1>5. \A p, q, t \in Position : AtMost(p, q) /\ Before(q, t) => Before(p, t)
  BY <1>1 DEF Before, AtMost
<1>6. \A p, q, t \in Position : Before(p, q) /\ AtMost(q, t) => Before(p, t)
  BY <1>1 DEF Before, AtMost
<1>7. \A p, q, t \in Position : AtMost(p, q) /\ AtMost(q, t) => AtMost(p, t)
  BY <1>1 DEF Before, AtMost
<1> QED BY <1>2, <1>3, <1>4, <1>5, <1>6, <1>7

\* Sorted puts a finite set of positions in order.
LEMMA SortedRises ==
  ASSUME NEW S \in SUBSET Position, IsFiniteSet(S)
  PROVE  /\ Sorted(S, Before) \in Seq(Position)
         /\ ToSet(Sorted(S, Before)) = S
         /\ Rising(Sorted(S, Before))
<1> DEFINE n == Cardinality(S)
           Lower(x) == {y \in S : Before(y, x)}
           rank == [x \in S |-> Cardinality(Lower(x))]
           s == Sorted(S, Before)
<1>1. n \in Nat
  BY FS_CardinalityType
<1>2. \A x \in S : ~Before(x, x)
  BY BeforeIsOrder
<1>3. ASSUME NEW x \in S PROVE rank[x] \in 0 .. n - 1 /\ IsFiniteSet(Lower(x))
  <2>1. IsFiniteSet(S \ {x}) /\ Cardinality(S \ {x}) = n - 1
    BY FS_RemoveElement
  <2>2. Lower(x) \in SUBSET (S \ {x})
    BY <1>2
  <2> HIDE DEF Lower
  <2>3. IsFiniteSet(Lower(x)) /\ Cardinality(Lower(x)) <= n - 1
    BY <2>1, <2>2, FS_Subset
  <2>4. Cardinality(Lower(x)) \in Nat
    BY <2>3, FS_CardinalityType
  <2> QED BY <1>1, <2>3, <2>4
<1>4. ASSUME NEW x \in S, NEW y \in S, Before(x, y) PROVE rank[x] < rank[y]
  <2>1. IsFiniteSet(Lower(y)) /\ x \in Lower(y)
    BY <1>3, <1>4
  <2>2. Lower(x) \in SUBSET (Lower(y) \ {x})
    BY <1>2, <1>4, BeforeIsOrder
  <2>3. rank[x] = Cardinality(Lower(x)) /\ rank[y] = Cardinality(Lower(y))
    OBVIOUS
  <2> HIDE DEF Lower, rank
  <2>4. IsFiniteSet(Lower(y) \ {x}) /\ Cardinality(Lower(y) \ {x}) = Cardinality(Lower(y)) - 1
    BY <2>1, FS_RemoveElement
  <2>5. Cardinality(Lower(x)) <= Cardinality(Lower(y) \ {x})
    BY <2>2, <2>4, FS_Subset
  <2>6. rank[x] \in Nat /\ rank[y] \in Nat
    BY <1>1, <1>3
  <2> QED BY <2>3, <2>4, <2>5, <2>6
<1>5. \A x, y \in S : rank[x] = rank[y] => x = y
  <2> SUFFICES ASSUME NEW x \in S, NEW y \in S, rank[x] = rank[y], x # y PROVE FALSE
    OBVIOUS
  <2>1. Before(x, y) \/ Before(y, x)
    BY BeforeIsOrder
  <2>2. rank[x] \in Int /\ rank[y] \in Int
    BY <1>1, <1>3
  <2>3. rank[x] < rank[y] \/ rank[y] < rank[x]
    <3> HIDE DEF rank
    <3> QED BY <1>4, <2>1
  <2> HIDE DEF rank
  <2> QED BY <2>2, <2>3
<1>6. \A i \in 1 .. n : \E x \in S : rank[x] = i - 1
  <2>1. rank \in [S -> 0 .. n - 1]
    BY <1>3
  <2>2. rank \in Injection(S, 0 .. n - 1)
    <3> HIDE DEF rank
    <3> QED BY <1>5, <2>1 DEF Injection, IsInjective
  <2>3. IsFiniteSet(0 .. n - 1) /\ Cardinality(0 .. n - 1) = n
    <3>1. 0 \in Int /\ n - 1 \in Int
      BY <1>1
    <3>2. IsFiniteSet(0 .. n - 1) /\ Cardinality(0 .. n - 1) = IF 0 > n - 1 THEN 0 ELSE (n - 1) - 0 + 1
      BY <3>1, FS_Interval
    <3> QED BY <1>1, <3>2
  <2> HIDE DEF rank
  <2>4. rank \in Surjection(S, 0 .. n - 1)
    BY <2>2, <2>3, FS_Injection
  <2>5. \A k \in 0 .. n - 1 : \E x \in S : rank[x] = k
    BY <2>4 DEF Surjection
  <2> QED BY <1>1, <2>5
<1>7. \A i \in 1 .. n : s[i] \in S /\ rank[s[i]] = i - 1
  <2> TAKE i \in 1 .. n
  <2>1. s[i] = CHOOSE x \in S : Cardinality({y \in S : Before(y, x)}) = i - 1
    BY DEF Sorted
  <2>2. \E x \in S : Cardinality({y \in S : Before(y, x)}) = i - 1
    BY <1>6
  <2>3. s[i] \in S /\ Cardinality({y \in S : Before(y, s[i])}) = i - 1
    <3> HIDE DEF s, rank
    <3> QED BY <2>1, <2>2
  <2> QED BY <2>3
<1>8. DOMAIN s = 1 .. n /\ s = [i \in 1 .. n |-> s[i]]
  <2> DEFINE of(i) == CHOOSE x \in S : Cardinality({y \in S : Before(y, x)}) = i - 1
             f == [i \in 1 .. n |-> of(i)]
  <2>1. s = f
    BY DEF Sorted
  <2> HIDE DEF of
  <2>2. DOMAIN f = 1 .. n /\ f = [i \in 1 .. n |-> f[i]]
    OBVIOUS
  <2> HIDE DEF f, s
  <2> QED BY <2>1, <2>2
<1>9. DOMAIN s = 1 .. n /\ s \in [1 .. n -> Position]
  <2> HIDE DEF s
  <2> QED BY <1>7, <1>8
<1> HIDE DEF s, rank
<1>10. s \in Seq(Position)
  BY <1>1, <1>9, SeqDef
<1>11. ToSet(s) = S
  <2>1. ASSUME NEW x \in S PROVE x \in ToSet(s)
    <3>4. rank[x] \in 0 .. n - 1
      BY <1>3
    <3> HIDE DEF n, Lower
    <3>5. PICK r \in 0 .. n - 1 : rank[x] = r
      BY <3>4
    <3> DEFINE k == r + 1
    <3>1. k \in 1 .. n /\ rank[x] = k - 1
      BY <1>1, <3>5
    <3> HIDE DEF k
    <3>2. s[k] \in S /\ rank[s[k]] = k - 1
      BY <1>7, <3>1
    <3>3. s[k] = x
      BY <1>5, <3>1, <3>2
    <3> QED BY <1>9, <3>1, <3>3 DEF ToSet
  <2>2. ToSet(s) \subseteq S
    BY <1>7, <1>9 DEF ToSet
  <2> QED BY <2>1, <2>2
<1>12. Rising(s)
  <2> SUFFICES ASSUME NEW i \in 1 .. n, NEW j \in 1 .. n, i < j PROVE Before(s[i], s[j])
    BY <1>9 DEF Rising
  <2>1. s[i] \in S /\ s[j] \in S /\ rank[s[i]] = i - 1 /\ rank[s[j]] = j - 1
    BY <1>7
  <2>2. s[i] # s[j]
    BY <2>1
  <2>3. ~Before(s[j], s[i])
    BY <1>4, <2>1
  <2> QED BY <2>1, <2>2, <2>3, BeforeIsOrder
<1> QED BY <1>10, <1>11, <1>12 DEF s

\* Sequences of positions: their ends.
LEMMA RisingTail ==
  ASSUME NEW s \in Seq(Position), s # <<>>, Rising(s)
  PROVE  /\ s[1] \in Position /\ Tail(s) \in Seq(Position) /\ Rising(Tail(s))
         /\ ToSet(s) = {s[1]} \cup ToSet(Tail(s))
         /\ \A x \in ToSet(Tail(s)) : Before(s[1], x)
<1> DEFINE t == Tail(s)
<1>1. /\ Len(s) \in Nat \ {0} /\ DOMAIN s = 1 .. Len(s) /\ s \in [1 .. Len(s) -> Position]
  BY EmptySeq, LenProperties
<1>2. t \in Seq(Position) /\ Len(t) = Len(s) - 1 /\ \A i \in 1 .. Len(t) : t[i] = s[i + 1]
  BY HeadTailProperties
<1>3. DOMAIN t = 1 .. Len(t)
  BY <1>2, LenProperties
<1> HIDE DEF t
<1>4. ToSet(s) = {s[1]} \cup ToSet(t)
  <2>1. ASSUME NEW i \in 1 .. Len(s), i # 1 PROVE s[i] \in ToSet(t)
    <3>1. i - 1 \in 1 .. Len(t) /\ (i - 1) + 1 = i
      BY <1>1, <1>2, <2>1
    <3>2. t[i - 1] = s[i]
      BY <1>2, <3>1
    <3> QED BY <1>3, <3>1, <3>2 DEF ToSet
  <2>2. ASSUME NEW i \in 1 .. Len(t) PROVE t[i] \in ToSet(s)
    <3>1. i + 1 \in 1 .. Len(s) /\ t[i] = s[i + 1]
      BY <1>1, <1>2
    <3> QED BY <1>1, <3>1 DEF ToSet
  <2>3. ToSet(s) \subseteq {s[1]} \cup ToSet(t)
    BY <1>1, <2>1 DEF ToSet
  <2>4. s[1] \in ToSet(s)
    <3>1. 1 \in 1 .. Len(s)
      BY <1>1
    <3> QED BY <1>1, <3>1 DEF ToSet
  <2>5. ToSet(t) \subseteq ToSet(s)
    BY <1>3, <2>2 DEF ToSet
  <2> QED BY <2>3, <2>4, <2>5
<1>5. Rising(t)
  <2> SUFFICES ASSUME NEW i \in 1 .. Len(t), NEW j \in 1 .. Len(t), i < j PROVE Before(t[i], t[j])
    BY <1>3 DEF Rising
  <2>1. i + 1 \in DOMAIN s /\ j + 1 \in DOMAIN s /\ i + 1 < j + 1
    BY <1>1, <1>2
  <2>2. t[i] = s[i + 1] /\ t[j] = s[j + 1]
    BY <1>2
  <2> QED BY <2>1, <2>2 DEF Rising
<1>6. \A x \in ToSet(t) : Before(s[1], x)
  BY <1>1, <1>2, <1>3 DEF Rising, ToSet
<1> QED BY <1>1, <1>2, <1>4, <1>5, <1>6 DEF t

LEMMA PositionAppended ==
  ASSUME NEW s \in Seq(Position), NEW p \in Position
  PROVE  /\ Append(s, p) \in Seq(Position) /\ ToSet(Append(s, p)) = ToSet(s) \cup {p}
         /\ Rising(s) /\ (\A x \in ToSet(s) : Before(x, p)) => Rising(Append(s, p))
         /\ NeverFalling(s) /\ (\A x \in ToSet(s) : AtMost(x, p)) => NeverFalling(Append(s, p))
<1> DEFINE t == Append(s, p)
<1>1. /\ t \in Seq(Position) /\ Len(t) = Len(s) + 1
      /\ \A i \in 1 .. Len(s) : t[i] = s[i]
      /\ t[Len(s) + 1] = p
  BY AppendProperties
<1>2. Len(s) \in Nat /\ DOMAIN s = 1 .. Len(s)
  BY LenProperties
<1>3. DOMAIN t = 1 .. Len(s) + 1
  BY <1>1, LenProperties
<1> HIDE DEF t
<1>4. ToSet(t) = ToSet(s) \cup {p}
  <2>1. \A i \in 1 .. Len(s) + 1 : i \in 1 .. Len(s) \/ i = Len(s) + 1
    BY <1>2
  <2> QED BY <1>1, <1>2, <1>3, <2>1 DEF ToSet
<1>5. \A i, j \in DOMAIN t : i < j =>
         /\ i \in DOMAIN s /\ t[i] = s[i]
         /\ (j \in DOMAIN s /\ t[j] = s[j]) \/ t[j] = p
  BY <1>1, <1>2, <1>3
<1>6. \A i \in DOMAIN s : s[i] \in ToSet(s)
  BY DEF ToSet
<1>7. Rising(s) /\ (\A x \in ToSet(s) : Before(x, p)) => Rising(t)
  BY <1>5, <1>6 DEF Rising
<1>8. NeverFalling(s) /\ (\A x \in ToSet(s) : AtMost(x, p)) => NeverFalling(t)
  BY <1>5, <1>6 DEF NeverFalling
<1> QED BY <1>1, <1>4, <1>7, <1>8 DEF t

LEMMA RisingNeverFalls ==
  ASSUME NEW s \in Seq(Position), Rising(s) PROVE NeverFalling(s)
<1>1. \A i \in DOMAIN s : s[i] \in Position
  BY LenProperties
<1> QED BY <1>1, BeforeIsOrder DEF Rising, NeverFalling

LEMMA FinitelyMany ==
  ASSUME NEW s \in Seq(Position) PROVE ToSet(s) \subseteq Position /\ IsFiniteSet(ToSet(s))
<1>1. Len(s) \in Nat /\ s \in [1 .. Len(s) -> Position] /\ DOMAIN s = 1 .. Len(s)
  BY LenProperties
<1>2. ToSet(s) \subseteq Position /\ s \in [1 .. Len(s) -> ToSet(s)]
  BY <1>1 DEF ToSet
<1>3. s \in Surjection(1 .. Len(s), ToSet(s))
  BY <1>1, <1>2 DEF Surjection, ToSet
<1>4. 1 \in Int /\ Len(s) \in Int
  BY <1>1
<1>5. IsFiniteSet(1 .. Len(s))
  BY <1>4, FS_Interval
<1> QED BY <1>2, <1>3, <1>5, FS_Surjection

LEMMA EmptyInOrder ==
  /\ <<>> \in Seq(Position) /\ ToSet(<<>>) = {}
  /\ Rising(<<>>) /\ NeverFalling(<<>>)
<1>1. <<>> \in Seq(Position) /\ Len(<<>>) = 0
  BY EmptySeq
<1>2. DOMAIN <<>> = {}
  OBVIOUS
<1> QED BY <1>1, <1>2 DEF ToSet, Rising, NeverFalling

\* What the bus keeps is among what it was given.
LEMMA KeptIsPart ==
  ASSUME NEW s \in Seq(Position)
  PROVE  Kept(s) \in Seq(Position) /\ ToSet(Kept(s)) \subseteq ToSet(s)
<1> DEFINE n == Len(s)
           m == IF n > ReplayCapacity THEN n - ReplayCapacity + 1 ELSE 1
           t == SubSeq(s, m, n)
<1>1. n \in Nat /\ DOMAIN s = 1 .. n /\ s \in [1 .. n -> Position]
  BY LenProperties
<1>2. m \in Nat \ {0}
  BY <1>1, BoundsAssumption
<1>3. t = Kept(s)
  BY DEF Kept
<1> HIDE DEF m, n
<1>4. m \in Int /\ n \in Int /\ \A i \in m .. n : s[i] \in Position
  BY <1>1, <1>2
<1>5. /\ t \in Seq(Position) /\ Len(t) = IF m <= n THEN n - m + 1 ELSE 0
      /\ \A i \in 1 .. n - m + 1 : t[i] = s[m + i - 1]
  BY <1>4, SubSeqProperties
<1> HIDE DEF t
<1>6. DOMAIN t = 1 .. Len(t)
  BY <1>5, LenProperties
<1>7. \A i \in 1 .. Len(t) : m + i - 1 \in 1 .. n /\ t[i] = s[m + i - 1]
  BY <1>1, <1>2, <1>5
<1>8. ToSet(t) \subseteq ToSet(s)
  BY <1>1, <1>6, <1>7 DEF ToSet
<1> QED BY <1>3, <1>5, <1>8

-----------------------------------------------------------------------------
(* What one step does to the order.                                        *)

LEMMA OrderFacts ==
  ASSUME LogInvariant
  PROVE  /\ Top \in Position /\ LastSeq \in Nat /\ Top[1] = LastSeq /\ Top[2] \in Nat
         /\ ToDo \in Seq(Position)
         /\ InHand = ToSet(ToDo)
<1>1. LastSeq \in Nat /\ mem.sub \in Nat
  BY Facts DEF LogInvariant, Folded, MemType
<1>2. Top \in Position /\ Top[1] = LastSeq /\ Top[2] \in Nat
  BY <1>1 DEF Top, Position
<1>3. ToDo \in Seq(Position)
  BY PublishingGate, EmptyInOrder DEF ToDo
<1>4. InHand = ToSet(ToDo)
  BY EmptyInOrder DEF InHand, ToDo
<1> QED BY <1>1, <1>2, <1>3, <1>4

\* What a step may change of a reader.
With(rd, at, head, active, queue, got) ==
    [at |-> at, from |-> rd.from, head |-> head, through |-> rd.through,
     cursor |-> rd.cursor, active |-> active, queue |-> queue, got |-> got]

IsReader(rd) ==
    rd = [at |-> rd.at, from |-> rd.from, head |-> rd.head, through |-> rd.through,
          cursor |-> rd.cursor, active |-> rd.active, queue |-> rd.queue, got |-> rd.got]

LEMMA FieldOfReader ==
  ASSUME NEW rd, IsReader(rd), NEW x
  PROVE  /\ [rd EXCEPT !.at = x] = With(rd, x, rd.head, rd.active, rd.queue, rd.got)
         /\ [rd EXCEPT !.head = x] = With(rd, rd.at, x, rd.active, rd.queue, rd.got)
         /\ [rd EXCEPT !.active = x] = With(rd, rd.at, rd.head, x, rd.queue, rd.got)
         /\ [rd EXCEPT !.queue = x] = With(rd, rd.at, rd.head, rd.active, x, rd.got)
         /\ [rd EXCEPT !.got = x] = With(rd, rd.at, rd.head, rd.active, rd.queue, x)
<1>1. [rd EXCEPT !.at = x] = With(rd, x, rd.head, rd.active, rd.queue, rd.got)
  BY DEF IsReader, With
<1>2. [rd EXCEPT !.head = x] = With(rd, rd.at, x, rd.active, rd.queue, rd.got)
  BY DEF IsReader, With
<1>3. [rd EXCEPT !.active = x] = With(rd, rd.at, rd.head, x, rd.queue, rd.got)
  BY DEF IsReader, With
<1>4. [rd EXCEPT !.queue = x] = With(rd, rd.at, rd.head, rd.active, x, rd.got)
  BY DEF IsReader, With
<1>5. [rd EXCEPT !.got = x] = With(rd, rd.at, rd.head, rd.active, rd.queue, x)
  BY DEF IsReader, With
<1> QED BY <1>1, <1>2, <1>3, <1>4, <1>5

LEMMA WithIsReader ==
  ASSUME NEW rd, NEW at, NEW head, NEW active, NEW queue, NEW got
  PROVE  LET t == With(rd, at, head, active, queue, got)
         IN  /\ IsReader(t)
             /\ t.at = at /\ t.head = head /\ t.active = active /\ t.queue = queue /\ t.got = got
             /\ t.from = rd.from /\ t.through = rd.through /\ t.cursor = rd.cursor
             /\ \A a, h, c, q, g : With(t, a, h, c, q, g) = With(rd, a, h, c, q, g)
BY DEF IsReader, With

LEMMA ReaderIsRecord ==
  ASSUME NEW rd \in ReaderType
  PROVE  /\ \A q : [rd EXCEPT !.queue = q] = With(rd, rd.at, rd.head, rd.active, q, rd.got)
         /\ \A at : [rd EXCEPT !.at = at] = With(rd, at, rd.head, rd.active, rd.queue, rd.got)
         /\ \A at, h : [rd EXCEPT !.at = at, !.head = h] = With(rd, at, h, rd.active, rd.queue, rd.got)
         /\ \A at, a : [rd EXCEPT !.at = at, !.active = a] = With(rd, at, rd.head, a, rd.queue, rd.got)
         /\ \A g : [rd EXCEPT !.at = "following", !.queue = <<>>, !.active = {}, !.got = g]
              = With(rd, "following", rd.head, {}, <<>>, g)
         /\ \A q, g : [rd EXCEPT !.queue = q, !.got = g]
              = With(rd, rd.at, rd.head, rd.active, q, g)
<1>1. IsReader(rd)
  BY DEF ReaderType, IsReader
<1>2. ASSUME NEW at
      PROVE  [rd EXCEPT !.at = at] = With(rd, at, rd.head, rd.active, rd.queue, rd.got)
  BY <1>1, FieldOfReader
<1>3. ASSUME NEW q
      PROVE  [rd EXCEPT !.queue = q] = With(rd, rd.at, rd.head, rd.active, q, rd.got)
  BY <1>1, FieldOfReader
<1>4. ASSUME NEW at, NEW h
      PROVE  [rd EXCEPT !.at = at, !.head = h] = With(rd, at, h, rd.active, rd.queue, rd.got)
  <2> DEFINE t == With(rd, at, rd.head, rd.active, rd.queue, rd.got)
  <2>1. [rd EXCEPT !.at = at, !.head = h] = [[rd EXCEPT !.at = at] EXCEPT !.head = h]
    OBVIOUS
  <2>2. IsReader(t)
    BY WithIsReader
  <2>3. [t EXCEPT !.head = h] = With(t, t.at, h, t.active, t.queue, t.got)
    <3> HIDE DEF t
    <3> QED BY <2>2, FieldOfReader
  <2>4. [rd EXCEPT !.at = at] = t
    BY <1>2
  <2>5. [t EXCEPT !.head = h] = With(rd, at, h, rd.active, rd.queue, rd.got)
    BY <2>3, WithIsReader
  <2> HIDE DEF t
  <2> QED BY <2>1, <2>4, <2>5
<1>5. ASSUME NEW at, NEW a
      PROVE  [rd EXCEPT !.at = at, !.active = a] = With(rd, at, rd.head, a, rd.queue, rd.got)
  <2> DEFINE t == With(rd, at, rd.head, rd.active, rd.queue, rd.got)
  <2>1. [rd EXCEPT !.at = at, !.active = a] = [[rd EXCEPT !.at = at] EXCEPT !.active = a]
    OBVIOUS
  <2>2. IsReader(t)
    BY WithIsReader
  <2>3. [t EXCEPT !.active = a] = With(t, t.at, t.head, a, t.queue, t.got)
    <3> HIDE DEF t
    <3> QED BY <2>2, FieldOfReader
  <2>4. [rd EXCEPT !.at = at] = t
    BY <1>2
  <2>5. [t EXCEPT !.active = a] = With(rd, at, rd.head, a, rd.queue, rd.got)
    BY <2>3, WithIsReader
  <2> HIDE DEF t
  <2> QED BY <2>1, <2>4, <2>5
<1>6. ASSUME NEW q, NEW g
      PROVE  [rd EXCEPT !.queue = q, !.got = g] = With(rd, rd.at, rd.head, rd.active, q, g)
  <2> DEFINE t == With(rd, rd.at, rd.head, rd.active, q, rd.got)
  <2>1. [rd EXCEPT !.queue = q, !.got = g] = [[rd EXCEPT !.queue = q] EXCEPT !.got = g]
    OBVIOUS
  <2>2. IsReader(t)
    BY WithIsReader
  <2>3. [t EXCEPT !.got = g] = With(t, t.at, t.head, t.active, t.queue, g)
    <3> HIDE DEF t
    <3> QED BY <2>2, FieldOfReader
  <2>4. [rd EXCEPT !.queue = q] = t
    BY <1>3
  <2>5. [t EXCEPT !.got = g] = With(rd, rd.at, rd.head, rd.active, q, g)
    BY <2>3, WithIsReader
  <2> HIDE DEF t
  <2> QED BY <2>1, <2>4, <2>5
<1>7. ASSUME NEW g
      PROVE  [rd EXCEPT !.at = "following", !.queue = <<>>, !.active = {}, !.got = g]
               = With(rd, "following", rd.head, {}, <<>>, g)
  <2> DEFINE t == With(rd, "following", rd.head, rd.active, rd.queue, rd.got)
             u == With(rd, "following", rd.head, rd.active, <<>>, rd.got)
             v == With(rd, "following", rd.head, {}, <<>>, rd.got)
  <2>1. [rd EXCEPT !.at = "following", !.queue = <<>>, !.active = {}, !.got = g]
          = [[[[rd EXCEPT !.at = "following"] EXCEPT !.queue = <<>>] EXCEPT !.active = {}] EXCEPT !.got = g]
    OBVIOUS
  <2>2. IsReader(t) /\ IsReader(u) /\ IsReader(v)
    BY WithIsReader
  <2>3. /\ [t EXCEPT !.queue = <<>>] = With(t, t.at, t.head, t.active, <<>>, t.got)
        /\ [u EXCEPT !.active = {}] = With(u, u.at, u.head, {}, u.queue, u.got)
        /\ [v EXCEPT !.got = g] = With(v, v.at, v.head, v.active, v.queue, g)
    <3> HIDE DEF t, u, v
    <3> QED BY <2>2, FieldOfReader
  <2>4. [rd EXCEPT !.at = "following"] = t
    BY <1>2
  <2>6. /\ t.at = "following" /\ t.head = rd.head /\ t.active = rd.active /\ t.queue = rd.queue /\ t.got = rd.got
        /\ \A k, l, m, n, o : With(t, k, l, m, n, o) = With(rd, k, l, m, n, o)
    BY ONLY DEF With
  <2>7. /\ u.at = "following" /\ u.head = rd.head /\ u.active = rd.active /\ u.queue = <<>> /\ u.got = rd.got
        /\ \A k, l, m, n, o : With(u, k, l, m, n, o) = With(rd, k, l, m, n, o)
    BY ONLY DEF With
  <2>8. /\ v.at = "following" /\ v.head = rd.head /\ v.active = {} /\ v.queue = <<>> /\ v.got = rd.got
        /\ \A k, l, m, n, o : With(v, k, l, m, n, o) = With(rd, k, l, m, n, o)
    BY ONLY DEF With
  <2>9. /\ u = With(rd, "following", rd.head, rd.active, <<>>, rd.got)
        /\ v = With(rd, "following", rd.head, {}, <<>>, rd.got)
    OBVIOUS
  <2>5. /\ [t EXCEPT !.queue = <<>>] = u
        /\ [u EXCEPT !.active = {}] = v
        /\ [v EXCEPT !.got = g] = With(rd, "following", rd.head, {}, <<>>, g)
    <3> HIDE DEF t, u, v
    <3>1. [t EXCEPT !.queue = <<>>] = u
      BY ONLY <2>3, <2>6, <2>9
    <3>2. [u EXCEPT !.active = {}] = v
      BY ONLY <2>3, <2>7, <2>9
    <3>3. [v EXCEPT !.got = g] = With(rd, "following", rd.head, {}, <<>>, g)
      BY ONLY <2>3, <2>8
    <3> QED BY <3>1, <3>2, <3>3
  <2> HIDE DEF t, u, v
  <2> QED BY <2>1, <2>4, <2>5
<1> QED BY <1>2, <1>3, <1>4, <1>5, <1>6, <1>7

\* The stream is as it was.
LEMMA OrderStays ==
  ASSUME OrderInvariant, LastSeq' = LastSeq, Top' = Top, ToDo' = ToDo,
         mem'.anchor = mem.anchor, mem'.up = mem.up, UNCHANGED <<bus, reader>>
  PROVE  OrderInvariant'
<1>1. \A p : (IsAnnounced(p) <=> IsAnnounced(p)') /\ (IsDelivered(p) <=> IsDelivered(p)')
  BY DEF IsAnnounced, IsDelivered
<1>2. GateInOrder'
  BY DEF OrderInvariant, GateInOrder
<1>3. BusInOrder'
  BY <1>1 DEF OrderInvariant, BusInOrder
<1>4. ASSUME NEW rd, InOrder(rd) PROVE InOrder(rd)'
  BY <1>1, <1>4 DEF InOrder
<1>5. ReadersInOrder'
  BY <1>4 DEF OrderInvariant, ReadersInOrder
<1> QED BY <1>2, <1>3, <1>5 DEF OrderInvariant

\* Only the publication in progress, the folds' length and the last ephemeral matter.
LEMMA SameStream ==
  ASSUME LastSeq' = LastSeq, mem'.anchor = mem.anchor, mem'.sub = mem.sub
  PROVE  Top' = Top
BY DEF Top

LEMMA GateElsewhere ==
  ASSUME gate.at # "publishing", gate'.at # "publishing" PROVE ToDo' = ToDo /\ ToDo = <<>>
BY DEF ToDo

LEMMA CommittedKeepsOrder ==
  ASSUME OrderInvariant, gate = Free, gate'.at # "publishing",
         UNCHANGED <<bus, reader>>, LastSeq' = LastSeq,
         mem'.anchor = mem.anchor, mem'.sub = mem.sub, mem'.up = mem.up
  PROVE  OrderInvariant'
<1>1. gate.at = "free"
  BY DEF Free
<1> QED BY <1>1, SameStream, GateElsewhere, OrderStays

LEMMA AppendKeepsOrder ==
  ASSUME LogInvariant, OrderInvariant,
         (\E s \in Submissions : Submit(s)) \/ (\E b \in Batches : EngineAppend(b))
  PROVE  OrderInvariant'
<1>1. gate = Free /\ gate'.at = "committed" /\ UNCHANGED <<mem, bus, reader>>
  BY DEF Submit, EngineAppend, MayAppend, Committed
<1> QED BY <1>1, CommittedKeepsOrder DEF LastSeq

LEMMA FailureKeepsOrder ==
  ASSUME LogInvariant, OrderInvariant,
         TransactionFails \/ (\E b \in Batches : DecodeFails(b))
  PROVE  OrderInvariant'
<1>1. gate = Free /\ Failed /\ UNCHANGED <<gate, bus, reader>>
  BY DEF TransactionFails, DecodeFails, MayAppend
<1>2. mem' = [up |-> mem.up, fatal |-> TRUE, folded |-> mem.folded,
              anchor |-> mem.anchor, sub |-> mem.sub]
  BY <1>1, Facts DEF Failed
<1>3. gate'.at # "publishing"
  BY <1>1 DEF Free
<1>4. LastSeq' = LastSeq
  BY <1>2 DEF LastSeq
<1> QED BY <1>1, <1>2, <1>3, <1>4, CommittedKeepsOrder

\* A new publication starts above all there was.
LEMMA Raised ==
  ASSUME LogInvariant, OrderInvariant, ToDo = <<>>,
         Top' \in Position, LastSeq' \in Nat, ToDo' \in Seq(Position),
         LastSeq <= LastSeq', mem'.anchor <= LastSeq', AtMost(Top, Top'),
         Rising(ToDo)',
         \A t \in ToSet(ToDo') : Before(Top, t) /\ AtMost(t, Top') /\ (t[2] > 0 => t[1] = LastSeq'),
         mem'.up = mem.up, UNCHANGED <<bus, reader>>
  PROVE  OrderInvariant'
<1>1. /\ Top \in Position /\ Top' \in Position /\ LastSeq \in Nat /\ LastSeq' \in Nat
      /\ ToDo' \in Seq(Position)
  BY OrderFacts
<1>2. ToSet(ToDo) = {}
  BY EmptyInOrder
<1>3. \A t \in ToSet(ToDo') : t \in Position
  BY <1>1, LenProperties DEF ToSet
<1>4. ASSUME NEW p \in Position, AtMost(p, Top)
      PROVE  AtMost(p, Top') /\ \A t \in ToSet(ToDo') : Before(p, t) /\ AtMost(p, t)
  <2>1. AtMost(p, Top')
    BY <1>1, <1>4, BeforeIsOrder
  <2>2. ASSUME NEW t \in ToSet(ToDo') PROVE Before(p, t) /\ AtMost(p, t)
    BY <1>1, <1>3, <1>4, <2>2, BeforeIsOrder
  <2> QED BY <2>1, <2>2
<1>5. \A p : (IsAnnounced(p) => IsAnnounced(p)') /\ (IsDelivered(p) => IsDelivered(p)')
  BY <1>4 DEF IsAnnounced, IsDelivered
<1>6. GateInOrder'
  BY <1>3 DEF GateInOrder
<1>7. BusInOrder'
  BY <1>5 DEF OrderInvariant, BusInOrder
<1>8. ASSUME NEW rd \in ReaderType, InOrder(rd) PROVE InOrder(rd)'
  <2>1. \A p \in ToSet(rd.got) : p \in Position
    <3>1. rd.got \in Seq(Position)
      BY DEF ReaderType
    <3> QED BY <3>1, LenProperties DEF ToSet
  <2>2. \A p \in ToSet(rd.got) : AtMost(p, Top') /\ \A t \in ToSet(ToDo') : AtMost(p, t)
    BY <1>4, <1>8, <2>1 DEF InOrder
  <2>3. rd.head <= LastSeq'
    <3>1. rd.head \in Nat /\ rd.head <= LastSeq
      BY <1>8 DEF InOrder, ReaderType
    <3> QED BY <1>1, <3>1
  <2>4. rd.at = "merging" => ToSet(bus'.events) \subseteq rd.active \cup ToSet(rd.queue) \cup ToSet(ToDo')
    BY <1>2, <1>8 DEF InOrder
  <2>5. rd.at = "following" => ToSet(bus'.events) \subseteq ToSet(rd.got) \cup ToSet(rd.queue) \cup ToSet(ToDo')
    BY <1>2, <1>8 DEF InOrder
  <2>6. \A p \in ToSet(rd.got) : \A q \in ToSet(rd.queue) : ShouldEmit(q, rd.head) => AtMost(p, q)
    BY <1>8 DEF InOrder
  <2>7. /\ rd.at # "following" => rd.got = <<>>
        /\ rd.at = "off" => rd = Off(rd.from)
        /\ IsFiniteSet(rd.active) /\ Rising(rd.queue) /\ NeverFalling(rd.got)
        /\ \A p \in rd.active : IsAnnounced(p)
        /\ \A p \in ToSet(rd.queue) : IsDelivered(p)
    BY <1>8 DEF InOrder
  <2> QED BY <1>5, <2>2, <2>3, <2>4, <2>5, <2>6, <2>7 DEF InOrder
<1>9. ReadersInOrder'
  BY <1>8 DEF OrderInvariant, ReadersInOrder
<1> QED BY <1>6, <1>7, <1>9 DEF OrderInvariant

LEMMA FoldKeepsOrder ==
  ASSUME LogInvariant, LogInvariant', OrderInvariant, Fold PROVE OrderInvariant'
<1> DEFINE head == LogHead(store)
           fresh == Sorted({s \in gate.seqs : s > LastSeq}, <)
           rest == [i \in 1 .. head - LastSeq |-> LastSeq + i]
           todo == [i \in 1 .. head - LastSeq |-> <<LastSeq + i, 0>>]
<1>1. /\ head \in Nat /\ LastSeq \in Nat /\ LastSeq <= head
      /\ gate.seqs \subseteq 1 .. head /\ LastSeq + 1 .. head \subseteq gate.seqs
      /\ mem.anchor \in Nat /\ mem.sub \in Nat /\ mem.anchor <= LastSeq /\ mem.up
  <2>1. gate # Free
    BY DEF Fold, Free
  <2> QED BY <2>1, Facts DEF LogInvariant, Folded, Fold, MemType, OrderInvariant, GateInOrder
<1>2. fresh = rest
  <2>1. {s \in gate.seqs : s > LastSeq} = LastSeq + 1 .. head
    BY <1>1
  <2> QED BY <1>1, <2>1, SortedInterval
<1>3. Publishing(gate.seqs) /\ UNCHANGED <<store, bus, reader>> /\ ToDo = <<>>
  BY DEF Fold, ToDo
<1>4. DOMAIN rest = 1 .. head - LastSeq
  OBVIOUS
<1>5. CASE fresh = <<>>
  <2>1. gate' = Free /\ mem' = mem
    BY <1>3, <1>5 DEF Publishing
  <2>2. ToDo' = <<>> /\ LastSeq' = LastSeq
    BY <2>1 DEF ToDo, Free, LastSeq
  <2> QED BY <1>3, <2>1, <2>2, SameStream, OrderStays
<1>6. CASE fresh # <<>>
  <2> DEFINE folded == [n \in Names |-> mem.folded[n] \o [i \in DOMAIN fresh |-> Ids[fresh[i]]]]
  <2>1. /\ mem' = [mem EXCEPT !.folded = folded]
        /\ gate' = [at |-> "publishing", half |-> FALSE,
                    todo |-> [i \in DOMAIN fresh |-> <<fresh[i], 0>>], last |-> <<fresh[Len(fresh)], 0>>]
    BY <1>3, <1>6 DEF Publishing
  <2>2. [i \in DOMAIN fresh |-> <<fresh[i], 0>>] = todo
    BY <1>2, <1>4
  <2> HIDE DEF folded, fresh
  <2>3. mem' = [up |-> mem.up, fatal |-> mem.fatal, folded |-> folded,
                anchor |-> mem.anchor, sub |-> mem.sub]
    BY <2>1, Facts
  <2>4. ToDo' = todo
    BY <2>1, <2>2 DEF ToDo
  <2>5. LastSeq' = head
    <3>1. gate'.at # "committed" /\ Live' /\ store' = store
      <4>1. gate' # Free /\ gate'.at = "publishing"
        BY <2>1 DEF Free
      <4>2. mem'.up /\ ~mem'.fatal
        BY <4>1 DEF LogInvariant, Folded
      <4> QED BY <1>3, <4>1, <4>2 DEF Live
    <3> QED BY <3>1 DEF LogInvariant, Folded
  <2>6. head # LastSeq
    <3>1. head = LastSeq => rest = <<>>
      BY <1>1
    <3> QED BY <1>2, <1>6, <3>1
  <2>7. Top' = <<head, 0>>
    BY <1>1, <2>3, <2>5, <2>6 DEF Top
  <2>8. \A i \in 1 .. head - LastSeq :
           todo[i] = <<LastSeq + i, 0>> /\ LastSeq + i \in Nat /\ LastSeq + i <= head
    BY <1>1
  <2>9. DOMAIN todo = 1 .. head - LastSeq /\ todo \in Seq(Position)
    <3>1. DOMAIN todo = 1 .. head - LastSeq /\ head - LastSeq \in Nat
      BY <1>1
    <3>2. todo \in [1 .. head - LastSeq -> Position]
      BY <1>1 DEF Position
    <3> HIDE DEF todo
    <3> QED BY <3>1, <3>2, SeqDef
  <2> HIDE DEF todo, head
  <2>10. Top = <<Top[1], Top[2]>> /\ Top[1] = LastSeq /\ Top[2] \in Nat
    BY OrderFacts DEF Position
  <2>11. \A t \in ToSet(todo) :
            Before(Top, t) /\ AtMost(t, <<head, 0>>) /\ (t[2] > 0 => t[1] = head)
    <3> SUFFICES ASSUME NEW i \in 1 .. head - LastSeq
                 PROVE  /\ Before(Top, todo[i]) /\ AtMost(todo[i], <<head, 0>>)
                        /\ (todo[i][2] > 0 => todo[i][1] = head)
      BY <2>9 DEF ToSet
    <3>1. todo[i][1] = LastSeq + i /\ todo[i][2] = 0 /\ LastSeq + i <= head /\ i > 0
      BY <1>1, <2>8
    <3> QED BY <1>1, <2>10, <3>1 DEF Before, AtMost
  <2>12. Rising(todo)
    <3> SUFFICES ASSUME NEW i \in 1 .. head - LastSeq, NEW j \in 1 .. head - LastSeq, i < j
                 PROVE  Before(todo[i], todo[j])
      BY <2>9 DEF Rising
    <3> QED BY <1>1, <2>8 DEF Before
  <2>13. AtMost(Top, <<head, 0>>)
    BY <1>1, <2>6, <2>10 DEF Before, AtMost
  <2>14. /\ Top' \in Position /\ LastSeq' \in Nat /\ LastSeq <= LastSeq' /\ mem'.anchor <= LastSeq'
         /\ mem'.up = mem.up
    BY <1>1, <2>3, <2>5, <2>7 DEF Position
  <2>15. /\ Rising(ToDo)' /\ ToDo' \in Seq(Position) /\ AtMost(Top, Top')
         /\ \A t \in ToSet(ToDo') : Before(Top, t) /\ AtMost(t, Top') /\ (t[2] > 0 => t[1] = LastSeq')
    BY <2>4, <2>5, <2>7, <2>9, <2>11, <2>12, <2>13
  <2> QED BY <1>3, <2>14, <2>15, Raised
<1> QED BY <1>5, <1>6

LEMMA PublishEphemeralKeepsOrder ==
  ASSUME LogInvariant, OrderInvariant, PublishEphemeral PROVE OrderInvariant'
<1> DEFINE sub == NextSub
           p == <<LastSeq, sub>>
<1>1. /\ gate = Free /\ mem' = [mem EXCEPT !.anchor = LastSeq, !.sub = sub]
      /\ gate' = [at |-> "publishing", half |-> FALSE, todo |-> <<p>>, last |-> p]
      /\ UNCHANGED <<store, bus, reader>>
  BY DEF PublishEphemeral
<1>2. LastSeq \in Nat /\ mem.sub \in Nat /\ Top \in Position /\ Top[1] = LastSeq /\ Top[2] \in Nat
  BY Facts, OrderFacts DEF LogInvariant, Folded, MemType
<1>3. sub \in Nat /\ sub > Top[2]
  BY <1>2 DEF NextSub, Top
<1> HIDE DEF sub
<1>4. mem' = [up |-> mem.up, fatal |-> mem.fatal, folded |-> mem.folded,
              anchor |-> LastSeq, sub |-> sub]
  BY <1>1, Facts
<1>5. LastSeq' = LastSeq /\ mem'.up = mem.up
  BY <1>4 DEF LastSeq
<1>6. Top' = p
  BY <1>4, <1>5 DEF Top
<1>7. ToDo = <<>> /\ ToDo' = <<p>>
  BY <1>1 DEF ToDo, Free
<1>8. p \in Position /\ p[1] = LastSeq /\ p[2] = sub
  BY <1>2, <1>3 DEF Position
<1>9. Before(Top, p) /\ AtMost(p, p) /\ AtMost(Top, p)
  BY <1>2, <1>3, <1>8, BeforeIsOrder DEF Before
<1> HIDE DEF p
<1>10. <<p>> \in Seq(Position) /\ ToSet(<<p>>) = {p} /\ Rising(<<p>>)
  <2>1. <<p>> = Append(<<>>, p)
    OBVIOUS
  <2> QED BY <1>8, <2>1, EmptyInOrder, PositionAppended
<1>11. mem'.anchor <= LastSeq'
  BY <1>2, <1>4, <1>5
<1>12. /\ Rising(ToDo)' /\ ToDo' \in Seq(Position) /\ AtMost(Top, Top')
       /\ \A t \in ToSet(ToDo') : Before(Top, t) /\ AtMost(t, Top') /\ (t[2] > 0 => t[1] = LastSeq')
  BY <1>5, <1>6, <1>7, <1>8, <1>9, <1>10
<1>13. Top' \in Position /\ LastSeq' \in Nat /\ LastSeq <= LastSeq'
  BY <1>2, <1>5, <1>6, <1>8
<1> QED BY <1>1, <1>5, <1>7, <1>11, <1>12, <1>13, Raised

\* The buffer of the open turn's ephemerals takes what is published next, or drops some.
LEMMA AnnounceKeepsOrder ==
  ASSUME LogInvariant, OrderInvariant, Announce PROVE OrderInvariant'
<1> DEFINE p == gate.todo[1]
           kept == Kept(Append(bus.events, p))
<1>1. /\ gate.at = "publishing" /\ gate.todo # <<>> /\ ToDo = gate.todo
      /\ bus' = AfterEvent(bus, p)
      /\ gate' = [at |-> "publishing", half |-> TRUE, todo |-> gate.todo, last |-> gate.last]
      /\ UNCHANGED <<mem, reader>>
  BY PublishingGate DEF Announce, ToDo
<1>2. LastSeq' = LastSeq /\ Top' = Top /\ ToDo' = ToDo
  BY <1>1 DEF LastSeq, Top, ToDo
<1>3. bus \in [turn : Nat, events : Seq(Position)] /\ Rising(ToDo) /\ ToDo \in Seq(Position)
  BY OrderFacts DEF OrderInvariant, GateInOrder, BusInOrder
<1>4. /\ p \in Position /\ p \in ToSet(ToDo)
      /\ \A t \in ToSet(ToDo) : t = p \/ Before(p, t)
  BY <1>1, <1>3, RisingTail
<1>5. p[1] \in Nat /\ p[2] \in Nat /\ IsAnnounced(p)
  <2>1. \A t \in ToSet(ToDo) : t \in Position
    BY DEF OrderInvariant, GateInOrder
  <2>2. \A t \in ToSet(ToDo) : AtMost(p, t)
    BY <1>4, <2>1, BeforeIsOrder
  <2>3. AtMost(p, Top)
    BY <1>4 DEF OrderInvariant, GateInOrder
  <2> QED BY <1>4, <2>2, <2>3 DEF IsAnnounced, Position
<1> HIDE DEF p
<1>6. kept \in Seq(Position) /\ ToSet(kept) \subseteq ToSet(bus.events) \cup {p}
  <2>1. bus.events \in Seq(Position)
    BY <1>3
  <2>2. Append(bus.events, p) \in Seq(Position) /\ ToSet(Append(bus.events, p)) = ToSet(bus.events) \cup {p}
    BY <1>4, <2>1, PositionAppended
  <2> QED BY <2>2, KeptIsPart
<1> HIDE DEF kept
<1>7. /\ bus' \in [turn : Nat, events : Seq(Position)]
      /\ \A q \in ToSet(bus'.events) : q \in ToSet(bus.events) \/ (q = p /\ p[2] > 0)
  <2>1. CASE p[2] # 0 /\ bus.turn # 0
    <3>1. bus' = [bus EXCEPT !.events = kept]
      BY <1>1, <2>1 DEF AfterEvent, kept
    <3>2. bus' = [turn |-> bus.turn, events |-> kept]
      BY <1>3, <3>1
    <3> QED BY <1>3, <1>5, <1>6, <2>1, <3>2
  <2>2. CASE ~(p[2] # 0 /\ bus.turn # 0)
    <3>1. bus' = bus \/ bus' = EmptyBus \/ bus' = [turn |-> p[1], events |-> <<>>]
      BY <1>1, <2>2 DEF AfterEvent
    <3>2. EmptyBus = [turn |-> 0, events |-> <<>>]
      BY DEF EmptyBus
    <3>3. CASE bus' = bus
      BY <1>3, <3>3
    <3>4. CASE bus' # bus
      <4>1. bus' = [turn |-> 0, events |-> <<>>] \/ bus' = [turn |-> p[1], events |-> <<>>]
        BY <3>1, <3>2, <3>4
      <4>3. PICK n \in Nat : bus' = [turn |-> n, events |-> <<>>]
        BY <1>5, <4>1
      <4>4. <<>> \in Seq(Position)
        BY EmptyInOrder
      <4>2. bus'.events = <<>> /\ bus' \in [turn : Nat, events : Seq(Position)]
        BY <4>3, <4>4
      <4> QED BY <4>2, EmptyInOrder
    <3> QED BY <3>3, <3>4
  <2> QED BY <2>1, <2>2
<1>8. \A q : (IsAnnounced(q) => IsAnnounced(q)') /\ (IsDelivered(q) => IsDelivered(q)')
  BY <1>2 DEF IsAnnounced, IsDelivered
<1>9. GateInOrder'
  BY <1>1, <1>2 DEF OrderInvariant, GateInOrder
<1>10. BusInOrder'
  <2>1. mem'.up
    <3>1. gate # Free
      BY <1>1 DEF Free
    <3> QED BY <1>1, <3>1 DEF LogInvariant, Folded
  <2> QED BY <1>5, <1>7, <1>8, <2>1 DEF OrderInvariant, BusInOrder
<1>11. ASSUME NEW rd, InOrder(rd) PROVE InOrder(rd)'
  <2>1. \A q \in ToSet(bus'.events) : q \in ToSet(bus.events) \cup ToSet(ToDo)
    BY <1>4, <1>7
  <2> HIDE DEF p
  <2> QED BY <1>2, <1>8, <1>11, <2>1 DEF InOrder
<1>12. ReadersInOrder'
  BY <1>1, <1>11 DEF OrderInvariant, ReadersInOrder
<1> QED BY <1>9, <1>10, <1>12 DEF OrderInvariant

\* A subscription receives what comes after all it received.
LEMMA DeliverKeepsOrder ==
  ASSUME LogInvariant, OrderInvariant, Deliver PROVE OrderInvariant'
<1>13. PICK p : p = gate.todo[1]
  OBVIOUS
<1> DEFINE given(rd) == [rd EXCEPT !.queue = Append(@, p)]
<1>1. /\ gate.at = "publishing" /\ gate.todo # <<>> /\ ToDo = gate.todo
      /\ gate' = [at |-> "publishing", half |-> FALSE, todo |-> Tail(gate.todo), last |-> gate.last]
      /\ reader' = [r \in Readers |-> IF reader[r].at = "off" THEN reader[r] ELSE given(reader[r])]
      /\ UNCHANGED <<mem, bus>>
  BY <1>13, PublishingGate DEF Deliver, ToDo
<1>2. LastSeq' = LastSeq /\ Top' = Top /\ ToDo' = Tail(ToDo)
  BY <1>1 DEF LastSeq, Top, ToDo
<1>3. ToDo # <<>> /\ Rising(ToDo) /\ ToDo \in Seq(Position)
  BY <1>1, OrderFacts DEF OrderInvariant, GateInOrder
<1>4. /\ p \in Position /\ ToSet(ToDo) = {p} \cup ToSet(Tail(ToDo)) /\ Rising(Tail(ToDo))
      /\ \A t \in ToSet(Tail(ToDo)) : Before(p, t)
  BY <1>1, <1>3, <1>13, RisingTail
<1>5. AtMost(p, Top)
  BY <1>4 DEF OrderInvariant, GateInOrder
<1>6. \A q : (IsAnnounced(q) => IsAnnounced(q)') /\ (IsDelivered(q) => IsDelivered(q)')
  BY <1>2, <1>4 DEF IsAnnounced, IsDelivered
<1>7. IsDelivered(p)'
  BY <1>2, <1>4, <1>5 DEF IsDelivered
<1>8. GateInOrder'
  BY <1>1, <1>2, <1>4 DEF OrderInvariant, GateInOrder
<1>9. BusInOrder'
  BY <1>1, <1>6 DEF OrderInvariant, BusInOrder
<1>10. ASSUME NEW rd \in ReaderType, InOrder(rd), rd.at = "off" PROVE InOrder(rd)'
  BY <1>1, <1>2, <1>4, <1>6, <1>10 DEF InOrder
<1>11. ASSUME NEW rd \in ReaderType, InOrder(rd), rd.at # "off"
       PROVE  given(rd) \in ReaderType /\ InOrder(given(rd))' /\ given(rd).at # "off"
  <2> DEFINE new == given(rd)
             queue == Append(rd.queue, p)
  <2>1. new = [at |-> rd.at, from |-> rd.from, head |-> rd.head, through |-> rd.through,
               cursor |-> rd.cursor, active |-> rd.active, queue |-> queue, got |-> rd.got]
    BY ReaderIsRecord DEF With
  <2>2. rd.queue \in Seq(Position) /\ Rising(rd.queue)
    BY <1>11 DEF ReaderType, InOrder
  <2>3. \A x \in ToSet(rd.queue) : Before(x, p)
    BY <1>4, <1>11 DEF InOrder, IsDelivered
  <2>4. queue \in Seq(Position) /\ ToSet(queue) = ToSet(rd.queue) \cup {p} /\ Rising(queue)
    BY <1>4, <2>2, <2>3, PositionAppended
  <2> HIDE DEF queue, new
  <2>5. new \in ReaderType
    BY <2>1, <2>4 DEF ReaderType
  <2>6. \A q \in ToSet(queue) : IsDelivered(q)'
    BY <1>6, <1>7, <1>11, <2>4 DEF InOrder
  <2>7. \A x \in ToSet(rd.got) :
           /\ AtMost(x, Top)
           /\ \A q \in ToSet(queue) \cup ToSet(Tail(ToDo)) : ShouldEmit(q, rd.head) => AtMost(x, q)
    BY <1>4, <1>11, <2>4 DEF InOrder
  <2>8. /\ rd.at = "merging" => ToSet(bus.events) \subseteq rd.active \cup ToSet(queue) \cup ToSet(Tail(ToDo))
        /\ rd.at = "following" => ToSet(bus.events) \subseteq ToSet(rd.got) \cup ToSet(queue) \cup ToSet(Tail(ToDo))
    BY <1>4, <1>11, <2>4 DEF InOrder
  <2>9. /\ rd.head <= LastSeq /\ (rd.at # "following" => rd.got = <<>>)
        /\ IsFiniteSet(rd.active) /\ NeverFalling(rd.got)
        /\ \A x \in rd.active : IsAnnounced(x)'
    BY <1>6, <1>11 DEF InOrder
  <2>10. InOrder(new)'
    BY <1>1, <1>2, <1>11, <2>1, <2>4, <2>6, <2>7, <2>8, <2>9 DEF InOrder
  <2> QED BY <1>11, <2>1, <2>5, <2>10 DEF new
<1> HIDE DEF given
<1>12. ReadersInOrder'
  <2>1. ASSUME NEW r \in Readers PROVE (reader[r] \in ReaderType /\ InOrder(reader[r]))'
    <3>0. PICK old : old = reader[r]
      OBVIOUS
    <3>1. old \in ReaderType /\ InOrder(old)
      BY <3>0 DEF OrderInvariant, ReadersInOrder
    <3>2. CASE old.at = "off"
      <4>1. reader'[r] = old
        BY <1>1, <3>0, <3>2
      <4> QED BY <1>10, <3>1, <3>2, <4>1
    <3>3. CASE old.at # "off"
      <4>1. reader'[r] = given(old)
        BY <1>1, <3>0, <3>3
      <4>2. PICK new : new = given(old)
        OBVIOUS
      <4> QED BY <1>11, <3>1, <3>3, <4>1, <4>2
    <3> QED BY <3>2, <3>3
  <2>2. mem'.up
    <3>1. gate # Free
      BY <1>1 DEF Free
    <3> QED BY <1>1, <3>1 DEF LogInvariant, Folded
  <2>3. reader' = [r \in Readers |-> reader'[r]]
    BY <1>1
  <2> QED BY <2>1, <2>2, <2>3 DEF ReadersInOrder
<1> QED BY <1>8, <1>9, <1>12 DEF OrderInvariant

\* One reader moves, and nothing else.
LEMMA ReaderMoves ==
  ASSUME OrderInvariant, NEW r \in Readers, NEW new, new \in ReaderType, InOrder(new), Step(r, new)
  PROVE  OrderInvariant'
<1>1. mem.up /\ reader' = [reader EXCEPT ![r] = new] /\ UNCHANGED <<mem, gate, bus>>
  BY DEF Step
<1>2. LastSeq' = LastSeq /\ Top' = Top /\ ToDo' = ToDo
  BY <1>1 DEF LastSeq, Top, ToDo
<1>3. \A p : (IsAnnounced(p) => IsAnnounced(p)') /\ (IsDelivered(p) => IsDelivered(p)')
  BY <1>2 DEF IsAnnounced, IsDelivered
<1>4. GateInOrder' /\ BusInOrder'
  BY <1>1, <1>2, <1>3 DEF OrderInvariant, GateInOrder, BusInOrder
<1>5. ASSUME NEW rd, InOrder(rd) PROVE InOrder(rd)'
  BY <1>1, <1>2, <1>3, <1>5 DEF InOrder
<1>6. reader \in [Readers -> ReaderType]
  BY DEF OrderInvariant, ReadersInOrder
<1>7. reader' \in [Readers -> ReaderType]
  BY <1>1, <1>6
<1>8. ASSUME NEW q \in Readers PROVE InOrder(reader[q])'
  <2>1. PICK rd : rd = reader'[q]
    OBVIOUS
  <2>2. InOrder(rd)
    <3>1. CASE q = r
      <4>1. reader'[q] = new
        BY <1>1, <1>6, <3>1
      <4> QED BY <2>1, <4>1
    <3>2. CASE q # r
      <4>1. reader'[q] = reader[q] /\ InOrder(reader[q])
        BY <1>1, <1>6, <3>2 DEF OrderInvariant, ReadersInOrder
      <4> QED BY <2>1, <4>1
    <3> QED BY <3>1, <3>2
  <2>3. InOrder(rd)'
    BY <1>5, <2>2
  <2> QED BY <2>1, <2>3
<1>9. ReadersInOrder'
  BY <1>1, <1>7, <1>8 DEF ReadersInOrder
<1> QED BY <1>4, <1>9 DEF OrderInvariant

LEMMA SubscribeKeepsOrder ==
  ASSUME LogInvariant, OrderInvariant, NEW r \in Readers, Subscribe(r) \/ ReadHead(r)
  PROVE  OrderInvariant'
<1>1. PICK rd : rd = reader[r]
  OBVIOUS
<1>2. rd \in ReaderType /\ InOrder(rd)
  BY <1>1 DEF OrderInvariant, ReadersInOrder
<1>3. PICK at \in {"subscribed", "replaying"}, head \in {rd.head, LastSeq} :
        /\ Step(r, With(rd, at, head, rd.active, rd.queue, rd.got))
        /\ rd.at \in {"off", "subscribed"}
  <2>1. CASE Subscribe(r)
    <3>1. Step(r, [rd EXCEPT !.at = "subscribed"]) /\ rd.at = "off"
      BY <1>1, <2>1 DEF Subscribe
    <3>2. [rd EXCEPT !.at = "subscribed"] = With(rd, "subscribed", rd.head, rd.active, rd.queue, rd.got)
      BY <1>2, ReaderIsRecord
    <3> QED BY <3>1, <3>2
  <2>2. CASE ReadHead(r)
    <3>1. Step(r, [rd EXCEPT !.at = "replaying", !.head = LastSeq]) /\ rd.at = "subscribed"
      BY <1>1, <2>2 DEF ReadHead
    <3>2. [rd EXCEPT !.at = "replaying", !.head = LastSeq]
            = With(rd, "replaying", LastSeq, rd.active, rd.queue, rd.got)
      BY <1>2, ReaderIsRecord
    <3> QED BY <3>1, <3>2
  <2> QED BY <2>1, <2>2
<1> DEFINE new == With(rd, at, head, rd.active, rd.queue, rd.got)
<1>4. rd.head \in Nat /\ rd.head <= LastSeq /\ LastSeq \in Nat
  BY <1>2, OrderFacts DEF ReaderType, InOrder
<1>5. new \in ReaderType
  BY <1>2, <1>4 DEF ReaderType, With
<1>6. new.at = at /\ new.head = head /\ new.active = rd.active /\ new.queue = rd.queue /\ new.got = rd.got
  BY WithIsReader
<1> HIDE DEF new
<1>7. rd.got = <<>>
  BY <1>2, <1>3 DEF InOrder
<1>8. ToSet(rd.got) = {}
  BY <1>7, EmptyInOrder
<1>9. InOrder(new)
  BY <1>2, <1>3, <1>4, <1>6, <1>7, <1>8 DEF InOrder
<1> QED BY <1>3, <1>5, <1>9, ReaderMoves DEF new

LEMMA ReadPageKeepsOrder ==
  ASSUME LogInvariant, OrderInvariant, NEW r \in Readers, ReadPage(r)
  PROVE  OrderInvariant'
<1>1. PICK rd : rd = reader[r]
  OBVIOUS
<1>2. rd \in ReaderType /\ InOrder(rd)
  BY <1>1 DEF OrderInvariant, ReadersInOrder
<1> DEFINE through == IF rd.through = 0 THEN LogHead(store) ELSE rd.through
           last == Page(rd.cursor, through, PageRows).last
           at == IF last < through THEN "replaying" ELSE "replayed"
           new == [rd EXCEPT !.through = through, !.cursor = last, !.at = at]
<1>3. rd.at = "replaying" /\ Step(r, new)
  BY <1>1 DEF ReadPage
<1>4. through \in Nat /\ last \in Nat
  <2>1. rd.through \in Nat /\ rd.cursor \in Nat /\ LogHead(store) \in Nat /\ PageRows \in Nat
    BY <1>2, Facts, BoundsAssumption DEF ReaderType
  <2>2. through \in Nat
    BY <2>1
  <2>3. last = IF through - rd.cursor > PageRows THEN rd.cursor + PageRows ELSE through
    BY DEF Page
  <2> HIDE DEF through, last
  <2> QED BY <2>1, <2>2, <2>3
<1>5. at \in {"replaying", "replayed"}
  OBVIOUS
<1> HIDE DEF through, last, at
<1>6. new = [at |-> at, from |-> rd.from, head |-> rd.head, through |-> through,
             cursor |-> last, active |-> rd.active, queue |-> rd.queue, got |-> rd.got]
  <2>1. rd = [at |-> rd.at, from |-> rd.from, head |-> rd.head, through |-> rd.through,
              cursor |-> rd.cursor, active |-> rd.active, queue |-> rd.queue, got |-> rd.got]
    BY <1>2 DEF ReaderType
  <2> DEFINE one == [at |-> rd.at, from |-> rd.from, head |-> rd.head, through |-> through,
                     cursor |-> rd.cursor, active |-> rd.active, queue |-> rd.queue, got |-> rd.got]
             two == [at |-> rd.at, from |-> rd.from, head |-> rd.head, through |-> through,
                     cursor |-> last, active |-> rd.active, queue |-> rd.queue, got |-> rd.got]
  <2>2. new = [[[rd EXCEPT !.through = through] EXCEPT !.cursor = last] EXCEPT !.at = at]
    OBVIOUS
  <2>3. [rd EXCEPT !.through = through] = one
    BY ONLY <2>1
  <2>4. [one EXCEPT !.cursor = last] = two
    OBVIOUS
  <2>5. [two EXCEPT !.at = at]
          = [at |-> at, from |-> rd.from, head |-> rd.head, through |-> through,
             cursor |-> last, active |-> rd.active, queue |-> rd.queue, got |-> rd.got]
    OBVIOUS
  <2> HIDE DEF one, two, new
  <2> QED BY <2>2, <2>3, <2>4, <2>5
<1> HIDE DEF new
<1>7. new \in ReaderType
  BY <1>2, <1>4, <1>5, <1>6 DEF ReaderType
<1>8. InOrder(new)
  BY <1>2, <1>3, <1>5, <1>6 DEF InOrder
<1> QED BY <1>3, <1>7, <1>8, ReaderMoves

LEMMA ReadActiveTurnKeepsOrder ==
  ASSUME LogInvariant, OrderInvariant, NEW r \in Readers, ReadActiveTurn(r)
  PROVE  OrderInvariant'
<1>1. PICK rd : rd = reader[r]
  OBVIOUS
<1>2. rd \in ReaderType /\ InOrder(rd)
  BY <1>1 DEF OrderInvariant, ReadersInOrder
<1> DEFINE new == With(rd, "merging", rd.head, ToSet(bus.events), rd.queue, rd.got)
<1>3. rd.at = "replayed" /\ Step(r, new)
  <2>1. rd.at = "replayed" /\ Step(r, [rd EXCEPT !.at = "merging", !.active = ToSet(bus.events)])
    BY <1>1 DEF ReadActiveTurn
  <2>2. [rd EXCEPT !.at = "merging", !.active = ToSet(bus.events)] = new
    BY <1>2, ReaderIsRecord
  <2> QED BY <2>1, <2>2
<1>4. bus.events \in Seq(Position) /\ \A p \in ToSet(bus.events) : IsAnnounced(p)
  BY DEF OrderInvariant, BusInOrder
<1>5. ToSet(bus.events) \subseteq Position /\ IsFiniteSet(ToSet(bus.events))
  BY <1>4, FinitelyMany
<1>6. new \in ReaderType
  BY <1>2, <1>5 DEF ReaderType, With
<1>7. /\ new.at = "merging" /\ new.head = rd.head /\ new.active = ToSet(bus.events)
      /\ new.queue = rd.queue /\ new.got = rd.got
  BY WithIsReader
<1> HIDE DEF new
<1>8. InOrder(new)
  BY <1>2, <1>3, <1>4, <1>5, <1>7 DEF InOrder
<1> QED BY <1>3, <1>6, <1>8, ReaderMoves

LEMMA ReplayedIsFinite ==
  ASSUME NEW rd \in ReaderType
  PROVE  Replayed(rd) \subseteq Position /\ IsFiniteSet(Replayed(rd))
<1> DEFINE S == rd.from + 1 .. rd.head
           f == [s \in S |-> <<s, 0>>]
<1>1. rd.from \in Nat /\ rd.head \in Nat
  BY DEF ReaderType
<1>2. Replayed(rd) = {<<s, 0>> : s \in S}
  BY DEF Replayed
<1>3. Replayed(rd) \subseteq Position
  BY <1>1, <1>2 DEF Position
<1>4. rd.from + 1 \in Int /\ rd.head \in Int
  BY <1>1
<1>5. IsFiniteSet(S)
  BY <1>4, FS_Interval
<1> HIDE DEF S
<1>6. f \in Surjection(S, Replayed(rd))
  BY <1>2 DEF Surjection
<1> QED BY <1>3, <1>5, <1>6, FS_Surjection

LEMMA MergeKeepsOrder ==
  ASSUME LogInvariant, OrderInvariant, NEW r \in Readers, Merge(r)
  PROVE  OrderInvariant'
<1>1. PICK rd : rd = reader[r]
  OBVIOUS
<1>2. rd \in ReaderType /\ InOrder(rd)
  BY <1>1 DEF OrderInvariant, ReadersInOrder
<1> DEFINE S == Replayed(rd) \cup rd.active \cup Buffered(rd)
           got == Sorted(S, Before)
           new == With(rd, "following", rd.head, {}, <<>>, got)
<1>3. rd.at = "merging" /\ Step(r, new)
  <2>1. rd.at = "merging"
        /\ Step(r, [rd EXCEPT !.at = "following", !.queue = <<>>, !.active = {}, !.got = got])
    BY <1>1 DEF Merge, Merged
  <2>2. [rd EXCEPT !.at = "following", !.queue = <<>>, !.active = {}, !.got = got] = new
    <3> HIDE DEF got
    <3> QED BY <1>2, ReaderIsRecord
  <2> QED BY <2>1, <2>2
<1>4. /\ Top \in Position /\ LastSeq \in Nat /\ Top[1] = LastSeq /\ Top[2] \in Nat
      /\ ToDo \in Seq(Position)
  BY OrderFacts
<1>5. rd.queue \in Seq(Position) /\ rd.active \subseteq Position /\ IsFiniteSet(rd.active) /\ rd.head \in Nat
      /\ rd.from \in Nat /\ rd.head <= LastSeq
  BY <1>2 DEF ReaderType, InOrder
<1>6. Buffered(rd) \subseteq ToSet(rd.queue)
  BY DEF Buffered
<1>7. S \in SUBSET Position /\ IsFiniteSet(S)
  <2>1. ToSet(rd.queue) \subseteq Position /\ IsFiniteSet(ToSet(rd.queue))
    BY <1>5, FinitelyMany
  <2>2. IsFiniteSet(Buffered(rd))
    BY <1>6, <2>1, FS_Subset
  <2>3. Replayed(rd) \subseteq Position /\ IsFiniteSet(Replayed(rd))
    BY <1>2, ReplayedIsFinite
  <2>4. IsFiniteSet(Replayed(rd) \cup rd.active)
    BY <1>5, <2>3, FS_Union
  <2>5. IsFiniteSet(S)
    BY <2>2, <2>4, FS_Union
  <2> QED BY <1>5, <1>6, <2>1, <2>3, <2>5
<1>8. ToSet(ToDo) \subseteq Position
  BY <1>4, FinitelyMany
<1>9. ASSUME NEW p \in S
      PROVE  AtMost(p, Top) /\ \A t \in ToSet(ToDo) : ShouldEmit(t, rd.head) => AtMost(p, t)
  <2>1. CASE p \in Replayed(rd)
    <3>1. p[1] \in Nat /\ p[1] <= rd.head /\ p[2] = 0
      BY <1>5, <2>1 DEF Replayed
    <3>2. AtMost(p, Top)
      BY <1>4, <1>5, <3>1 DEF AtMost, Before
    <3>3. ASSUME NEW t \in ToSet(ToDo), ShouldEmit(t, rd.head) PROVE AtMost(p, t)
      <4>1. t[1] \in Nat /\ t[2] \in Nat /\ (t[2] > 0 => t[1] = LastSeq)
        BY <1>8 DEF OrderInvariant, GateInOrder, Position
      <4> QED BY <1>4, <1>5, <3>1, <3>3, <4>1 DEF AtMost, Before, ShouldEmit
    <3> QED BY <3>2, <3>3
  <2>2. CASE p \in rd.active
    BY <1>2, <2>2 DEF InOrder, IsAnnounced
  <2>3. CASE p \in Buffered(rd)
    <3>1. IsDelivered(p)
      BY <1>2, <1>6, <2>3 DEF InOrder
    <3>2. \A t \in ToSet(ToDo) : t \in Position
      BY <1>8
    <3> QED BY <3>1, <3>2, BeforeIsOrder DEF IsDelivered
  <2> QED BY <2>1, <2>2, <2>3
<1>10. ToSet(bus.events) \subseteq S \cup ToSet(ToDo)
  <2>1. ToSet(bus.events) \subseteq rd.active \cup ToSet(rd.queue) \cup ToSet(ToDo)
    BY <1>2, <1>3 DEF InOrder
  <2>2. \A p \in ToSet(bus.events) : ShouldEmit(p, rd.head)
    BY DEF OrderInvariant, BusInOrder, ShouldEmit
  <2> QED BY <2>1, <2>2 DEF Buffered
<1> HIDE DEF S
<1>11. got \in Seq(Position) /\ ToSet(got) = S /\ Rising(got)
  BY <1>7, SortedRises
<1> HIDE DEF got
<1>12. NeverFalling(got)
  BY <1>11, RisingNeverFalls
<1>13. IsFiniteSet({})
  BY FS_EmptySet
<1>14. new \in ReaderType
  BY <1>2, <1>11, EmptyInOrder DEF ReaderType, With
<1>15. new.at = "following" /\ new.head = rd.head /\ new.active = {} /\ new.queue = <<>> /\ new.got = got
  BY WithIsReader
<1> HIDE DEF new
<1>16. InOrder(new)
  <2>1. ToSet(new.queue) = {} /\ Rising(new.queue)
    BY <1>15, EmptyInOrder
  <2> QED BY <1>5, <1>9, <1>10, <1>11, <1>12, <1>13, <1>15, <2>1 DEF InOrder
<1> QED BY <1>3, <1>14, <1>16, ReaderMoves

LEMMA FollowKeepsOrder ==
  ASSUME LogInvariant, OrderInvariant, NEW r \in Readers, Follow(r)
  PROVE  OrderInvariant'
<1>1. PICK rd : rd = reader[r]
  OBVIOUS
<1>2. rd \in ReaderType /\ InOrder(rd)
  BY <1>1 DEF OrderInvariant, ReadersInOrder
<1> DEFINE p == rd.queue[1]
           rest == Tail(rd.queue)
           got == IF ShouldEmit(p, rd.head) THEN Append(rd.got, p) ELSE rd.got
           new == With(rd, rd.at, rd.head, rd.active, rest, got)
<1>3. rd.at = "following" /\ rd.queue # <<>> /\ Step(r, new)
  <2>1. rd.at = "following" /\ rd.queue # <<>> /\ Step(r, [rd EXCEPT !.queue = rest, !.got = got])
    BY <1>1 DEF Follow
  <2>2. [rd EXCEPT !.queue = rest, !.got = got] = new
    <3>1. \A q, g : [rd EXCEPT !.queue = q, !.got = g] = With(rd, rd.at, rd.head, rd.active, q, g)
      BY <1>2, ReaderIsRecord
    <3> HIDE DEF got, rest
    <3> QED BY <3>1
  <2> QED BY <2>1, <2>2
<1>4. rd.queue \in Seq(Position) /\ rd.got \in Seq(Position) /\ Rising(rd.queue) /\ NeverFalling(rd.got)
  BY <1>2 DEF ReaderType, InOrder
<1>5. /\ p \in Position /\ rest \in Seq(Position) /\ Rising(rest)
      /\ ToSet(rd.queue) = {p} \cup ToSet(rest)
      /\ \A x \in ToSet(rest) : Before(p, x)
  BY <1>3, <1>4, RisingTail
<1>6. ToSet(rest) \subseteq Position /\ ToSet(ToDo) \subseteq Position
  BY <1>5, OrderFacts, FinitelyMany
<1>7. IsDelivered(p)
  BY <1>2, <1>5 DEF InOrder
<1> HIDE DEF p, rest
<1>8. /\ got \in Seq(Position) /\ NeverFalling(got)
      /\ ToSet(got) = IF ShouldEmit(p, rd.head) THEN ToSet(rd.got) \cup {p} ELSE ToSet(rd.got)
  <2>1. CASE ShouldEmit(p, rd.head)
    <3>1. \A x \in ToSet(rd.got) : AtMost(x, p)
      BY <1>2, <1>5, <2>1 DEF InOrder
    <3> QED BY <1>4, <1>5, <2>1, <3>1, PositionAppended
  <2>2. CASE ~ShouldEmit(p, rd.head)
    BY <1>4, <2>2
  <2> QED BY <2>1, <2>2
<1> HIDE DEF got
<1>9. new \in ReaderType
  BY <1>2, <1>5, <1>8 DEF ReaderType, With
<1>10. new.at = rd.at /\ new.head = rd.head /\ new.active = rd.active /\ new.queue = rest /\ new.got = got
  BY WithIsReader
<1> HIDE DEF new
<1>11. ASSUME NEW x \in ToSet(got)
       PROVE  /\ AtMost(x, Top)
              /\ \A q \in ToSet(rest) \cup ToSet(ToDo) : ShouldEmit(q, rd.head) => AtMost(x, q)
  <2>1. CASE x \in ToSet(rd.got)
    BY <1>2, <1>5, <2>1 DEF InOrder
  <2>2. CASE x = p
    <3>1. AtMost(p, Top)
      BY <1>7 DEF IsDelivered
    <3>2. ASSUME NEW q \in ToSet(rest) \cup ToSet(ToDo) PROVE AtMost(p, q)
      <4>1. Before(p, q) /\ q \in Position
        BY <1>5, <1>6, <1>7 DEF IsDelivered
      <4> QED BY <1>5, <4>1, BeforeIsOrder
    <3> QED BY <2>2, <3>1, <3>2
  <2> QED BY <1>8, <2>1, <2>2
<1>12. ToSet(bus.events) \subseteq ToSet(got) \cup ToSet(rest) \cup ToSet(ToDo)
  <2>1. ToSet(bus.events) \subseteq ToSet(rd.got) \cup ToSet(rd.queue) \cup ToSet(ToDo)
    BY <1>2, <1>3 DEF InOrder
  <2>2. \A x \in ToSet(bus.events) : ShouldEmit(x, rd.head)
    BY DEF OrderInvariant, BusInOrder, ShouldEmit
  <2> QED BY <1>5, <1>8, <2>1, <2>2
<1>13. InOrder(new)
  <2>1. /\ rd.head <= LastSeq /\ IsFiniteSet(rd.active)
        /\ \A x \in rd.active : IsAnnounced(x)
        /\ \A x \in ToSet(rest) : IsDelivered(x)
    BY <1>2, <1>5 DEF InOrder
  <2> QED BY <1>3, <1>5, <1>8, <1>10, <1>11, <1>12, <2>1 DEF InOrder
<1> QED BY <1>3, <1>9, <1>13, ReaderMoves

LEMMA ReaderKeepsOrder ==
  ASSUME LogInvariant, OrderInvariant, NEW r \in Readers, ReaderNext(r)
  PROVE  OrderInvariant'
BY SubscribeKeepsOrder, ReadPageKeepsOrder, ReadActiveTurnKeepsOrder, MergeKeepsOrder,
   FollowKeepsOrder DEF ReaderNext

LEMMA SnapshotKeepsOrder ==
  ASSUME OrderInvariant, RequestSnapshot \/ WriteSnapshot
  PROVE  OrderInvariant'
<1>1. UNCHANGED <<mem, gate, bus, reader>>
  BY DEF RequestSnapshot, WriteSnapshot
<1> QED BY <1>1, OrderStays DEF LastSeq, Top, ToDo

LEMMA ReleaseKeepsOrder ==
  ASSUME OrderInvariant, Release PROVE OrderInvariant'
<1>1. ToDo = <<>> /\ ToDo' = <<>> /\ UNCHANGED <<mem, bus, reader>>
  BY DEF Release, ToDo, Free
<1> QED BY <1>1, OrderStays DEF LastSeq, Top

\* A reader resumes at a position of the log.
LEMMA ResumedIsReader ==
  ASSUME LogInvariant, NEW rd \in ReaderType, InOrder(rd)
  PROVE  Resumed(rd) \in ReaderType /\ \E k \in Nat : Resumed(rd) = Off(k)
<1> DEFINE durable == {p \in ToSet(rd.got) : p[2] = 0}
           newest == CHOOSE p \in durable : \A q \in durable : q[1] <= p[1]
           from == IF durable = {} THEN rd.from ELSE newest[1]
<1>1. from \in Nat
  <2>1. CASE durable = {}
    BY <2>1 DEF ReaderType
  <2>2. CASE durable # {}
    <3>1. LastSeq \in Nat /\ Top[1] = LastSeq /\ ToSet(rd.got) \subseteq Position
      BY OrderFacts, FinitelyMany DEF ReaderType
    <3>2. \A p \in durable : p[1] \in Nat /\ p[1] <= LastSeq
      <4> TAKE p \in durable
      <4>1. p[1] \in Nat /\ AtMost(p, Top)
        BY <3>1 DEF Position, InOrder
      <4> QED BY <3>1, <4>1 DEF AtMost, Before
    <3> HIDE DEF durable
    <3> DEFINE behind == {n \in Nat : \E p \in durable : n = LastSeq - p[1]}
    <3>3. behind # {} /\ behind \in SUBSET Nat
      <4>1. PICK p : p \in durable
        BY <2>2
      <4>2. LastSeq - p[1] \in Nat
        BY <3>1, <3>2, <4>1
      <4> QED BY <4>1, <4>2
    <3>4. IsWellFoundedOn(Below, Nat)
      BY NatLessThanWellFounded DEF OpToRel, Below
    <3>5. PICK n \in behind : \A m \in behind : ~ (<<m, n>> \in Below)
      BY <3>3, <3>4, WFMin
    <3>6. PICK p \in durable : n = LastSeq - p[1]
      BY <3>5
    <3>7. ASSUME NEW q \in durable PROVE q[1] <= p[1]
      <4>1. LastSeq - q[1] \in behind /\ LastSeq - q[1] \in Nat /\ n \in Nat
        BY <3>1, <3>2, <3>5
      <4>2. ~(LastSeq - q[1] < n)
        BY <3>5, <4>1 DEF Below
      <4> QED BY <3>1, <3>2, <3>6, <4>2
    <3>8. newest \in durable
      BY <3>6, <3>7
    <3> HIDE DEF newest
    <3> QED BY <2>2, <3>2, <3>8
  <2> QED BY <2>1, <2>2
<1>2. Resumed(rd) = Off(from)
  BY DEF Resumed
<1> HIDE DEF from
<1>3. Off(from) \in ReaderType
  BY <1>1, EmptyInOrder DEF Off, ReaderType
<1> QED BY <1>1, <1>2, <1>3



LEMMA CrashKeepsOrder ==
  ASSUME LogInvariant, OrderInvariant, Crash PROVE OrderInvariant'
<1>1. /\ mem' = [mem EXCEPT !.up = FALSE] /\ gate' = Free /\ bus' = EmptyBus
      /\ reader' = [r \in Readers |-> Resumed(reader[r])]
  BY DEF Crash
<1>2. mem' = [up |-> FALSE, fatal |-> mem.fatal, folded |-> mem.folded,
              anchor |-> mem.anchor, sub |-> mem.sub]
  BY <1>1, Facts
<1>3. LastSeq' = LastSeq /\ LastSeq \in Nat /\ ToDo' = <<>>
  BY <1>1, <1>2, Facts DEF LastSeq, ToDo, Free
<1>4. GateInOrder'
  BY <1>2, <1>3, EmptyInOrder DEF OrderInvariant, GateInOrder
<1>5. bus' \in [turn : Nat, events : Seq(Position)] /\ ToSet(bus'.events) = {}
  BY <1>1, EmptyInOrder DEF EmptyBus
<1>6. BusInOrder'
  BY <1>1, <1>5 DEF BusInOrder, EmptyBus
<1>7. ASSUME NEW r \in Readers
      PROVE  reader'[r] \in ReaderType /\ \E k \in Nat : reader'[r] = Off(k)
  <2>1. reader[r] \in ReaderType /\ InOrder(reader[r])
    BY DEF OrderInvariant, ReadersInOrder
  <2>2. reader'[r] = Resumed(reader[r])
    BY <1>1
  <2> QED BY <2>1, <2>2, ResumedIsReader
<1>8. ASSUME NEW rd, NEW k, rd = Off(k) PROVE InOrder(rd)'
  <2>1. rd.at = "off" /\ rd.head = 0 /\ rd.active = {} /\ rd.queue = <<>> /\ rd.got = <<>>
        /\ rd = Off(rd.from)
    BY <1>8 DEF Off
  <2>2. IsFiniteSet({})
    BY FS_EmptySet
  <2> QED BY <1>3, <2>1, <2>2, EmptyInOrder DEF InOrder
<1>9. ReadersInOrder'
  <2>1. reader' \in [Readers -> ReaderType]
    BY <1>1, <1>7
  <2>2. ASSUME NEW r \in Readers PROVE (InOrder(reader[r]) /\ reader[r].at = "off")'
    <3>1. PICK rd : rd = reader'[r]
      OBVIOUS
    <3>2. PICK k \in Nat : rd = Off(k)
      BY <1>7, <3>1
    <3>3. InOrder(rd)' /\ rd.at = "off"
      BY <1>8, <3>2 DEF Off
    <3> QED BY <3>1, <3>3
  <2> QED BY <2>1, <2>2 DEF ReadersInOrder
<1> QED BY <1>4, <1>6, <1>9 DEF OrderInvariant

LEMMA RestartKeepsOrder ==
  ASSUME LogInvariant, LogInvariant', OrderInvariant, Restart PROVE OrderInvariant'
<1>1. /\ ~mem.up /\ mem' = [up |-> TRUE, fatal |-> FALSE, folded |-> Hydrated, anchor |-> 0, sub |-> 0]
      /\ UNCHANGED <<gate, bus, reader>>
  BY DEF Restart
<1>2. LastSeq' \in Nat
  <2>1. mem' \in MemType /\ "framework" \in Names
    BY DEF LogInvariant, Folded, Names
  <2>2. mem'.folded["framework"] \in Seq(Nat)
    BY <2>1 DEF MemType
  <2> QED BY <2>2, LenProperties DEF LastSeq
<1>3. ToDo' = <<>> /\ bus' = EmptyBus
  <2>1. gate = Free
    BY <1>1 DEF LogInvariant, Folded
  <2> QED BY <1>1, <2>1 DEF ToDo, Free, OrderInvariant, BusInOrder
<1>4. GateInOrder'
  BY <1>1, <1>2, <1>3, EmptyInOrder DEF GateInOrder
<1>5. ToSet(bus'.events) = {}
  BY <1>3, EmptyInOrder DEF EmptyBus
<1>6. BusInOrder'
  BY <1>1, <1>3, <1>5 DEF OrderInvariant, BusInOrder
<1>7. ASSUME NEW rd, InOrder(rd), rd.at = "off" PROVE InOrder(rd)'
  <2>1. rd = Off(rd.from)
    BY <1>7 DEF InOrder
  <2>2. rd.head = 0 /\ rd.active = {} /\ rd.queue = <<>> /\ rd.got = <<>>
    BY <2>1 DEF Off
  <2>3. IsFiniteSet({})
    BY FS_EmptySet
  <2> QED BY <1>2, <1>7, <2>1, <2>2, <2>3, EmptyInOrder DEF InOrder
<1> QED BY <1>1, <1>4, <1>6, <1>7 DEF OrderInvariant, ReadersInOrder

LEMMA OrderInitHolds == ASSUME LogInit PROVE OrderInvariant
<1>1. /\ mem = [up |-> TRUE, fatal |-> FALSE, folded |-> [n \in Names |-> <<>>], anchor |-> 0, sub |-> 0]
      /\ gate = Free /\ bus = EmptyBus /\ reader = [r \in Readers |-> Off(0)]
  BY DEF LogInit
<1>2. "framework" \in Names
  BY DEF Names
<1>3. LastSeq = 0
  <2>1. LastSeq = Len(<<>>)
    BY <1>1, <1>2 DEF LastSeq
  <2> QED BY <2>1, EmptySeq
<1>4. ToDo = <<>>
  BY <1>1 DEF ToDo, Free
<1>5. GateInOrder
  BY <1>1, <1>3, <1>4, EmptyInOrder DEF GateInOrder
<1>6. BusInOrder
  BY <1>1, EmptyInOrder DEF BusInOrder, EmptyBus
<1>7. Off(0) \in ReaderType
  BY EmptyInOrder DEF Off, ReaderType
<1>8. InOrder(Off(0))
  <2> DEFINE rd == Off(0)
  <2>1. rd.at = "off" /\ rd.head = 0 /\ rd.active = {} /\ rd.queue = <<>> /\ rd.got = <<>>
        /\ rd = Off(rd.from)
    BY DEF Off
  <2>2. IsFiniteSet({})
    BY FS_EmptySet
  <2> HIDE DEF rd
  <2>3. InOrder(rd)
    BY <1>3, <2>1, <2>2, EmptyInOrder DEF InOrder
  <2> QED BY <2>3 DEF rd
<1>9. ReadersInOrder
  BY <1>1, <1>7, <1>8 DEF ReadersInOrder
<1> QED BY <1>5, <1>6, <1>9 DEF OrderInvariant

LEMMA LogStepKeepsOrder ==
  ASSUME LogInvariant, LogInvariant', OrderInvariant, LogStep \/ Release \/ Crash \/ Restart
  PROVE  OrderInvariant'
<1>1. CASE (\E s \in Submissions : Submit(s)) \/ (\E b \in Batches : EngineAppend(b))
  BY <1>1, AppendKeepsOrder
<1>2. CASE TransactionFails \/ (\E b \in Batches : DecodeFails(b))
  BY <1>2, FailureKeepsOrder
<1>3. CASE Fold
  BY <1>3, FoldKeepsOrder
<1>4. CASE PublishEphemeral
  BY <1>4, PublishEphemeralKeepsOrder
<1>5. CASE Announce
  BY <1>5, AnnounceKeepsOrder
<1>6. CASE Deliver
  BY <1>6, DeliverKeepsOrder
<1>7. CASE \E r \in Readers : ReaderNext(r)
  BY <1>7, ReaderKeepsOrder
<1>8. CASE RequestSnapshot \/ WriteSnapshot
  BY <1>8, SnapshotKeepsOrder
<1>9. CASE Release
  BY <1>9, ReleaseKeepsOrder
<1>10. CASE Crash
  BY <1>10, CrashKeepsOrder
<1>11. CASE Restart
  BY <1>11, RestartKeepsOrder
<1> QED BY <1>1, <1>2, <1>3, <1>4, <1>5, <1>6, <1>7, <1>8, <1>9, <1>10, <1>11 DEF LogStep

\* The inductive invariant of the stream, beside that of the log: every event given to the
\* bus so far is at most Top, and what the holder of the append gate has still to deliver
\* rises above all it delivered; what a reader holds, and what the open turn's buffer
\* keeps, lies below it; and a reader that merges or follows holds all that the buffer keeps.
THEOREM OrderInvariantHolds == LogSpec => []OrderInvariant
<1>1. LogInit => OrderInvariant
  BY OrderInitHolds
<1>2. OrderInvariant /\ LogInvariant /\ LogInvariant' /\ [LogNext]_logVars => OrderInvariant'
  <2>1. ASSUME OrderInvariant, LogInvariant, LogInvariant', LogNext PROVE OrderInvariant'
    BY <2>1, LogStepKeepsOrder DEF LogNext
  <2>2. ASSUME OrderInvariant, UNCHANGED logVars PROVE OrderInvariant'
    BY <2>2, OrderStays DEF logVars, LastSeq, Top, ToDo
  <2> QED BY <2>1, <2>2
<1> QED BY <1>1, <1>2, LogInvariantHolds, PTL DEF LogSpec

LEMMA InvariantOrders == ASSUME LogInvariant, OrderInvariant PROVE EventsOrdered
<1> SUFFICES ASSUME NEW r \in Readers
             PROVE  /\ \A i \in 1 .. Len(reader[r].queue) - 1 :
                         Before(reader[r].queue[i], reader[r].queue[i + 1])
                    /\ \A i \in 1 .. Len(reader[r].got) - 1 :
                         ~Before(reader[r].got[i + 1], reader[r].got[i])
                    /\ reader[r].at = "following" =>
                         ToSet(bus.events)
                           \subseteq ToSet(reader[r].got) \cup ToSet(reader[r].queue) \cup InHand
  BY DEF EventsOrdered
<1>1. reader[r] \in ReaderType /\ InOrder(reader[r])
  BY DEF OrderInvariant, ReadersInOrder
<1>2. ASSUME NEW s \in Seq(Position)
      PROVE  \A i \in 1 .. Len(s) - 1 : i \in DOMAIN s /\ i + 1 \in DOMAIN s /\ i < i + 1
  BY LenProperties
<1>3. reader[r].queue \in Seq(Position) /\ reader[r].got \in Seq(Position)
  BY <1>1 DEF ReaderType
<1>4. \A i \in 1 .. Len(reader[r].queue) - 1 : Before(reader[r].queue[i], reader[r].queue[i + 1])
  BY <1>1, <1>2, <1>3 DEF InOrder, Rising
<1>5. \A i \in 1 .. Len(reader[r].got) - 1 : ~Before(reader[r].got[i + 1], reader[r].got[i])
  BY <1>1, <1>2, <1>3 DEF InOrder, NeverFalling, AtMost
<1>6. reader[r].at = "following" =>
        ToSet(bus.events) \subseteq ToSet(reader[r].got) \cup ToSet(reader[r].queue) \cup InHand
  BY <1>1, OrderFacts DEF InOrder
<1> QED BY <1>4, <1>5, <1>6

\* EventsOrdered for every value of the constants: whenever a reader subscribes, replays and
\* merges, and whatever is published meanwhile, what it is given never goes back, and it
\* misses no ephemeral of the open turn that the bus still keeps (eventsAfter,
\* publishEphemeralCore, getActiveTurnEvents).
THEOREM EventsStayOrdered == LogSpec => []EventsOrdered
BY LogInvariantHolds, OrderInvariantHolds, InvariantOrders, PTL

-----------------------------------------------------------------------------
(* The invariant of one sink.                                              *)

Places == {"down", "polling", "waiting", "draining", "hearing", "delivering",
           "staging", "appending", "committing", "failed"}
\* Where a runner has a batch in hand, and where it has called the sink with it.
Busy == {"draining", "delivering", "staging", "appending", "committing"}
Called == {"staging", "appending", "committing"}

Placed == (0 .. LogHead(store)) \X Nat

RowType == [after : Nat, state : Nat]
RunnerType == [at : Places, cursor : Nat, state : Nat,
               fold : {NoProjection} \cup Seq(Nat), through : Nat]

InboxType == [head : Nat, pending : Seq(Position), wake : BOOLEAN]

PastIsTyped(p) ==
    /\ p = [done |-> p.done, staged |-> p.staged, lane |-> p.lane, saved |-> p.saved]
    /\ p.staged \subseteq Nat /\ p.saved \in Nat

SinksTyped ==
    /\ row \in [Sinks -> RowType] /\ runner \in [Sinks -> RunnerType]
    /\ inbox \in [Sinks -> InboxType]
    /\ past = [s \in Sinks |-> past[s]] /\ \A s \in Sinks : PastIsTyped(past[s])

\* What is durable of a sink is about the log there is, and what its cursor is past
\* was delivered.
RowKept(s) ==
    /\ row[s].after <= LogHead(store)
    /\ Interested(s, 0, row[s].after) \subseteq past[s].done
    /\ row[s].state = past[s].saved

UpTo(s) == IF runner[s].at \in {"delivering", "staging", "appending", "committing"}
           THEN runner[s].through ELSE runner[s].cursor

RunnerKept(s) ==
    LET r == runner[s]
    IN  /\ r.at # "down" => r.cursor = row[s].after /\ r.state = row[s].state
        /\ r.at \in Busy => r.cursor < r.through /\ r.through <= LogHead(store)
        /\ r.at \in Called => Interested(s, 0, r.through) \subseteq past[s].done
        /\ r.at = "down" => r.fold = NoProjection
        /\ r.at # "failed" => r.fold \in {NoProjection, Count(UpTo(s))}

\* What was staged is in the log, or is still in hand behind an unmoved cursor.
StagedKept(s) ==
    \A t \in past[s].staged :
      \/ Noted(t)
      \/ t > row[s].after /\ runner[s].at = "staging" /\ t = runner[s].through
      \/ t > row[s].after /\ runner[s].at = "failed"

InboxKept(s) == inbox[s].head <= LogHead(store) /\ inbox[s].pending \in Seq(Placed)

SinkKept(s) == RowKept(s) /\ RunnerKept(s) /\ StagedKept(s) /\ InboxKept(s)

GatePlaced == gate.at = "publishing" => gate.last \in Placed

\* No runner outlives its process.
DownTogether == ~mem.up => \A s \in Sinks : runner[s].at = "down"

SinksInvariant ==
    /\ LogInvariant /\ SinksTyped /\ GatePlaced /\ DownTogether
    /\ \A s \in Sinks : SinkKept(s)

LEMMA InvariantDelivers == ASSUME SinksInvariant PROVE AtLeastOnce /\ SinkStateExact
<1>1. ASSUME NEW s \in Sinks, NEW t \in past[s].staged, t <= row[s].after PROVE Noted(t)
  <2>1. t \in Nat /\ row[s].after \in Nat
    BY DEF SinksInvariant, SinksTyped, PastIsTyped, RowType
  <2> QED BY <1>1, <2>1 DEF SinksInvariant, SinkKept, StagedKept
<1>2. AtLeastOnce
  BY <1>1 DEF SinksInvariant, SinkKept, RowKept, AtLeastOnce
<1>3. \A s \in Sinks : StateKept(s)
  BY DEF SinksInvariant, SinkKept, RowKept, StateKept
<1>4. ASSUME NEW s \in Projected, runner[s].fold # NoProjection, runner[s].at # "failed"
      PROVE  runner[s].fold = SubSeq(Ids, 1, UpTo(s))
  <2>1. s \in Sinks
    BY SinksAssumption
  <2>2. runner[s].fold = Count(UpTo(s))
    BY <1>4, <2>1 DEF SinksInvariant, SinkKept, RunnerKept
  <2>3. LogHead(store) \in Nat /\ Ids = Count(LogHead(store))
    BY IdsAreCount DEF SinksInvariant, LogInvariant, Durable
  <2>4. runner[s].at # "down"
    BY <1>4, <2>1 DEF SinksInvariant, SinkKept, RunnerKept
  <2>5. UpTo(s) \in Nat /\ UpTo(s) <= LogHead(store)
    BY <2>1, <2>4 DEF SinksInvariant, SinksTyped, SinkKept, RowKept, RunnerKept, RunnerType,
                      RowType, UpTo, Busy
  <2> QED BY <2>2, <2>3, <2>5, CountGoesOn
<1>5. \A s \in Projected : ProjectionExact(s)
  BY <1>4 DEF ProjectionExact, UpTo
<1> QED BY <1>2, <1>3, <1>5 DEF SinkStateExact

-----------------------------------------------------------------------------
(* Reading the log, which only grows.                                      *)

LEMMA HeadIsNat == ASSUME SinksInvariant PROVE LogHead(store) \in Nat /\ IsLog(store)
BY IdsAreCount DEF SinksInvariant, LogInvariant, Durable

LEMMA InterestedSplits ==
  ASSUME NEW s, NEW a \in Nat, NEW b \in Nat, a <= b
  PROVE  Interested(s, 0, b) = Interested(s, 0, a) \cup Interested(s, a, b)
BY DEF Interested

LEMMA PlacedGrows ==
  ASSUME LogHead(store) \in Nat, LogHead(store') \in Nat, LogHead(store) <= LogHead(store')
  PROVE  Placed \subseteq Placed' /\ Seq(Placed) \subseteq Seq(Placed')
<1>1. Placed \subseteq Placed'
  BY DEF Placed
<1>2. ASSUME NEW q \in Seq(Placed) PROVE q \in Seq(Placed')
  <2>1. Len(q) \in Nat /\ q \in [1 .. Len(q) -> Placed]
    BY LenProperties
  <2>2. q \in [1 .. Len(q) -> Placed']
    BY <1>1, <2>1
  <2> QED BY <2>1, <2>2, SeqDef
<1> QED BY <1>1, <1>2

\* A sink keeps what it knows of the log when others append to it.
LEMMA SinkOfLongerLog ==
  ASSUME SinksInvariant, NEW s \in Sinks, SinkKept(s), Extends(store, store'),
         IsLog(store'),
         row'[s] = row[s], inbox'[s] = inbox[s], runner'[s] = runner[s], past'[s] = past[s]
  PROVE  SinkKept(s)'
<1>1. /\ LogHead(store) \in Nat /\ LogHead(store') \in Nat /\ LogHead(store) <= LogHead(store')
      /\ DOMAIN store.rows = 1 .. LogHead(store)
      /\ \A p \in 1 .. LogHead(store) : p \in DOMAIN store'.rows /\ store'.rows[p] = store.rows[p]
  <2>1. IsLog(store)
    BY HeadIsNat
  <2>2. /\ Len(store.rows) \in Nat /\ DOMAIN store.rows = 1 .. Len(store.rows)
        /\ Len(store'.rows) \in Nat /\ DOMAIN store'.rows = 1 .. Len(store'.rows)
    BY <2>1, LenProperties DEF IsLog, IsStore
  <2> QED BY <2>2 DEF Extends, LogHead
<1>2. /\ row[s].after \in Nat /\ runner[s].cursor \in Nat /\ runner[s].through \in Nat
      /\ inbox[s].head \in Nat
  BY DEF SinksInvariant, SinksTyped, RowType, RunnerType, InboxType
<1>3. \A k \in Nat : k <= LogHead(store) => Interested(s, 0, k)' = Interested(s, 0, k)
  BY <1>1 DEF Interested
<1>4. \A t : Noted(t) => Noted(t)'
  BY <1>1 DEF Noted
<1>5. RowKept(s)'
  BY <1>1, <1>2, <1>3 DEF SinkKept, RowKept
<1>6. UpTo(s)' = UpTo(s)
  BY DEF UpTo
<1>7. RunnerKept(s)'
  BY <1>1, <1>2, <1>3, <1>6 DEF SinkKept, RunnerKept, Busy, Called
<1>8. StagedKept(s)'
  BY <1>4 DEF SinkKept, StagedKept
<1>9. InboxKept(s)'
  BY <1>1, <1>2, PlacedGrows DEF SinkKept, InboxKept
<1> QED BY <1>5, <1>7, <1>8, <1>9 DEF SinkKept
-----------------------------------------------------------------------------
(* What other steps do to the log and to its gate.                         *)

LEMMA BatchExtends ==
  ASSUME LogInvariant, NEW batch, NEW K, IsBatch(store, batch, K), Appended(store, batch).ok,
         store' = Appended(store, batch).store
  PROVE  Extends(store, store')
<1>1. IsStore(store) /\ batch \in Seq(EventSet)
  BY DEF LogInvariant, Durable, IsLog, IsBatch
<1> QED BY <1>1, AnswersWhatItAdded

LEMMA SameLogExtends == ASSUME LogInvariant, store' = store PROVE Extends(store, store')
BY IdsAreCount DEF LogInvariant, Durable, LogHead, Extends

LEMMA LogStepExtends ==
  ASSUME LogInvariant, LogStep \/ Release \/ Crash \/ Restart PROVE Extends(store, store')
<1>1. ASSUME NEW c \in Submissions, Submit(c) PROVE Extends(store, store')
  <2>1. PICK K : IsBatch(store, Admissions(c), K)
    BY AdmissionsAreBatch DEF LogInvariant, Durable
  <2>2. Committed(Appended(store, Admissions(c)))
    BY <1>1 DEF Submit
  <2> QED BY <2>1, <2>2, BatchExtends DEF Committed
<1>2. ASSUME NEW b \in Batches, EngineAppend(b) \/ DecodeFails(b) PROVE Extends(store, store')
  <2>1. IsBatch(store, Events(b), LogHead(store) + Len(b))
    BY BatchesAreTyped, EventsAreBatch DEF LogInvariant, Durable
  <2>2. Appended(store, Events(b)).ok /\ store' = Appended(store, Events(b)).store
    BY <1>2 DEF EngineAppend, Committed, DecodeFails
  <2> QED BY <2>1, <2>2, BatchExtends
<1>3. CASE UNCHANGED store
  BY <1>3, SameLogExtends
<1> QED BY <1>1, <1>2, <1>3
        DEF LogStep, TransactionFails, Fold, PublishEphemeral, Announce, Deliver, ReaderNext,
            Subscribe, ReadHead, ReadPage, ReadActiveTurn, Merge, Follow, Step,
            RequestSnapshot, WriteSnapshot, Release, Crash, Restart

\* What a publication tells the sinks of last is in the log, or anchored to it.
LEMMA FoldIsPlaced == ASSUME LogInvariant, Fold PROVE GatePlaced'
<1> DEFINE head == LogHead(store)
           fresh == Sorted({s \in gate.seqs : s > LastSeq}, <)
           rest == [i \in 1 .. head - LastSeq |-> LastSeq + i]
<1>1. /\ head \in Nat /\ LastSeq \in Nat /\ LastSeq <= head
      /\ gate.seqs \subseteq 1 .. head /\ LastSeq + 1 .. head \subseteq gate.seqs
  BY Facts DEF LogInvariant, Durable, Folded, Fold
<1>2. {s \in gate.seqs : s > LastSeq} = LastSeq + 1 .. head
  BY <1>1
<1>3. fresh = rest
  BY <1>1, <1>2, SortedInterval
<1>4. Publishing(gate.seqs) /\ store' = store
  BY DEF Fold
<1>5. CASE fresh = <<>>
  <2>1. gate' = Free /\ mem' = mem
    BY <1>4, <1>5 DEF Publishing
  <2> QED BY <2>1 DEF GatePlaced, Free
<1>6. CASE fresh # <<>>
  <2> DEFINE todo == [i \in DOMAIN fresh |-> <<fresh[i], 0>>]
             last == <<fresh[Len(fresh)], 0>>
  <2>7. gate' = [at |-> "publishing", half |-> FALSE, todo |-> todo, last |-> last]
    BY <1>4, <1>6 DEF Publishing
  <2>1. gate'.last = last
    <3> HIDE DEF todo, last
    <3> QED BY <2>7
  <2>2. rest = SubSeq(Count(head), LastSeq + 1, head)
    BY <1>1, CountGoesOn
  <2>3. rest \in Seq(Nat) /\ rest # <<>>
    <3>1. rest \in [1 .. head - LastSeq -> Nat] /\ head - LastSeq \in Nat
      BY <1>1
    <3> HIDE DEF rest, fresh
    <3> QED BY <1>3, <1>6, <3>1, SeqDef
  <2>4. Len(rest) \in DOMAIN rest
    <3> HIDE DEF rest
    <3> QED BY <2>3, EmptySeq, LenProperties
  <2>5. rest[Len(rest)] \in 0 .. head
    <3>1. \A i \in DOMAIN rest : rest[i] \in 0 .. head
      BY <1>1
    <3> HIDE DEF rest
    <3> QED BY <2>4, <3>1
  <2>6. gate'.last \in (0 .. head) \X Nat
    <3> HIDE DEF rest, fresh
    <3> QED BY <1>3, <2>1, <2>5
  <2> QED BY <1>4, <2>6 DEF GatePlaced, Placed
<1> QED BY <1>5, <1>6

LEMMA GateStaysPlaced ==
  ASSUME SinksInvariant, LogStep \/ Release \/ Crash \/ Restart PROVE GatePlaced'
<1>1. CASE Fold
  BY <1>1, FoldIsPlaced DEF SinksInvariant
<1>2. CASE PublishEphemeral
  <2>1. /\ LastSeq \in Nat /\ LastSeq <= LogHead(store) /\ mem \in MemType /\ LogHead(store) \in Nat
    BY Facts DEF SinksInvariant, LogInvariant, Folded
  <2>2. NextSub \in Nat
    BY <2>1 DEF NextSub, MemType
  <2>3. gate'.last = <<LastSeq, NextSub>> /\ store' = store
    BY <1>2 DEF PublishEphemeral
  <2>4. <<LastSeq, NextSub>> \in (0 .. LogHead(store)) \X Nat
    BY <2>1, <2>2
  <2> QED BY <2>3, <2>4 DEF GatePlaced, Placed
<1>3. CASE Announce \/ Deliver
  <2>1. gate.at = "publishing"
    BY <1>3 DEF Announce, Deliver
  <2>2. gate'.last = gate.last /\ store' = store
    BY <1>3, <2>1, PublishingGate DEF Announce, Deliver, SinksInvariant
  <2> QED BY <2>1, <2>2 DEF SinksInvariant, GatePlaced, Placed
<1>4. CASE gate' = Free \/ gate'.at = "committed"
  BY <1>4 DEF GatePlaced, Free
<1>5. CASE UNCHANGED <<store, gate>>
  BY <1>5 DEF SinksInvariant, GatePlaced, Placed
<1>6. ASSUME NEW b \in Batches, DecodeFails(b) PROVE GatePlaced'
  BY <1>6 DEF DecodeFails, MayAppend, GatePlaced, Free
<1>7. ASSUME \/ \E c \in Submissions : Submit(c)
             \/ \E b \in Batches : EngineAppend(b)
             \/ Release \/ Crash
      PROVE  GatePlaced'
  BY <1>4, <1>7 DEF Submit, EngineAppend, Committed, Release, Crash
<1>8. ASSUME \/ TransactionFails \/ \E r \in Readers : ReaderNext(r)
             \/ RequestSnapshot \/ WriteSnapshot \/ Restart
      PROVE  GatePlaced'
  BY <1>5, <1>8 DEF TransactionFails, ReaderNext, Subscribe, ReadHead, ReadPage, ReadActiveTurn,
                    Merge, Follow, Step, RequestSnapshot, WriteSnapshot, Restart
<1> QED BY <1>1, <1>2, <1>3, <1>6, <1>7, <1>8 DEF LogStep

LEMMA UpStays == ASSUME LogInvariant, LogStep \/ Release PROVE mem'.up = mem.up
<1>1. mem = [up |-> mem.up, fatal |-> mem.fatal, folded |-> mem.folded,
             anchor |-> mem.anchor, sub |-> mem.sub]
  BY Facts
<1>2. CASE UNCHANGED mem
  BY <1>2
<1>3. CASE Failed
  BY <1>1, <1>3 DEF Failed
<1>4. CASE Fold
  <2>1. mem' = mem \/ \E f : mem' = [mem EXCEPT !.folded = f]
    BY <1>4 DEF Fold, Publishing
  <2> QED BY <1>1, <2>1
<1>5. CASE PublishEphemeral
  <2> DEFINE m1 == [mem EXCEPT !.anchor = LastSeq]
  <2>1. mem' = [m1 EXCEPT !.sub = NextSub]
    BY <1>5 DEF PublishEphemeral
  <2>2. m1 = [up |-> mem.up, fatal |-> mem.fatal, folded |-> mem.folded,
              anchor |-> LastSeq, sub |-> mem.sub]
    BY <1>1
  <2> HIDE DEF m1
  <2> QED BY <2>1, <2>2
<1> QED BY <1>2, <1>3, <1>4, <1>5
        DEF LogStep, Submit, EngineAppend, DecodeFails, Committed, TransactionFails, Announce,
            Deliver, ReaderNext, Subscribe, ReadHead, ReadPage, ReadActiveTurn, Merge, Follow,
            Step, RequestSnapshot, WriteSnapshot, Release

\* Others append, fold and publish, and no sink moves.
LEMMA LogStepKeepsSinks ==
  ASSUME SinksInvariant, LogStep, UNCHANGED sinkVars PROVE SinksInvariant'
<1>1. LogInvariant' /\ Extends(store, store') /\ GatePlaced'
  BY LogStepKeeps, LogStepExtends, GateStaysPlaced DEF SinksInvariant
<1>2. IsLog(store')
  BY <1>1 DEF LogInvariant, Durable
<1>3. \A s \in Sinks : SinkKept(s)'
  BY <1>1, <1>2, SinkOfLongerLog DEF SinksInvariant, sinkVars
<1>4. SinksTyped'
  BY DEF SinksInvariant, SinksTyped, sinkVars, PastIsTyped
<1>5. DownTogether'
  BY UpStays DEF SinksInvariant, DownTogether, sinkVars
<1> QED BY <1>1, <1>3, <1>4, <1>5 DEF SinksInvariant

-----------------------------------------------------------------------------
(* One sink moves, and the log stays as it is.                             *)

\* The step is of s: the log, its gate and the other sinks stay as they are.
Others(s) ==
    /\ mem.up /\ UNCHANGED <<store, checkpoints, version, mem, gate, snapshot>>
    /\ row' = [t \in Sinks |-> row'[t]] /\ inbox' = [t \in Sinks |-> inbox'[t]]
    /\ runner' = [t \in Sinks |-> runner'[t]] /\ past' = [t \in Sinks |-> past'[t]]
    /\ \A t \in Sinks \ {s} : /\ row'[t] = row[t] /\ inbox'[t] = inbox[t]
                              /\ runner'[t] = runner[t] /\ past'[t] = past[t]

LEMMA OneSinkMoves ==
  ASSUME SinksInvariant, NEW s \in Sinks, Others(s), SinkKept(s)',
         row'[s] \in RowType, runner'[s] \in RunnerType, inbox'[s] \in InboxType,
         PastIsTyped(past'[s])
  PROVE  SinksInvariant'
<1>1. LogInvariant' /\ GatePlaced'
  BY UnchangedKeeps DEF SinksInvariant, GatePlaced, Placed, Others
<1>2. Extends(store, store') /\ IsLog(store')
  BY <1>1, SameLogExtends DEF SinksInvariant, LogInvariant, Durable, Others
<1>3. \A t \in Sinks \ {s} : SinkKept(t)'
  BY <1>2, SinkOfLongerLog DEF SinksInvariant, Others
<1>4. \A t \in Sinks : /\ row'[t] \in RowType /\ runner'[t] \in RunnerType
                       /\ inbox'[t] \in InboxType /\ PastIsTyped(past'[t])
  BY DEF SinksInvariant, SinksTyped, Others
<1>5. SinksTyped'
  <2>1. row' \in [Sinks -> RowType] /\ runner' \in [Sinks -> RunnerType]
    BY <1>4 DEF Others
  <2>2. inbox' \in [Sinks -> InboxType]
    BY <1>4 DEF Others
  <2>3. \A t \in Sinks : PastIsTyped(past[t])'
    BY <1>4 DEF PastIsTyped
  <2> QED BY <2>1, <2>2, <2>3 DEF SinksTyped, Others, RowType, RunnerType, InboxType
<1>6. DownTogether'
  BY DEF DownTogether, Others
<1> QED BY <1>1, <1>3, <1>5, <1>6 DEF SinksInvariant

\* The facts about one sink that its steps start from.
LEMMA SinkFacts ==
  ASSUME SinksInvariant, NEW s \in Sinks
  PROVE  /\ row[s] \in RowType /\ runner[s] \in RunnerType /\ inbox[s] \in InboxType
         /\ PastIsTyped(past[s]) /\ SinkKept(s) /\ LogHead(store) \in Nat
         /\ row = [t \in Sinks |-> row[t]] /\ inbox = [t \in Sinks |-> inbox[t]]
         /\ runner = [t \in Sinks |-> runner[t]] /\ past = [t \in Sinks |-> past[t]]
BY HeadIsNat DEF SinksInvariant, SinksTyped

LEMMA RunnerIsRecord ==
  ASSUME SinksInvariant, NEW s \in Sinks
  PROVE  LET r == runner[s]
         IN  /\ \A at : [r EXCEPT !.at = at]
                   = [at |-> at, cursor |-> r.cursor, state |-> r.state,
                      fold |-> r.fold, through |-> r.through]
             /\ \A at, through : [r EXCEPT !.at = at, !.through = through]
                   = [at |-> at, cursor |-> r.cursor, state |-> r.state,
                      fold |-> r.fold, through |-> through]
             /\ \A at, fold, through : [r EXCEPT !.through = through, !.fold = fold, !.at = at]
                   = [at |-> at, cursor |-> r.cursor, state |-> r.state,
                      fold |-> fold, through |-> through]
             /\ \A at, cursor : [r EXCEPT !.cursor = cursor, !.at = at]
                   = [at |-> at, cursor |-> cursor, state |-> r.state,
                      fold |-> r.fold, through |-> r.through]
             /\ \A state : [r EXCEPT !.state = state]
                   = [at |-> r.at, cursor |-> r.cursor, state |-> state,
                      fold |-> r.fold, through |-> r.through]
<1> DEFINE r == runner[s]
<1>1. r = [at |-> r.at, cursor |-> r.cursor, state |-> r.state, fold |-> r.fold,
           through |-> r.through]
  BY SinkFacts DEF RunnerType
<1> HIDE DEF r
<1>2. \A at : [r EXCEPT !.at = at]
         = [at |-> at, cursor |-> r.cursor, state |-> r.state, fold |-> r.fold, through |-> r.through]
  BY <1>1
<1>3. ASSUME NEW at, NEW through
      PROVE  [r EXCEPT !.at = at, !.through = through]
         = [at |-> at, cursor |-> r.cursor, state |-> r.state, fold |-> r.fold, through |-> through]
  <2> DEFINE r1 == [r EXCEPT !.at = at]
  <2>1. r1 = [at |-> at, cursor |-> r.cursor, state |-> r.state, fold |-> r.fold,
              through |-> r.through]
    BY <1>1
  <2>2. [r EXCEPT !.at = at, !.through = through] = [r1 EXCEPT !.through = through]
    OBVIOUS
  <2> HIDE DEF r1
  <2>3. [r1 EXCEPT !.through = through] = [at |-> at, cursor |-> r.cursor, state |-> r.state,
                                           fold |-> r.fold, through |-> through]
    BY <2>1
  <2> QED BY <2>2, <2>3
<1>4. ASSUME NEW at, NEW fold, NEW through
      PROVE  [r EXCEPT !.through = through, !.fold = fold, !.at = at]
         = [at |-> at, cursor |-> r.cursor, state |-> r.state, fold |-> fold, through |-> through]
  <2> DEFINE r1 == [r EXCEPT !.through = through]
             r2 == [r1 EXCEPT !.fold = fold]
  <2>1. r1 = [at |-> r.at, cursor |-> r.cursor, state |-> r.state, fold |-> r.fold,
              through |-> through]
    BY <1>1
  <2>2. [r EXCEPT !.through = through, !.fold = fold, !.at = at] = [r2 EXCEPT !.at = at]
    OBVIOUS
  <2> HIDE DEF r1
  <2>3. r2 = [at |-> r.at, cursor |-> r.cursor, state |-> r.state, fold |-> fold,
              through |-> through]
    BY <2>1
  <2> HIDE DEF r2
  <2>4. [r2 EXCEPT !.at = at] = [at |-> at, cursor |-> r.cursor, state |-> r.state, fold |-> fold,
                                 through |-> through]
    BY <2>3
  <2> QED BY <2>2, <2>4
<1>5. ASSUME NEW at, NEW cursor
      PROVE  [r EXCEPT !.cursor = cursor, !.at = at]
         = [at |-> at, cursor |-> cursor, state |-> r.state, fold |-> r.fold, through |-> r.through]
  <2> DEFINE r1 == [r EXCEPT !.cursor = cursor]
  <2>1. r1 = [at |-> r.at, cursor |-> cursor, state |-> r.state, fold |-> r.fold,
              through |-> r.through]
    BY <1>1
  <2>2. [r EXCEPT !.cursor = cursor, !.at = at] = [r1 EXCEPT !.at = at]
    OBVIOUS
  <2> HIDE DEF r1
  <2>3. [r1 EXCEPT !.at = at] = [at |-> at, cursor |-> cursor, state |-> r.state,
                                 fold |-> r.fold, through |-> r.through]
    BY <2>1
  <2> QED BY <2>2, <2>3
<1>6. \A state : [r EXCEPT !.state = state]
         = [at |-> r.at, cursor |-> r.cursor, state |-> state, fold |-> r.fold, through |-> r.through]
  BY <1>1
<1> QED BY <1>2, <1>3, <1>4, <1>5, <1>6 DEF r

\* A runner that only goes to another place, with no batch before or after.
Idle == {"polling", "waiting", "hearing"}

LEMMA IdleMoves ==
  ASSUME SinksInvariant, NEW s \in Sinks, NEW at \in Idle, runner[s].at \in Idle,
         RunnerStep(s, [runner[s] EXCEPT !.at = at]), Others(s), row' = row,
         inbox'[s] \in InboxType, InboxKept(s)',
         past'[s] = [done |-> past[s].done, staged |-> past[s].staged,
                     lane |-> past'[s].lane, saved |-> past[s].saved]
  PROVE  SinksInvariant'
<1> DEFINE new == [runner[s] EXCEPT !.at = at]
<1>1. new = [at |-> at, cursor |-> runner[s].cursor, state |-> runner[s].state,
             fold |-> runner[s].fold, through |-> runner[s].through]
  BY RunnerIsRecord
<1>2. runner[s] \in RunnerType /\ row[s] \in RowType /\ PastIsTyped(past[s]) /\ SinkKept(s)
      /\ runner = [t \in Sinks |-> runner[t]]
  BY SinkFacts
<1>3. new \in RunnerType
  BY <1>1, <1>2 DEF RunnerType, Places, Idle
<1>4. runner' = [runner EXCEPT ![s] = new]
  BY DEF RunnerStep
<1> HIDE DEF new
<1>5. runner'[s] = new
  BY <1>2, <1>4
<1>6. RowKept(s)' /\ PastIsTyped(past'[s])
  BY <1>2 DEF SinkKept, RowKept, Interested, Others, PastIsTyped
<1>7. RunnerKept(s)'
  BY <1>1, <1>2, <1>5 DEF SinkKept, RunnerKept, UpTo, Busy, Called, Idle
<1>8. StagedKept(s)'
  BY <1>1, <1>2, <1>5 DEF SinkKept, StagedKept, Noted, Idle, Others
<1>9. SinkKept(s)'
  BY <1>6, <1>7, <1>8 DEF SinkKept
<1> QED BY <1>2, <1>3, <1>5, <1>6, <1>9, OneSinkMoves

LEMMA HeardKeeps ==
  ASSUME SinksInvariant, NEW s \in Sinks, Heard(s), UNCHANGED logVars PROVE SinksInvariant'
<1>1. /\ mem.up /\ runner[s].at = "hearing" /\ RunnerStep(s, [runner[s] EXCEPT !.at = "polling"])
      /\ UNCHANGED <<store, row, inbox, past>>
  BY DEF Heard, logVars
<1>2. Others(s)
  BY <1>1, SinkFacts DEF Others, logVars, RunnerStep
<1>3. past'[s] = [done |-> past[s].done, staged |-> past[s].staged,
                  lane |-> past'[s].lane, saved |-> past[s].saved]
  BY <1>1, SinkFacts DEF PastIsTyped
<1>4. inbox'[s] \in InboxType /\ InboxKept(s)'
  BY <1>1, SinkFacts DEF SinkKept, InboxKept, Placed
<1> QED BY <1>1, <1>2, <1>3, <1>4, IdleMoves DEF Idle

LEMMA AwaitWorkKeeps ==
  ASSUME SinksInvariant, NEW s \in Sinks, AwaitWork(s), UNCHANGED logVars PROVE SinksInvariant'
<1>1. /\ mem.up /\ runner[s].at = "waiting" /\ RunnerStep(s, [runner[s] EXCEPT !.at = "polling"])
      /\ inbox' = [inbox EXCEPT ![s].wake = FALSE] /\ UNCHANGED <<store, row, past>>
  BY DEF AwaitWork, logVars
<1>2. inbox[s] \in InboxType /\ inbox = [t \in Sinks |-> inbox[t]] /\ SinkKept(s)
  BY SinkFacts
<1>3. inbox'[s] = [inbox[s] EXCEPT !.wake = FALSE] /\ inbox' = [t \in Sinks |-> inbox'[t]]
      /\ \A t \in Sinks \ {s} : inbox'[t] = inbox[t]
  BY <1>1, <1>2
<1>4. inbox'[s] \in InboxType /\ inbox'[s].head = inbox[s].head
      /\ inbox'[s].pending = inbox[s].pending
  BY <1>2, <1>3 DEF InboxType
<1>5. Others(s)
  BY <1>1, <1>3, SinkFacts DEF Others, logVars, RunnerStep
<1>6. InboxKept(s)'
  BY <1>1, <1>2, <1>4 DEF SinkKept, InboxKept, Placed
<1>7. past'[s] = [done |-> past[s].done, staged |-> past[s].staged,
                  lane |-> past'[s].lane, saved |-> past[s].saved]
  BY <1>1, SinkFacts DEF PastIsTyped
<1> QED BY <1>1, <1>4, <1>5, <1>6, <1>7, IdleMoves DEF Idle

LEMMA LeastIsMember ==
  ASSUME NEW S \in SUBSET Nat, S # {}
  PROVE  Min(S) \in S
<1>1. IsWellFoundedOn(Below, Nat)
  BY NatLessThanWellFounded DEF OpToRel, Below
<1>2. PICK x \in S : \A y \in S : ~ (<<y, x>> \in Below)
  BY <1>1, WFMin
<1>3. \A y \in S : ~(y < x)
  BY <1>2 DEF Below
<1>4. \A y \in S : x <= y
  BY <1>3
<1> QED BY <1>4 DEF Min

\* What poll leaves of the ephemerals is the end of what there was.
LEMMA WaitingIsRest ==
  ASSUME NEW s, NEW S, inbox[s].pending \in Seq(S)
  PROVE  /\ Waiting(s) \in Seq(S)
         /\ Waiting(s) # <<>> => Waiting(s)[1] \in S /\ Tail(Waiting(s)) \in Seq(S)
<1> DEFINE pending == inbox[s].pending
           fresh == {i \in DOMAIN pending : pending[i][1] >= runner[s].cursor}
<1>1. Len(pending) \in Nat /\ DOMAIN pending = 1 .. Len(pending)
      /\ \A i \in 1 .. Len(pending) : pending[i] \in S
  BY LenProperties, ElementOfSeq
<1>2. CASE fresh = {}
  <2>1. Waiting(s) = <<>>
    BY <1>2 DEF Waiting
  <2> QED BY <2>1, EmptySeq
<1>3. CASE fresh # {}
  <2>1. Min(fresh) \in fresh
    <3>1. fresh \in SUBSET Nat
      BY <1>1
    <3> QED BY <1>3, <3>1, LeastIsMember
  <2>2. Waiting(s) = SubSeq(pending, Min(fresh), Len(pending))
    BY <1>3 DEF Waiting
  <2> HIDE DEF pending
  <2>3. \A m \in 1 .. Len(pending) : SubSeq(pending, m, Len(pending)) \in Seq(S)
    BY <1>1, SubSeqProperties DEF pending
  <2>4. Waiting(s) \in Seq(S)
    BY <1>1, <2>1, <2>2, <2>3
  <2> HIDE DEF fresh
  <2>5. ASSUME Waiting(s) # <<>> PROVE Waiting(s)[1] \in S /\ Tail(Waiting(s)) \in Seq(S)
    BY <2>4, <2>5, HeadTailProperties
  <2> QED BY <2>4, <2>5
<1> QED BY <1>2, <1>3

LEMMA PollKeeps ==
  ASSUME SinksInvariant, NEW s \in Sinks, Poll(s), UNCHANGED logVars PROVE SinksInvariant'
<1> DEFINE waiting == Waiting(s)
           hearing == runner'[s].at = "hearing"
           left == IF hearing THEN Tail(waiting) ELSE waiting
           lane == IF hearing THEN Append(past[s].lane, waiting[1]) ELSE past[s].lane
<1>1. /\ mem.up /\ runner[s].at = "polling" /\ RunnerStep(s, Work(s, waiting))
      /\ inbox' = [inbox EXCEPT ![s].pending = left]
      /\ past' = [past EXCEPT ![s].lane = lane]
      /\ UNCHANGED <<store, checkpoints, version, mem, gate, snapshot, row>>
  BY DEF Poll, logVars
<1>2. /\ runner[s] \in RunnerType /\ inbox[s] \in InboxType /\ row[s] \in RowType
      /\ PastIsTyped(past[s]) /\ SinkKept(s) /\ LogHead(store) \in Nat
      /\ row = [t \in Sinks |-> row[t]] /\ inbox = [t \in Sinks |-> inbox[t]]
      /\ runner = [t \in Sinks |-> runner[t]] /\ past = [t \in Sinks |-> past[t]]
  BY SinkFacts
<1>3. /\ waiting \in Seq(Position) /\ waiting \in Seq(Placed)
      /\ waiting # <<>> => /\ waiting[1] \in Position /\ waiting[1] \in Placed
                           /\ Tail(waiting) \in Seq(Position) /\ Tail(waiting) \in Seq(Placed)
  <2>1. inbox[s].pending \in Seq(Position) /\ inbox[s].pending \in Seq(Placed)
    BY <1>2 DEF InboxType, SinkKept, InboxKept
  <2> QED BY <2>1, WaitingIsRest
<1> HIDE DEF waiting
<1>4. runner' = [runner EXCEPT ![s] = Work(s, waiting)]
  BY <1>1 DEF RunnerStep
<1>5. runner'[s] = Work(s, waiting) /\ runner' = [t \in Sinks |-> runner'[t]]
      /\ \A t \in Sinks \ {s} : runner'[t] = runner[t]
  BY <1>2, <1>4
<1>6. hearing => waiting # <<>>
  <2>1. ASSUME waiting = <<>> PROVE runner'[s].at \in {"draining", "waiting"}
    <3>1. Work(s, waiting) = [runner[s] EXCEPT !.at = "draining", !.through = inbox[s].head]
          \/ Work(s, waiting) = [runner[s] EXCEPT !.at = "waiting"]
      BY <2>1 DEF Work
    <3>2. ASSUME Work(s, waiting) = [runner[s] EXCEPT !.at = "draining", !.through = inbox[s].head]
          PROVE  runner'[s].at = "draining"
      <4>1. runner'[s] = [at |-> "draining", cursor |-> runner[s].cursor, state |-> runner[s].state,
                          fold |-> runner[s].fold, through |-> inbox[s].head]
        BY <1>5, <3>2, RunnerIsRecord, ZenonT(30)
      <4> QED BY <4>1
    <3>3. ASSUME Work(s, waiting) = [runner[s] EXCEPT !.at = "waiting"]
          PROVE  runner'[s].at = "waiting"
      <4>1. runner'[s] = [at |-> "waiting", cursor |-> runner[s].cursor, state |-> runner[s].state,
                          fold |-> runner[s].fold, through |-> runner[s].through]
        BY <1>5, <3>3, RunnerIsRecord
      <4> QED BY <4>1
    <3> QED BY <3>1, <3>2, <3>3
  <2> QED BY <2>1
<1>7. left \in Seq(Position) /\ left \in Seq(Placed)
  BY <1>3, <1>6
<1> HIDE DEF left, lane, hearing
<1>8. /\ inbox'[s] = [inbox[s] EXCEPT !.pending = left] /\ inbox' = [t \in Sinks |-> inbox'[t]]
      /\ \A t \in Sinks \ {s} : inbox'[t] = inbox[t]
  BY <1>1, <1>2
<1>9. inbox'[s] \in InboxType /\ inbox'[s].head = inbox[s].head /\ inbox'[s].pending = left
  BY <1>2, <1>7, <1>8 DEF InboxType
<1>10. InboxKept(s)'
  BY <1>1, <1>2, <1>7, <1>9 DEF SinkKept, InboxKept, Placed
<1>11. /\ past'[s] = [past[s] EXCEPT !.lane = lane] /\ past' = [t \in Sinks |-> past'[t]]
       /\ \A t \in Sinks \ {s} : past'[t] = past[t]
  BY <1>1, <1>2
<1>12. past'[s] = [done |-> past[s].done, staged |-> past[s].staged,
                   lane |-> past'[s].lane, saved |-> past[s].saved]
  BY <1>2, <1>11 DEF PastIsTyped
<1>13. Others(s)
  BY <1>1, <1>2, <1>5, <1>8, <1>11 DEF Others
<1>14. ASSUME NEW at \in {"hearing", "waiting"}, Work(s, waiting) = [runner[s] EXCEPT !.at = at]
       PROVE  SinksInvariant'
  BY <1>1, <1>9, <1>10, <1>12, <1>13, <1>14, IdleMoves DEF Idle
<1>15. ASSUME NEW n \in Nat, runner[s].cursor < n, n <= LogHead(store),
              Work(s, waiting) = [runner[s] EXCEPT !.at = "draining", !.through = n]
       PROVE  SinksInvariant'
  <2>1. runner'[s] = [at |-> "draining", cursor |-> runner[s].cursor, state |-> runner[s].state,
                      fold |-> runner[s].fold, through |-> n]
    BY <1>5, <1>15, RunnerIsRecord, ZenonT(30)
  <2>2. runner'[s] \in RunnerType
    BY <1>2, <2>1 DEF RunnerType, Places
  <2>3. RowKept(s)' /\ PastIsTyped(past'[s])
    BY <1>1, <1>2, <1>12 DEF SinkKept, RowKept, Interested, PastIsTyped
  <2>4. RunnerKept(s)'
    BY <1>1, <1>2, <1>15, <2>1 DEF SinkKept, RunnerKept, UpTo, Busy, Called
  <2>5. StagedKept(s)'
    BY <1>1, <1>2, <1>12, <2>1 DEF SinkKept, StagedKept, Noted
  <2>6. SinkKept(s)'
    BY <1>10, <2>3, <2>4, <2>5 DEF SinkKept
  <2>7. row'[s] \in RowType
    BY <1>1, <1>2
  <2> QED BY <1>9, <1>13, <2>2, <2>3, <2>6, <2>7, OneSinkMoves
<1>16. CASE waiting # <<>> /\ waiting[1][1] > runner[s].cursor
  <2>1. Work(s, waiting) = [runner[s] EXCEPT !.at = "draining", !.through = waiting[1][1]]
    BY <1>16 DEF Work
  <2>2. waiting[1][1] \in Nat /\ waiting[1][1] <= LogHead(store)
    BY <1>2, <1>3, <1>16 DEF Placed
  <2>3. runner[s].cursor < waiting[1][1]
    BY <1>2, <1>16, <2>2 DEF RunnerType
  <2> QED BY <1>15, <2>1, <2>2, <2>3
<1>17. CASE waiting # <<>> /\ ~(waiting[1][1] > runner[s].cursor)
  BY <1>14, <1>17 DEF Work
<1>18. CASE waiting = <<>> /\ runner[s].cursor < inbox[s].head
  <2>1. Work(s, waiting) = [runner[s] EXCEPT !.at = "draining", !.through = inbox[s].head]
    BY <1>18 DEF Work
  <2>2. inbox[s].head \in Nat /\ inbox[s].head <= LogHead(store)
    BY <1>2 DEF InboxType, SinkKept, InboxKept
  <2> QED BY <1>15, <1>18, <2>1, <2>2
<1>19. CASE waiting = <<>> /\ ~(runner[s].cursor < inbox[s].head)
  BY <1>14, <1>19 DEF Work
<1> QED BY <1>16, <1>17, <1>18, <1>19

\* A page ends behind the cursor it starts from, and within what is to be delivered.
LEMMA PageIsWithin ==
  ASSUME NEW after \in Nat, NEW through \in Nat, after < through
  PROVE  LET last == Page(after, through, BatchSize).last
         IN  last \in Nat /\ after < last /\ last <= through
BY SinksAssumption DEF Page

\* Only the runner and the record of s move, and the runner becomes r.
RunnerOnly(s, r) ==
    /\ mem.up /\ UNCHANGED <<store, checkpoints, version, mem, gate, snapshot, row, inbox>>
    /\ runner' = [runner EXCEPT ![s] = r]
    /\ past' = [t \in Sinks |-> past'[t]] /\ \A t \in Sinks \ {s} : past'[t] = past[t]

LEMMA RunnerOnlyKeeps ==
  ASSUME SinksInvariant, NEW s \in Sinks, NEW r \in RunnerType, RunnerOnly(s, r),
         PastIsTyped(past'[s]), past[s].done \subseteq past'[s].done, past'[s].saved = past[s].saved,
         RunnerKept(s)', StagedKept(s)'
  PROVE  SinksInvariant'
<1>1. /\ runner = [t \in Sinks |-> runner[t]] /\ row[s] \in RowType /\ inbox[s] \in InboxType
      /\ row = [t \in Sinks |-> row[t]] /\ inbox = [t \in Sinks |-> inbox[t]] /\ SinkKept(s)
  BY SinkFacts
<1>2. runner'[s] = r /\ runner' = [t \in Sinks |-> runner'[t]]
      /\ \A t \in Sinks \ {s} : runner'[t] = runner[t]
  BY <1>1 DEF RunnerOnly
<1>3. Others(s)
  BY <1>1, <1>2 DEF Others, RunnerOnly
<1>4. RowKept(s)' /\ InboxKept(s)'
  BY <1>1 DEF SinkKept, RowKept, InboxKept, Interested, Placed, RunnerOnly
<1>5. SinkKept(s)'
  BY <1>4 DEF SinkKept
<1>6. row'[s] \in RowType /\ inbox'[s] \in InboxType
  BY <1>1 DEF RunnerOnly
<1> QED BY <1>2, <1>3, <1>5, <1>6, OneSinkMoves

\* The projection handed with a batch is the fold of the log up to the batch's end.
LEMMA ProjectionGoesOn ==
  ASSUME SinksInvariant, NEW s \in Sinks, runner[s].at = "draining", NEW through \in Nat,
         runner[s].cursor < through, through <= LogHead(store)
  PROVE  Projection(s, through) \in {NoProjection, Count(through)}
<1> DEFINE cursor == runner[s].cursor
           head == LogHead(store)
           behind == IF runner[s].fold = NoProjection THEN SubSeq(Ids, 1, cursor) ELSE runner[s].fold
<1>9. runner[s] \in RunnerType /\ RunnerKept(s) /\ head \in Nat
  BY SinkFacts DEF SinkKept
<1>10. UpTo(s) = cursor
  BY DEF UpTo
<1>1. /\ cursor \in Nat /\ runner[s].fold \in {NoProjection, Count(cursor)} /\ head \in Nat
      /\ cursor <= through /\ through <= head /\ cursor <= head
  BY <1>9, <1>10 DEF RunnerType, RunnerKept
<1>2. Ids = Count(head)
  BY IdsAreCount DEF SinksInvariant, LogInvariant, Durable
<1>3. Projection(s, through) \in {NoProjection, behind \o SubSeq(Ids, cursor + 1, through)}
  BY DEF Projection
<1>4. behind \in {SubSeq(Ids, 1, cursor), Count(cursor)}
  BY <1>1
<1> HIDE DEF behind, cursor, head
<1>5. SubSeq(Ids, 1, cursor) = Count(cursor)
  BY <1>1, <1>2, CountGoesOn
<1>6. SubSeq(Ids, cursor + 1, through) = [i \in 1 .. through - cursor |-> cursor + i]
  BY <1>1, <1>2, CountPart
<1>7. Count(cursor) \o [i \in 1 .. through - cursor |-> cursor + i] = Count(through)
  BY <1>1, CountGoesOn
<1>8. behind \o SubSeq(Ids, cursor + 1, through) = Count(through)
  BY <1>4, <1>5, <1>6, <1>7
<1> QED BY <1>3, <1>8

LEMMA DrainKeeps ==
  ASSUME SinksInvariant, NEW s \in Sinks, Drain(s), UNCHANGED logVars PROVE SinksInvariant'
<1> DEFINE cursor == runner[s].cursor
           last == Page(cursor, runner[s].through, BatchSize).last
           at == IF Interested(s, cursor, last) # {} THEN "delivering" ELSE "committing"
           fold == Projection(s, last)
           lane == past[s].lane \o Sorted({<<q, 0>> : q \in Interested(s, cursor, last)}, Before)
           r == [at |-> at, cursor |-> cursor, state |-> runner[s].state, fold |-> fold,
                 through |-> last]
<1>1. /\ mem.up /\ runner[s].at = "draining"
      /\ runner' = [runner EXCEPT ![s] =
                      [runner[s] EXCEPT !.through = last, !.fold = fold, !.at = at]]
      /\ UNCHANGED <<store, checkpoints, version, mem, gate, snapshot, row, inbox>>
  BY DEF Drain, RunnerStep, logVars
<1>13. past' = [past EXCEPT ![s].lane = lane]
  BY DEF Drain
<1>2. /\ runner[s] \in RunnerType /\ row[s] \in RowType /\ PastIsTyped(past[s]) /\ SinkKept(s)
      /\ past = [t \in Sinks |-> past[t]]
  BY SinkFacts
<1>3. /\ cursor \in Nat /\ runner[s].through \in Nat /\ cursor < runner[s].through
      /\ runner[s].through <= LogHead(store) /\ LogHead(store) \in Nat /\ runner[s].state \in Nat
      /\ Interested(s, 0, cursor) \subseteq past[s].done
  BY <1>1, <1>2, HeadIsNat DEF RunnerType, SinkKept, RunnerKept, RowKept, Busy
<1>4. last \in Nat /\ cursor < last /\ last <= LogHead(store)
  <2>1. last \in Nat /\ cursor < last /\ last <= runner[s].through
    BY <1>3, PageIsWithin
  <2> HIDE DEF last, cursor
  <2> QED BY <1>3, <2>1
<1> HIDE DEF last, lane
<1>5. fold \in {NoProjection, Count(last)}
  BY <1>1, <1>4, ProjectionGoesOn
<1>6. Count(last) \in Seq(Nat)
  BY <1>4, CountIsSeq
<1> HIDE DEF fold
<1>11. at = "committing" => Interested(s, 0, last) \subseteq past[s].done
  <2>1. Interested(s, 0, last) = Interested(s, 0, cursor) \cup Interested(s, cursor, last)
    BY <1>3, <1>4, InterestedSplits
  <2> QED BY <1>3, <2>1
<1>12. at \in {"delivering", "committing"}
  OBVIOUS
<1> HIDE DEF at
<1>7. [runner[s] EXCEPT !.through = last, !.fold = fold, !.at = at] = r
  <2>1. \A a, f, n : [runner[s] EXCEPT !.through = n, !.fold = f, !.at = a]
          = [at |-> a, cursor |-> runner[s].cursor, state |-> runner[s].state, fold |-> f,
             through |-> n]
    BY RunnerIsRecord
  <2> QED BY <2>1
<1>8. r \in RunnerType
  BY <1>3, <1>4, <1>5, <1>6, <1>12 DEF RunnerType, Places
<1>9. /\ past'[s] = [past[s] EXCEPT !.lane = lane] /\ past' = [t \in Sinks |-> past'[t]]
      /\ \A t \in Sinks \ {s} : past'[t] = past[t]
  BY <1>2, <1>13
<1>10. past'[s] = [done |-> past[s].done, staged |-> past[s].staged,
                   lane |-> lane, saved |-> past[s].saved]
  BY <1>2, <1>9 DEF PastIsTyped
<1> HIDE DEF r
<1>14. runner' = [runner EXCEPT ![s] = r] /\ runner'[s] = r
  BY <1>1, <1>2, <1>7 DEF SinksInvariant, SinksTyped
<1>15. RunnerOnly(s, r)
  BY <1>1, <1>9, <1>14 DEF RunnerOnly
<1>16. r.at = at /\ r.cursor = cursor /\ r.state = runner[s].state /\ r.fold = fold /\ r.through = last
  BY DEF r
<1>17. RunnerKept(s)'
  <2>1. cursor = row'[s].after /\ runner[s].state = row'[s].state
    BY <1>1, <1>2 DEF SinkKept, RunnerKept
  <2>2. UpTo(s)' = last
    BY <1>12, <1>14, <1>16 DEF UpTo
  <2>4. Interested(s, 0, runner[s].through)' = Interested(s, 0, last)
    BY <1>1, <1>14, <1>16 DEF Interested
  <2> QED BY <1>1, <1>4, <1>5, <1>10, <1>11, <1>12, <1>14, <1>16, <2>1, <2>2, <2>4
          DEF RunnerKept, Busy, Called
<1>18. StagedKept(s)'
  BY <1>1, <1>2, <1>10, <1>12, <1>14, <1>16 DEF SinkKept, StagedKept, Noted
<1>19. PastIsTyped(past'[s])
  BY <1>2, <1>10 DEF PastIsTyped
<1> QED BY <1>8, <1>10, <1>15, <1>17, <1>18, <1>19, RunnerOnlyKeeps

\* The runner goes from a batch in hand to another place of it.
LEMMA GoesTo ==
  ASSUME SinksInvariant, NEW s \in Sinks, NEW at,
         runner' = [runner EXCEPT ![s] = [runner[s] EXCEPT !.at = at]]
  PROVE  /\ runner'[s] = [at |-> at, cursor |-> runner[s].cursor, state |-> runner[s].state,
                          fold |-> runner[s].fold, through |-> runner[s].through]
         /\ at \in Places => runner'[s] \in RunnerType
<1> DEFINE new == [runner[s] EXCEPT !.at = at]
<1>1. new = [at |-> at, cursor |-> runner[s].cursor, state |-> runner[s].state,
             fold |-> runner[s].fold, through |-> runner[s].through]
  BY RunnerIsRecord
<1>2. runner[s] \in RunnerType /\ runner = [t \in Sinks |-> runner[t]]
  BY SinkFacts
<1> HIDE DEF new
<1>3. runner' = [runner EXCEPT ![s] = new]
  BY DEF new
<1>4. runner'[s] = new
  BY <1>2, <1>3
<1> QED BY <1>1, <1>2, <1>4 DEF RunnerType

\* The callback is over, by its return or by its death: the sink was called with the
\* batch, and what it may have staged for it is the batch's end.
LEMMA CalledKeeps ==
  ASSUME SinksInvariant, NEW s \in Sinks, NEW at \in {"staging", "committing"}, NEW staged,
         mem.up, runner[s].at = "delivering",
         runner' = [runner EXCEPT ![s] = [runner[s] EXCEPT !.at = at]],
         UNCHANGED <<store, checkpoints, version, mem, gate, snapshot, row, inbox>>,
         past' = [t \in Sinks |-> past'[t]], \A t \in Sinks \ {s} : past'[t] = past[t],
         past'[s] = [done |-> past[s].done \cup Interested(s, runner[s].cursor, runner[s].through),
                     staged |-> staged, lane |-> past[s].lane, saved |-> past[s].saved],
         \/ staged = past[s].staged
         \/ at = "staging" /\ staged = past[s].staged \cup {runner[s].through}
  PROVE  SinksInvariant'
<1> DEFINE cursor == runner[s].cursor
           through == runner[s].through
<1>1. /\ runner[s] \in RunnerType /\ row[s] \in RowType /\ PastIsTyped(past[s]) /\ SinkKept(s)
      /\ runner = [t \in Sinks |-> runner[t]]
  BY SinkFacts
<1>2. runner'[s] \in RunnerType
      /\ runner'[s] = [at |-> at, cursor |-> cursor, state |-> runner[s].state,
                       fold |-> runner[s].fold, through |-> through]
  BY GoesTo DEF Places
<1>3. /\ cursor \in Nat /\ through \in Nat /\ cursor < through
      /\ through <= LogHead(store) /\ LogHead(store) \in Nat
      /\ Interested(s, 0, cursor) \subseteq past[s].done
      /\ cursor = row[s].after
  BY <1>1, HeadIsNat DEF RunnerType, SinkKept, RunnerKept, RowKept, Busy
<1>4. Interested(s, 0, through) \subseteq past'[s].done
  <2>1. Interested(s, 0, through) = Interested(s, 0, cursor) \cup Interested(s, cursor, through)
    BY <1>3, InterestedSplits
  <2> QED BY <1>3, <2>1
<1> DEFINE r == [at |-> at, cursor |-> cursor, state |-> runner[s].state,
                 fold |-> runner[s].fold, through |-> through]
<1>9. r \in RunnerType /\ runner' = [runner EXCEPT ![s] = r]
  BY <1>1, <1>2, RunnerIsRecord
<1> HIDE DEF r
<1>5. RunnerOnly(s, r)
  BY <1>9 DEF RunnerOnly
<1>6. RunnerKept(s)'
  <2>1. UpTo(s) = through /\ UpTo(s)' = through
    BY <1>2 DEF UpTo
  <2>2. Interested(s, 0, runner[s].through)' = Interested(s, 0, through)
    BY <1>2 DEF Interested
  <2> QED BY <1>1, <1>2, <1>3, <1>4, <2>1, <2>2 DEF SinkKept, RunnerKept, Busy, Called
<1>7. StagedKept(s)'
  <2>1. ASSUME NEW t \in past[s].staged PROVE Noted(t)'
    BY <1>1, <2>1 DEF SinkKept, StagedKept, Noted
  <2>2. at = "staging" => through > row'[s].after /\ runner'[s].at = "staging"
    BY <1>2, <1>3
  <2> QED BY <1>2, <2>1, <2>2 DEF StagedKept
<1>8. PastIsTyped(past'[s])
  BY <1>1, <1>3 DEF PastIsTyped
<1>10. past[s].done \subseteq past'[s].done /\ past'[s].saved = past[s].saved
  OBVIOUS
<1> QED BY <1>5, <1>6, <1>7, <1>8, <1>9, <1>10, RunnerOnlyKeeps

LEMMA DeliveredKeeps ==
  ASSUME SinksInvariant, NEW s \in Sinks, Delivered(s), UNCHANGED logVars PROVE SinksInvariant'
<1> DEFINE at == IF s \in Staging THEN "staging" ELSE "committing"
           done == past[s].done \cup Interested(s, runner[s].cursor, runner[s].through)
           staged == IF s \in Staging THEN past[s].staged \cup {runner[s].through}
                     ELSE past[s].staged
<1>1. /\ mem.up /\ runner[s].at = "delivering"
      /\ runner' = [runner EXCEPT ![s] = [runner[s] EXCEPT !.at = at]]
      /\ past' = [past EXCEPT ![s].done = done, ![s].staged = staged]
      /\ UNCHANGED <<store, checkpoints, version, mem, gate, snapshot, row, inbox>>
  BY DEF Delivered, RunnerStep, logVars
<1>2. PastIsTyped(past[s]) /\ past = [t \in Sinks |-> past[t]]
  BY SinkFacts
<1>3. at \in {"staging", "committing"}
      /\ \/ staged = past[s].staged
         \/ at = "staging" /\ staged = past[s].staged \cup {runner[s].through}
  <2>1. CASE s \in Staging
    BY <2>1
  <2>2. CASE s \notin Staging
    <3>1. at = "committing" /\ staged = past[s].staged
      BY <2>2
    <3> HIDE DEF at, staged
    <3> QED BY <3>1
  <2> QED BY <2>1, <2>2
<1> HIDE DEF at, staged
<1>4. /\ past' = [t \in Sinks |-> past'[t]] /\ \A t \in Sinks \ {s} : past'[t] = past[t]
      /\ past'[s] = [past[s] EXCEPT !.done = done, !.staged = staged]
  <2> DEFINE p1 == [past EXCEPT ![s].done = done]
  <2>1. p1 = [t \in Sinks |-> p1[t]] /\ p1[s] = [past[s] EXCEPT !.done = done]
        /\ \A t \in Sinks \ {s} : p1[t] = past[t]
    BY <1>2
  <2>2. past' = [p1 EXCEPT ![s].staged = staged]
    BY <1>1
  <2> HIDE DEF p1, done
  <2>3. past'[s] = [p1[s] EXCEPT !.staged = staged] /\ past' = [t \in Sinks |-> past'[t]]
        /\ \A t \in Sinks \ {s} : past'[t] = p1[t]
    BY <2>1, <2>2
  <2> QED BY <2>1, <2>3
<1> HIDE DEF done
<1>5. past'[s] = [done |-> done, staged |-> staged, lane |-> past[s].lane, saved |-> past[s].saved]
  <2> DEFINE q == past[s]
             q1 == [q EXCEPT !.done = done]
  <2>1. q = [done |-> q.done, staged |-> q.staged, lane |-> q.lane, saved |-> q.saved]
    BY <1>2 DEF PastIsTyped
  <2> HIDE DEF q
  <2>2. q1 = [done |-> done, staged |-> q.staged, lane |-> q.lane, saved |-> q.saved]
    BY <2>1
  <2>3. past'[s] = [q1 EXCEPT !.staged = staged]
    BY <1>4 DEF q
  <2> HIDE DEF q1
  <2>4. past'[s] = [done |-> done, staged |-> staged, lane |-> q.lane, saved |-> q.saved]
    BY <2>2, <2>3
  <2> QED BY <2>4 DEF q
<1> QED BY <1>1, <1>3, <1>4, <1>5, CalledKeeps, ZenonT(30) DEF done

LEMMA DefectedKeeps ==
  ASSUME SinksInvariant, NEW s \in Sinks, Defected(s), UNCHANGED logVars PROVE SinksInvariant'
<1> DEFINE done == past[s].done \cup Interested(s, runner[s].cursor, runner[s].through)
<1>1. /\ mem.up /\ runner[s].at = "delivering"
      /\ runner' = [runner EXCEPT ![s] = [runner[s] EXCEPT !.at = "committing"]]
      /\ past' = [past EXCEPT ![s].done = done]
      /\ UNCHANGED <<store, checkpoints, version, mem, gate, snapshot, row, inbox>>
  BY DEF Defected, RunnerStep, logVars
<1>2. PastIsTyped(past[s]) /\ past = [t \in Sinks |-> past[t]]
  BY SinkFacts
<1> HIDE DEF done
<1>3. /\ past' = [t \in Sinks |-> past'[t]] /\ \A t \in Sinks \ {s} : past'[t] = past[t]
      /\ past'[s] = [past[s] EXCEPT !.done = done]
  BY <1>1, <1>2
<1>4. past'[s] = [done |-> done, staged |-> past[s].staged, lane |-> past[s].lane,
                  saved |-> past[s].saved]
  BY <1>2, <1>3 DEF PastIsTyped
<1> DEFINE at == "committing"
           staged == past[s].staged
<1>5. at \in {"staging", "committing"} /\ staged = past[s].staged
  OBVIOUS
<1>6. runner' = [runner EXCEPT ![s] = [runner[s] EXCEPT !.at = at]]
  BY <1>1
<1>7. past'[s] = [done |-> done, staged |-> staged, lane |-> past[s].lane, saved |-> past[s].saved]
  BY <1>4
<1>8. /\ mem.up /\ runner[s].at = "delivering"
      /\ UNCHANGED <<store, checkpoints, version, mem, gate, snapshot, row, inbox>>
  BY <1>1
<1>9. past' = [t \in Sinks |-> past'[t]] /\ \A t \in Sinks \ {s} : past'[t] = past[t]
  BY <1>3
<1> HIDE DEF at, staged
<1>10. \/ staged = past[s].staged
       \/ at = "staging" /\ staged = past[s].staged \cup {runner[s].through}
  BY <1>5
<1>11. past'[s] = [done |-> past[s].done \cup Interested(s, runner[s].cursor, runner[s].through),
                   staged |-> staged, lane |-> past[s].lane, saved |-> past[s].saved]
  BY <1>7 DEF done
<1> QED BY <1>5, <1>6, <1>8, <1>9, <1>10, <1>11, CalledKeeps

LEMMA CommitCursorKeeps ==
  ASSUME SinksInvariant, NEW s \in Sinks, CommitCursor(s), UNCHANGED logVars PROVE SinksInvariant'
<1> DEFINE through == runner[s].through
           saved == [after |-> through, state |-> runner[s].state]
           r == [at |-> "polling", cursor |-> through, state |-> runner[s].state,
                 fold |-> runner[s].fold, through |-> through]
<1>1. /\ mem.up /\ runner[s].at = "committing" /\ row' = [row EXCEPT ![s] = saved]
      /\ runner' = [runner EXCEPT ![s] = [runner[s] EXCEPT !.cursor = through, !.at = "polling"]]
      /\ UNCHANGED <<store, checkpoints, version, mem, gate, snapshot, inbox, past>>
  BY DEF CommitCursor, RunnerStep, logVars
<1>2. /\ runner[s] \in RunnerType /\ row[s] \in RowType /\ PastIsTyped(past[s]) /\ SinkKept(s)
      /\ inbox[s] \in InboxType
      /\ runner = [t \in Sinks |-> runner[t]] /\ row = [t \in Sinks |-> row[t]]
      /\ inbox = [t \in Sinks |-> inbox[t]] /\ past = [t \in Sinks |-> past[t]]
  BY SinkFacts
<1>3. /\ through \in Nat /\ runner[s].state \in Nat /\ through <= LogHead(store)
      /\ runner[s].fold \in {NoProjection, Count(through)}
      /\ Interested(s, 0, through) \subseteq past[s].done /\ runner[s].state = row[s].state
      /\ row[s].after \in Nat /\ row[s].after < through
  BY <1>1, <1>2 DEF RunnerType, RowType, SinkKept, RunnerKept, UpTo, Busy, Called
<1>4. [runner[s] EXCEPT !.cursor = through, !.at = "polling"] = r
  <2>1. \A a, n : [runner[s] EXCEPT !.cursor = n, !.at = a]
          = [at |-> a, cursor |-> n, state |-> runner[s].state, fold |-> runner[s].fold,
             through |-> runner[s].through]
    BY RunnerIsRecord
  <2> QED BY <2>1
<1>5. r \in RunnerType /\ saved \in RowType
  BY <1>2, <1>3 DEF RunnerType, RowType, Places
<1> HIDE DEF r, saved
<1>6. /\ runner'[s] = r /\ runner' = [t \in Sinks |-> runner'[t]]
      /\ \A t \in Sinks \ {s} : runner'[t] = runner[t]
      /\ row'[s] = saved /\ row' = [t \in Sinks |-> row'[t]]
      /\ \A t \in Sinks \ {s} : row'[t] = row[t]
  BY <1>1, <1>2, <1>4
<1>7. Others(s)
  BY <1>1, <1>2, <1>6 DEF Others
<1>8. row'[s].after = through /\ row'[s].state = runner[s].state
  BY <1>6 DEF saved
<1>9. runner'[s].at = "polling" /\ runner'[s].cursor = through /\ runner'[s].state = runner[s].state
      /\ runner'[s].fold = runner[s].fold
  BY <1>6 DEF r
<1>10. RowKept(s)'
  BY <1>1, <1>2, <1>3, <1>8 DEF SinkKept, RowKept, Interested
<1>11. RunnerKept(s)'
  BY <1>3, <1>8, <1>9 DEF RunnerKept, UpTo, Busy, Called
<1>12. StagedKept(s)'
  BY <1>1, <1>2 DEF SinkKept, StagedKept, Noted
<1>13. InboxKept(s)'
  BY <1>1, <1>2 DEF SinkKept, InboxKept, Placed
<1>14. SinkKept(s)'
  BY <1>10, <1>11, <1>12, <1>13 DEF SinkKept
<1>15. row'[s] \in RowType /\ runner'[s] \in RunnerType /\ inbox'[s] \in InboxType /\ PastIsTyped(past'[s])
  BY <1>1, <1>2, <1>5, <1>6
<1> QED BY <1>7, <1>14, <1>15, OneSinkMoves

LEMMA SaveKeeps ==
  ASSUME SinksInvariant, NEW s \in Sinks, Save(s), UNCHANGED logVars PROVE SinksInvariant'
<1> DEFINE n == past[s].saved + 1
<1>1. /\ mem.up /\ runner[s].at # "down" /\ past' = [past EXCEPT ![s].saved = n]
      /\ row' = [row EXCEPT ![s].state = past'[s].saved]
      /\ runner' = [runner EXCEPT ![s] = [runner[s] EXCEPT !.state = past'[s].saved]]
      /\ UNCHANGED <<store, checkpoints, version, mem, gate, snapshot, inbox>>
  BY DEF Save, RunnerStep, logVars
<1>2. /\ runner[s] \in RunnerType /\ row[s] \in RowType /\ PastIsTyped(past[s]) /\ SinkKept(s)
      /\ inbox[s] \in InboxType
      /\ runner = [t \in Sinks |-> runner[t]] /\ row = [t \in Sinks |-> row[t]]
      /\ inbox = [t \in Sinks |-> inbox[t]] /\ past = [t \in Sinks |-> past[t]]
  BY SinkFacts
<1>3. n \in Nat
  BY <1>2 DEF PastIsTyped
<1> HIDE DEF n
<1>4. /\ past'[s] = [past[s] EXCEPT !.saved = n] /\ past' = [t \in Sinks |-> past'[t]]
      /\ \A t \in Sinks \ {s} : past'[t] = past[t]
  BY <1>1, <1>2
<1>5. past'[s] = [done |-> past[s].done, staged |-> past[s].staged, lane |-> past[s].lane, saved |-> n]
  BY <1>2, <1>4 DEF PastIsTyped
<1>6. past'[s].saved = n /\ past'[s].done = past[s].done /\ past'[s].staged = past[s].staged
      /\ PastIsTyped(past'[s])
  BY <1>2, <1>3, <1>5 DEF PastIsTyped
<1>7. /\ row'[s] = [row[s] EXCEPT !.state = n] /\ row' = [t \in Sinks |-> row'[t]]
      /\ \A t \in Sinks \ {s} : row'[t] = row[t]
  BY <1>1, <1>2, <1>6, ZenonT(30)
<1>8. row'[s] \in RowType /\ row'[s].after = row[s].after /\ row'[s].state = n
  BY <1>2, <1>3, <1>7 DEF RowType
<1> DEFINE r == [at |-> runner[s].at, cursor |-> runner[s].cursor, state |-> n,
                 fold |-> runner[s].fold, through |-> runner[s].through]
<1>9. [runner[s] EXCEPT !.state = n] = r
  BY RunnerIsRecord
<1>10. r \in RunnerType
  BY <1>2, <1>3 DEF RunnerType
<1> HIDE DEF r
<1>11. /\ runner'[s] = r /\ runner' = [t \in Sinks |-> runner'[t]]
       /\ \A t \in Sinks \ {s} : runner'[t] = runner[t]
  BY <1>1, <1>2, <1>6, <1>9, SMTT(30)
<1>12. /\ runner'[s].at = runner[s].at /\ runner'[s].cursor = runner[s].cursor
       /\ runner'[s].state = n /\ runner'[s].fold = runner[s].fold
       /\ runner'[s].through = runner[s].through
  BY <1>11 DEF r
<1>13. Others(s)
  BY <1>1, <1>2, <1>4, <1>7, <1>11 DEF Others
<1>14. RowKept(s)'
  BY <1>1, <1>2, <1>6, <1>8 DEF SinkKept, RowKept, Interested
<1>15. RunnerKept(s)'
  <2>1. UpTo(s)' = UpTo(s)
    BY <1>12 DEF UpTo
  <2>2. Interested(s, 0, runner[s].through)' = Interested(s, 0, runner[s].through)
    BY <1>1, <1>12 DEF Interested
  <2> QED BY <1>1, <1>2, <1>6, <1>8, <1>12, <2>1, <2>2 DEF SinkKept, RunnerKept
<1>16. StagedKept(s)'
  BY <1>1, <1>2, <1>6, <1>8, <1>12 DEF SinkKept, StagedKept, Noted
<1>17. InboxKept(s)'
  BY <1>1, <1>2 DEF SinkKept, InboxKept, Placed
<1>18. SinkKept(s)'
  BY <1>14, <1>15, <1>16, <1>17 DEF SinkKept
<1>19. inbox'[s] \in InboxType /\ runner'[s] \in RunnerType
  BY <1>1, <1>2, <1>10, <1>11
<1> QED BY <1>6, <1>8, <1>13, <1>18, <1>19, OneSinkMoves

LEMMA RunnerFailsKeeps ==
  ASSUME SinksInvariant, NEW s \in Sinks, RunnerFails(s) PROVE SinksInvariant'
<1> DEFINE r == [at |-> "failed", cursor |-> runner[s].cursor, state |-> runner[s].state,
                 fold |-> runner[s].fold, through |-> runner[s].through]
<1>1. /\ mem.up /\ runner[s].at \in {"draining", "staging", "committing"}
      /\ runner' = [runner EXCEPT ![s] = [runner[s] EXCEPT !.at = "failed"]]
      /\ UNCHANGED <<store, checkpoints, version, mem, gate, snapshot, row, inbox, past>>
  BY DEF RunnerFails, RunnerStep
<1>2. /\ runner[s] \in RunnerType /\ row[s] \in RowType /\ PastIsTyped(past[s]) /\ SinkKept(s)
      /\ past = [t \in Sinks |-> past[t]]
  BY SinkFacts
<1>3. r \in RunnerType /\ runner'[s] = r /\ runner' = [runner EXCEPT ![s] = r]
  <2>1. [runner[s] EXCEPT !.at = "failed"] = r
    BY RunnerIsRecord
  <2> QED BY <1>1, <2>1, GoesTo DEF Places
<1>4. /\ runner'[s].at = "failed" /\ runner'[s].cursor = runner[s].cursor
      /\ runner'[s].state = runner[s].state
  BY <1>3
<1> HIDE DEF r
<1>5. RunnerOnly(s, r)
  BY <1>1, <1>2, <1>3 DEF RunnerOnly
<1>6. RunnerKept(s)'
  BY <1>1, <1>2, <1>4 DEF SinkKept, RunnerKept, Busy, Called
<1>7. StagedKept(s)'
  BY <1>1, <1>2, <1>4 DEF SinkKept, StagedKept, Noted
<1> QED BY <1>1, <1>2, <1>3, <1>5, <1>6, <1>7, RunnerOnlyKeeps

-----------------------------------------------------------------------------
(* Steps of the log in which sinks take part.                              *)

\* The staged event is a batch of its own, and finds its place at the head.
LEMMA StagedIsNoted ==
  ASSUME LogInvariant, NEW n \in Nat, NEW e,
         e = [id |-> Fresh(1), type |-> "Note", key |-> None, ref |-> n]
  PROVE  /\ \E K : IsBatch(store, <<e>>, K)
         /\ Appended(store, <<e>>).store.rows = Append(store.rows, Fact(e))
<1> DEFINE head == LogHead(store)
<1>1. IsLog(store) /\ head \in Nat /\ head = Len(store.rows) /\ DOMAIN store.rows = 1 .. head
  BY IdsAreCount, LenProperties DEF LogInvariant, Durable, LogHead, IsLog, IsStore
<1>2. e \in EventSet /\ e.id = head + 1 /\ e.type = "Note"
  BY <1>1 DEF EventSet, Types, Refs, Keys, Fresh
<1>3. AboutItself(e)
  BY <1>2 DEF AboutItself, Bodied
<1>4. IsBatch(store, Append(<<>>, e), head + 1)
  BY <1>1, <1>2, <1>3, EmptyIsBatch, MintedIsBatch
<1>5. Append(<<>>, e) = <<e>> /\ Len(<<e>>) = 1 /\ <<e>>[1] = e
  OBVIOUS
<1>6. Transaction(store, <<e>>)
        = [i \in 0 .. 1 |-> TxStep(store, <<e>>, Transaction(store, <<e>>), i)]
  BY <1>5, TransactionUnfolds
<1> DEFINE tx == Transaction(store, <<e>>)
           tx0 == [store |-> store, seqs |-> <<>>, ok |-> TRUE]
<1>7. tx[0] = tx0 /\ tx[1] = InsertOrRead(tx0, e)
  <2> HIDE DEF tx0
  <2>1. tx[0] = TxStep(store, <<e>>, tx, 0) /\ tx[1] = TxStep(store, <<e>>, tx, 1)
    BY <1>6
  <2> HIDE DEF tx
  <2>2. tx[0] = tx0
    BY <2>1 DEF TxStep, tx0
  <2> QED BY <1>5, <2>1, <2>2 DEF TxStep
<1>8. SeqsOf(store, e.id) = {}
  BY <1>1, <1>2 DEF SeqsOf, IsLog
<1>9. InsertOrRead(tx0, e).store.rows = Append(store.rows, Fact(e)) /\ InsertOrRead(tx0, e).ok = TRUE
  BY <1>2, <1>8 DEF InsertOrRead, Admissible
<1>10. Appended(store, <<e>>).store.rows = Append(store.rows, Fact(e))
  <2> HIDE DEF tx0
  <2>1. tx[Len(<<e>>)] = InsertOrRead(tx0, e)
    BY <1>5, <1>7
  <2> QED BY <1>9, <2>1 DEF Appended
<1> QED BY <1>4, <1>5, <1>10

LEMMA AppendStagedKeeps ==
  ASSUME SinksInvariant, NEW s \in Sinks, AppendStaged(s) PROVE SinksInvariant'
<1> DEFINE through == runner[s].through
           e == [id |-> Fresh(1), type |-> "Note", key |-> None, ref |-> through]
<1>1. /\ Live /\ gate = Free /\ runner[s].at = "staging"
      /\ Committed(Appended(store, <<e>>))
      /\ runner' = [runner EXCEPT ![s] = [runner[s] EXCEPT !.at = "appending"]]
      /\ UNCHANGED <<checkpoints, version, mem, snapshot, row, inbox, past>>
  BY DEF AppendStaged, RunnerStep
<1>2. /\ runner[s] \in RunnerType /\ row[s] \in RowType /\ PastIsTyped(past[s]) /\ SinkKept(s)
      /\ runner = [t \in Sinks |-> runner[t]] /\ through \in Nat
  BY SinkFacts DEF RunnerType
<1>3. (\E K : IsBatch(store, <<e>>, K)) /\ Appended(store, <<e>>).store.rows = Append(store.rows, Fact(e))
  BY <1>2, StagedIsNoted DEF SinksInvariant
<1>4. e.type = "Note" /\ e.ref = through
  OBVIOUS
<1> HIDE DEF e
<1>5. PICK K : IsBatch(store, <<e>>, K)
  BY <1>3
<1>6. LogInvariant'
  BY <1>1, <1>5, CommittedKeeps DEF SinksInvariant
<1>7. IsLog(store') /\ Extends(store, store') /\ LogHead(store') \in Nat /\ LogHead(store) \in Nat
  <2>1. IsLog(store')
    BY <1>6 DEF LogInvariant, Durable
  <2>2. Extends(store, store')
    BY <1>1, <1>5, BatchExtends DEF Committed, SinksInvariant
  <2>3. LogHead(store') \in Nat
    BY <2>1, LenProperties DEF IsLog, IsStore, LogHead
  <2> QED BY <2>1, <2>2, <2>3, HeadIsNat
<1>8. \A t : t = through => Noted(t)'
  <2>1. store.rows \in Seq(FactSet)
    BY HeadIsNat DEF IsLog, IsStore
  <2>2. Fact(e).type = "Note" /\ Fact(e).ref = through
    BY <1>4 DEF Fact
  <2>3. store'.rows = Append(store.rows, Fact(e))
    BY <1>1, <1>3 DEF Committed
  <2>4. store'.rows \in Seq(FactSet)
    BY <1>7 DEF IsLog, IsStore
  <2>5. Len(store.rows) + 1 \in DOMAIN store'.rows
        /\ store'.rows[Len(store.rows) + 1] = Fact(e)
    BY <2>1, <2>3
  <2> QED BY <2>2, <2>5 DEF Noted
<1>9. /\ runner'[s] = [at |-> "appending", cursor |-> runner[s].cursor, state |-> runner[s].state,
                       fold |-> runner[s].fold, through |-> through]
      /\ runner'[s] \in RunnerType /\ runner' = [t \in Sinks |-> runner'[t]]
      /\ \A t \in Sinks \ {s} : runner'[t] = runner[t]
  BY <1>1, <1>2, GoesTo DEF Places
<1>10. \A t \in Sinks \ {s} : SinkKept(t)'
  BY <1>1, <1>7, <1>9, SinkOfLongerLog DEF SinksInvariant
<1>11. \A k \in Nat : k <= LogHead(store) => Interested(s, 0, k)' = Interested(s, 0, k)
  BY <1>7 DEF Interested, Extends, LogHead
<1>12. LogHead(store) <= LogHead(store')
  BY <1>7 DEF Extends, LogHead
<1>13. SinkKept(s)'
  <2>1. RowKept(s)'
    BY <1>1, <1>2, <1>7, <1>11, <1>12 DEF SinkKept, RowKept, RowType
  <2>2. UpTo(s) = through /\ UpTo(s)' = through
    BY <1>1, <1>9 DEF UpTo
  <2>3. through <= LogHead(store) /\ Interested(s, 0, through) \subseteq past[s].done
    BY <1>1, <1>2 DEF SinkKept, RunnerKept, Busy, Called
  <2>4. RunnerKept(s)'
    BY <1>1, <1>2, <1>7, <1>9, <1>11, <1>12, <2>2, <2>3 DEF SinkKept, RunnerKept, Busy, Called
  <2>5. StagedKept(s)'
    <3>1. \A t : Noted(t) => Noted(t)'
      <4>1. DOMAIN store.rows = 1 .. Len(store.rows) /\ Len(store.rows) \in Nat
            /\ DOMAIN store'.rows = 1 .. Len(store'.rows) /\ Len(store'.rows) \in Nat
        BY <1>7, HeadIsNat, LenProperties DEF IsLog, IsStore
      <4> QED BY <1>7, <4>1 DEF Noted, Extends
    <3>2. \A t \in past[s].staged : Noted(t) \/ t = through
      BY <1>1, <1>2 DEF SinkKept, StagedKept
    <3> QED BY <1>1, <1>8, <3>1, <3>2 DEF StagedKept
  <2>6. InboxKept(s)'
    <3>1. inbox[s].head \in Nat
      BY SinkFacts DEF InboxType
    <3> QED BY <1>1, <1>2, <1>7, <1>12, <3>1, PlacedGrows DEF SinkKept, InboxKept
  <2> QED BY <2>1, <2>4, <2>5, <2>6 DEF SinkKept
<1>14. SinksTyped'
  <2>1. runner' \in [Sinks -> RunnerType]
    <3>1. \A t \in Sinks : runner'[t] \in RunnerType
      BY <1>9 DEF SinksInvariant, SinksTyped
    <3> QED BY <1>9, <3>1
  <2> QED BY <1>1, <2>1 DEF SinksInvariant, SinksTyped, PastIsTyped
<1>15. GatePlaced'
  BY <1>1 DEF Committed, GatePlaced
<1>16. DownTogether'
  BY <1>1 DEF DownTogether, Live
<1> QED BY <1>6, <1>10, <1>13, <1>14, <1>15, <1>16 DEF SinksInvariant

\* What NotifySinks writes into an inbox.
LEMMA InboxIsRecord ==
  ASSUME NEW b, b = [head |-> b.head, pending |-> b.pending, wake |-> b.wake], NEW p, NEW woken
  PROVE  /\ [b EXCEPT !.head = p[1], !.wake = woken]
              = [head |-> p[1], pending |-> b.pending, wake |-> woken]
         /\ [b EXCEPT !.pending = Append(@, p), !.wake = woken]
              = [head |-> b.head, pending |-> Append(b.pending, p), wake |-> woken]
<1> DEFINE h == b.head
           q == b.pending
           w == b.wake
           x == p[1]
           y == Append(b.pending, p)
           b1 == [b EXCEPT !.head = x]
           b2 == [b EXCEPT !.pending = y]
<1>1. /\ [b EXCEPT !.head = p[1], !.wake = woken] = [b1 EXCEPT !.wake = woken]
      /\ [b EXCEPT !.pending = Append(@, p), !.wake = woken] = [b2 EXCEPT !.wake = woken]
  OBVIOUS
<1>2. b = [head |-> h, pending |-> q, wake |-> w]
  OBVIOUS
<1> HIDE DEF h, q, w, x, y
<1>3. b1 = [head |-> x, pending |-> q, wake |-> w]
  BY <1>2
<1>4. b2 = [head |-> h, pending |-> y, wake |-> w]
  BY <1>2
<1> HIDE DEF b1, b2
<1>5. [b1 EXCEPT !.wake = woken] = [head |-> x, pending |-> q, wake |-> woken]
  BY <1>3
<1>6. [b2 EXCEPT !.wake = woken] = [head |-> h, pending |-> y, wake |-> woken]
  BY <1>4
<1> QED BY <1>1, <1>5, <1>6 DEF h, q, x, y

\* A publication is over: every inbox is told, and who waited for it goes on.
LEMMA ReleaseToSinksKeeps ==
  ASSUME SinksInvariant, ReleaseToSinks PROVE SinksInvariant'
<1> DEFINE p == gate.last
           told(s) == IF p[2] = 0 THEN [inbox[s] EXCEPT !.head = p[1], !.wake = TRUE]
                      ELSE IF s \in Hearing /\ Len(inbox[s].pending) < EphemeralCapacity
                      THEN [inbox[s] EXCEPT !.pending = Append(@, p), !.wake = TRUE]
                      ELSE inbox[s]
           goes(s) == IF runner[s].at = "appending" THEN [runner[s] EXCEPT !.at = "committing"]
                      ELSE runner[s]
<1>1. /\ Release /\ gate.at = "publishing"
      /\ inbox' = [s \in Sinks |-> told(s)] /\ runner' = [s \in Sinks |-> goes(s)]
      /\ UNCHANGED <<store, row, past>>
  BY DEF ReleaseToSinks, Release, NotifySinks
<1>2. LogInvariant' /\ GatePlaced'
  BY <1>1, LogStepKeeps, GateStaysPlaced DEF SinksInvariant
<1>3. p \in Position /\ p \in Placed
  BY <1>1, PublishingGate DEF SinksInvariant, GatePlaced
<1> HIDE DEF p
<1>4. ASSUME NEW s \in Sinks
      PROVE  inbox'[s] \in InboxType /\ runner'[s] \in RunnerType /\ SinkKept(s)'
  <2>1. /\ runner[s] \in RunnerType /\ row[s] \in RowType /\ PastIsTyped(past[s]) /\ SinkKept(s)
        /\ inbox[s] \in InboxType /\ LogHead(store) \in Nat
    BY SinkFacts
  <2>2. inbox'[s] = told(s) /\ runner'[s] = goes(s)
    BY <1>1
  <2>3. inbox'[s] \in InboxType /\ InboxKept(s)'
    <3> DEFINE b == inbox[s]
    <3>1. b = [head |-> b.head, pending |-> b.pending, wake |-> b.wake]
          /\ b.head \in Nat /\ b.pending \in Seq(Position) /\ b.wake \in BOOLEAN
          /\ b.head <= LogHead(store) /\ b.pending \in Seq(Placed)
      BY <2>1 DEF InboxType, SinkKept, InboxKept
    <3>2. p[1] \in Nat /\ p[1] <= LogHead(store)
      BY <1>3, <2>1 DEF Placed
    <3>3. Append(b.pending, p) \in Seq(Position) /\ Append(b.pending, p) \in Seq(Placed)
      BY <1>3, <3>1, AppendProperties
    <3> HIDE DEF b
    <3>4. told(s) \in {b, [head |-> p[1], pending |-> b.pending, wake |-> TRUE],
                       [head |-> b.head, pending |-> Append(b.pending, p), wake |-> TRUE]}
      <4>1. [b EXCEPT !.head = p[1], !.wake = TRUE]
              = [head |-> p[1], pending |-> b.pending, wake |-> TRUE]
        BY <3>1, InboxIsRecord
      <4>2. [b EXCEPT !.pending = Append(@, p), !.wake = TRUE]
              = [head |-> b.head, pending |-> Append(b.pending, p), wake |-> TRUE]
        BY <3>1, InboxIsRecord
      <4>3. told(s) \in {b, [b EXCEPT !.head = p[1], !.wake = TRUE],
                         [b EXCEPT !.pending = Append(@, p), !.wake = TRUE]}
        BY DEF b
      <4> QED BY <4>1, <4>2, <4>3
    <3> HIDE DEF told
    <3>5. /\ inbox'[s] = [head |-> inbox'[s].head, pending |-> inbox'[s].pending,
                          wake |-> inbox'[s].wake]
          /\ inbox'[s].head \in Nat /\ inbox'[s].pending \in Seq(Position)
          /\ inbox'[s].wake \in BOOLEAN
          /\ inbox'[s].head <= LogHead(store) /\ inbox'[s].pending \in Seq(Placed)
      <4> DEFINE more == Append(b.pending, p)
      <4> HIDE DEF more
      <4>1. more \in Seq(Position) /\ more \in Seq(Placed)
        BY <3>3 DEF more
      <4>2. inbox'[s] \in {b, [head |-> p[1], pending |-> b.pending, wake |-> TRUE],
                           [head |-> b.head, pending |-> more, wake |-> TRUE]}
        BY <2>2, <3>4 DEF more
      <4>3. CASE inbox'[s] = b
        BY <3>1, <4>3
      <4>4. CASE inbox'[s] = [head |-> p[1], pending |-> b.pending, wake |-> TRUE]
        BY <3>1, <3>2, <4>4
      <4>5. CASE inbox'[s] = [head |-> b.head, pending |-> more, wake |-> TRUE]
        BY <3>1, <4>1, <4>5
      <4> QED BY <4>2, <4>3, <4>4, <4>5
    <3> QED BY <1>1, <3>5 DEF InboxType, InboxKept, Placed
  <2>4. CASE runner[s].at = "appending"
    <3>1. runner'[s] = [at |-> "committing", cursor |-> runner[s].cursor, state |-> runner[s].state,
                        fold |-> runner[s].fold, through |-> runner[s].through]
      BY <2>2, <2>4, RunnerIsRecord
    <3>2. runner'[s] \in RunnerType
      BY <2>1, <3>1 DEF RunnerType, Places
    <3>3. RowKept(s)'
      BY <1>1, <2>1 DEF SinkKept, RowKept, Interested
    <3>4. RunnerKept(s)'
      <4>1. UpTo(s)' = UpTo(s)
        BY <2>4, <3>1 DEF UpTo
      <4>2. Interested(s, 0, runner[s].through)' = Interested(s, 0, runner[s].through)
        BY <1>1, <3>1 DEF Interested
      <4> QED BY <1>1, <2>1, <2>4, <3>1, <4>1, <4>2 DEF SinkKept, RunnerKept, Busy, Called
    <3>5. StagedKept(s)'
      BY <1>1, <2>1, <2>4 DEF SinkKept, StagedKept, Noted
    <3> QED BY <2>3, <3>2, <3>3, <3>4, <3>5 DEF SinkKept
  <2>5. CASE runner[s].at # "appending"
    <3>1. runner'[s] = runner[s]
      BY <2>2, <2>5
    <3>2. RowKept(s)'
      BY <1>1, <2>1 DEF SinkKept, RowKept, Interested
    <3>3. RunnerKept(s)'
      <4>1. UpTo(s)' = UpTo(s)
        BY <3>1 DEF UpTo
      <4>2. Interested(s, 0, runner[s].through)' = Interested(s, 0, runner[s].through)
        BY <1>1, <3>1 DEF Interested
      <4> QED BY <1>1, <2>1, <3>1, <4>1, <4>2 DEF SinkKept, RunnerKept
    <3>4. StagedKept(s)'
      BY <1>1, <2>1, <3>1 DEF SinkKept, StagedKept, Noted
    <3> QED BY <2>1, <2>3, <3>1, <3>2, <3>3, <3>4 DEF SinkKept
  <2> QED BY <2>3, <2>4, <2>5
<1>5. SinksTyped'
  <2> HIDE DEF told, goes
  <2>1. inbox' \in [Sinks -> InboxType] /\ runner' \in [Sinks -> RunnerType]
    BY <1>1, <1>4
  <2> QED BY <1>1, <2>1 DEF SinksInvariant, SinksTyped, PastIsTyped
<1>6. DownTogether'
  <2>1. gate # Free
    <3>1. gate.at = "publishing" /\ Free.at = "free"
      BY <1>1 DEF Free
    <3> QED BY <3>1
  <2>2. mem' = mem /\ mem.up
    BY <1>1, <2>1 DEF Release, SinksInvariant, LogInvariant, Folded
  <2> QED BY <2>2 DEF DownTogether
<1> QED BY <1>2, <1>4, <1>5, <1>6 DEF SinksInvariant

\* The process starts again: a runner resumes from its row, with the session's fold
\* where that is the fold at its cursor.
LEMMA StartRunnersKeeps ==
  ASSUME SinksInvariant, StartRunners PROVE SinksInvariant'
<1> DEFINE head == LogHead(store)
           fold(s) == InitialProjection(s, head)
<1>1. /\ Restart /\ UNCHANGED <<store, row, past>>
      /\ runner' = [s \in Sinks |-> [at |-> "polling", cursor |-> row[s].after,
                                     state |-> row[s].state, fold |-> fold(s), through |-> 0]]
      /\ inbox' = [s \in Sinks |-> [head |-> head, pending |-> <<>>, wake |-> FALSE]]
  BY DEF StartRunners, Restart, Quiet
<1>2. LogInvariant' /\ GatePlaced'
  BY <1>1, LogStepKeeps, GateStaysPlaced DEF SinksInvariant
<1>3. head \in Nat /\ Ids = Count(head) /\ Count(head) \in Seq(Nat)
  BY IdsAreCount, CountIsSeq DEF SinksInvariant, LogInvariant, Durable
<1>4. Count(0) = <<>> /\ SubSeq(Count(head), 1, head) = Count(head)
  <2>1. Count(0) \in Seq(Nat) /\ Len(Count(0)) = 0
    BY CountIsSeq
  <2>2. SubSeq(Count(head), 1, head) = Count(head)
    BY <1>3, CountGoesOn
  <2> QED BY <2>1, <2>2, EmptySeq
<1>5. ASSUME NEW s \in Sinks
      PROVE  inbox'[s] \in InboxType /\ runner'[s] \in RunnerType /\ SinkKept(s)'
  <2>1. row[s] \in RowType /\ PastIsTyped(past[s]) /\ SinkKept(s)
    BY SinkFacts
  <2> DEFINE cursor == row[s].after
  <2>2. fold(s) \in {NoProjection, Count(cursor)}
    <3>1. CASE cursor = head
      BY <1>3, <1>4, <3>1 DEF InitialProjection
    <3>2. CASE cursor # head /\ cursor = 0
      BY <1>4, <3>2 DEF InitialProjection
    <3>3. CASE cursor # head /\ cursor # 0
      BY <3>3 DEF InitialProjection
    <3> QED BY <3>1, <3>2, <3>3
  <2>3. cursor \in Nat /\ row[s].state \in Nat /\ Count(cursor) \in Seq(Nat)
    BY <2>1, CountIsSeq DEF RowType
  <2>4. runner'[s] = [at |-> "polling", cursor |-> cursor, state |-> row[s].state,
                      fold |-> fold(s), through |-> 0]
        /\ inbox'[s] = [head |-> head, pending |-> <<>>, wake |-> FALSE]
    BY <1>1
  <2> HIDE DEF fold, head
  <2>5. runner'[s] \in RunnerType
    BY <2>2, <2>3, <2>4 DEF RunnerType, Places
  <2>6. inbox'[s] \in InboxType /\ InboxKept(s)'
    <3>1. <<>> \in Seq(Position) /\ <<>> \in Seq(Placed)
      BY EmptySeq
    <3>2. inbox'[s] \in InboxType
      BY <1>3, <2>4, <3>1 DEF InboxType
    <3>3. Placed' = Placed /\ LogHead(store)' = head
      BY <1>1 DEF Placed, head
    <3>4. inbox'[s].head = head /\ inbox'[s].pending = <<>>
      BY <2>4
    <3>5. inbox'[s].head <= LogHead(store)'
      BY <1>3, <3>3, <3>4
    <3> QED BY <3>1, <3>2, <3>3, <3>4, <3>5 DEF InboxKept
  <2>7. RowKept(s)'
    BY <1>1, <2>1 DEF SinkKept, RowKept, Interested
  <2>8. RunnerKept(s)'
    BY <1>1, <2>2, <2>4 DEF RunnerKept, UpTo, Busy, Called
  <2>9. StagedKept(s)'
    <3>1. runner[s].at = "down"
      BY <1>1 DEF Restart, SinksInvariant, DownTogether
    <3> QED BY <1>1, <2>1, <3>1 DEF SinkKept, StagedKept, Noted
  <2> QED BY <2>5, <2>6, <2>7, <2>8, <2>9 DEF SinkKept
<1>6. SinksTyped'
  <2> HIDE DEF fold, head
  <2>1. inbox' \in [Sinks -> InboxType] /\ runner' \in [Sinks -> RunnerType]
    BY <1>1, <1>5
  <2> QED BY <1>1, <2>1 DEF SinksInvariant, SinksTyped, PastIsTyped
<1>7. DownTogether'
  BY <1>1 DEF Restart, DownTogether
<1> QED BY <1>2, <1>5, <1>6, <1>7 DEF SinksInvariant

LEMMA PastIsRecord ==
  ASSUME NEW p, PastIsTyped(p), NEW cut
  PROVE  [p EXCEPT !.lane = <<>>, !.staged = {t \in @ : t <= cut}]
           = [done |-> p.done, staged |-> {t \in p.staged : t <= cut}, lane |-> <<>>,
              saved |-> p.saved]
<1> DEFINE d == p.done
           g == p.staged
           l == p.lane
           v == p.saved
           none == <<>>
           kept == {t \in g : t <= cut}
           p1 == [p EXCEPT !.lane = none]
<1>1. p = [done |-> d, staged |-> g, lane |-> l, saved |-> v]
  BY DEF PastIsTyped
<1> HIDE DEF d, g, l, v, none
<1>2. p1 = [done |-> d, staged |-> g, lane |-> none, saved |-> v]
  BY <1>1
<1>3. [p EXCEPT !.lane = <<>>, !.staged = {t \in @ : t <= cut}]
        = [p1 EXCEPT !.staged = {t \in @ : t <= cut}]
  BY DEF none
<1> HIDE DEF p1
<1>4. [p1 EXCEPT !.staged = {t \in @ : t <= cut}] = [p1 EXCEPT !.staged = kept]
  BY <1>2
<1> HIDE DEF kept
<1>5. [p1 EXCEPT !.staged = kept] = [done |-> d, staged |-> kept, lane |-> none, saved |-> v]
  BY <1>2
<1> QED BY <1>3, <1>4, <1>5 DEF d, g, v, none, kept

\* The process dies: what was staged and is not in the log yet belongs to a batch the
\* cursor is not past, which is delivered again.
LEMMA StopRunnersKeeps ==
  ASSUME SinksInvariant, StopRunners PROVE SinksInvariant'
<1> DEFINE cut(s) == {t \in past[s].staged : t <= row[s].after}
<1>1. /\ Crash /\ UNCHANGED <<store, row>>
      /\ runner' = [s \in Sinks |-> [at |-> "down", cursor |-> 0, state |-> 0,
                                     fold |-> NoProjection, through |-> 0]]
      /\ inbox' = [s \in Sinks |-> [head |-> 0, pending |-> <<>>, wake |-> FALSE]]
      /\ past' = [s \in Sinks |-> [past[s] EXCEPT !.lane = <<>>,
                                                  !.staged = {t \in @ : t <= row[s].after}]]
  BY DEF StopRunners, Crash, Quiet, Asleep
<1>2. LogInvariant' /\ GatePlaced'
  BY <1>1, LogStepKeeps, GateStaysPlaced DEF SinksInvariant
<1>3. ASSUME NEW s \in Sinks
      PROVE  /\ inbox'[s] \in InboxType /\ runner'[s] \in RunnerType /\ PastIsTyped(past'[s])
             /\ SinkKept(s)'
  <2>1. /\ row[s] \in RowType /\ PastIsTyped(past[s]) /\ SinkKept(s) /\ LogHead(store) \in Nat
    BY SinkFacts
  <2>2. past'[s] = [done |-> past[s].done, staged |-> cut(s), lane |-> <<>>,
                    saved |-> past[s].saved]
    <3>1. past'[s] = [past[s] EXCEPT !.lane = <<>>, !.staged = {t \in @ : t <= row[s].after}]
      BY <1>1
    <3> QED BY <2>1, <3>1, PastIsRecord
  <2>3. runner'[s] = [at |-> "down", cursor |-> 0, state |-> 0, fold |-> NoProjection, through |-> 0]
        /\ inbox'[s] = [head |-> 0, pending |-> <<>>, wake |-> FALSE]
    BY <1>1
  <2>4. past'[s].done = past[s].done /\ past'[s].saved = past[s].saved
        /\ past'[s].staged = cut(s) /\ cut(s) \subseteq past[s].staged
    BY <2>2
  <2>5. PastIsTyped(past'[s])
    BY <2>1, <2>2, <2>4 DEF PastIsTyped
  <2>6. \A t \in cut(s) : t \in past[s].staged /\ t \in Nat /\ t <= row[s].after
                          /\ row[s].after \in Nat
    BY <2>1 DEF PastIsTyped, RowType
  <2> HIDE DEF cut
  <2>7. runner'[s] \in RunnerType
    BY <2>3 DEF RunnerType, Places
  <2>8. <<>> \in Seq(Position) /\ <<>> \in Seq(Placed')
    BY EmptySeq
  <2>9. inbox'[s] \in InboxType /\ InboxKept(s)'
    <3>1. inbox'[s] \in InboxType
      BY <2>3, <2>8 DEF InboxType
    <3>2. inbox'[s].head = 0 /\ inbox'[s].pending = <<>> /\ LogHead(store)' = LogHead(store)
      BY <1>1, <2>3
    <3>3. inbox'[s].head <= LogHead(store)'
      BY <2>1, <3>2
    <3> QED BY <2>8, <3>1, <3>2, <3>3 DEF InboxKept
  <2>10. RowKept(s)'
    BY <1>1, <2>1, <2>4 DEF SinkKept, RowKept, Interested
  <2>11. RunnerKept(s)'
    BY <2>3 DEF RunnerKept, Busy, Called
  <2>12. StagedKept(s)'
    <3>1. \A t \in cut(s) : Noted(t)
      BY <2>1, <2>6 DEF SinkKept, StagedKept
    <3> QED BY <1>1, <2>4, <3>1 DEF StagedKept, Noted
  <2> QED BY <2>5, <2>7, <2>9, <2>10, <2>11, <2>12 DEF SinkKept
<1>4. SinksTyped'
  <2>1. inbox' \in [Sinks -> InboxType] /\ runner' \in [Sinks -> RunnerType]
    BY <1>1, <1>3
  <2>2. past' = [s \in Sinks |-> past'[s]] /\ row' = row
    BY <1>1
  <2> QED BY <1>3, <2>1, <2>2 DEF SinksInvariant, SinksTyped
<1>5. DownTogether'
  BY <1>1 DEF DownTogether
<1> QED BY <1>2, <1>3, <1>4, <1>5 DEF SinksInvariant

-----------------------------------------------------------------------------
LEMMA SinksInitHolds == ASSUME SinksInit PROVE SinksInvariant
<1>1. LogInvariant
  BY LogInitHolds DEF SinksInit
<1>2. store = EmptyStore /\ gate = Free /\ mem.up
  BY DEF SinksInit, LogInit
<1>3. LogHead(store) = 0
  BY <1>2, EmptySeq DEF EmptyStore, LogHead
<1>4. Count(0) = <<>> /\ <<>> \in Seq(Nat) /\ Ids = Count(0)
  <2>1. Count(0) \in Seq(Nat) /\ Len(Count(0)) = 0
    BY CountIsSeq
  <2>2. Ids = Count(LogHead(store))
    BY <1>1, IdsAreCount DEF LogInvariant, Durable
  <2> QED BY <1>3, <2>1, <2>2, EmptySeq
<1>5. GatePlaced /\ DownTogether
  BY <1>2 DEF GatePlaced, Free, DownTogether
<1>6. ASSUME NEW s \in Sinks
      PROVE  /\ row[s] \in RowType /\ inbox[s] \in InboxType /\ runner[s] \in RunnerType
             /\ PastIsTyped(past[s]) /\ SinkKept(s)
  <2> DEFINE fold == InitialProjection(s, 0)
  <2>1. /\ row[s] = [after |-> 0, state |-> 0]
        /\ inbox[s] = [head |-> 0, pending |-> <<>>, wake |-> FALSE]
        /\ runner[s] = [at |-> "polling", cursor |-> 0, state |-> 0, fold |-> fold, through |-> 0]
        /\ past[s] = [done |-> {}, staged |-> {}, lane |-> <<>>, saved |-> 0]
    BY DEF SinksInit, Quiet
  <2>2. fold \in {NoProjection, Count(0)}
    <3>1. SubSeq(Ids, 1, 0) = <<>>
      <4>1. SubSeq(Count(0), 1, 0) = Count(0)
        BY CountGoesOn
      <4> QED BY <1>4, <4>1
    <3> QED BY <1>4, <2>1, <3>1 DEF InitialProjection
  <2> HIDE DEF fold
  <2>3. row[s] \in RowType
    BY <2>1 DEF RowType
  <2>4. <<>> \in Seq(Position) /\ <<>> \in Seq(Placed)
    BY EmptySeq
  <2>5. inbox[s] \in InboxType
    BY <2>1, <2>4 DEF InboxType
  <2>6. runner[s] \in RunnerType
    <3>1. fold \in {NoProjection} \cup Seq(Nat)
      BY <1>4, <2>2
    <3>2. "polling" \in Places /\ 0 \in Nat
      BY DEF Places
    <3> HIDE DEF Places, NoProjection
    <3> QED BY <2>1, <3>1, <3>2 DEF RunnerType
  <2>7. PastIsTyped(past[s])
    BY <2>1 DEF PastIsTyped
  <2>8. RowKept(s)
    BY <1>3, <2>1 DEF RowKept, Interested
  <2>9. RunnerKept(s)
    BY <2>1, <2>2 DEF RunnerKept, UpTo, Busy, Called
  <2>10. StagedKept(s) /\ InboxKept(s)
    BY <1>3, <2>1, <2>4 DEF StagedKept, InboxKept
  <2> QED BY <2>3, <2>5, <2>6, <2>7, <2>8, <2>9, <2>10 DEF SinkKept
<1>7. SinksTyped
  <2>1. /\ row = [s \in Sinks |-> row[s]] /\ inbox = [s \in Sinks |-> inbox[s]]
        /\ runner = [s \in Sinks |-> runner[s]] /\ past = [s \in Sinks |-> past[s]]
    BY DEF SinksInit
  <2> QED BY <1>6, <2>1 DEF SinksTyped
<1> QED BY <1>1, <1>5, <1>6, <1>7 DEF SinksInvariant

LEMMA SinksStepKeeps == ASSUME SinksInvariant, SinksNext PROVE SinksInvariant'
<1>1. CASE LogStep /\ UNCHANGED sinkVars
  BY <1>1, LogStepKeepsSinks
<1>2. CASE ReleaseToSinks
  BY <1>2, ReleaseToSinksKeeps
<1>3. ASSUME NEW s \in Sinks, Turn(s), UNCHANGED logVars PROVE SinksInvariant'
  BY <1>3, PollKeeps, AwaitWorkKeeps, HeardKeeps, DrainKeeps, DeliveredKeeps, CommitCursorKeeps
     DEF Turn
<1>4. ASSUME NEW s \in Sinks, Defected(s) \/ Save(s), UNCHANGED logVars PROVE SinksInvariant'
  BY <1>4, DefectedKeeps, SaveKeeps
<1>5. ASSUME NEW s \in Sinks, SinkNext(s) PROVE SinksInvariant'
  BY <1>3, <1>4, <1>5, AppendStagedKeeps, RunnerFailsKeeps DEF SinkNext
<1>6. CASE StartRunners \/ StopRunners
  BY <1>6, StartRunnersKeeps, StopRunnersKeeps
<1> QED BY <1>1, <1>2, <1>5, <1>6 DEF SinksNext

\* The invariant of the sinks over the log: a runner's cursor and state are its row's,
\* its batch lies within the log, its projection is the fold up to where it is, and
\* what it staged is in the log or still in hand (sink-registry.ts makeSinkRunner,
\* processDurableBatch, ensureProjection).
THEOREM SinksInvariantHolds == SinksSpec => []SinksInvariant
<1>1. SinksInit => SinksInvariant
  BY SinksInitHolds
<1>2. SinksInvariant /\ [SinksNext]_sinksVars => SinksInvariant'
  <2>1. ASSUME SinksInvariant, SinksNext PROVE SinksInvariant'
    BY <2>1, SinksStepKeeps
  <2>2. ASSUME SinksInvariant, UNCHANGED sinksVars PROVE SinksInvariant'
    <3>1. UNCHANGED <<store, checkpoints, version, mem, gate, snapshot, row, inbox, runner, past>>
      BY <2>2 DEF sinksVars, logVars, sinkVars
    <3>2. LogInvariant'
      BY <2>2, <3>1, UnchangedKeeps DEF SinksInvariant
    <3>3. SinksTyped'
      BY <2>2, <3>1 DEF SinksInvariant, SinksTyped, PastIsTyped
    <3>4. GatePlaced' /\ DownTogether'
      BY <2>2, <3>1 DEF SinksInvariant, GatePlaced, Placed, DownTogether
    <3>5. \A s \in Sinks : SinkKept(s)'
      BY <2>2, <3>1 DEF SinksInvariant, SinkKept, RowKept, RunnerKept, StagedKept, InboxKept,
                  Interested, UpTo, Noted, Placed
    <3> QED BY <3>2, <3>3, <3>4, <3>5 DEF SinksInvariant
  <2> QED BY <2>1, <2>2
<1> QED BY <1>1, <1>2, PTL DEF SinksSpec

\* AtLeastOnce for every value of the constants: over crashes, restarts, defects of the
\* callback and failures of the store, whatever a durable cursor is past the sink was
\* called with, and what it staged is in the log (processDurableBatch).
THEOREM DeliveredAtLeastOnce == SinksSpec => []AtLeastOnce
BY SinksInvariantHolds, InvariantDelivers, PTL

\* SinkStateExact for every value of the constants: the row holds the state saved last,
\* and a projection is the fold of the log exactly up to the sink's cursor, or up to
\* the end of the batch in hand (makeSinkCheckpoint, ensureProjection).
THEOREM SinkStatesAreExact == SinksSpec => []SinkStateExact
BY SinksInvariantHolds, InvariantDelivers, PTL
=============================================================================
