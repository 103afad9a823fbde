----------------------- MODULE ContextCompactionProofs -----------------------
(***************************************************************************)
(* NothingForgotten, PromptsPaired and PrefixesKept, for every value of    *)
(* the constants, and so for every pairing of a policy with an executor.   *)
(*                                                                         *)
(* The argument is a promise.  From the start of a compaction to its       *)
(* commit, what the model was told is in what the executor reads, or at    *)
(* or behind the cut that is to come; so the commit may drop the rest.     *)
(* And what was sent is, until the next rebase, the prompt of what stood   *)
(* up to some position, which no later step changes.                       *)
(***************************************************************************)
EXTENDS ContextCompaction, FiniteSetTheorems, SequenceTheorems, WellFoundedInduction, TLAPS

-----------------------------------------------------------------------------
(* The invariant.                                                          *)

Dispositions == {"queue", "steer", "paused", "none"}
Places == {"Idle", "Boundary", "Compacting", "Running", "Completed", "Finishing", "Down",
           "Resuming"}

IsMessage(m, h) ==
  /\ m = [seq |-> m.seq, content |-> m.content, user |-> m.user, disposition |-> m.disposition,
          consumed |-> m.consumed, calls |-> m.calls]
  /\ m.seq \in 1 .. h /\ m.consumed \in 0 .. h /\ m.disposition \in Dispositions
  /\ m.user \in BOOLEAN /\ m.calls \in BOOLEAN
  /\ m.consumed > 0 => m.user /\ m.seq <= m.consumed
  /\ ~m.user => m.disposition = "none"
  /\ m.user => ~m.calls

Recorded(ms, h) ==
  /\ \A m \in ms : IsMessage(m, h)
  /\ \A m, n \in ms : m.seq = n.seq => m = n

IsCall(c, h) ==
  /\ c = [of |-> c.of, terminal |-> c.terminal]
  /\ c.of \in 1 .. h /\ c.terminal \in 0 .. h /\ (c.terminal > 0 => c.of < c.terminal)

HasCalls(ms, cs) == \A m \in ms : m.calls => \E c \in cs : c.of = m.seq
AllClosed(cs) == \A c \in cs : c.terminal > 0

\* What the model sees of a message.
Main(m) == [what |-> IF m.user THEN "message" ELSE "answer", at |-> m.content]
Result(m) == [what |-> "result", at |-> m.content]
Visible(m, retained) ==
  /\ m.user /\ m.disposition # "none" => m.consumed > 0
  /\ TranscriptSeq(m) >= retained
HasResult(m, cs) == m.calls /\ \E c \in cs : c.of = m.seq /\ c.terminal > 0
Shows(m, cs, i) == i = Main(m) \/ (HasResult(m, cs) /\ i = Result(m))

Holds(i, summary, ms, retained, cs) ==
  i \in summary \/ \E m \in ms : Visible(m, retained) /\ Shows(m, cs, i)
Remembered(items, summary, ms, retained, cs, exact) ==
  \A i \in items : (i.what # "message" \/ exact) => Holds(i, summary, ms, retained, cs)

From(ms, retained) == {m \in ms : m.seq >= retained}

Typed ==
  /\ head \in Nat /\ Recorded(messages, head) /\ \A c \in calls : IsCall(c, head)
  /\ context.retained \in 0 .. head /\ context.exact \in BOOLEAN
  /\ loop \in Places
  /\ loop \in {"Boundary", "Compacting"} => compaction.next \in {"Idle", "Completed", "Finishing"}

CallsKept ==
  /\ HasCalls(messages, calls)
  /\ loop \notin {"Running", "Down"} => AllClosed(calls)

ToldHeld ==
  Remembered(told, context.summary, messages, context.retained, calls, context.exact)

\* The promise of an open compaction.
CutHeld ==
  loop = "Compacting" =>
    /\ compaction.retained \in 0 .. head /\ compaction.exact \in BOOLEAN
    /\ Remembered(told, compaction.items, From(messages, compaction.retained),
                  compaction.retained, calls, context.exact /\ compaction.exact)

CompactionInvariant == Typed /\ CallsKept /\ ToldHeld /\ CutHeld

-----------------------------------------------------------------------------
(* Numbers.                                                                *)

Below == {p \in Nat \X Nat : p[1] < p[2]}

LEMMA LeastExists ==
  ASSUME NEW S \in SUBSET Nat, S # {}
  PROVE  \E x \in S : \A y \in S : x <= y
<1>1. IsWellFoundedOn(Below, Nat)
  BY NatLessThanWellFounded DEF OpToRel, Below
<1>2. PICK x \in S : \A y \in S : ~ (<<y, x>> \in Below)
  BY <1>1, WFMin
<1>3. \A y \in S : ~(y < x)
  BY <1>2 DEF Below
<1> QED BY <1>3

\* Induction over 0 .. n, by the first number that a set leaves out.
LEMMA ByFirstCounterexample ==
  ASSUME NEW n \in Nat, NEW Good \in SUBSET (0 .. n), 0 \in Good,
         \A i \in 1 .. n : i - 1 \in Good => i \in Good
  PROVE  Good = 0 .. n
<1> DEFINE Bad == (0 .. n) \ Good
<1>1. ASSUME Bad # {} PROVE FALSE
  <2>1. Bad \in SUBSET Nat
    OBVIOUS
  <2>2. PICK m \in Bad : \A y \in Bad : m <= y
    BY <1>1, <2>1, LeastExists
  <2>3. m \in 1 .. n /\ m - 1 \in 0 .. n
    BY <2>2
  <2>4. m - 1 \in Good
    BY <2>2, <2>3
  <2> QED BY <2>2, <2>3, <2>4
<1> QED BY <1>1

LEMMA EarliestIsMember ==
  ASSUME NEW ms, ms # {}, \A m \in ms : m.seq \in Nat
  PROVE  Earliest(ms) \in ms
<1> DEFINE seqs == {m.seq : m \in ms}
<1>1. seqs \in SUBSET Nat /\ seqs # {}
  OBVIOUS
<1>2. PICK x \in seqs : \A y \in seqs : x <= y
  BY <1>1, LeastExists
<1>3. \E m \in ms : \A n \in ms : m.seq <= n.seq
  BY <1>2
<1> QED BY <1>3 DEF Earliest

-----------------------------------------------------------------------------
(* The order of a prompt.                                                  *)

LEMMA RecordedIsFinite ==
  ASSUME NEW ms, NEW h \in Nat, Recorded(ms, h)
  PROVE  IsFiniteSet(ms)
<1> DEFINE f == [m \in ms |-> m.seq]
<1>1. \A m \in ms : m.seq \in 1 .. h
  BY DEF Recorded, IsMessage
<1>2. f \in Injection(ms, 1 .. h)
  BY <1>1 DEF Injection, IsInjective, Recorded
<1>3. IsFiniteSet(1 .. h)
  BY FS_Interval
<1> HIDE DEF f
<1> QED BY <1>2, <1>3, FS_Injection

\* Positions, with what decides between equal ones.
Placed(m) == m.seq \in Nat /\ TranscriptSeq(m) \in Nat /\ m.seq <= TranscriptSeq(m)

LEMMA MessageIsPlaced ==
  ASSUME NEW m, NEW h \in Nat, IsMessage(m, h)
  PROVE  Placed(m) /\ TranscriptSeq(m) \in 1 .. h /\ (~m.user => TranscriptSeq(m) = m.seq)
BY DEF IsMessage, Placed, TranscriptSeq

LEMMA BeforeIsOrder ==
  ASSUME NEW m, NEW n, NEW k, Placed(m), Placed(n), Placed(k)
  PROVE  /\ ~Before(m, m)
         /\ Before(m, n) /\ Before(n, k) => Before(m, k)
         /\ m.seq # n.seq => Before(m, n) \/ Before(n, m)
         /\ Before(m, n) => TranscriptSeq(m) <= TranscriptSeq(n)
BY DEF Before, Placed

Rank(m, ms) == Cardinality({n \in ms : Before(n, m)})

\* Every place of the order is taken, by one of the messages; at the first stands the least.
LEMMA OrderedHolds ==
  ASSUME NEW ms, NEW h \in Nat, Recorded(ms, h)
  PROVE  /\ Cardinality(ms) \in Nat
         /\ Ordered(ms) \in Seq(ms) /\ Len(Ordered(ms)) = Cardinality(ms)
         /\ \A i \in 1 .. Cardinality(ms) :
              Ordered(ms)[i] \in ms /\ Rank(Ordered(ms)[i], ms) = i - 1
         /\ \A m, n \in ms : Rank(m, ms) = Rank(n, ms) => m = n
         /\ ms # {} => \A n \in ms : Ordered(ms)[1] = n \/ Before(Ordered(ms)[1], n)
<1> DEFINE N == Cardinality(ms)
           Ahead(m) == {n \in ms : Before(n, m)}
           rank == [m \in ms |-> Cardinality(Ahead(m))]
<1>1. IsFiniteSet(ms) /\ N \in Nat
  BY RecordedIsFinite, FS_CardinalityType
<1>2. \A m \in ms : Placed(m)
  BY MessageIsPlaced DEF Recorded
<1>3. \A m, n \in ms : m.seq = n.seq => m = n
  BY DEF Recorded
<1>4. \A m \in ms : /\ IsFiniteSet(Ahead(m)) /\ Cardinality(Ahead(m)) \in Nat
                    /\ Cardinality(Ahead(m)) <= N /\ (Cardinality(Ahead(m)) = N => Ahead(m) = ms)
  BY <1>1, FS_Subset, FS_CardinalityType
<1>5. \A m \in ms : m \notin Ahead(m)
  BY <1>2, BeforeIsOrder
<1>6. \A m \in ms : rank[m] \in 0 .. N - 1
  <2> TAKE m \in ms
  <2>1. Cardinality(Ahead(m)) # N
    <3> HIDE DEF Ahead, N
    <3> QED BY <1>4, <1>5
  <2>2. Cardinality(Ahead(m)) \in Nat /\ Cardinality(Ahead(m)) <= N
    BY <1>4
  <2> HIDE DEF Ahead, N
  <2> QED BY <1>1, <2>1, <2>2
<1>7. ASSUME NEW m \in ms, NEW n \in ms, Before(m, n) PROVE rank[m] # rank[n]
  <2>1. Ahead(m) \subseteq Ahead(n)
    BY <1>2, <1>7, BeforeIsOrder
  <2>2. m \in Ahead(n)
    BY <1>7
  <2>3. Ahead(m) # Ahead(n)
    BY <1>5, <2>2
  <2>4. IsFiniteSet(Ahead(n))
    BY <1>4
  <2> HIDE DEF Ahead
  <2>5. Cardinality(Ahead(m)) # Cardinality(Ahead(n))
    BY <2>1, <2>3, <2>4, FS_Subset
  <2> QED BY <2>5
<1>8. rank \in Injection(ms, 0 .. N - 1)
  <2>1. rank \in [ms -> 0 .. N - 1]
    BY <1>6
  <2>2. ASSUME NEW m \in ms, NEW n \in ms, rank[m] = rank[n] PROVE m = n
    <3>1. ~Before(m, n) /\ ~Before(n, m)
      BY <1>7, <2>2
    <3> QED BY <1>2, <1>3, <3>1, BeforeIsOrder
  <2> HIDE DEF rank
  <2> QED BY <2>1, <2>2 DEF Injection, IsInjective
<1>9. \A m, n \in ms : Rank(m, ms) = Rank(n, ms) => m = n
  <2>1. \A m, n \in ms : rank[m] = rank[n] => m = n
    <3> HIDE DEF rank
    <3> QED BY <1>8 DEF Injection, IsInjective
  <2>2. \A m \in ms : rank[m] = Rank(m, ms)
    BY DEF Rank
  <2> HIDE DEF rank
  <2> QED BY <2>1, <2>2
<1>10. rank \in Surjection(ms, 0 .. N - 1)
  <2>1. IsFiniteSet(0 .. N - 1) /\ Cardinality(0 .. N - 1) = N
    <3>1. 0 \in Int /\ N - 1 \in Int
      BY <1>1
    <3>2. /\ IsFiniteSet(0 .. N - 1)
          /\ Cardinality(0 .. N - 1) = IF 0 > N - 1 THEN 0 ELSE N - 1 - 0 + 1
      BY <3>1, FS_Interval
    <3> QED BY <1>1, <3>2
  <2> HIDE DEF rank
  <2> QED BY <1>8, <2>1, FS_Injection
<1>11. \A i \in 1 .. N : \E m \in ms : Cardinality(Ahead(m)) = i - 1
  <2> TAKE i \in 1 .. N
  <2>1. i - 1 \in 0 .. N - 1
    BY <1>1
  <2>2. \A v \in 0 .. N - 1 : \E m \in ms : rank[m] = v
    BY <1>10 DEF Surjection
  <2>3. PICK m \in ms : rank[m] = i - 1
    BY <2>1, <2>2
  <2> QED BY <2>3
<1>12. \A i \in 1 .. N : Ordered(ms)[i] \in ms /\ Cardinality(Ahead(Ordered(ms)[i])) = i - 1
  <2> TAKE i \in 1 .. N
  <2> DEFINE place == CHOOSE m \in ms : Cardinality({n \in ms : Before(n, m)}) = i - 1
  <2>1. Ordered(ms)[i] = place
    BY Zenon DEF Ordered
  <2>2. \E m \in ms : Cardinality({n \in ms : Before(n, m)}) = i - 1
    BY <1>11
  <2>3. place \in ms /\ Cardinality({n \in ms : Before(n, place)}) = i - 1
    BY <2>2, Zenon
  <2> HIDE DEF place
  <2> QED BY <2>1, <2>3
<1>13. Ordered(ms) \in Seq(ms) /\ Len(Ordered(ms)) = N
  <2> DEFINE place(i) == CHOOSE m \in ms : Cardinality({n \in ms : Before(n, m)}) = i - 1
             order == [i \in 1 .. N |-> place(i)]
  <2>1. Ordered(ms) = order
    BY Zenon DEF Ordered
  <2>2. order \in [1 .. N -> ms]
    <3>1. \A i \in 1 .. N : place(i) \in ms
      <4> TAKE i \in 1 .. N
      <4>1. Ordered(ms)[i] = place(i)
        BY Zenon, <2>1
      <4> HIDE DEF place
      <4> QED BY <1>12, <4>1
    <3> HIDE DEF place
    <3> QED BY <3>1
  <2> HIDE DEF order
  <2> HIDE DEF N
  <2> QED BY <1>1, <2>1, <2>2
<1>14. ASSUME ms # {}, NEW n \in ms PROVE Ordered(ms)[1] = n \/ Before(Ordered(ms)[1], n)
  <2>1. N # 0
    BY <1>1, <1>14, FS_EmptySet
  <2>2. 1 \in 1 .. N
    BY <1>1, <2>1
  <2> DEFINE first == Ordered(ms)[1]
  <2>3. first \in ms /\ Cardinality(Ahead(first)) = 0
    BY <1>12, <2>2
  <2>4. Ahead(first) = {}
    BY <1>4, <2>3, FS_EmptySet
  <2>5. ~Before(n, first)
    BY <2>4
  <2> QED BY <1>2, <1>3, <2>3, <2>5, BeforeIsOrder
<1>15. \A m : Rank(m, ms) = Cardinality(Ahead(m))
  BY DEF Rank
<1> HIDE DEF Ahead
<1> QED BY <1>1, <1>12, <1>13, <1>14, <1>9, <1>15

-----------------------------------------------------------------------------
(* What a prompt shows.                                                    *)

LEMMA ItemsShow ==
  ASSUME NEW m
  PROVE  /\ \A i : i \in ToSet(Items(m)) <=> Shows(m, calls, i)
         /\ Items(m) \in Seq(ToSet(Items(m)))
<1> DEFINE main == [what |-> IF m.user THEN "message" ELSE "answer", at |-> m.content]
           result == [what |-> "result", at |-> m.content]
<1>1. CASE HasResult(m, calls)
  <2>1. Items(m) = <<main>> \o <<result>>
    BY <1>1 DEF Items, Answered, HasResult
  <2> HIDE DEF main, result
  <2> DEFINE its == Items(m)
             S == {main, result}
  <2>2. its \in Seq(S) /\ Len(its) = 2 /\ its[1] = main /\ its[2] = result
    <3>1. <<main>> \in Seq(S) /\ <<result>> \in Seq(S)
      OBVIOUS
    <3>2. Len(<<main>>) = 1 /\ Len(<<result>>) = 1
      OBVIOUS
    <3>3. <<main>>[1] = main /\ <<result>>[1] = result
      OBVIOUS
    <3> DEFINE s == <<main>>
               t == <<result>>
    <3> HIDE DEF s, t, S
    <3>4. /\ s \o t \in Seq(S) /\ Len(s \o t) = 2
          /\ \A i \in 1 .. 2 : (s \o t)[i] = IF i <= 1 THEN s[i] ELSE t[i - 1]
      BY <3>1, <3>2, ConcatProperties DEF s, t
    <3>5. its = s \o t
      BY <2>1 DEF s, t
    <3>6. (s \o t)[1] = main /\ (s \o t)[2] = result
      BY <3>3, <3>4 DEF s, t
    <3> QED BY <3>4, <3>5, <3>6
  <2>3. ToSet(its) = S /\ its \in Seq(ToSet(its))
    <3> HIDE DEF its
    <3>1. DOMAIN its = 1 .. 2
      BY <2>2
    <3>2. ToSet(its) = {its[1], its[2]}
      BY <3>1 DEF ToSet
    <3> QED BY <2>2, <3>2
  <2> QED BY <1>1, <2>3 DEF Shows, Main, Result, main, result
<1>2. CASE ~HasResult(m, calls)
  <2>1. Items(m) = <<main>> \o <<>>
    BY <1>2 DEF Items, Answered, HasResult
  <2> HIDE DEF main
  <2>2. Items(m) = <<main>>
    <3>1. <<main>> \in Seq({main})
      OBVIOUS
    <3> QED BY <2>1, <3>1, ConcatEmptySeq
  <2>3. ToSet(Items(m)) = {main} /\ Items(m) \in Seq({main})
    BY <2>2 DEF ToSet
  <2> QED BY <1>2, <2>3 DEF Shows, Main, main
<1> QED BY <1>1, <1>2

LEMMA ItemSetShows ==
  ASSUME NEW ms, NEW i
  PROVE  i \in ItemSet(ms) <=> \E m \in ms : Shows(m, calls, i)
BY ItemsShow DEF ItemSet

ItemStep(order, f, i) == IF i = 0 THEN <<>> ELSE f[i - 1] \o Items(order[i])

LEMMA PromptUnfolds ==
  ASSUME NEW ms, NEW n \in Nat, Len(Ordered(ms)) = n
  PROVE  \E f : f = [i \in 0 .. n |-> ItemStep(Ordered(ms), f, i)] /\ Prompt(ms) = f[n]
<1> DEFINE order == Ordered(ms)
           Runs(f, k) == f = [i \in 0 .. k |-> ItemStep(order, f, i)]
           Good == {k \in 0 .. n : \E f : Runs(f, k)}
<1>1. 0 \in Good
  <2> DEFINE first == [i \in 0 .. 0 |-> <<>>]
  <2>1. Runs(first, 0)
    BY DEF ItemStep
  <2> HIDE DEF first, Runs
  <2>2. \E f : Runs(f, 0)
    BY <2>1
  <2> QED BY <2>2
<1>2. ASSUME NEW i \in 1 .. n, i - 1 \in Good PROVE i \in Good
  <2>1. PICK f : Runs(f, i - 1)
    BY <1>2
  <2> DEFINE next == ItemStep(order, f, i)
             g == [j \in 0 .. i |-> IF j < i THEN f[j] ELSE next]
  <2> HIDE DEF order
  <2>2. \A j \in 0 .. i : g[j] = ItemStep(order, g, j)
    <3> HIDE DEF next
    <3> TAKE j \in 0 .. i
    <3>1. CASE j = 0
      <4>1. g[j] = f[j] /\ f[j] = ItemStep(order, f, j)
        BY <2>1, <3>1
      <4> QED BY <3>1, <4>1 DEF ItemStep
    <3>2. CASE j \in 1 .. i - 1
      <4>1. g[j] = f[j] /\ g[j - 1] = f[j - 1]
        BY <3>2
      <4>2. f[j] = ItemStep(order, f, j)
        BY <2>1, <3>2
      <4> HIDE DEF g
      <4> QED BY <3>2, <4>1, <4>2 DEF ItemStep
    <3>3. CASE j = i
      <4>1. g[i] = next /\ g[i - 1] = f[i - 1]
        OBVIOUS
      <4> HIDE DEF g
      <4> QED BY <3>3, <4>1 DEF ItemStep, next
    <3> QED BY <3>1, <3>2, <3>3
  <2>3. Runs(g, i)
    <3> HIDE DEF next
    <3> QED BY <2>2
  <2> HIDE DEF g, Runs
  <2>4. \E h : Runs(h, i)
    BY <2>3
  <2> QED BY <2>4
<1>3. Good = 0 .. n
  <2> HIDE DEF Good
  <2>1. Good \in SUBSET (0 .. n)
    BY DEF Good
  <2> QED BY <1>1, <1>2, <2>1, ByFirstCounterexample
<1>4. \E f : Runs(f, n)
  BY <1>3
<1> DEFINE items == CHOOSE f : f = [i \in 0 .. Len(order) |-> ItemStep(order, f, i)]
<1>5. items = [i \in 0 .. Len(order) |-> ItemStep(order, items, i)]
  BY <1>4
<1>6. Prompt(ms) = items[Len(order)]
  BY DEF Prompt, ItemStep
<1> HIDE DEF items
<1> QED BY <1>5, <1>6

LEMMA PromptShows ==
  ASSUME NEW ms, NEW h \in Nat, Recorded(ms, h)
  PROVE  /\ \A i \in ToSet(Prompt(ms)) : \E m \in ms : Shows(m, calls, i)
         /\ Prompt(ms) \in Seq(ItemSet(ms))
<1> DEFINE n == Cardinality(ms)
           S == ItemSet(ms)
<1>1. n \in Nat /\ Len(Ordered(ms)) = n /\ \A i \in 1 .. n : Ordered(ms)[i] \in ms
  BY OrderedHolds
<1>2. PICK f : f = [i \in 0 .. n |-> ItemStep(Ordered(ms), f, i)] /\ Prompt(ms) = f[n]
  <2> HIDE DEF n
  <2> QED BY <1>1, PromptUnfolds
<1> HIDE DEF n
<1> DEFINE Good == {k \in 0 .. n : f[k] \in Seq(S)}
<1>3. 0 \in Good
  <2>1. f[0] = <<>>
    BY <1>1, <1>2 DEF ItemStep
  <2> HIDE DEF S
  <2>2. f[0] \in Seq(S)
    BY <2>1, EmptySeq
  <2> QED BY <1>1, <2>2
<1>4. ASSUME NEW k \in 1 .. n, k - 1 \in Good PROVE k \in Good
  <2>1. f[k] = f[k - 1] \o Items(Ordered(ms)[k])
    BY <1>1, <1>2 DEF ItemStep
  <2>2. Items(Ordered(ms)[k]) \in Seq(S)
    <3>1. Ordered(ms)[k] \in ms
      BY <1>1
    <3>2. ToSet(Items(Ordered(ms)[k])) \subseteq S
      BY <3>1 DEF ItemSet
    <3>3. Items(Ordered(ms)[k]) \in Seq(ToSet(Items(Ordered(ms)[k])))
      BY ItemsShow
    <3> DEFINE its == Items(Ordered(ms)[k])
               T == ToSet(its)
    <3> HIDE DEF its, T, S
    <3>4. its \in Seq(T) /\ T \subseteq S
      BY <3>2, <3>3 DEF its, T
    <3>5. its \in Seq(S)
      BY <3>4
    <3> QED BY <3>5 DEF its
  <2>3. f[k - 1] \in Seq(S)
    BY <1>4
  <2> HIDE DEF S
  <2>4. f[k] \in Seq(S)
    BY <2>1, <2>2, <2>3, ConcatProperties
  <2> QED BY <2>4
<1>5. Good = 0 .. n
  <2> HIDE DEF Good
  <2>1. Good \in SUBSET (0 .. n)
    BY DEF Good
  <2> QED BY <1>1, <1>3, <1>4, <2>1, ByFirstCounterexample
<1>6. Prompt(ms) \in Seq(S)
  BY <1>1, <1>2, <1>5
<1>7. ToSet(Prompt(ms)) \subseteq S
  <2> HIDE DEF S
  <2> QED BY <1>6 DEF ToSet
<1> QED BY <1>6, <1>7, ItemSetShows

-----------------------------------------------------------------------------
(* What is remembered stays so.                                            *)

\* In the place of m, n shows whatever m did.
Carries(m, n, retained, cs1, cs2) ==
  /\ Visible(n, retained) /\ Main(n) = Main(m) /\ Result(n) = Result(m)
  /\ HasResult(m, cs1) => HasResult(n, cs2)

LEMMA StaysRemembered ==
  ASSUME NEW items, NEW summary, NEW ms1, NEW ms2, NEW retained, NEW cs1, NEW cs2, NEW exact,
         \A m \in ms1 : Visible(m, retained) => \E n \in ms2 : Carries(m, n, retained, cs1, cs2),
         Remembered(items, summary, ms1, retained, cs1, exact)
  PROVE  Remembered(items, summary, ms2, retained, cs2, exact)
<1> SUFFICES ASSUME NEW i \in items, i.what # "message" \/ exact
             PROVE  Holds(i, summary, ms2, retained, cs2)
  BY DEF Remembered
<1>1. Holds(i, summary, ms1, retained, cs1)
  BY DEF Remembered
<1>2. ASSUME NEW m \in ms1, Visible(m, retained), Shows(m, cs1, i)
      PROVE  \E n \in ms2 : Visible(n, retained) /\ Shows(n, cs2, i)
  <2>1. PICK n \in ms2 : Carries(m, n, retained, cs1, cs2)
    BY <1>2
  <2> QED BY <1>2, <2>1 DEF Carries, Shows
<1> QED BY <1>1, <1>2 DEF Holds

LEMMA ShownIsRemembered ==
  ASSUME NEW items, NEW more, NEW summary, NEW ms, NEW retained, NEW cs, NEW exact,
         Remembered(items, summary, ms, retained, cs, exact),
         \A i \in more : \E m \in ms : Visible(m, retained) /\ Shows(m, cs, i)
  PROVE  Remembered(items \cup more, summary, ms, retained, cs, exact)
BY DEF Remembered, Holds

LEMMA SameCarries ==
  ASSUME NEW m, NEW retained, NEW cs, Visible(m, retained)
  PROVE  Carries(m, m, retained, cs, cs)
BY DEF Carries

LEMMA MessageStays ==
  ASSUME NEW m, NEW h \in Nat, NEW k \in Nat, IsMessage(m, h), h <= k
  PROVE  IsMessage(m, k)
<1>1. m.seq \in 1 .. k /\ m.consumed \in 0 .. k
  BY DEF IsMessage
<1> QED BY <1>1 DEF IsMessage

LEMMA RecordedStays ==
  ASSUME NEW ms, NEW h \in Nat, NEW k \in Nat, Recorded(ms, h), h <= k
  PROVE  Recorded(ms, k)
BY MessageStays DEF Recorded

\* A message that joins the others.
LEMMA RecordedGrows ==
  ASSUME NEW ms, NEW h \in Nat, NEW k \in Nat, NEW m, Recorded(ms, h), h < m.seq,
         IsMessage(m, k), h <= k
  PROVE  Recorded(ms \cup {m}, k)
<1>1. Recorded(ms, k)
  BY RecordedStays
<1>2. \A n \in ms : n.seq # m.seq
  BY DEF Recorded, IsMessage
<1> QED BY <1>1, <1>2 DEF Recorded

LEMMA MessageFields ==
  ASSUME NEW m, NEW seq, NEW content, NEW user, NEW disposition, NEW consumed, NEW calling, NEW x,
         m = [seq |-> seq, content |-> content, user |-> user, disposition |-> disposition,
              consumed |-> consumed, calls |-> calling]
  PROVE  /\ [m EXCEPT !.consumed = x]
              = [seq |-> seq, content |-> content, user |-> user, disposition |-> disposition,
                 consumed |-> x, calls |-> calling]
         /\ [m EXCEPT !.disposition = x]
              = [seq |-> seq, content |-> content, user |-> user, disposition |-> x,
                 consumed |-> consumed, calls |-> calling]
OBVIOUS

LEMMA ConsumedShows ==
  ASSUME NEW m, NEW h \in Nat, NEW at \in Nat, IsMessage(m, h), m.user, h < at
  PROVE  /\ IsMessage([m EXCEPT !.consumed = at], at)
         /\ [m EXCEPT !.consumed = at].seq = m.seq
         /\ [m EXCEPT !.consumed = at].calls = m.calls
         /\ \A retained \in Nat : \A cs :
              Visible(m, retained) => Carries(m, [m EXCEPT !.consumed = at], retained, cs, cs)
<1> DEFINE n == [m EXCEPT !.consumed = at]
<1>1. n = [seq |-> m.seq, content |-> m.content, user |-> m.user,
           disposition |-> m.disposition, consumed |-> at, calls |-> m.calls]
  <2>1. m = [seq |-> m.seq, content |-> m.content, user |-> m.user, disposition |-> m.disposition,
             consumed |-> m.consumed, calls |-> m.calls]
    BY DEF IsMessage
  <2> QED BY ONLY <2>1, MessageFields
<1> HIDE DEF n
<1>2. /\ n.seq = m.seq /\ n.content = m.content /\ (n.user <=> m.user)
      /\ n.disposition = m.disposition /\ n.consumed = at /\ n.calls = m.calls
  BY <1>1
<1>3. n = [seq |-> n.seq, content |-> n.content, user |-> n.user,
           disposition |-> n.disposition, consumed |-> n.consumed, calls |-> n.calls]
  BY <1>1
<1>4. n.user = m.user
  BY <1>1
<1>5. m.seq \in 1 .. at /\ at \in 0 .. at /\ m.seq <= at
  BY DEF IsMessage
<1>6. IsMessage(n, at)
  BY <1>2, <1>3, <1>4, <1>5 DEF IsMessage
<1>7. ASSUME NEW retained \in Nat, NEW cs, Visible(m, retained) PROVE Carries(m, n, retained, cs, cs)
  <2>1. TranscriptSeq(n) = at
    BY <1>2 DEF TranscriptSeq
  <2>2. TranscriptSeq(m) \in 1 .. h /\ TranscriptSeq(m) >= retained
    BY <1>7, MessageIsPlaced DEF Visible
  <2>3. Visible(n, retained)
    BY <1>2, <2>1, <2>2 DEF Visible
  <2>4. Main(n) = Main(m) /\ Result(n) = Result(m) /\ (HasResult(m, cs) => HasResult(n, cs))
    BY <1>2, <1>4 DEF Main, Result, HasResult
  <2> QED BY <2>3, <2>4 DEF Carries
<1> QED BY <1>2, <1>6, <1>7 DEF n

LEMMA DisposedIsMessage ==
  ASSUME NEW m, NEW h \in Nat, IsMessage(m, h), m.user, NEW d \in Dispositions
  PROVE  /\ IsMessage([m EXCEPT !.disposition = d], h)
         /\ [m EXCEPT !.disposition = d].seq = m.seq
         /\ [m EXCEPT !.disposition = d].calls = m.calls
<1> DEFINE n == [m EXCEPT !.disposition = d]
<1>1. n = [seq |-> m.seq, content |-> m.content, user |-> m.user,
           disposition |-> d, consumed |-> m.consumed, calls |-> m.calls]
  <2>1. m = [seq |-> m.seq, content |-> m.content, user |-> m.user, disposition |-> m.disposition,
             consumed |-> m.consumed, calls |-> m.calls]
    BY DEF IsMessage
  <2> QED BY ONLY <2>1, MessageFields
<1> HIDE DEF n
<1>2. /\ n.seq = m.seq /\ n.content = m.content /\ n.user = m.user
      /\ n.disposition = d /\ n.consumed = m.consumed /\ n.calls = m.calls
  BY <1>1
<1>3. n = [seq |-> n.seq, content |-> n.content, user |-> n.user,
           disposition |-> n.disposition, consumed |-> n.consumed, calls |-> n.calls]
  BY <1>1
<1>4. IsMessage(n, h)
  BY <1>2, <1>3 DEF IsMessage
<1> QED BY <1>2, <1>4 DEF n

-----------------------------------------------------------------------------
(* Tool calls.                                                             *)

Ended(c, at) == IF c.terminal = 0 THEN [c EXCEPT !.terminal = at] ELSE c
EndedAt(cs, at) == {Ended(c, at) : c \in cs}

LEMMA EndedIsCall ==
  ASSUME NEW c, NEW h \in Nat, IsCall(c, h), NEW k \in Nat, NEW at \in h + 1 .. k
  PROVE  IsCall(Ended(c, at), k) /\ Ended(c, at).of = c.of /\ Ended(c, at).terminal > 0
<1>1. CASE c.terminal = 0
  <2>1. Ended(c, at) = [of |-> c.of, terminal |-> at]
    BY <1>1 DEF IsCall, Ended
  <2> QED BY <2>1 DEF IsCall
<1>2. CASE c.terminal # 0
  BY <1>2 DEF IsCall, Ended
<1> QED BY <1>1, <1>2

LEMMA EndedCalls ==
  ASSUME NEW cs, NEW h \in Nat, \A c \in cs : IsCall(c, h), NEW k \in Nat, NEW at \in h + 1 .. k
  PROVE  /\ \A c \in EndedAt(cs, at) : IsCall(c, k)
         /\ AllClosed(EndedAt(cs, at))
         /\ \A ms : HasCalls(ms, cs) => HasCalls(ms, EndedAt(cs, at))
         /\ \A m : HasResult(m, cs) => HasResult(m, EndedAt(cs, at))
<1>1. \A c \in cs : /\ IsCall(Ended(c, at), k) /\ Ended(c, at).of = c.of
                    /\ Ended(c, at).terminal > 0 /\ Ended(c, at) \in EndedAt(cs, at)
  BY EndedIsCall DEF EndedAt
<1>2. \A c \in EndedAt(cs, at) : \E d \in cs : c = Ended(d, at)
  BY DEF EndedAt
<1> QED BY <1>1, <1>2 DEF AllClosed, HasCalls, HasResult

LEMMA CallStays ==
  ASSUME NEW c, NEW h \in Nat, NEW k \in Nat, IsCall(c, h), h <= k
  PROVE  IsCall(c, k)
<1>1. c.of \in 1 .. k /\ c.terminal \in 0 .. k
  BY DEF IsCall
<1> QED BY <1>1 DEF IsCall

-----------------------------------------------------------------------------
(* Steps that change no message and tell the model nothing.                *)

CallsGoOn ==
  \/ calls' = calls /\ (loop' \notin {"Running", "Down"} => AllClosed(calls))
  \/ \E at \in head + 1 .. head' : calls' = EndedAt(calls, at)

LEMMA QuietKeeps ==
  ASSUME CompactionInvariant, messages' = messages, context' = context, told' = told,
         head' \in Nat, head <= head', CallsGoOn, loop' \in Places, loop' # "Compacting",
         loop' = "Boundary" => compaction'.next \in {"Idle", "Completed", "Finishing"}
  PROVE  CompactionInvariant'
<1>1. /\ head \in Nat /\ Recorded(messages, head) /\ \A c \in calls : IsCall(c, head)
      /\ HasCalls(messages, calls)
  BY DEF CompactionInvariant, Typed, CallsKept
<1>2. /\ \A c \in calls' : IsCall(c, head')
      /\ HasCalls(messages, calls')
      /\ loop' \notin {"Running", "Down"} => AllClosed(calls')
      /\ \A m : HasResult(m, calls) => HasResult(m, calls')
  <2>1. CASE calls' = calls /\ (loop' \notin {"Running", "Down"} => AllClosed(calls))
    BY <1>1, <2>1, CallStays
  <2>2. CASE \E at \in head + 1 .. head' : calls' = EndedAt(calls, at)
    <3>1. PICK at \in head + 1 .. head' : calls' = EndedAt(calls, at)
      BY <2>2
    <3> QED BY <1>1, <3>1, EndedCalls
  <2> QED BY <2>1, <2>2 DEF CallsGoOn
<1>3. Recorded(messages, head')
  BY <1>1, RecordedStays
<1>4. Typed'
  <2>1. context.retained \in 0 .. head /\ context.exact \in BOOLEAN
    BY DEF CompactionInvariant, Typed
  <2>2. context'.retained \in 0 .. head' /\ context'.exact \in BOOLEAN
    BY <1>1, <2>1
  <2> QED BY <1>2, <1>3, <2>2 DEF Typed
<1>5. CallsKept'
  BY <1>2 DEF CallsKept
<1>6. ToldHeld'
  <2>1. Remembered(told, context.summary, messages, context.retained, calls, context.exact)
    BY DEF CompactionInvariant, ToldHeld
  <2>2. \A m \in messages : Visible(m, context.retained) =>
          \E n \in messages : Carries(m, n, context.retained, calls, calls')
    BY <1>2 DEF Carries
  <2>3. Remembered(told, context.summary, messages, context.retained, calls', context.exact)
    BY <2>1, <2>2, StaysRemembered
  <2> QED BY <2>3 DEF ToldHeld
<1>7. CutHeld'
  BY DEF CutHeld
<1> QED BY <1>4, <1>5, <1>6, <1>7 DEF CompactionInvariant

\* What a typed invariant says, one fact at a time.
LEMMA InvariantFacts ==
  ASSUME CompactionInvariant
  PROVE  /\ head \in Nat /\ Recorded(messages, head)
         /\ \A m \in messages : IsMessage(m, head)
         /\ \A c \in calls : IsCall(c, head)
         /\ context.retained \in 0 .. head /\ context.exact \in BOOLEAN
         /\ loop \in Places /\ HasCalls(messages, calls)
         /\ loop \notin {"Running", "Down"} => AllClosed(calls)
         /\ loop \in {"Boundary", "Compacting"} =>
              compaction.next \in {"Idle", "Completed", "Finishing"}
         /\ Remembered(told, context.summary, messages, context.retained, calls, context.exact)
BY DEF CompactionInvariant, Typed, CallsKept, ToldHeld, Recorded

LEMMA NextIsPlaced ==
  ASSUME NEW next PROVE [NotCompacting EXCEPT !.next = next].next = next
BY DEF NotCompacting

LEMMA OpenIsNotClosed ==
  ASSUME CompactionInvariant, Open = {}
  PROVE  AllClosed(calls)
<1>1. \A c \in calls : c.terminal \in Nat
  BY DEF CompactionInvariant, Typed, IsCall
<1> QED BY <1>1 DEF Open, AllClosed

LEMMA QuietStepKeeps ==
  ASSUME CompactionInvariant,
         \/ Decline \/ FailCompaction \/ ToolEnds \/ TurnCompletes \/ TurnFails
         \/ Steer \/ CompleteTurns \/ CompleteRun \/ Crash \/ Recover
  PROVE  CompactionInvariant'
<1>1. /\ head \in Nat /\ loop \in Places
      /\ loop \notin {"Running", "Down"} => AllClosed(calls)
      /\ loop \in {"Boundary", "Compacting"} =>
           compaction.next \in {"Idle", "Completed", "Finishing"}
  BY InvariantFacts
<1>2. ASSUME NEW at, calls' = Closed(at) PROVE calls' = EndedAt(calls, at)
  BY <1>2 DEF Closed, EndedAt, Ended
<1>3. CASE Decline
  BY <1>1, <1>3, QuietKeeps DEF Decline, session, CallsGoOn, Places
<1>4. CASE FailCompaction
  BY <1>1, <1>4, QuietKeeps DEF FailCompaction, session, CallsGoOn, Places
<1>5. CASE ToolEnds
  <2>1. calls' = EndedAt(calls, head + 1)
    BY <1>2, <1>5 DEF ToolEnds
  <2>2. CallsGoOn
    BY <1>1, <1>5, <2>1 DEF ToolEnds, CallsGoOn
  <2> QED BY <1>1, <1>5, <2>2, QuietKeeps DEF ToolEnds, session, Places
<1>6. CASE TurnCompletes
  <2>1. AllClosed(calls)
    BY <1>6, OpenIsNotClosed DEF TurnCompletes
  <2> QED BY <1>1, <1>6, <2>1, QuietKeeps DEF TurnCompletes, session, CallsGoOn, Places
<1>7. CASE TurnFails
  <2>1. calls' = EndedAt(calls, head + 1)
    BY <1>2, <1>7 DEF TurnFails
  <2>2. CallsGoOn
    BY <1>1, <1>7, <2>1 DEF TurnFails, CallsGoOn
  <2> QED BY <1>1, <1>7, <2>2, QuietKeeps, NextIsPlaced DEF TurnFails, AtBoundary, Places
<1>8. CASE Steer
  <2>1. /\ messages' = messages /\ context' = context /\ told' = told /\ calls' = calls
        /\ head' = head + 2 /\ loop \in {"Running", "Completed"}
    BY <1>8 DEF Steer
  <2>2. \/ loop = "Running" /\ loop' = loop
        \/ loop = "Completed" /\ loop' = "Boundary" /\ compaction'.next = "Completed"
    BY <1>8, <2>1, NextIsPlaced DEF Steer, AtBoundary
  <2>3. CallsGoOn
    BY <1>1, <2>1, <2>2 DEF CallsGoOn
  <2> QED BY <1>1, <2>1, <2>2, <2>3, QuietKeeps DEF Places
<1>9. CASE CompleteTurns
  <2>1. CallsGoOn
    BY <1>1, <1>9 DEF CompleteTurns, AtBoundary, CallsGoOn
  <2> QED BY <1>1, <1>9, <2>1, QuietKeeps, NextIsPlaced
          DEF CompleteTurns, AtBoundary, session, Places
<1>10. CASE CompleteRun
  BY <1>1, <1>10, QuietKeeps DEF CompleteRun, CallsGoOn, Places
<1>11. CASE Crash
  BY <1>1, <1>11, QuietKeeps DEF Crash, session, CallsGoOn, Places
<1>12. CASE Recover
  <2>1. calls' = EndedAt(calls, head + 1)
    BY <1>2, <1>12 DEF Recover
  <2>2. CallsGoOn
    BY <1>1, <1>12, <2>1 DEF Recover, CallsGoOn
  <2>3. loop' \in {"Resuming", "Idle"}
    BY <1>12 DEF Recover
  <2> QED BY <1>1, <1>12, <2>2, <2>3, QuietKeeps DEF Recover, session, Places
<1> QED BY <1>3, <1>4, <1>5, <1>6, <1>7, <1>8, <1>9, <1>10, <1>11, <1>12

-----------------------------------------------------------------------------
(* Admissions, and the user's controls: what is pending is not in a prompt. *)

LEMMA SubmitKeeps ==
  ASSUME CompactionInvariant, NEW d \in {"queue", "steer"}, Submit(d)
  PROVE  CompactionInvariant'
<1> DEFINE new == Submitted(head + 1, d)
<1>1. /\ head' = head + 1 /\ messages' = messages \cup {new} /\ calls' = calls
      /\ context' = context /\ compaction' = compaction /\ loop' = loop /\ told' = told
  BY DEF Submit
<1>2. /\ head \in Nat /\ Recorded(messages, head) /\ \A c \in calls : IsCall(c, head)
      /\ context.retained \in 0 .. head /\ context.exact \in BOOLEAN
      /\ loop \in Places /\ HasCalls(messages, calls)
      /\ loop \notin {"Running", "Down"} => AllClosed(calls)
      /\ loop \in {"Boundary", "Compacting"} =>
           compaction.next \in {"Idle", "Completed", "Finishing"}
      /\ Remembered(told, context.summary, messages, context.retained, calls, context.exact)
  BY InvariantFacts
<1>3. IsMessage(new, head + 1) /\ new.seq = head + 1 /\ ~new.calls
  BY <1>2 DEF IsMessage, Submitted, Dispositions
<1> HIDE DEF new
<1>4. Recorded(messages', head')
  BY <1>1, <1>2, <1>3, RecordedGrows
<1>5. \A c \in calls' : IsCall(c, head')
  BY <1>1, <1>2, CallStays
<1>6. Typed'
  BY <1>1, <1>2, <1>4, <1>5 DEF Typed
<1>7. CallsKept'
  BY <1>1, <1>2, <1>3 DEF CallsKept, HasCalls
<1>8. \A m \in messages : \A retained :
        Visible(m, retained) => \E n \in messages' : Carries(m, n, retained, calls, calls)
  BY <1>1, SameCarries
<1>9. ToldHeld'
  <2>1. \A m \in messages : Visible(m, context.retained) =>
          \E n \in messages' : Carries(m, n, context.retained, calls, calls)
    BY <1>8
  <2> DEFINE after == messages'
  <2> HIDE DEF after
  <2>2. \A m \in messages : Visible(m, context.retained) =>
          \E n \in after : Carries(m, n, context.retained, calls, calls)
    BY <2>1 DEF after
  <2>3. Remembered(told, context.summary, after, context.retained, calls, context.exact)
    BY <1>2, <2>2, StaysRemembered
  <2> QED BY <1>1, <2>3 DEF ToldHeld, after
<1>10. CutHeld'
  <2> SUFFICES ASSUME loop = "Compacting"
               PROVE  /\ compaction.retained \in 0 .. head + 1 /\ compaction.exact \in BOOLEAN
                      /\ Remembered(told, compaction.items, From(messages', compaction.retained),
                           compaction.retained, calls, context.exact /\ compaction.exact)
    BY <1>1 DEF CutHeld
  <2> DEFINE cut == compaction.retained
             before == From(messages, cut)
             after == From(messages', cut)
  <2>1. /\ cut \in 0 .. head /\ compaction.exact \in BOOLEAN
        /\ Remembered(told, compaction.items, before, cut, calls, context.exact /\ compaction.exact)
    BY DEF CompactionInvariant, CutHeld
  <2>2. before \subseteq after
    BY <1>1 DEF From
  <2> HIDE DEF before, after
  <2>3. \A m \in before : Visible(m, cut) => \E n \in after : Carries(m, n, cut, calls, calls)
    BY <2>2, SameCarries
  <2>4. Remembered(told, compaction.items, after, cut, calls, context.exact /\ compaction.exact)
    BY <2>1, <2>3, StaysRemembered
  <2> QED BY <1>2, <2>1, <2>4 DEF after
<1> QED BY <1>6, <1>7, <1>9, <1>10 DEF CompactionInvariant

Settled(m) == m.user /\ m.disposition # "none" => m.consumed > 0

LEMMA ControlKeeps ==
  ASSUME CompactionInvariant, context' = context, told' = told,
         head' \in Nat, head <= head', CallsGoOn, loop' \in Places, loop' # "Compacting",
         loop' = "Boundary" => compaction'.next \in {"Idle", "Completed", "Finishing"},
         Recorded(messages', head'), HasCalls(messages', calls),
         \A m \in messages : Settled(m) => m \in messages'
  PROVE  CompactionInvariant'
<1>1. /\ head \in Nat /\ \A c \in calls : IsCall(c, head)
  BY InvariantFacts
<1>2. /\ \A c \in calls' : IsCall(c, head')
      /\ HasCalls(messages', calls')
      /\ loop' \notin {"Running", "Down"} => AllClosed(calls')
      /\ \A m : HasResult(m, calls) => HasResult(m, calls')
  <2>1. CASE calls' = calls /\ (loop' \notin {"Running", "Down"} => AllClosed(calls))
    BY <1>1, <2>1, CallStays
  <2>2. CASE \E at \in head + 1 .. head' : calls' = EndedAt(calls, at)
    <3>1. PICK at \in head + 1 .. head' : calls' = EndedAt(calls, at)
      BY <2>2
    <3> QED BY <1>1, <3>1, EndedCalls
  <2> QED BY <2>1, <2>2 DEF CallsGoOn
<1>3. Typed'
  <2>1. context.retained \in 0 .. head /\ context.exact \in BOOLEAN
    BY InvariantFacts
  <2>2. context'.retained \in 0 .. head' /\ context'.exact \in BOOLEAN
    BY <1>1, <2>1
  <2> QED BY <1>2, <2>2 DEF Typed
<1>4. CallsKept'
  BY <1>2 DEF CallsKept
<1>5. ToldHeld'
  <2>1. Remembered(told, context.summary, messages, context.retained, calls, context.exact)
    BY InvariantFacts
  <2>2. \A m \in messages : Visible(m, context.retained) => m \in messages'
    BY DEF Visible, Settled
  <2>3. \A m \in messages : Visible(m, context.retained) =>
          \E n \in messages' : Carries(m, n, context.retained, calls, calls')
    BY <1>2, <2>2 DEF Carries
  <2>4. Remembered(told, context.summary, messages', context.retained, calls', context.exact)
    BY <2>1, <2>3, StaysRemembered
  <2> QED BY <2>4 DEF ToldHeld
<1>6. CutHeld'
  BY DEF CutHeld
<1> QED BY <1>3, <1>4, <1>5, <1>6 DEF CompactionInvariant

LEMMA PendingIsNotSettled ==
  ASSUME NEW d \in {"queue", "steer", "paused"}, NEW m \in Pending(d)
  PROVE  m \in messages /\ m.user /\ ~Settled(m)
BY DEF Pending, Settled

LEMMA StopKeeps == ASSUME CompactionInvariant, Stop PROVE CompactionInvariant'
<1> DEFINE stopped == Pending("queue") \cup Pending("steer")
           moved(m) == IF m \in stopped THEN [m EXCEPT !.disposition = "paused"] ELSE m
<1>1. /\ messages' = {moved(m) : m \in messages} /\ head' = head + 6
      /\ calls' = Closed(head + 3) /\ context' = context /\ told' = told
      /\ loop' = "Boundary" /\ compaction'.next = "Idle"
  BY NextIsPlaced DEF Stop, AtBoundary
<1>2. head \in Nat /\ Recorded(messages, head) /\ HasCalls(messages, calls)
  BY InvariantFacts
<1>3. CallsGoOn
  <2>1. calls' = EndedAt(calls, head + 3)
    BY <1>1 DEF Closed, EndedAt, Ended
  <2> QED BY <1>1, <1>2, <2>1 DEF CallsGoOn
<1>4. \A m \in stopped : m.user /\ ~Settled(m)
  BY PendingIsNotSettled
<1> HIDE DEF stopped
<1>5. ASSUME NEW m \in messages
      PROVE  IsMessage(moved(m), head') /\ moved(m).seq = m.seq /\ moved(m).calls = m.calls
  <2>1. IsMessage(m, head)
    BY <1>2 DEF Recorded
  <2>2. IsMessage(m, head')
    BY <1>1, <1>2, <2>1, MessageStays
  <2>3. CASE m \in stopped
    <3>1. moved(m) = [m EXCEPT !.disposition = "paused"] /\ m.user
      BY <1>4, <2>3
    <3> HIDE DEF moved
    <3>2. "paused" \in Dispositions /\ head + 6 \in Nat /\ IsMessage(m, head + 6)
      BY <1>1, <1>2, <2>2 DEF Dispositions
    <3>3. /\ IsMessage([m EXCEPT !.disposition = "paused"], head + 6)
          /\ [m EXCEPT !.disposition = "paused"].seq = m.seq
          /\ [m EXCEPT !.disposition = "paused"].calls = m.calls
      BY <3>1, <3>2, DisposedIsMessage
    <3> QED BY <1>1, <3>1, <3>3
  <2> QED BY <2>2, <2>3
<1>6. \A m \in messages : Settled(m) => moved(m) = m
  BY <1>4
<1> HIDE DEF moved
<1>7. Recorded(messages', head')
  BY <1>1, <1>2, <1>5 DEF Recorded
<1>8. HasCalls(messages', calls)
  BY <1>1, <1>2, <1>5 DEF HasCalls
<1>9. \A m \in messages : Settled(m) => m \in messages'
  BY <1>1, <1>6
<1> QED BY <1>1, <1>2, <1>3, <1>7, <1>8, <1>9, ControlKeeps DEF Places

LEMMA PromoteKeeps == ASSUME CompactionInvariant, Promote PROVE CompactionInvariant'
<1>1. PICK m \in Pending("queue") \cup Pending("paused") :
        messages' = (messages \ {m}) \cup {[m EXCEPT !.disposition = "steer"]}
  BY DEF Promote
<1>2. /\ head' = head + 3 /\ calls' = calls /\ context' = context /\ told' = told
      /\ loop' = loop /\ loop \in {"Idle", "Running", "Completed"}
  BY DEF Promote, session
<1>3. /\ head \in Nat /\ Recorded(messages, head) /\ HasCalls(messages, calls)
      /\ loop \notin {"Running", "Down"} => AllClosed(calls)
  BY InvariantFacts
<1>4. m \in messages /\ m.user /\ ~Settled(m)
  BY PendingIsNotSettled
<1> DEFINE n == [m EXCEPT !.disposition = "steer"]
<1>5. IsMessage(n, head) /\ n.seq = m.seq /\ n.calls = m.calls
  BY <1>3, <1>4, DisposedIsMessage DEF Recorded, Dispositions
<1> HIDE DEF n
<1>6. messages' = (messages \ {m}) \cup {n}
  BY <1>1 DEF n
<1>7. Recorded(messages', head)
  <2>1. \A k \in messages : k.seq = n.seq => k = m
    BY <1>3, <1>4, <1>5 DEF Recorded
  <2> QED BY <1>3, <1>5, <1>6, <2>1 DEF Recorded
<1>8. Recorded(messages', head')
  <2> DEFINE after == messages'
  <2> HIDE DEF after
  <2>1. Recorded(after, head + 3)
    BY <1>3, <1>7, RecordedStays DEF after
  <2> QED BY <1>2, <2>1 DEF after
<1>9. HasCalls(messages', calls)
  BY <1>3, <1>4, <1>5, <1>6 DEF HasCalls
<1>10. \A k \in messages : Settled(k) => k \in messages'
  BY <1>4, <1>6
<1>11. CallsGoOn
  BY <1>2, <1>3 DEF CallsGoOn
<1> QED BY <1>2, <1>3, <1>8, <1>9, <1>10, <1>11, ControlKeeps DEF Places

LEMMA CancelKeeps == ASSUME CompactionInvariant, Cancel PROVE CompactionInvariant'
<1>1. PICK m \in Pending("queue") \cup Pending("steer") \cup Pending("paused") :
        messages' = messages \ {m}
  BY DEF Cancel
<1>2. /\ head' = head + 3 /\ calls' = calls /\ context' = context /\ told' = told
      /\ loop' = loop /\ loop \in {"Idle", "Running", "Completed"}
  BY DEF Cancel
<1>3. /\ head \in Nat /\ Recorded(messages, head) /\ HasCalls(messages, calls)
      /\ loop \notin {"Running", "Down"} => AllClosed(calls)
  BY InvariantFacts
<1>4. ~Settled(m)
  BY PendingIsNotSettled
<1>5. Recorded(messages', head')
  <2>1. Recorded(messages, head + 3)
    BY <1>3, RecordedStays
  <2> QED BY <1>1, <1>2, <2>1 DEF Recorded
<1>6. HasCalls(messages', calls)
  BY <1>1, <1>3 DEF HasCalls
<1>7. CallsGoOn
  BY <1>2, <1>3 DEF CallsGoOn
<1> QED BY <1>1, <1>2, <1>3, <1>4, <1>5, <1>6, <1>7, ControlKeeps DEF Places

-----------------------------------------------------------------------------
(* Turns: what is sent is in the context; what is answered joins it.       *)

LEMMA RespondKeeps == ASSUME CompactionInvariant, Respond PROVE CompactionInvariant'
<1>1. PICK tools \in BOOLEAN :
        /\ messages' = messages \cup {Response(head + 1, tools)}
        /\ calls' = IF tools THEN calls \cup {[of |-> head + 1, terminal |-> 0]} ELSE calls
  BY DEF Respond
<1>2. /\ loop = "Running" /\ head' = head + 1 /\ context' = context /\ compaction' = compaction
      /\ loop' = loop /\ told' = told \cup {[what |-> "answer", at |-> head + 1]}
  BY DEF Respond
<1>3. /\ head \in Nat /\ Recorded(messages, head) /\ \A c \in calls : IsCall(c, head)
      /\ context.retained \in 0 .. head /\ context.exact \in BOOLEAN
      /\ loop \in Places /\ HasCalls(messages, calls)
      /\ Remembered(told, context.summary, messages, context.retained, calls, context.exact)
  BY InvariantFacts
<1> DEFINE new == Response(head + 1, tools)
           call == [of |-> head + 1, terminal |-> 0]
<1>4. /\ IsMessage(new, head + 1) /\ new.seq = head + 1 /\ (new.calls <=> tools)
      /\ Visible(new, context.retained) /\ Main(new) = [what |-> "answer", at |-> head + 1]
  BY <1>3 DEF IsMessage, Response, Dispositions, Visible, TranscriptSeq, Main
<1>5. IsCall(call, head + 1) /\ call.of = head + 1
  BY <1>3 DEF IsCall
<1>6. messages' = messages \cup {new} /\ calls \subseteq calls'
      /\ (tools => call \in calls') /\ \A c \in calls' : c \in calls \/ c = call
  BY <1>1
<1> HIDE DEF new, call
<1>7. Recorded(messages', head')
  BY <1>2, <1>3, <1>4, <1>6, RecordedGrows
<1>8. \A c \in calls' : IsCall(c, head')
  BY <1>2, <1>3, <1>5, <1>6, CallStays
<1>9. Typed'
  BY <1>2, <1>3, <1>7, <1>8 DEF Typed
<1>10. CallsKept'
  BY <1>2, <1>3, <1>4, <1>5, <1>6 DEF CallsKept, HasCalls
<1>11. ToldHeld'
  <2> DEFINE after == messages'
             closer == calls'
             answer == [what |-> "answer", at |-> head + 1]
  <2>1. \A m \in messages : Visible(m, context.retained) =>
          \E n \in messages' : Carries(m, n, context.retained, calls, calls')
    BY <1>6 DEF Carries, HasResult
  <2>2. \A i \in {answer} : \E m \in messages' : Visible(m, context.retained) /\ Shows(m, calls', i)
    BY <1>4, <1>6 DEF Shows
  <2> HIDE DEF after, closer, answer
  <2>3. /\ \A m \in messages : Visible(m, context.retained) =>
             \E n \in after : Carries(m, n, context.retained, calls, closer)
        /\ \A i \in {answer} : \E m \in after : Visible(m, context.retained) /\ Shows(m, closer, i)
    BY <2>1, <2>2 DEF after, closer
  <2>4. Remembered(told, context.summary, after, context.retained, closer, context.exact)
    BY <1>3, <2>3, StaysRemembered
  <2>5. Remembered(told \cup {answer}, context.summary, after, context.retained, closer,
                   context.exact)
    BY <2>3, <2>4, ShownIsRemembered
  <2> QED BY <1>2, <2>5 DEF ToldHeld, after, closer, answer
<1>12. CutHeld'
  BY <1>2 DEF CutHeld
<1> QED BY <1>9, <1>10, <1>11, <1>12 DEF CompactionInvariant

\* The messages once those of a turn are consumed.
Folded(ms, inputs, at) == {IF m \in inputs THEN [m EXCEPT !.consumed = at] ELSE m : m \in ms}

LEMMA FoldedCarries ==
  ASSUME NEW ms, NEW h \in Nat, Recorded(ms, h), NEW inputs, \A m \in inputs : m.user,
         NEW at \in Nat, h < at, NEW cs, HasCalls(ms, cs), NEW retained \in Nat
  PROVE  /\ Recorded(Folded(ms, inputs, at), at)
         /\ HasCalls(Folded(ms, inputs, at), cs)
         /\ \A m \in ms : Visible(m, retained) =>
              \E n \in Folded(ms, inputs, at) : Carries(m, n, retained, cs, cs)
<1> DEFINE after(m) == IF m \in inputs THEN [m EXCEPT !.consumed = at] ELSE m
<1>1. ASSUME NEW m \in ms
      PROVE  /\ IsMessage(after(m), at) /\ after(m).seq = m.seq /\ after(m).calls = m.calls
             /\ Visible(m, retained) => Carries(m, after(m), retained, cs, cs)
  <2>1. IsMessage(m, h)
    BY DEF Recorded
  <2>2. CASE m \in inputs
    <3>1. after(m) = [m EXCEPT !.consumed = at] /\ m.user
      BY <2>2
    <3> HIDE DEF after
    <3>2. /\ IsMessage([m EXCEPT !.consumed = at], at)
          /\ [m EXCEPT !.consumed = at].seq = m.seq
          /\ [m EXCEPT !.consumed = at].calls = m.calls
          /\ Visible(m, retained) => Carries(m, [m EXCEPT !.consumed = at], retained, cs, cs)
      BY <2>1, <3>1, ConsumedShows
    <3> QED BY <3>1, <3>2
  <2>3. CASE m \notin inputs
    <3>1. after(m) = m
      BY <2>3
    <3> HIDE DEF after
    <3>2. IsMessage(m, at)
      BY <2>1, MessageStays
    <3> QED BY <3>1, <3>2, SameCarries
  <2> QED BY <2>2, <2>3
<1>2. Folded(ms, inputs, at) = {after(m) : m \in ms}
  BY DEF Folded
<1> HIDE DEF after
<1>3. Recorded(Folded(ms, inputs, at), at)
  BY <1>1, <1>2 DEF Recorded
<1>4. HasCalls(Folded(ms, inputs, at), cs)
  BY <1>1, <1>2 DEF HasCalls
<1>5. \A m \in ms : Visible(m, retained) =>
        \E n \in Folded(ms, inputs, at) : Carries(m, n, retained, cs, cs)
  BY <1>1, <1>2
<1> QED BY <1>3, <1>4, <1>5

LEMMA InContextIsVisible ==
  ASSUME NEW ms, NEW retained
  PROVE  InContext(ms, retained) = {m \in ms : Visible(m, retained)}
BY DEF InContext, Visible

LEMMA ClosedIsPaired ==
  ASSUME NEW ms, HasCalls(ms, calls), AllClosed(calls)
  PROVE  Paired(ms)
BY DEF HasCalls, AllClosed, Paired, Answered

LEMMA BeginTurnKeeps ==
  ASSUME CompactionInvariant, loop \in {"Idle", "Completed", "Resuming"},
         NEW ms, NEW h \in Nat, head <= h, Recorded(ms, h), HasCalls(ms, calls),
         messages \subseteq ms, NEW inputs, \A m \in inputs : m.user,
         NEW at \in Nat, h < at, BeginTurn(ms, inputs, at)
  PROVE  CompactionInvariant'
<1> DEFINE folded == Folded(ms, inputs, at)
           visible == InContext(folded, context.retained)
<1>1. /\ head' = at /\ messages' = folded /\ calls' = calls /\ context' = context
      /\ Paired(visible) => loop' = "Running" /\ told' = told \cup ToSet(Prompt(visible))
  BY DEF BeginTurn, Folded
<1>2. /\ head \in Nat /\ AllClosed(calls) /\ \A c \in calls : IsCall(c, head)
      /\ context.retained \in 0 .. head /\ context.exact \in BOOLEAN
      /\ Remembered(told, context.summary, messages, context.retained, calls, context.exact)
  BY InvariantFacts
<1>3. context.retained \in Nat
  BY <1>2
<1>4. /\ Recorded(folded, at) /\ HasCalls(folded, calls)
      /\ \A m \in ms : Visible(m, context.retained) =>
           \E n \in folded : Carries(m, n, context.retained, calls, calls)
  BY <1>3, FoldedCarries
<1> HIDE DEF folded
<1>5. visible = {m \in folded : Visible(m, context.retained)}
  BY InContextIsVisible
<1> HIDE DEF visible
<1>6. Paired(visible)
  <2>1. HasCalls(visible, calls)
    BY <1>4, <1>5 DEF HasCalls
  <2> QED BY <1>2, <2>1, ClosedIsPaired
<1>7. Recorded(visible, at)
  BY <1>4, <1>5 DEF Recorded
<1>8. \A i \in ToSet(Prompt(visible)) :
        \E m \in folded : Visible(m, context.retained) /\ Shows(m, calls, i)
  BY <1>5, <1>7, PromptShows
<1>9. Typed'
  <2>1. \A c \in calls : IsCall(c, at)
    BY <1>2, CallStays
  <2> QED BY <1>1, <1>2, <1>4, <1>6, <2>1 DEF Typed, Places
<1>10. CallsKept'
  BY <1>1, <1>4, <1>6 DEF CallsKept
<1>11. ToldHeld'
  <2> DEFINE prompt == ToSet(Prompt(visible))
  <2>1. \A m \in messages : Visible(m, context.retained) =>
          \E n \in folded : Carries(m, n, context.retained, calls, calls)
    BY <1>4
  <2>2. Remembered(told, context.summary, folded, context.retained, calls, context.exact)
    BY <1>2, <2>1, StaysRemembered
  <2> HIDE DEF prompt
  <2>3. Remembered(told \cup prompt, context.summary, folded, context.retained, calls,
                   context.exact)
    BY <1>8, <2>2, ShownIsRemembered DEF prompt
  <2> QED BY <1>1, <1>6, <2>3 DEF ToldHeld, prompt
<1>12. CutHeld'
  BY <1>1, <1>6 DEF CutHeld
<1> QED BY <1>9, <1>10, <1>11, <1>12 DEF CompactionInvariant

LEMMA StartInputsArePending ==
  ASSUME CompactionInvariant, StartRun
  PROVE  \A m \in StartInputs : m \in Pending("steer") \cup Pending("queue")
<1>1. \A d \in {"queue", "steer"} : Pending(d) # {} => Earliest(Pending(d)) \in Pending(d)
  <2>1. \A m \in messages : m.seq \in Nat
    BY InvariantFacts DEF IsMessage
  <2> QED BY <2>1, EarliestIsMember DEF Pending
<1> DEFINE steers == Pending("steer")
<1>2. CASE steers = {}
  <2>1. Pending("queue") # {}
    BY <1>2 DEF StartRun
  <2>2. Earliest(Pending("queue")) \in Pending("queue")
    BY <1>1, <2>1
  <2> QED BY <1>2, <2>2 DEF StartInputs
<1>3. CASE steers # {}
  <2>1. Earliest(steers) \in steers
    BY <1>1, <1>3
  <2> HIDE DEF steers
  <2>2. StartInputs \in {{Earliest(steers)}, {m \in steers : ~Owes(m)}}
    BY <1>3 DEF StartInputs, steers
  <2>3. \A m \in StartInputs : m \in steers
    BY <2>1, <2>2
  <2> QED BY <2>3 DEF steers
<1> QED BY <1>2, <1>3

LEMMA StartRunKeeps == ASSUME CompactionInvariant, StartRun PROVE CompactionInvariant'
<1>1. /\ head \in Nat /\ Recorded(messages, head) /\ HasCalls(messages, calls)
  BY InvariantFacts
<1>2. \A m \in StartInputs : m.user
  BY StartInputsArePending DEF Pending
<1> DEFINE inputs == StartInputs
<1>3. loop = "Idle" /\ BeginTurn(messages, inputs, head + 3)
  BY DEF StartRun
<1> HIDE DEF inputs
<1>4. \A m \in inputs : m.user
  BY <1>2 DEF inputs
<1> QED BY <1>1, <1>3, <1>4, BeginTurnKeeps

LEMMA StartUnrecordedKeeps ==
  ASSUME CompactionInvariant, StartUnrecorded PROVE CompactionInvariant'
<1> DEFINE content == CHOOSE c \in Unrecorded : \A d \in Unrecorded : c <= d
           again == Committed(head + 2, content)
           ms == messages \cup {again}
<1>1. loop = "Idle" /\ BeginTurn(ms, {again}, head + 4)
  BY DEF StartUnrecorded
<1> HIDE DEF content
<1>2. /\ head \in Nat /\ Recorded(messages, head) /\ HasCalls(messages, calls)
  BY InvariantFacts
<1>3. IsMessage(again, head + 2) /\ again.seq = head + 2 /\ again.user /\ ~again.calls
  BY <1>2 DEF Committed, IsMessage, Dispositions
<1> HIDE DEF again
<1>4. Recorded(ms, head + 2)
  BY <1>2, <1>3, RecordedGrows
<1>5. HasCalls(ms, calls)
  BY <1>2, <1>3 DEF HasCalls
<1>6. messages \subseteq ms /\ \A m \in {again} : m.user
  BY <1>3
<1> HIDE DEF ms
<1> QED BY <1>1, <1>2, <1>4, <1>5, <1>6, BeginTurnKeeps

LEMMA SteersBegin ==
  ASSUME CompactionInvariant, loop \in {"Completed", "Resuming"},
         BeginTurn(messages, Pending("steer"), head + 1)
  PROVE  CompactionInvariant'
<1>1. /\ head \in Nat /\ Recorded(messages, head) /\ HasCalls(messages, calls)
  BY InvariantFacts
<1>2. \A m \in Pending("steer") : m.user
  BY DEF Pending
<1> DEFINE inputs == Pending("steer")
<1> HIDE DEF inputs
<1>3. BeginTurn(messages, inputs, head + 1) /\ \A m \in inputs : m.user
  BY <1>2 DEF inputs
<1> QED BY <1>1, <1>3, BeginTurnKeeps

-----------------------------------------------------------------------------
(* The promise is made at the start of a compaction ...                    *)

\* A plan cuts at a position: from the cursor, or from the first message, to just before the cut.
LEMMA PlanCuts ==
  ASSUME CompactionInvariant, CompactionAssumption, NEW preset \in Presets,
         NEW p \in Plans(preset.retain)
  PROVE  /\ p.retained \in 0 .. head + 1 /\ p.to = p.retained - 1 /\ p.from \in Nat
         /\ preset.retain = "nothing" => p.retained = head + 1
         /\ \A m \in messages :
              ~m.user /\ m.seq >= context.retained /\ m.seq < p.retained =>
                p.from <= m.seq /\ m.seq <= p.to
<1>1. /\ head \in Nat /\ Recorded(messages, head) /\ context.retained \in 0 .. head
      /\ \A m \in messages : IsMessage(m, head)
  BY InvariantFacts
<1>2. PICK r \in RetainedFrom(preset.retain) :
        p = Plan(r) /\ Accepted(r) /\ \E m \in messages : m.seq < r
  BY DEF Plans
<1>3. preset.retain \in {"tail", "nothing", "last-response"}
  BY DEF CompactionAssumption
<1>4. \A m \in messages : m.seq \in 1 .. head
  BY <1>1 DEF IsMessage
<1>5. r \in 0 .. head + 1 /\ (preset.retain = "nothing" => r = head + 1)
  <2>1. CASE preset.retain = "nothing"
    BY <1>1, <1>2, <2>1 DEF RetainedFrom
  <2>2. CASE preset.retain = "tail"
    BY <1>1, <1>2, <1>4, <2>2 DEF RetainedFrom
  <2>3. CASE preset.retain = "last-response"
    <3>1. r \in LastResponse
      BY <1>2, <2>3 DEF RetainedFrom
    <3> DEFINE order == Ordered(messages)
    <3>2. PICK i \in DOMAIN order : r = order[i].seq
      BY <3>1 DEF LastResponse
    <3>3. DOMAIN order = 1 .. Cardinality(messages) /\ order[i] \in messages
      <4>1. order \in Seq(messages) /\ Len(order) = Cardinality(messages)
        BY <1>1, OrderedHolds
      <4> QED BY <3>2, <4>1
    <3> HIDE DEF order
    <3> QED BY <1>1, <1>4, <2>3, <3>2, <3>3
  <2> QED BY <1>3, <2>1, <2>2, <2>3
<1> DEFINE source == {m \in messages : m.seq < r}
           first == Ordered(source)[1]
<1>6. p = [from |-> IF context.retained > 0 THEN context.retained ELSE first.seq,
           to |-> r - 1, retained |-> r]
  BY <1>2 DEF Plan
<1>7. p.retained = r /\ p.to = r - 1
      /\ p.from = IF context.retained > 0 THEN context.retained ELSE first.seq
  <2> HIDE DEF first
  <2> QED BY <1>6
<1>8. /\ first \in source
      /\ \A n \in source : first = n \/ Before(first, n)
  <2>1. Recorded(source, head) /\ source # {}
    BY <1>1, <1>2 DEF Recorded
  <2> HIDE DEF source
  <2>2. /\ Cardinality(source) \in Nat
        /\ \A i \in 1 .. Cardinality(source) : Ordered(source)[i] \in source
        /\ \A n \in source : Ordered(source)[1] = n \/ Before(Ordered(source)[1], n)
    BY <1>1, <2>1, OrderedHolds
  <2>3. Cardinality(source) # 0
    BY <1>1, <2>1, RecordedIsFinite, FS_EmptySet
  <2>4. 1 \in 1 .. Cardinality(source)
    BY <2>2, <2>3
  <2> QED BY <2>2, <2>4
<1>9. \A n \in source : ~n.user => first.seq <= n.seq
  <2> HIDE DEF first
  <2> TAKE n \in source
  <2>1. IsMessage(first, head) /\ IsMessage(n, head)
    BY <1>1, <1>8
  <2>2. /\ first.seq <= TranscriptSeq(first) /\ Placed(first) /\ Placed(n)
        /\ ~n.user => TranscriptSeq(n) = n.seq
    BY <1>1, <2>1, MessageIsPlaced DEF Placed
  <2>3. first = n \/ TranscriptSeq(first) <= TranscriptSeq(n)
    BY <1>8, <2>2, BeforeIsOrder
  <2> QED BY <2>2, <2>3 DEF Placed
<1>10. first.seq \in Nat
  BY <1>4, <1>8
<1> HIDE DEF first
<1>11. p.from \in Nat
  BY <1>1, <1>7, <1>10
<1>12. ASSUME NEW m \in messages, ~m.user, m.seq >= context.retained, m.seq < p.retained
       PROVE  p.from <= m.seq /\ m.seq <= p.to
  <2>1. m \in source
    BY <1>7, <1>12
  <2>2. first.seq <= m.seq /\ m.seq \in Nat
    BY <1>4, <1>9, <1>12, <2>1
  <2> QED BY <1>1, <1>5, <1>7, <1>12, <2>2
<1> QED BY <1>5, <1>7, <1>11, <1>12

\* What the model was told is read by the executor, or is at or behind the cut.
LEMMA ReadOrKept ==
  ASSUME CompactionInvariant, CompactionAssumption, NEW preset \in Presets,
         NEW p \in Plans(preset.retain)
  PROVE  Remembered(told, Read(p, preset.reads), From(messages, p.retained), p.retained, calls,
                    context.exact /\ preset = [retain |-> "nothing", reads |-> "prompt"])
<1>1. /\ head \in Nat /\ Recorded(messages, head) /\ context.retained \in 0 .. head
      /\ \A m \in messages : IsMessage(m, head)
      /\ Remembered(told, context.summary, messages, context.retained, calls, context.exact)
  BY InvariantFacts
<1>2. /\ p.retained \in 0 .. head + 1 /\ p.to = p.retained - 1 /\ p.from \in Nat
      /\ preset.retain = "nothing" => p.retained = head + 1
      /\ \A m \in messages :
           ~m.user /\ m.seq >= context.retained /\ m.seq < p.retained =>
             p.from <= m.seq /\ m.seq <= p.to
  BY PlanCuts
<1>3. preset.reads \in {"messages", "prompt"}
  BY DEF CompactionAssumption
<1> DEFINE whole == preset = [retain |-> "nothing", reads |-> "prompt"]
<1> SUFFICES ASSUME NEW i \in told, i.what # "message" \/ (context.exact /\ whole)
             PROVE  Holds(i, Read(p, preset.reads), From(messages, p.retained), p.retained, calls)
  BY DEF Remembered
<1>4. Holds(i, context.summary, messages, context.retained, calls)
  BY <1>1 DEF Remembered
<1>5. CASE i \in context.summary
  BY <1>5 DEF Read, Holds
<1>6. ASSUME NEW m \in messages, Visible(m, context.retained), Shows(m, calls, i)
      PROVE  Holds(i, Read(p, preset.reads), From(messages, p.retained), p.retained, calls)
  <2>1. IsMessage(m, head) /\ m.seq \in 1 .. head
    BY <1>1 DEF IsMessage
  <2>2. TranscriptSeq(m) \in 1 .. head /\ (~m.user => TranscriptSeq(m) = m.seq)
    BY <1>1, <2>1, MessageIsPlaced
  <2>3. CASE whole
    <3>1. p.to = head /\ preset.reads = "prompt"
      BY <1>1, <1>2, <2>3
    <3>2. m \in Through(messages, p.to)
      BY <1>1, <2>2, <3>1 DEF Through
    <3>3. m \in InContext(Through(messages, p.to), context.retained)
      BY <1>6, <3>2, InContextIsVisible
    <3>4. i \in ItemSet(InContext(Through(messages, p.to), context.retained))
      BY <1>6, <3>3, ItemSetShows
    <3> QED BY <3>1, <3>4 DEF Read, Holds
  <2>4. CASE ~whole
    <3>1. ~m.user
      <4>1. i.what # "message"
        BY <2>4
      <4>2. m.user => ~m.calls
        BY <2>1 DEF IsMessage
      <4>3. m.user => Main(m).what = "message"
        BY DEF Main
      <4> QED BY <1>6, <4>1, <4>2, <4>3 DEF Shows, HasResult
    <3>2. m.seq >= context.retained
      BY <1>6, <2>2, <3>1 DEF Visible
    <3>3. CASE m.seq < p.retained
      <4>1. p.from <= m.seq /\ m.seq <= p.to
        BY <1>2, <3>1, <3>2, <3>3
      <4>2. CASE preset.reads = "messages"
        <5>1. i \in ItemSet({n \in messages : p.from <= n.seq /\ n.seq <= p.to})
          BY <1>6, <4>1, ItemSetShows
        <5> QED BY <4>2, <5>1 DEF Read, Holds
      <4>3. CASE preset.reads = "prompt"
        <5>1. m \in Through(messages, p.to)
          BY <2>2, <3>1, <4>1 DEF Through
        <5>2. m \in InContext(Through(messages, p.to), context.retained)
          BY <1>6, <5>1, InContextIsVisible
        <5>3. i \in ItemSet(InContext(Through(messages, p.to), context.retained))
          BY <1>6, <5>2, ItemSetShows
        <5> QED BY <4>3, <5>3 DEF Read, Holds
      <4> QED BY <1>3, <4>2, <4>3
    <3>4. CASE m.seq >= p.retained
      <4>1. m \in From(messages, p.retained)
        BY <3>4 DEF From
      <4>2. Visible(m, p.retained)
        BY <2>2, <3>1, <3>4 DEF Visible
      <4> QED BY <1>6, <4>1, <4>2 DEF Holds
    <3> QED BY <1>2, <2>1, <3>3, <3>4
  <2> QED BY <2>3, <2>4
<1> QED BY <1>4, <1>5, <1>6 DEF Holds

LEMMA StartPairs ==
  ASSUME CompactionInvariant, loop = "Boundary", NEW to
  PROVE  Paired(InContext(Through(messages, to), context.retained))
<1> DEFINE ms == InContext(Through(messages, to), context.retained)
<1>1. HasCalls(messages, calls) /\ AllClosed(calls)
  BY InvariantFacts
<1>2. ms \subseteq messages
  BY DEF InContext, Through
<1> HIDE DEF ms
<1>3. HasCalls(ms, calls)
  BY <1>1, <1>2 DEF HasCalls
<1>4. Paired(ms)
  BY <1>1, <1>3, ClosedIsPaired
<1> QED BY <1>4 DEF ms

LEMMA StartCompactionKeeps ==
  ASSUME CompactionInvariant, CompactionAssumption, StartCompaction
  PROVE  CompactionInvariant'
<1>1. PICK preset \in Presets : \E p \in Plans(preset.retain) :
        /\ compaction' = [retained |-> p.retained, items |-> Read(p, preset.reads),
                          exact |-> preset = [retain |-> "nothing", reads |-> "prompt"],
                          next |-> compaction.next]
        /\ loop' = IF Paired(InContext(Through(messages, p.to), context.retained))
                     THEN "Compacting" ELSE "Fatal"
  BY DEF StartCompaction
<1>2. PICK p \in Plans(preset.retain) :
        /\ compaction' = [retained |-> p.retained, items |-> Read(p, preset.reads),
                          exact |-> preset = [retain |-> "nothing", reads |-> "prompt"],
                          next |-> compaction.next]
        /\ loop' = IF Paired(InContext(Through(messages, p.to), context.retained))
                     THEN "Compacting" ELSE "Fatal"
  BY <1>1
<1>3. /\ loop = "Boundary" /\ head' = head + 2 /\ messages' = messages /\ calls' = calls
      /\ context' = context /\ told' = told
  BY DEF StartCompaction, session
<1>4. /\ head \in Nat /\ Recorded(messages, head) /\ \A c \in calls : IsCall(c, head)
      /\ context.retained \in 0 .. head /\ context.exact \in BOOLEAN
      /\ HasCalls(messages, calls) /\ AllClosed(calls)
      /\ compaction.next \in {"Idle", "Completed", "Finishing"}
      /\ Remembered(told, context.summary, messages, context.retained, calls, context.exact)
  BY <1>3, InvariantFacts
<1>5. loop' = "Compacting"
  BY <1>2, <1>3, StartPairs
<1> DEFINE items == Read(p, preset.reads)
           next == compaction.next
           exact == preset = [retain |-> "nothing", reads |-> "prompt"]
<1>6. /\ p.retained \in 0 .. head + 1
      /\ Remembered(told, items, From(messages, p.retained), p.retained, calls,
                    context.exact /\ exact)
  BY PlanCuts, ReadOrKept
<1>7. compaction' = [retained |-> p.retained, items |-> items, exact |-> exact, next |-> next]
  BY <1>2
<1>8. next \in {"Idle", "Completed", "Finishing"} /\ exact \in BOOLEAN
  BY <1>4
<1> HIDE DEF items, next, exact
<1>9. /\ compaction'.retained = p.retained /\ compaction'.items = items
      /\ compaction'.exact = exact /\ compaction'.next = next
  BY <1>7
<1>10. Recorded(messages, head + 2) /\ \A c \in calls : IsCall(c, head + 2)
  BY <1>4, RecordedStays, CallStays
<1>11. Typed'
  BY <1>3, <1>4, <1>5, <1>8, <1>9, <1>10 DEF Typed, Places
<1>12. CallsKept'
  BY <1>3, <1>4 DEF CallsKept
<1>13. ToldHeld'
  BY <1>3, <1>4 DEF ToldHeld
<1>14. CutHeld'
  <2>1. p.retained \in 0 .. head + 2
    BY <1>4, <1>6
  <2> QED BY <1>3, <1>6, <1>8, <1>9, <2>1 DEF CutHeld
<1> QED BY <1>11, <1>12, <1>13, <1>14 DEF CompactionInvariant

-----------------------------------------------------------------------------
(* ... and kept by its commit.                                             *)

LEMMA RebaseKeeps == ASSUME CompactionInvariant, Rebase PROVE CompactionInvariant'
<1> DEFINE cut == compaction.retained
           exact == context.exact /\ compaction.exact
<1>1. /\ loop = "Compacting" /\ loop' = compaction.next /\ head' = head + 3
      /\ context' = Rebased /\ messages' = PrunedMessages(cut) /\ calls' = PrunedCalls(cut)
      /\ told' = told
  BY DEF Rebase, session
<1>2. /\ head \in Nat /\ Recorded(messages, head) /\ \A c \in calls : IsCall(c, head)
      /\ context.exact \in BOOLEAN /\ HasCalls(messages, calls) /\ AllClosed(calls)
      /\ compaction.next \in {"Idle", "Completed", "Finishing"}
  BY <1>1, InvariantFacts
<1>3. /\ cut \in 0 .. head /\ compaction.exact \in BOOLEAN
      /\ Remembered(told, compaction.items, From(messages, cut), cut, calls, exact)
  BY <1>1 DEF CompactionInvariant, CutHeld
<1>4. exact \in BOOLEAN
  BY <1>2, <1>3
<1>5. /\ context'.retained = cut /\ context'.summary = compaction.items
      /\ context'.exact = exact
  BY <1>1 DEF Rebased
<1> HIDE DEF exact, cut
<1>6. messages' = From(messages, cut)
  BY <1>1 DEF PrunedMessages, From
<1>7. calls' \subseteq calls /\ \A c \in calls : c.terminal >= cut => c \in calls'
  BY <1>1 DEF PrunedCalls
\* An answer at or behind the cut has its tool call's end behind it.
<1>8. \A m \in messages, c \in calls : m.seq >= cut /\ c.of = m.seq => c \in calls'
  <2> TAKE m \in messages, c \in calls
  <2>1. m.seq \in 1 .. head /\ IsCall(c, head) /\ c.terminal > 0
    BY <1>2 DEF Recorded, IsMessage, AllClosed
  <2> QED BY <1>3, <1>7, <2>1 DEF IsCall
<1>9. Recorded(messages', head')
  <2>1. Recorded(messages, head + 3)
    BY <1>2, RecordedStays
  <2> QED BY <1>1, <1>6, <2>1 DEF Recorded, From
<1>10. \A c \in calls' : IsCall(c, head')
  BY <1>1, <1>2, <1>7, CallStays
<1>11. Typed'
  BY <1>1, <1>2, <1>3, <1>4, <1>5, <1>9, <1>10 DEF Typed, Places
<1>12. CallsKept'
  <2>1. HasCalls(messages', calls')
    BY <1>2, <1>6, <1>8 DEF HasCalls, From
  <2>2. AllClosed(calls')
    BY <1>2, <1>7 DEF AllClosed
  <2> QED BY <2>1, <2>2 DEF CallsKept
<1>13. ToldHeld'
  <2> DEFINE left == calls'
             part == From(messages, cut)
  <2>1. \A m \in part : HasResult(m, calls) => HasResult(m, left)
    BY <1>8 DEF HasResult, From
  <2> HIDE DEF left, part
  <2>2. \A m \in part : Visible(m, cut) => \E n \in part : Carries(m, n, cut, calls, left)
    BY <2>1 DEF Carries
  <2>3. Remembered(told, compaction.items, part, cut, calls, exact)
    BY <1>3 DEF part
  <2>4. Remembered(told, compaction.items, part, cut, left, exact)
    BY <2>2, <2>3, StaysRemembered
  <2> QED BY <1>1, <1>5, <1>6, <2>4 DEF ToldHeld, left, part
<1>14. CutHeld'
  BY <1>1, <1>2 DEF CutHeld
<1> QED BY <1>11, <1>12, <1>13, <1>14 DEF CompactionInvariant

-----------------------------------------------------------------------------
(* Every step keeps it.                                                    *)

LEMMA CompactionStarts == ASSUME CompactionInit PROVE CompactionInvariant
<1>1. /\ head = 0 /\ messages = {} /\ calls = {} /\ loop = "Idle" /\ told = {}
      /\ context.retained = 0 /\ context.exact = TRUE
  BY DEF CompactionInit
<1>2. context.retained \in 0 .. head /\ head \in Nat
  BY <1>1
<1>3. context.exact \in BOOLEAN
  BY <1>1, Zenon
<1>4. Typed
  BY <1>1, <1>2, <1>3 DEF Typed, Recorded, Places
<1> QED BY <1>1, <1>4 DEF CompactionInvariant, CallsKept, HasCalls, AllClosed, ToldHeld,
           Remembered, CutHeld

LEMMA CompactionGoesOn ==
  ASSUME CompactionInvariant, CompactionAssumption, [CompactionNext]_context_vars
  PROVE  CompactionInvariant'
<1>1. CASE \/ Decline \/ FailCompaction \/ ToolEnds \/ TurnCompletes \/ TurnFails
           \/ Steer \/ CompleteTurns \/ CompleteRun \/ Crash \/ Recover
  BY <1>1, QuietStepKeeps
<1>2. CASE StartCompaction
  BY <1>2, StartCompactionKeeps
<1>3. CASE Rebase
  BY <1>3, RebaseKeeps
<1>4. CASE \E disposition \in {"queue", "steer"} : Submit(disposition)
  BY <1>4, SubmitKeeps
<1>5. CASE StartRun
  BY <1>5, StartRunKeeps
<1>6. CASE StartUnrecorded
  BY <1>6, StartUnrecordedKeeps
<1>7. CASE Respond
  BY <1>7, RespondKeeps
<1>8. CASE Continue
  BY <1>8, SteersBegin DEF Continue
<1>9. CASE Stop
  BY <1>9, StopKeeps
<1>10. CASE Promote
  BY <1>10, PromoteKeeps
<1>11. CASE Cancel
  BY <1>11, CancelKeeps
<1>12. CASE Resume
  BY <1>12, SteersBegin DEF Resume
<1>13. CASE UNCHANGED context_vars
  BY <1>13 DEF context_vars, CompactionInvariant, Typed, CallsKept, ToldHeld, CutHeld
<1> QED BY <1>1, <1>2, <1>3, <1>4, <1>5, <1>6, <1>7, <1>8, <1>9, <1>10, <1>11, <1>12, <1>13
        DEF CompactionNext

LEMMA HeldIsKept == ASSUME CompactionInvariant PROVE NothingForgotten
<1>1. Remembered(told, context.summary, messages, context.retained, calls, context.exact)
  BY InvariantFacts
<1> SUFFICES ASSUME NEW i \in told
             PROVE  i \in Kept \/ (~context.exact /\ i.what = "message")
  BY DEF NothingForgotten
<1> SUFFICES ASSUME i.what # "message" \/ context.exact PROVE i \in Kept
  OBVIOUS
<1>2. Holds(i, context.summary, messages, context.retained, calls)
  BY <1>1 DEF Remembered
<1>3. ASSUME NEW m \in messages, Visible(m, context.retained), Shows(m, calls, i)
      PROVE  i \in ItemSet(InContext(messages, context.retained))
  BY <1>3, InContextIsVisible, ItemSetShows
<1> QED BY <1>2, <1>3 DEF Holds, Kept

-----------------------------------------------------------------------------
(* Prompts only grow: what is sent next continues what was sent before.    *)

FullItems(m) == IF m.calls THEN <<Main(m)>> \o <<Result(m)>> ELSE <<Main(m)>> \o <<>>
FullStep(order, f, i) == IF i = 0 THEN <<>> ELSE f[i - 1] \o FullItems(order[i])

\* The prompt of messages whose tool calls have their results.
IsPromptOf(s, ms) ==
  \E f : /\ f = [i \in 0 .. Cardinality(ms) |-> FullStep(Ordered(ms), f, i)]
         /\ s = f[Cardinality(ms)]

LEMMA FullItemsIsSeq ==
  ASSUME NEW m
  PROVE  FullItems(m) \in Seq({Main(m), Result(m)})
<1> DEFINE S == {Main(m), Result(m)}
<1>1. <<Main(m)>> \in Seq(S) /\ <<Result(m)>> \in Seq(S) /\ <<>> \in Seq(S)
  OBVIOUS
<1> HIDE DEF S
<1>2. <<Main(m)>> \o <<Result(m)>> \in Seq(S) /\ <<Main(m)>> \o <<>> \in Seq(S)
  BY <1>1, ConcatProperties
<1> QED BY <1>2 DEF FullItems, S

LEMMA PairedIsFull ==
  ASSUME NEW ms, NEW h \in Nat, Recorded(ms, h), Paired(ms)
  PROVE  IsPromptOf(Prompt(ms), ms)
<1> DEFINE n == Cardinality(ms)
           order == Ordered(ms)
<1>1. n \in Nat /\ Len(order) = n /\ \A i \in 1 .. n : order[i] \in ms
  BY OrderedHolds
<1>2. PICK f : f = [i \in 0 .. n |-> ItemStep(order, f, i)] /\ Prompt(ms) = f[n]
  <2> HIDE DEF n
  <2> QED BY <1>1, PromptUnfolds
<1>3. \A m \in ms : Items(m) = FullItems(m)
  <2> TAKE m \in ms
  <2>1. m.calls => Answered(m)
    BY DEF Paired
  <2>2. CASE m.calls
    BY <2>1, <2>2 DEF Items, FullItems, Main, Result
  <2>3. CASE ~m.calls
    BY <2>3 DEF Items, FullItems, Main, Result
  <2> QED BY <2>2, <2>3
<1> HIDE DEF n, order
<1>4. \A i \in 0 .. n : ItemStep(order, f, i) = FullStep(order, f, i)
  BY <1>1, <1>3 DEF ItemStep, FullStep
<1>5. f = [i \in 0 .. n |-> FullStep(order, f, i)]
  BY <1>2, <1>4
<1> QED BY <1>2, <1>5 DEF IsPromptOf, n, order

\* A part that stands before the rest stands alone as it does among the others.
LEMMA PartIsFirst ==
  ASSUME NEW ms, NEW h \in Nat, Recorded(ms, h), NEW part \in SUBSET ms,
         \A m \in part, n \in ms \ part : TranscriptSeq(m) < TranscriptSeq(n)
  PROVE  /\ Cardinality(part) \in Nat /\ Cardinality(ms) \in Nat
         /\ Cardinality(part) <= Cardinality(ms)
         /\ \A i \in 1 .. Cardinality(part) : Ordered(ms)[i] = Ordered(part)[i]
<1>1. Recorded(part, h)
  BY DEF Recorded
<1>2. /\ Cardinality(ms) \in Nat
      /\ \A i \in 1 .. Cardinality(ms) :
           Ordered(ms)[i] \in ms /\ Rank(Ordered(ms)[i], ms) = i - 1
      /\ \A m, n \in ms : Rank(m, ms) = Rank(n, ms) => m = n
  BY OrderedHolds
<1>3. /\ Cardinality(part) \in Nat
      /\ \A i \in 1 .. Cardinality(part) :
           Ordered(part)[i] \in part /\ Rank(Ordered(part)[i], part) = i - 1
  BY <1>1, OrderedHolds
<1>4. Cardinality(part) <= Cardinality(ms)
  BY RecordedIsFinite, FS_Subset
<1>5. ASSUME NEW m \in part PROVE Rank(m, ms) = Rank(m, part)
  <2>1. ASSUME NEW n \in ms \ part PROVE ~Before(n, m)
    <3>1. TranscriptSeq(m) < TranscriptSeq(n)
      BY <2>1
    <3>2. TranscriptSeq(m) \in Nat /\ TranscriptSeq(n) \in Nat
      BY MessageIsPlaced DEF Recorded, Placed
    <3> QED BY <3>1, <3>2 DEF Before
  <2>2. {n \in ms : Before(n, m)} = {n \in part : Before(n, m)}
    BY <2>1
  <2> QED BY <2>2 DEF Rank
<1>6. ASSUME NEW i \in 1 .. Cardinality(part) PROVE Ordered(ms)[i] = Ordered(part)[i]
  <2>1. i \in 1 .. Cardinality(ms)
    BY <1>2, <1>3, <1>4
  <2>2. Ordered(ms)[i] \in ms /\ Rank(Ordered(ms)[i], ms) = i - 1
    BY <1>2, <2>1
  <2>3. Ordered(part)[i] \in ms /\ Rank(Ordered(part)[i], ms) = i - 1
    BY <1>3, <1>5
  <2> QED BY <1>2, <2>2, <2>3
<1> QED BY <1>2, <1>3, <1>4, <1>6

\* Induction over 0 .. n, from a later start.
LEMMA ByFirstCounterexampleFrom ==
  ASSUME NEW n \in Nat, NEW k \in 0 .. n, NEW Good \in SUBSET (k .. n), k \in Good,
         \A i \in k + 1 .. n : i - 1 \in Good => i \in Good
  PROVE  Good = k .. n
<1> DEFINE Bad == (k .. n) \ Good
<1>1. ASSUME Bad # {} PROVE FALSE
  <2>1. Bad \in SUBSET Nat
    OBVIOUS
  <2>2. PICK m \in Bad : \A y \in Bad : m <= y
    BY <1>1, <2>1, LeastExists
  <2>3. m \in k + 1 .. n /\ m - 1 \in k .. n
    BY <2>2
  <2>4. m - 1 \in Good
    BY <2>2, <2>3
  <2> QED BY <2>2, <2>3, <2>4
<1> QED BY <1>1

LEMMA PromptsAreSeqs ==
  ASSUME NEW ms, Cardinality(ms) \in Nat, NEW f,
         f = [i \in 0 .. Cardinality(ms) |-> FullStep(Ordered(ms), f, i)]
  PROVE  \E T : /\ \A i \in 0 .. Cardinality(ms) : f[i] \in Seq(T)
                /\ \A i \in 1 .. Cardinality(ms) : FullItems(Ordered(ms)[i]) \in Seq(T)
<1> DEFINE n == Cardinality(ms)
           order == Ordered(ms)
           T == UNION {{Main(order[i]), Result(order[i])} : i \in 1 .. n}
           Good == {i \in 0 .. n : f[i] \in Seq(T)}
<1>1. ASSUME NEW i \in 1 .. n PROVE FullItems(order[i]) \in Seq(T)
  <2>1. {Main(order[i]), Result(order[i])} \subseteq T
    OBVIOUS
  <2> DEFINE its == FullItems(order[i])
             U == {Main(order[i]), Result(order[i])}
  <2>2. its \in Seq(U)
    BY FullItemsIsSeq
  <2> HIDE DEF its, U, T
  <2>3. its \in Seq(T)
    BY <2>1, <2>2 DEF U
  <2> QED BY <2>3 DEF its
<1> HIDE DEF T, n, order
<1>2. 0 \in Good
  <2>1. f[0] = <<>>
    BY DEF FullStep, n
  <2>2. f[0] \in Seq(T)
    BY <2>1, EmptySeq
  <2> QED BY <2>2 DEF n
<1>3. ASSUME NEW i \in 1 .. n, i - 1 \in Good PROVE i \in Good
  <2>1. f[i] = f[i - 1] \o FullItems(order[i])
    BY DEF FullStep, n, order
  <2>2. f[i - 1] \in Seq(T) /\ FullItems(order[i]) \in Seq(T)
    BY <1>1, <1>3
  <2>3. f[i] \in Seq(T)
    BY <2>1, <2>2, ConcatProperties
  <2> QED BY <2>3 DEF n
<1>4. Good = 0 .. n
  <2> HIDE DEF Good
  <2>1. Good \in SUBSET (0 .. n)
    BY DEF Good
  <2> QED BY <1>2, <1>3, <2>1, ByFirstCounterexample DEF n
<1>5. \A i \in 0 .. n : f[i] \in Seq(T)
  BY <1>4
<1> QED BY <1>1, <1>5 DEF n, order

LEMMA PromptsGrow ==
  ASSUME NEW ms, NEW h \in Nat, Recorded(ms, h), NEW part \in SUBSET ms,
         \A m \in part, n \in ms \ part : TranscriptSeq(m) < TranscriptSeq(n),
         NEW s, IsPromptOf(s, part), NEW t, IsPromptOf(t, ms)
  PROVE  IsPrefix(s, t)
<1> DEFINE k == Cardinality(part)
           n == Cardinality(ms)
<1>1. /\ k \in Nat /\ n \in Nat /\ k <= n
      /\ \A i \in 1 .. k : Ordered(ms)[i] = Ordered(part)[i]
  BY PartIsFirst
<1>2. PICK f : f = [i \in 0 .. k |-> FullStep(Ordered(part), f, i)] /\ s = f[k]
  BY DEF IsPromptOf
<1>3. PICK g : g = [i \in 0 .. n |-> FullStep(Ordered(ms), g, i)] /\ t = g[n]
  BY DEF IsPromptOf
<1>4. PICK T : /\ \A i \in 0 .. n : g[i] \in Seq(T)
               /\ \A i \in 1 .. n : FullItems(Ordered(ms)[i]) \in Seq(T)
  BY <1>1, <1>3, PromptsAreSeqs
<1> HIDE DEF k, n
<1>5. f[k] = g[k]
  <2> DEFINE Good == {i \in 0 .. k : f[i] = g[i]}
  <2>1. 0 \in Good
    BY <1>1, <1>2, <1>3 DEF FullStep
  <2>2. ASSUME NEW i \in 1 .. k, i - 1 \in Good PROVE i \in Good
    <3>1. i \in 0 .. k /\ i \in 0 .. n /\ i # 0
      BY <1>1
    <3>2. f[i] = FullStep(Ordered(part), f, i) /\ g[i] = FullStep(Ordered(ms), g, i)
      BY <1>2, <1>3, <3>1
    <3>3. /\ f[i] = f[i - 1] \o FullItems(Ordered(part)[i])
          /\ g[i] = g[i - 1] \o FullItems(Ordered(ms)[i])
      BY <3>1, <3>2 DEF FullStep
    <3>4. f[i - 1] = g[i - 1] /\ Ordered(ms)[i] = Ordered(part)[i]
      BY <1>1, <2>2
    <3>5. f[i] = g[i]
      BY <3>3, <3>4
    <3> QED BY <3>1, <3>5
  <2>3. Good = 0 .. k
    <3> HIDE DEF Good
    <3>1. Good \in SUBSET (0 .. k)
      BY DEF Good
    <3> QED BY <1>1, <2>1, <2>2, <3>1, ByFirstCounterexample
  <2> QED BY <1>1, <2>3
<1>6. \A i \in k .. n : IsPrefix(g[k], g[i])
  <2> DEFINE Good == {i \in k .. n : IsPrefix(g[k], g[i])}
  <2>1. k \in Good
    <3>1. g[k] \in Seq(T)
      BY <1>1, <1>4
    <3>2. IsPrefix(g[k], g[k])
      BY <3>1, LenProperties DEF IsPrefix
    <3> QED BY <1>1, <3>2
  <2>2. ASSUME NEW i \in k + 1 .. n, i - 1 \in Good PROVE i \in Good
    <3> DEFINE before == g[i - 1]
               more == FullItems(Ordered(ms)[i])
               first == g[k]
    <3>1. g[i] = before \o more
      <4>1. i \in 0 .. n /\ i # 0
        BY <1>1
      <4>2. g[i] = FullStep(Ordered(ms), g, i)
        BY <1>3, <4>1
      <4> QED BY <4>1, <4>2 DEF FullStep
    <3>2. before \in Seq(T) /\ more \in Seq(T) /\ first \in Seq(T)
      <4>1. i - 1 \in 0 .. n /\ i \in 1 .. n /\ k \in 0 .. n
        BY <1>1
      <4> QED BY <1>4, <4>1
    <3>3. IsPrefix(first, before)
      BY <2>2
    <3> HIDE DEF before, more, first
    <3>4. Len(first) \in Nat /\ Len(before) \in Nat /\ Len(more) \in Nat
      BY <3>2, LenProperties
    <3>5. /\ Len(before \o more) = Len(before) + Len(more)
          /\ \A j \in 1 .. Len(before) : (before \o more)[j] = before[j]
      BY <3>2, <3>4, ConcatProperties
    <3>6. Len(first) <= Len(before) /\ SubSeq(first, 1, Len(first)) = SubSeq(before, 1, Len(first))
      BY <3>3 DEF IsPrefix
    <3>7. SubSeq(before, 1, Len(first)) = SubSeq(before \o more, 1, Len(first))
      <4>1. before \o more \in Seq(T)
        BY <3>2, ConcatProperties
      <4>2. \A j \in 1 .. Len(first) : (before \o more)[j] = before[j]
        BY <3>4, <3>5, <3>6
      <4>3. Len(first) - 1 + 1 = Len(first) /\ Len(first) <= Len(before \o more)
        BY <3>4, <3>5, <3>6
      <4> DEFINE all == before \o more
      <4> HIDE DEF all
      <4>4. all \in Seq(T) /\ Len(first) <= Len(all) /\ \A j \in 1 .. Len(first) : all[j] = before[j]
        BY <4>1, <4>2, <4>3 DEF all
      <4>5. SubSeq(before, 1, Len(first)) = SubSeq(all, 1, Len(first))
        BY <3>2, <3>4, <3>6, <4>4, SubSeqProperties
      <4> QED BY <4>5 DEF all
    <3>8. IsPrefix(first, before \o more)
      BY <3>4, <3>5, <3>6, <3>7 DEF IsPrefix
    <3>9. IsPrefix(g[k], g[i])
      BY <3>1, <3>8 DEF first
    <3>10. i \in k .. n
      BY <1>1
    <3> QED BY <3>9, <3>10
  <2>3. Good = k .. n
    <3> HIDE DEF Good
    <3>1. Good \in SUBSET (k .. n) /\ k \in 0 .. n
      BY <1>1 DEF Good
    <3> QED BY <1>1, <2>1, <2>2, <3>1, ByFirstCounterexampleFrom
  <2> QED BY <2>3
<1> QED BY <1>1, <1>2, <1>3, <1>5, <1>6

Early(ms, retained, to) == {m \in ms : Visible(m, retained) /\ TranscriptSeq(m) <= to}

\* While the version is the same, what was sent is the prompt of what stood up to some position.
SentHeld ==
  /\ context.version \in Nat /\ sent.version \in Nat /\ sent.version <= context.version
  /\ \E T : sent.items \in Seq(T)
  /\ sent.version = context.version =>
       \E to \in 0 .. head : IsPromptOf(sent.items, Early(messages, context.retained, to))

LEMMA SentStays ==
  ASSUME SentHeld, sent' = sent, context' = context, head \in Nat, head' \in Nat, head <= head',
         \A to \in 0 .. head :
           Early(messages', context.retained, to) = Early(messages, context.retained, to)
  PROVE  SentHeld'
<1>1. /\ context'.version \in Nat /\ sent'.version \in Nat /\ sent'.version <= context'.version
      /\ \E T : sent'.items \in Seq(T)
  BY DEF SentHeld
<1>2. ASSUME sent.version = context.version
      PROVE  \E to \in 0 .. head' : IsPromptOf(sent.items, Early(messages', context.retained, to))
  <2>1. PICK to \in 0 .. head : IsPromptOf(sent.items, Early(messages, context.retained, to))
    BY <1>2 DEF SentHeld
  <2>2. to \in 0 .. head'
    OBVIOUS
  <2> QED BY <2>1, <2>2
<1> QED BY <1>1, <1>2 DEF SentHeld

\* Steps that leave the messages that are in prompts, and add later ones.
LEMMA EarlyStays ==
  ASSUME NEW ms1, NEW ms2, NEW h \in Nat, NEW retained,
         \A m \in ms1 : Settled(m) => m \in ms2,
         \A m \in ms2 : m \in ms1 \/ ~Settled(m) \/ (TranscriptSeq(m) \in Nat /\ TranscriptSeq(m) > h)
  PROVE  \A to \in 0 .. h : Early(ms2, retained, to) = Early(ms1, retained, to)
<1> TAKE to \in 0 .. h
<1>1. \A m : Visible(m, retained) => Settled(m)
  BY DEF Visible, Settled
<1>2. Early(ms1, retained, to) \subseteq Early(ms2, retained, to)
  BY <1>1 DEF Early
<1>3. ASSUME NEW m \in Early(ms2, retained, to) PROVE m \in ms1
  <2>1. m \in ms2 /\ Settled(m) /\ TranscriptSeq(m) <= to
    BY <1>1 DEF Early
  <2>2. ~(TranscriptSeq(m) \in Nat /\ TranscriptSeq(m) > h)
    BY <2>1
  <2> QED BY <2>1, <2>2
<1>4. Early(ms2, retained, to) \subseteq Early(ms1, retained, to)
  BY <1>3 DEF Early
<1> QED BY <1>2, <1>4

LEMMA SentStaysOn ==
  ASSUME SentHeld, CompactionInvariant, sent' = sent, context' = context,
         head' \in Nat, head <= head',
         \A m \in messages : Settled(m) => m \in messages',
         \A m \in messages' :
           m \in messages \/ ~Settled(m) \/ (TranscriptSeq(m) \in Nat /\ TranscriptSeq(m) > head)
  PROVE  SentHeld'
<1>1. head \in Nat
  BY InvariantFacts
<1> DEFINE after == messages'
<1>2. /\ \A m \in messages : Settled(m) => m \in after
      /\ \A m \in after :
           m \in messages \/ ~Settled(m) \/ (TranscriptSeq(m) \in Nat /\ TranscriptSeq(m) > head)
  OBVIOUS
<1> HIDE DEF after
<1>3. \A to \in 0 .. head :
        Early(after, context.retained, to) = Early(messages, context.retained, to)
  BY <1>1, <1>2, EarlyStays
<1> QED BY <1>1, <1>3, SentStays DEF after

LEMMA QuietSent ==
  ASSUME SentHeld, CompactionInvariant,
         \/ Decline \/ StartCompaction \/ FailCompaction \/ ToolEnds \/ TurnCompletes \/ TurnFails
         \/ Steer \/ CompleteTurns \/ CompleteRun \/ Crash \/ Recover
  PROVE  SentHeld' /\ sent' = sent
<1>1. head \in Nat
  BY InvariantFacts
<1>2. sent' = sent /\ context' = context /\ messages' = messages
  BY DEF Decline, StartCompaction, FailCompaction, ToolEnds, TurnCompletes, TurnFails, Steer,
         CompleteTurns, CompleteRun, Crash, Recover, session
<1>3. head' = head \/ head' = head + 1 \/ head' = head + 2
  <2>1. CASE Decline \/ CompleteTurns \/ Crash
    BY <2>1 DEF Decline, CompleteTurns, Crash
  <2>2. CASE FailCompaction \/ ToolEnds \/ TurnCompletes \/ Recover
    BY <2>2 DEF FailCompaction, ToolEnds, TurnCompletes, Recover
  <2>3. CASE StartCompaction \/ TurnFails \/ Steer \/ CompleteRun
    BY <2>3 DEF StartCompaction, TurnFails, Steer, CompleteRun
  <2> QED BY <2>1, <2>2, <2>3
<1>4. head' \in Nat /\ head <= head'
  BY <1>1, <1>3
<1> QED BY <1>2, <1>4, SentStaysOn

LEMMA RebaseSent ==
  ASSUME SentHeld, CompactionInvariant, Rebase PROVE SentHeld' /\ sent' = sent
<1>1. sent' = sent /\ context' = Rebased
  BY DEF Rebase, session
<1>2. context'.version = context.version + 1
  BY <1>1 DEF Rebased
<1> QED BY <1>1, <1>2 DEF SentHeld

LEMMA JoinSent ==
  ASSUME SentHeld, CompactionInvariant,
         Respond \/ \E d \in {"queue", "steer"} : Submit(d)
  PROVE  SentHeld' /\ sent' = sent
<1>1. head \in Nat
  BY InvariantFacts
<1>2. sent' = sent /\ context' = context /\ head' = head + 1
  BY DEF Respond, Submit
<1>3. PICK new : messages' = messages \cup {new} /\ TranscriptSeq(new) = head + 1
  <2>1. CASE Respond
    <3>1. PICK tools \in BOOLEAN : messages' = messages \cup {Response(head + 1, tools)}
      BY <2>1 DEF Respond
    <3>2. TranscriptSeq(Response(head + 1, tools)) = head + 1
      BY DEF Response, TranscriptSeq
    <3> QED BY <3>1, <3>2
  <2>2. CASE \E d \in {"queue", "steer"} : Submit(d)
    <3>1. PICK d \in {"queue", "steer"} : messages' = messages \cup {Submitted(head + 1, d)}
      BY <2>2 DEF Submit
    <3>2. TranscriptSeq(Submitted(head + 1, d)) = head + 1
      BY DEF Submitted, TranscriptSeq
    <3> QED BY <3>1, <3>2
  <2> QED BY <2>1, <2>2
<1>4. head' \in Nat /\ head <= head' /\ TranscriptSeq(new) \in Nat /\ TranscriptSeq(new) > head
  BY <1>1, <1>2, <1>3
<1> QED BY <1>2, <1>3, <1>4, SentStaysOn

\* A pending message is in no prompt, whatever its disposition becomes.
LEMMA DisposedIsUnsettled ==
  ASSUME NEW m, NEW h \in Nat, IsMessage(m, h), m.user, ~Settled(m),
         NEW d \in {"queue", "steer", "paused"}
  PROVE  ~Settled([m EXCEPT !.disposition = d])
<1>1. [m EXCEPT !.disposition = d]
        = [seq |-> m.seq, content |-> m.content, user |-> m.user, disposition |-> d,
           consumed |-> m.consumed, calls |-> m.calls]
  <2>1. m = [seq |-> m.seq, content |-> m.content, user |-> m.user, disposition |-> m.disposition,
             consumed |-> m.consumed, calls |-> m.calls]
    BY DEF IsMessage
  <2> QED BY ONLY <2>1, MessageFields
<1> DEFINE n == [m EXCEPT !.disposition = d]
<1> HIDE DEF n
<1>2. n.user = m.user /\ n.disposition = d /\ n.consumed = m.consumed
  BY <1>1 DEF n
<1>3. m.user /\ m.disposition # "none" /\ ~(m.consumed > 0)
  BY DEF Settled
<1>4. ~Settled(n)
  BY <1>2, <1>3 DEF Settled
<1> QED BY <1>4 DEF n

LEMMA ControlSent ==
  ASSUME SentHeld, CompactionInvariant, Stop \/ Promote \/ Cancel
  PROVE  SentHeld' /\ sent' = sent
<1>1. head \in Nat /\ \A m \in messages : IsMessage(m, head)
  BY InvariantFacts
<1>2. sent' = sent /\ context' = context
  BY DEF Stop, Promote, Cancel, session
<1>3. \A d \in {"queue", "steer", "paused"} : \A m \in Pending(d) :
        m \in messages /\ m.user /\ ~Settled(m)
  BY PendingIsNotSettled
<1>4. /\ \A m \in messages : Settled(m) => m \in messages'
      /\ \A m \in messages' : m \in messages \/ ~Settled(m)
  <2>1. CASE Stop
    <3> DEFINE stopped == Pending("queue") \cup Pending("steer")
               moved(m) == IF m \in stopped THEN [m EXCEPT !.disposition = "paused"] ELSE m
    <3>1. messages' = {moved(m) : m \in messages}
      BY <2>1 DEF Stop
    <3>2. \A m \in stopped : m.user /\ ~Settled(m)
      BY <1>3
    <3> HIDE DEF stopped
    <3>3. ASSUME NEW m \in messages PROVE moved(m) = m \/ (~Settled(m) /\ ~Settled(moved(m)))
      <4>1. CASE m \in stopped
        <5>1. moved(m) = [m EXCEPT !.disposition = "paused"] /\ m.user /\ ~Settled(m)
          BY <3>2, <4>1
        <5> HIDE DEF moved
        <5> QED BY <1>1, <5>1, DisposedIsUnsettled
      <4> QED BY <4>1
    <3> HIDE DEF moved
    <3> QED BY <3>1, <3>3
  <2>2. CASE Promote
    <3>1. PICK m \in Pending("queue") \cup Pending("paused") :
            messages' = (messages \ {m}) \cup {[m EXCEPT !.disposition = "steer"]}
      BY <2>2 DEF Promote
    <3>2. m \in messages /\ m.user /\ ~Settled(m)
      BY <1>3
    <3>3. ~Settled([m EXCEPT !.disposition = "steer"])
      BY <1>1, <3>2, DisposedIsUnsettled
    <3> DEFINE n == [m EXCEPT !.disposition = "steer"]
    <3> HIDE DEF n
    <3>4. messages' = (messages \ {m}) \cup {n} /\ ~Settled(n)
      BY <3>1, <3>3 DEF n
    <3> QED BY <3>2, <3>4
  <2>3. CASE Cancel
    <3>1. PICK m \in Pending("queue") \cup Pending("steer") \cup Pending("paused") :
            messages' = messages \ {m}
      BY <2>3 DEF Cancel
    <3>2. ~Settled(m)
      BY <1>3
    <3> QED BY <3>1, <3>2
  <2> QED BY <2>1, <2>2, <2>3
<1>5. head' \in Nat /\ head <= head'
  <2>1. head' = head + 6 \/ head' = head + 3
    BY DEF Stop, Promote, Cancel
  <2> QED BY <1>1, <2>1
<1> QED BY <1>2, <1>4, <1>5, SentStaysOn

\* A message that a turn consumes stands at the position of the turn.
LEMMA ConsumedStands ==
  ASSUME NEW m, NEW h \in Nat, NEW at \in Nat, IsMessage(m, h), h < at
  PROVE  TranscriptSeq([m EXCEPT !.consumed = at]) = at
<1>1. [m EXCEPT !.consumed = at]
        = [seq |-> m.seq, content |-> m.content, user |-> m.user, disposition |-> m.disposition,
           consumed |-> at, calls |-> m.calls]
  <2>1. m = [seq |-> m.seq, content |-> m.content, user |-> m.user, disposition |-> m.disposition,
             consumed |-> m.consumed, calls |-> m.calls]
    BY DEF IsMessage
  <2> QED BY ONLY <2>1, MessageFields
<1> DEFINE n == [m EXCEPT !.consumed = at]
<1> HIDE DEF n
<1>2. n.consumed = at /\ at > 0
  BY <1>1 DEF n
<1>3. TranscriptSeq(n) = at
  BY <1>2 DEF TranscriptSeq
<1> QED BY <1>3 DEF n

LEMMA FoldedIsLater ==
  ASSUME NEW ms, NEW h \in Nat, Recorded(ms, h), NEW old \in SUBSET ms,
         NEW inputs, NEW at \in Nat, h < at, NEW last \in Nat, last <= h,
         \A m \in ms \ inputs : m \in old,
         \A m \in inputs : m \in old => ~Settled(m)
  PROVE  /\ \A m \in old : Settled(m) => m \in Folded(ms, inputs, at)
         /\ \A m \in Folded(ms, inputs, at) :
              m \in old \/ ~Settled(m) \/ (TranscriptSeq(m) \in Nat /\ TranscriptSeq(m) > last)
<1> DEFINE after(m) == IF m \in inputs THEN [m EXCEPT !.consumed = at] ELSE m
<1>1. Folded(ms, inputs, at) = {after(m) : m \in ms}
  BY DEF Folded
<1>2. ASSUME NEW m \in old, Settled(m) PROVE after(m) = m
  BY <1>2
<1>3. ASSUME NEW m \in ms PROVE after(m) \in old \/ TranscriptSeq(after(m)) = at
  <2>1. CASE m \in inputs
    <3>1. after(m) = [m EXCEPT !.consumed = at]
      BY <2>1
    <3>2. IsMessage(m, h)
      BY DEF Recorded
    <3> HIDE DEF after
    <3> QED BY <3>1, <3>2, ConsumedStands
  <2>2. CASE m \notin inputs
    BY <2>2
  <2> QED BY <2>1, <2>2
<1> HIDE DEF after
<1>4. at > last
  OBVIOUS
<1> QED BY <1>1, <1>2, <1>3, <1>4

LEMMA BeginTurnSent ==
  ASSUME SentHeld, CompactionInvariant, loop \in {"Idle", "Completed", "Resuming"},
         NEW ms, NEW h \in Nat, head <= h, Recorded(ms, h), HasCalls(ms, calls),
         messages \subseteq ms, NEW inputs, \A m \in inputs : m.user,
         \A m \in ms \ inputs : m \in messages,
         \A m \in inputs : m \in messages => ~Settled(m),
         NEW at \in Nat, h < at, BeginTurn(ms, inputs, at)
  PROVE  SentHeld' /\ (sent'.version = sent.version => IsPrefix(sent.items, sent'.items))
<1> DEFINE folded == Folded(ms, inputs, at)
           retained == context.retained
           visible == InContext(folded, retained)
           prompt == Prompt(visible)
<1>1. /\ head' = at /\ messages' = folded /\ context' = context
      /\ Paired(visible) => sent' = [version |-> context.version, items |-> prompt]
  BY DEF BeginTurn, Folded
<1>2. head \in Nat /\ AllClosed(calls) /\ retained \in Nat
  BY InvariantFacts
<1>3. Recorded(folded, at) /\ HasCalls(folded, calls)
  BY <1>2, FoldedCarries
<1>4. /\ \A m \in messages : Settled(m) => m \in folded
      /\ \A m \in folded :
           m \in messages \/ ~Settled(m) \/ (TranscriptSeq(m) \in Nat /\ TranscriptSeq(m) > head)
  BY <1>2, FoldedIsLater
<1> HIDE DEF folded, retained
<1>5. \A to \in 0 .. head : Early(folded, retained, to) = Early(messages, retained, to)
  BY <1>2, <1>4, EarlyStays
<1>6. visible = {m \in folded : Visible(m, retained)}
  BY InContextIsVisible
<1>7. visible = Early(folded, retained, at)
  <2>1. \A m \in folded : TranscriptSeq(m) <= at
    <3> TAKE m \in folded
    <3>1. IsMessage(m, at)
      BY <1>3 DEF Recorded
    <3>2. TranscriptSeq(m) \in 1 .. at
      BY <3>1, MessageIsPlaced
    <3> QED BY <3>2
  <2> QED BY <1>6, <2>1 DEF Early
<1> HIDE DEF visible
<1>8. Recorded(visible, at) /\ HasCalls(visible, calls)
  BY <1>3, <1>6 DEF Recorded, HasCalls
<1>9. Paired(visible)
  BY <1>2, <1>8, ClosedIsPaired
<1>10. IsPromptOf(prompt, visible)
  BY <1>8, <1>9, PairedIsFull
<1>11. \E T : prompt \in Seq(T)
  <2>1. prompt \in Seq(ItemSet(visible))
    BY <1>8, PromptShows
  <2> DEFINE T == ItemSet(visible)
  <2>2. prompt \in Seq(T)
    BY <2>1
  <2> HIDE DEF T, prompt
  <2> QED BY <2>2
<1> HIDE DEF prompt
<1>12. sent'.version = context.version /\ sent'.items = prompt
  BY <1>1, <1>9
<1>13. SentHeld'
  <2>1. /\ context'.version \in Nat /\ sent'.version \in Nat /\ sent'.version <= context'.version
    BY <1>1, <1>12 DEF SentHeld
  <2>2. IsPromptOf(sent'.items, Early(messages', context'.retained, head'))
    BY <1>1, <1>7, <1>10, <1>12 DEF retained
  <2>3. head' \in 0 .. head'
    BY <1>1
  <2>4. \E T : sent'.items \in Seq(T)
    BY <1>11, <1>12
  <2> QED BY <2>1, <2>2, <2>3, <2>4 DEF SentHeld
<1>14. ASSUME sent'.version = sent.version PROVE IsPrefix(sent.items, sent'.items)
  <2>1. PICK to \in 0 .. head : IsPromptOf(sent.items, Early(messages, retained, to))
    BY <1>12, <1>14 DEF SentHeld, retained
  <2> DEFINE part == Early(folded, retained, to)
  <2>2. IsPromptOf(sent.items, part)
    BY <1>5, <2>1
  <2>3. part \in SUBSET visible
    BY <1>6 DEF Early
  <2>4. \A m \in part : \A n \in visible \ part : TranscriptSeq(m) < TranscriptSeq(n)
    <3> TAKE m \in part
    <3> TAKE n \in visible \ part
    <3>1. TranscriptSeq(m) <= to /\ ~(TranscriptSeq(n) <= to)
      BY <1>6 DEF Early
    <3>2. IsMessage(m, at) /\ IsMessage(n, at)
      BY <1>8, <2>3 DEF Recorded
    <3>3. TranscriptSeq(m) \in 1 .. at /\ TranscriptSeq(n) \in 1 .. at
      BY <3>2, MessageIsPlaced
    <3> QED BY <3>1, <3>3
  <2> HIDE DEF part
  <2>5. IsPrefix(sent.items, prompt)
    BY <1>8, <1>10, <2>2, <2>3, <2>4, PromptsGrow
  <2> QED BY <1>12, <2>5
<1> QED BY <1>13, <1>14

LEMMA StartRunSent ==
  ASSUME SentHeld, CompactionInvariant, StartRun
  PROVE  SentHeld' /\ (sent'.version = sent.version => IsPrefix(sent.items, sent'.items))
<1>1. /\ head \in Nat /\ Recorded(messages, head) /\ HasCalls(messages, calls)
  BY InvariantFacts
<1>2. \A m \in StartInputs : m.user /\ ~Settled(m)
  BY StartInputsArePending, PendingIsNotSettled
<1> DEFINE inputs == StartInputs
<1>3. loop = "Idle" /\ BeginTurn(messages, inputs, head + 3)
  BY DEF StartRun
<1> HIDE DEF inputs
<1>4. \A m \in inputs : m.user /\ ~Settled(m)
  BY <1>2 DEF inputs
<1> QED BY <1>1, <1>3, <1>4, BeginTurnSent

LEMMA StartUnrecordedSent ==
  ASSUME SentHeld, CompactionInvariant, StartUnrecorded
  PROVE  SentHeld' /\ (sent'.version = sent.version => IsPrefix(sent.items, sent'.items))
<1> DEFINE content == CHOOSE c \in Unrecorded : \A d \in Unrecorded : c <= d
           again == Committed(head + 2, content)
           ms == messages \cup {again}
<1>1. loop = "Idle" /\ BeginTurn(ms, {again}, head + 4)
  BY DEF StartUnrecorded
<1> HIDE DEF content
<1>2. /\ head \in Nat /\ Recorded(messages, head) /\ HasCalls(messages, calls)
  BY InvariantFacts
<1>3. IsMessage(again, head + 2) /\ again.seq = head + 2 /\ again.user /\ ~again.calls
  BY <1>2 DEF Committed, IsMessage, Dispositions
<1> HIDE DEF again
<1>4. Recorded(ms, head + 2)
  BY <1>2, <1>3, RecordedGrows
<1>5. HasCalls(ms, calls)
  BY <1>2, <1>3 DEF HasCalls
<1>6. again \notin messages
  <2>1. \A m \in messages : m.seq \in 1 .. head
    BY <1>2 DEF Recorded, IsMessage
  <2> QED BY <1>2, <1>3, <2>1
<1>7. /\ messages \subseteq ms /\ \A m \in {again} : m.user
      /\ \A m \in ms \ {again} : m \in messages
      /\ \A m \in {again} : m \in messages => ~Settled(m)
  BY <1>3, <1>6
<1>8. head + 2 \in Nat /\ head + 4 \in Nat /\ head <= head + 2 /\ head + 2 < head + 4
  BY <1>2
<1> DEFINE inputs == {again}
<1>9. /\ \A m \in inputs : m.user
      /\ \A m \in ms \ inputs : m \in messages
      /\ \A m \in inputs : m \in messages => ~Settled(m)
      /\ BeginTurn(ms, inputs, head + 4)
      /\ messages \subseteq ms
  BY <1>1, <1>7
<1> HIDE DEF ms, inputs
<1> QED BY <1>1, <1>4, <1>5, <1>8, <1>9, BeginTurnSent

LEMMA SteersSent ==
  ASSUME SentHeld, CompactionInvariant, loop \in {"Completed", "Resuming"},
         BeginTurn(messages, Pending("steer"), head + 1)
  PROVE  SentHeld' /\ (sent'.version = sent.version => IsPrefix(sent.items, sent'.items))
<1>1. /\ head \in Nat /\ Recorded(messages, head) /\ HasCalls(messages, calls)
  BY InvariantFacts
<1>2. \A m \in Pending("steer") : m.user /\ ~Settled(m)
  BY PendingIsNotSettled
<1> DEFINE inputs == Pending("steer")
<1> HIDE DEF inputs
<1>3. BeginTurn(messages, inputs, head + 1) /\ \A m \in inputs : m.user /\ ~Settled(m)
  BY <1>2 DEF inputs
<1> QED BY <1>1, <1>3, BeginTurnSent

LEMMA SentStarts == ASSUME CompactionInit PROVE SentHeld
<1>1. /\ head = 0 /\ messages = {} /\ context.version = 0 /\ context.retained = 0
      /\ sent.version = 0 /\ sent.items = <<>>
  BY DEF CompactionInit
<1>2. Early({}, 0, 0) = {} /\ Cardinality({}) = 0
  BY FS_EmptySet DEF Early
<1>3. IsPromptOf(<<>>, {})
  <2> DEFINE f == [i \in 0 .. 0 |-> <<>>]
  <2>1. f[0] = <<>>
    OBVIOUS
  <2>2. \A i \in 0 .. 0 : FullStep(Ordered({}), f, i) = <<>>
    BY DEF FullStep
  <2>3. f = [i \in 0 .. 0 |-> FullStep(Ordered({}), f, i)]
    BY <2>2
  <2> HIDE DEF f
  <2> QED BY <1>2, <2>1, <2>3 DEF IsPromptOf
<1>4. \E T : sent.items \in Seq(T)
  <2>1. sent.items \in Seq({})
    BY <1>1, EmptySeq
  <2> QED BY <2>1
<1>5. \E to \in 0 .. head : IsPromptOf(sent.items, Early(messages, context.retained, to))
  <2>1. IsPromptOf(sent.items, Early(messages, context.retained, 0))
    BY <1>1, <1>2, <1>3
  <2>2. 0 \in 0 .. head
    BY <1>1
  <2> QED BY <2>1, <2>2
<1> QED BY <1>1, <1>4, <1>5 DEF SentHeld

LEMMA SentGoesOn ==
  ASSUME SentHeld, CompactionInvariant, [CompactionNext]_context_vars
  PROVE  SentHeld' /\ (sent'.version = sent.version => IsPrefix(sent.items, sent'.items))
<1>1. ASSUME sent' = sent PROVE IsPrefix(sent.items, sent'.items)
  <2>1. PICK T : sent.items \in Seq(T)
    BY DEF SentHeld
  <2> DEFINE items == sent.items
  <2> HIDE DEF items
  <2>2. items \in Seq(T)
    BY <2>1 DEF items
  <2>3. IsPrefix(items, items)
    BY <2>2, LenProperties DEF IsPrefix
  <2> QED BY <1>1, <2>3 DEF items
<1>2. CASE \/ Decline \/ StartCompaction \/ FailCompaction \/ ToolEnds \/ TurnCompletes
           \/ TurnFails \/ Steer \/ CompleteTurns \/ CompleteRun \/ Crash \/ Recover
  BY <1>1, <1>2, QuietSent
<1>3. CASE Rebase
  BY <1>1, <1>3, RebaseSent
<1>4. CASE Respond \/ \E d \in {"queue", "steer"} : Submit(d)
  BY <1>1, <1>4, JoinSent
<1>5. CASE Stop \/ Promote \/ Cancel
  BY <1>1, <1>5, ControlSent
<1>6. CASE StartRun
  BY <1>6, StartRunSent
<1>7. CASE StartUnrecorded
  BY <1>7, StartUnrecordedSent
<1>8. CASE Continue
  BY <1>8, SteersSent DEF Continue
<1>9. CASE Resume
  BY <1>9, SteersSent DEF Resume
<1>10. CASE UNCHANGED context_vars
  <2>1. /\ sent' = sent /\ context' = context /\ head' = head /\ messages' = messages
    BY <1>10 DEF context_vars
  <2>2. SentHeld'
    BY <2>1 DEF SentHeld
  <2> QED BY <1>1, <2>1, <2>2
<1> QED BY <1>2, <1>3, <1>4, <1>5, <1>6, <1>7, <1>8, <1>9, <1>10 DEF CompactionNext

SentInvariant == CompactionInvariant /\ SentHeld

-----------------------------------------------------------------------------
(* Theorems.                                                               *)

\* The invariant holds: what the model was told is in its context, and the promise of an open
\* compaction is kept (maybeCompactAtBoundary, the fold of ContextRebased).
THEOREM CompactionInvariantHolds == CompactionSpec => []CompactionInvariant
<1>1. CompactionInit => CompactionInvariant
  BY CompactionStarts
<1>2. CompactionInvariant /\ [CompactionNext]_context_vars => CompactionInvariant'
  BY CompactionGoesOn, CompactionAssumption
<1> QED BY <1>1, <1>2, PTL DEF CompactionSpec

\* No compaction, whatever its preset, and no turn meets a prompt that cannot be built because a
\* result was pruned without its response, or is still to come (validateToolCallPairing,
\* pruneForContextRebase); turns close their tool calls when they end, as they do in this module.
THEOREM PromptsStayPaired == CompactionSpec => []PromptsPaired
<1>1. CompactionInvariant => PromptsPaired
  BY DEF CompactionInvariant, Typed, Places, PromptsPaired
<1> QED BY <1>1, CompactionInvariantHolds, PTL

\* What the model was sent or has answered stays before it through any chain of compactions: its
\* answers and tool results always, the user's messages while every summary was made from a whole
\* prompt (planApproximateTokenCompaction, projectionStateThrough, pruneForContextRebase).
THEOREM NothingIsForgotten == CompactionSpec => []NothingForgotten
<1>1. CompactionInvariant => NothingForgotten
  BY HeldIsKept
<1> QED BY <1>1, CompactionInvariantHolds, PTL

\* While the context keeps its version, a prompt continues the one before it, whatever was steered
\* in, consumed, failed or restarted in between: the messages of a prompt keep their places, and
\* what is consumed later stands behind them (messageTranscriptSeq, startTurn).
THEOREM PromptsOnlyGrow == CompactionSpec => PrefixesKept
<1>1. CompactionInit => SentInvariant
  BY CompactionStarts, SentStarts DEF SentInvariant
<1>2. SentInvariant /\ [CompactionNext]_context_vars => SentInvariant'
  BY CompactionGoesOn, SentGoesOn, CompactionAssumption DEF SentInvariant
<1>3. SentInvariant /\ [CompactionNext]_context_vars
        => [sent'.version = sent.version => IsPrefix(sent.items, sent'.items)]_context_vars
  BY SentGoesOn DEF SentInvariant
<1> QED BY <1>1, <1>2, <1>3, PTL DEF CompactionSpec, PrefixesKept
=============================================================================
