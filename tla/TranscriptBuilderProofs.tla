------------------------ MODULE TranscriptBuilderProofs ------------------------
(***************************************************************************)
(* RowsAreThePrefix, PendingIsScheduled and ServedNeverRegresses, for      *)
(* every value of the constants: whichever of the append hook and the      *)
(* builder writes a version, under whichever release, its rows are the     *)
(* projection of the log up to its cursor.                                 *)
(***************************************************************************)
EXTENDS TranscriptBuilder, SequenceTheorems, WellFoundedInduction, TLAPS

-----------------------------------------------------------------------------
(* Least elements.                                                         *)

Below == {p \in Nat \X Nat : p[1] < p[2]}

LEMMA LeastIsMember ==
  ASSUME NEW S \in SUBSET Nat, S # {}
  PROVE  Min(S) \in S /\ \A y \in S : Min(S) <= y
<1>1. IsWellFoundedOn(Below, Nat)
  BY NatLessThanWellFounded DEF OpToRel, Below
<1>2. PICK x \in S : \A y \in S : ~ (<<y, x>> \in Below)
  BY <1>1, WFMin
<1>3. \A y \in S : ~(y < x)
  BY <1>2 DEF Below
<1>4. \A y \in S : x <= y
  BY <1>3
<1> QED BY <1>4 DEF Min

\* Induction over 0 .. n, by the first number that a set leaves out.
LEMMA ByFirstCounterexample ==
  ASSUME NEW n \in Nat, NEW Good \in SUBSET (0 .. n), 0 \in Good,
         \A i \in 1 .. n : i - 1 \in Good => i \in Good
  PROVE  Good = 0 .. n
<1> DEFINE Bad == (0 .. n) \ Good
<1>1. ASSUME Bad # {} PROVE FALSE
  <2>1. Bad \in SUBSET Nat
    OBVIOUS
  <2>2. Min(Bad) \in Bad /\ \A y \in Bad : Min(Bad) <= y
    BY <1>1, <2>1, LeastIsMember
  <2> DEFINE m == Min(Bad)
  <2>3. m \in 1 .. n /\ m - 1 \in 0 .. n
    BY <2>2
  <2>4. m - 1 \in Good
    BY <2>2, <2>3
  <2> QED BY <2>2, <2>3, <2>4
<1> QED BY <1>1

-----------------------------------------------------------------------------
(* Slots.                                                                  *)

Count(k) == [q \in 1 .. k |-> q]

Stages == {"active", "building", "retired", "deleted"}

IsSlot(s) ==
  /\ s = [version |-> s.version, role |-> s.role, cursor |-> s.cursor, rows |-> s.rows,
          ok |-> s.ok, failures |-> s.failures]
  /\ s.role \in Stages /\ s.cursor \in Nat

IsSlots(ss) == (\E S : ss \in Seq(S)) /\ \A i \in DOMAIN ss : IsSlot(ss[i])

\* A version holds the projection of the log up to its cursor, and refuses none of it.
IsPrefix(s) ==
  /\ s.rows = Count(s.cursor) /\ s.cursor <= LogHead
  /\ \A q \in 1 .. s.cursor : log[q] \notin Refuses[s.version]

Single(ss) == \A role \in {"active", "building"} : \A i, j \in With(ss, role) : i = j

SlotsKept(ss) == IsSlots(ss) /\ Single(ss) /\ \A i \in Live(ss) : IsPrefix(ss[i])

BuilderInvariant ==
  /\ log \in Seq(Kinds) /\ SlotsKept(slots) /\ PendingIsScheduled
  /\ wake = [on |-> wake.on, failures |-> wake.failures]
  /\ used = [starts |-> used.starts, faults |-> used.faults, stopped |-> used.stopped]

LEMMA SlotsAreSeq ==
  ASSUME NEW ss, IsSlots(ss)
  PROVE  Len(ss) \in Nat /\ DOMAIN ss = 1 .. Len(ss) /\ ss = [i \in 1 .. Len(ss) |-> ss[i]]
<1>1. PICK S : ss \in Seq(S)
  BY DEF IsSlots
<1> QED BY <1>1, LenProperties

\* What is slot by slot a slot is a sequence of them.
LEMMA SlotBySlot ==
  ASSUME NEW n \in Nat, NEW ss, ss = [i \in 1 .. n |-> ss[i]], \A i \in 1 .. n : IsSlot(ss[i])
  PROVE  IsSlots(ss) /\ Len(ss) = n /\ DOMAIN ss = 1 .. n
<1> DEFINE S == {ss[i] : i \in 1 .. n}
<1>1. ss \in [1 .. n -> S]
  OBVIOUS
<1>2. ss \in Seq(S)
  <2> HIDE DEF S
  <2> QED BY <1>1, SeqDef
<1>3. Len(ss) = n
  <2> HIDE DEF S
  <2> QED BY <1>1, <1>2, LenProperties
<1>4. DOMAIN ss = 1 .. n
  <2> HIDE DEF S
  <2> QED BY <1>1
<1> QED BY <1>2, <1>3, <1>4 DEF IsSlots

\* The fields of a slot are written one by one.
LEMMA SlotIsRecord ==
  ASSUME NEW s, IsSlot(s), NEW x
  PROVE  /\ [s EXCEPT !.role = x] = [version |-> s.version, role |-> x, cursor |-> s.cursor,
              rows |-> s.rows, ok |-> s.ok, failures |-> s.failures]
         /\ [s EXCEPT !.ok = x] = [version |-> s.version, role |-> s.role, cursor |-> s.cursor,
              rows |-> s.rows, ok |-> x, failures |-> s.failures]
         /\ [s EXCEPT !.rows = x] = [version |-> s.version, role |-> s.role, cursor |-> s.cursor,
              rows |-> x, ok |-> s.ok, failures |-> s.failures]
         /\ [s EXCEPT !.cursor = x] = [version |-> s.version, role |-> s.role, cursor |-> x,
              rows |-> s.rows, ok |-> s.ok, failures |-> s.failures]
         /\ [s EXCEPT !.failures = x] = [version |-> s.version, role |-> s.role,
              cursor |-> s.cursor, rows |-> s.rows, ok |-> s.ok, failures |-> x]
<1> DEFINE v == s.version
           r == s.role
           c == s.cursor
           w == s.rows
           o == s.ok
           f == s.failures
<1>1. s = [version |-> v, role |-> r, cursor |-> c, rows |-> w, ok |-> o, failures |-> f]
  BY DEF IsSlot
<1> HIDE DEF v, r, c, w, o, f
<1>2. /\ [s EXCEPT !.role = x] = [version |-> v, role |-> x, cursor |-> c, rows |-> w, ok |-> o, failures |-> f]
      /\ [s EXCEPT !.ok = x] = [version |-> v, role |-> r, cursor |-> c, rows |-> w, ok |-> x, failures |-> f]
      /\ [s EXCEPT !.rows = x] = [version |-> v, role |-> r, cursor |-> c, rows |-> x, ok |-> o, failures |-> f]
  BY <1>1
<1>3. /\ [s EXCEPT !.cursor = x] = [version |-> v, role |-> r, cursor |-> x, rows |-> w, ok |-> o, failures |-> f]
      /\ [s EXCEPT !.failures = x] = [version |-> v, role |-> r, cursor |-> c, rows |-> w, ok |-> o, failures |-> x]
  BY <1>1
<1> QED BY <1>2, <1>3 DEF v, r, c, w, o, f

\* A slot in another role, frozen, or with other rows, is a slot.
LEMMA SlotStaysSlot ==
  ASSUME NEW s, IsSlot(s)
  PROVE  /\ \A x \in Stages : /\ IsSlot([s EXCEPT !.role = x])
                              /\ [s EXCEPT !.role = x].role = x
                              /\ [s EXCEPT !.role = x].version = s.version
                              /\ [s EXCEPT !.role = x].cursor = s.cursor
                              /\ [s EXCEPT !.role = x].rows = s.rows
                              /\ [s EXCEPT !.role = x].ok = s.ok
         /\ \A x : /\ IsSlot([s EXCEPT !.ok = x])
                   /\ [s EXCEPT !.ok = x].role = s.role
                   /\ [s EXCEPT !.ok = x].version = s.version
                   /\ [s EXCEPT !.ok = x].cursor = s.cursor
                   /\ [s EXCEPT !.ok = x].rows = s.rows
                   /\ [s EXCEPT !.ok = x].ok = x
         /\ \A x : /\ IsSlot([s EXCEPT !.failures = x])
                   /\ [s EXCEPT !.failures = x].role = s.role
                   /\ [s EXCEPT !.failures = x].version = s.version
                   /\ [s EXCEPT !.failures = x].cursor = s.cursor
                   /\ [s EXCEPT !.failures = x].rows = s.rows
                   /\ [s EXCEPT !.failures = x].ok = s.ok
         /\ \A x : IsSlot([s EXCEPT !.rows = x]) /\ [s EXCEPT !.rows = x].role = s.role
<1>1. ASSUME NEW x \in Stages PROVE /\ IsSlot([s EXCEPT !.role = x])
                              /\ [s EXCEPT !.role = x].role = x
                              /\ [s EXCEPT !.role = x].version = s.version
                              /\ [s EXCEPT !.role = x].cursor = s.cursor
                              /\ [s EXCEPT !.role = x].rows = s.rows
                              /\ [s EXCEPT !.role = x].ok = s.ok
  BY SlotIsRecord DEF IsSlot
<1>2. ASSUME NEW x PROVE /\ IsSlot([s EXCEPT !.ok = x])
                   /\ [s EXCEPT !.ok = x].role = s.role
                   /\ [s EXCEPT !.ok = x].version = s.version
                   /\ [s EXCEPT !.ok = x].cursor = s.cursor
                   /\ [s EXCEPT !.ok = x].rows = s.rows
                   /\ [s EXCEPT !.ok = x].ok = x
  BY SlotIsRecord DEF IsSlot
<1>3. ASSUME NEW x PROVE /\ IsSlot([s EXCEPT !.failures = x])
                   /\ [s EXCEPT !.failures = x].role = s.role
                   /\ [s EXCEPT !.failures = x].version = s.version
                   /\ [s EXCEPT !.failures = x].cursor = s.cursor
                   /\ [s EXCEPT !.failures = x].rows = s.rows
                   /\ [s EXCEPT !.failures = x].ok = s.ok
  BY SlotIsRecord DEF IsSlot
<1>4. ASSUME NEW x PROVE IsSlot([s EXCEPT !.rows = x]) /\ [s EXCEPT !.rows = x].role = s.role
  BY SlotIsRecord DEF IsSlot
<1> QED BY <1>1, <1>2, <1>3, <1>4

LEMMA FrozenSlot ==
  ASSUME NEW s, IsSlot(s)
  PROVE  /\ IsSlot(Frozen(s)) /\ Frozen(s).role = s.role /\ Frozen(s).version = s.version
         /\ Frozen(s).cursor = s.cursor /\ Frozen(s).rows = s.rows /\ ~Frozen(s).ok
<1> DEFINE z == Frozen(s)
<1>1. z = [version |-> s.version, role |-> s.role, cursor |-> s.cursor, rows |-> s.rows,
           ok |-> FALSE, failures |-> s.failures]
  BY SlotIsRecord DEF Frozen
<1> HIDE DEF z
<1>2. ~z.ok
  BY <1>1
<1>3. IsSlot(z) /\ z.role = s.role /\ z.version = s.version /\ z.cursor = s.cursor
      /\ z.rows = s.rows
  <2>1. IsSlot(z)
    BY <1>1 DEF IsSlot
  <2> QED BY <1>1, <2>1
<1> QED BY <1>2, <1>3 DEF z

-----------------------------------------------------------------------------
(* What cleanup leaves.                                                    *)

LeftStep(ss, f, i) ==
  IF i = 0 THEN <<>>
  ELSE IF ss[i].role = "deleted" THEN f[i - 1] ELSE Append(f[i - 1], ss[i])

LEMMA UndeletedUnfolds ==
  ASSUME NEW ss, Len(ss) \in Nat
  PROVE  \E f : f = [i \in 0 .. Len(ss) |-> LeftStep(ss, f, i)] /\ Undeleted(ss) = f[Len(ss)]
<1> DEFINE n == Len(ss)
           Runs(f, k) == f = [i \in 0 .. k |-> LeftStep(ss, f, i)]
           Good == {k \in 0 .. n : \E f : Runs(f, k)}
<1>1. 0 \in Good
  <2> DEFINE first == [i \in 0 .. 0 |-> <<>>]
  <2>1. Runs(first, 0)
    BY DEF LeftStep
  <2> HIDE DEF first, Runs
  <2>2. \E f : Runs(f, 0)
    BY <2>1
  <2>3. 0 \in 0 .. n
    OBVIOUS
  <2> QED BY <2>2, <2>3
<1>2. ASSUME NEW i \in 1 .. n, i - 1 \in Good PROVE i \in Good
  <2>1. PICK f : Runs(f, i - 1)
    BY <1>2
  <2> DEFINE next == LeftStep(ss, f, i)
             g == [j \in 0 .. i |-> IF j < i THEN f[j] ELSE next]
  <2>2. \A j \in 0 .. i : g[j] = LeftStep(ss, g, j)
    <3> HIDE DEF next
    <3> TAKE j \in 0 .. i
    <3>1. CASE j = 0
      <4>1. g[j] = f[j] /\ f[j] = LeftStep(ss, f, j)
        BY <2>1, <3>1
      <4> QED BY <3>1, <4>1 DEF LeftStep
    <3>2. CASE j \in 1 .. i - 1
      <4>1. g[j] = f[j] /\ g[j - 1] = f[j - 1]
        BY <3>2
      <4>2. f[j] = LeftStep(ss, f, j)
        BY <2>1, <3>2
      <4> HIDE DEF g
      <4> QED BY <3>2, <4>1, <4>2 DEF LeftStep
    <3>3. CASE j = i
      <4>1. g[i] = next /\ g[i - 1] = f[i - 1]
        OBVIOUS
      <4> HIDE DEF g
      <4> QED BY <3>3, <4>1 DEF LeftStep, next
    <3> QED BY <3>1, <3>2, <3>3
  <2>3. Runs(g, i)
    <3> HIDE DEF next
    <3> QED BY <2>2
  <2> HIDE DEF g, Runs
  <2>4. \E h : Runs(h, i)
    BY <2>3
  <2> QED BY <2>4
<1>3. Good = 0 .. n
  <2> HIDE DEF Good
  <2>1. Good \in SUBSET (0 .. n)
    BY DEF Good
  <2> QED BY <1>1, <1>2, <2>1, ByFirstCounterexample
<1>4. \E f : Runs(f, n)
  BY <1>3
<1> DEFINE left == CHOOSE f : Runs(f, n)
<1>5. Runs(left, n)
  BY <1>4
<1>6. Undeleted(ss) = left[n]
  BY DEF Undeleted, LeftStep
<1> HIDE DEF left
<1> QED BY <1>5, <1>6

\* Of the first k slots, those in t.
IsRest(ss, t, k) ==
  /\ t \in Seq({ss[i] : i \in DOMAIN ss})
  /\ \A a \in 1 .. Len(t) : \E i \in 1 .. k : t[a] = ss[i] /\ ss[i].role # "deleted"
  /\ \A i \in 1 .. k : ss[i].role # "deleted" => \E a \in 1 .. Len(t) : t[a] = ss[i]
  /\ \A role \in {"active", "building"} :
       (\A i, j \in 1 .. k : ss[i].role = role /\ ss[j].role = role => i = j)
       => \A a, b \in 1 .. Len(t) : t[a].role = role /\ t[b].role = role => a = b

LEMMA RestGrows ==
  ASSUME NEW ss, Len(ss) \in Nat, DOMAIN ss = 1 .. Len(ss), NEW k \in 1 .. Len(ss), NEW t,
         IsRest(ss, t, k - 1)
  PROVE  /\ ss[k].role = "deleted" => IsRest(ss, t, k)
         /\ ss[k].role # "deleted" => IsRest(ss, Append(t, ss[k]), k)
<1>1. ASSUME ss[k].role = "deleted" PROVE IsRest(ss, t, k)
  <2>1. \A i \in 1 .. k : ss[i].role # "deleted" => i \in 1 .. k - 1
    BY <1>1
  <2>2. \A i \in 1 .. k - 1 : i \in 1 .. k
    OBVIOUS
  <2> QED BY <2>1, <2>2 DEF IsRest
<1>2. ASSUME ss[k].role # "deleted" PROVE IsRest(ss, Append(t, ss[k]), k)
  <2> DEFINE u == Append(t, ss[k])
             S == {ss[i] : i \in DOMAIN ss}
  <2>1. t \in Seq(S) /\ ss[k] \in S /\ Len(t) \in Nat
    <3>1. t \in Seq(S)
      BY DEF IsRest
    <3> QED BY <3>1, LenProperties
  <2>2. /\ u \in Seq(S) /\ Len(u) = Len(t) + 1 /\ u[Len(t) + 1] = ss[k]
        /\ \A a \in 1 .. Len(t) : u[a] = t[a]
    <3> HIDE DEF S
    <3> QED BY <2>1, AppendProperties
  <2> HIDE DEF u
  <2>3. \A i \in 1 .. k : i = k \/ i \in 1 .. k - 1
    OBVIOUS
  <2>4. \A a \in 1 .. Len(u) : a = Len(t) + 1 \/ a \in 1 .. Len(t)
    BY <2>1, <2>2
  <2>5. \A i \in 1 .. k - 1 : i \in 1 .. k
    OBVIOUS
  <2>6. k \in 1 .. k /\ Len(t) + 1 \in 1 .. Len(u) /\ \A a \in 1 .. Len(t) : a \in 1 .. Len(u)
    BY <2>1, <2>2
  <2>7. \A a \in 1 .. Len(u) : \E i \in 1 .. k : u[a] = ss[i] /\ ss[i].role # "deleted"
    <3> TAKE a \in 1 .. Len(u)
    <3>1. CASE a = Len(t) + 1
      BY <1>2, <2>2, <2>6, <3>1
    <3>2. CASE a \in 1 .. Len(t)
      <4>1. PICK i \in 1 .. k - 1 : t[a] = ss[i] /\ ss[i].role # "deleted"
        BY <3>2 DEF IsRest
      <4> QED BY <2>2, <2>5, <3>2, <4>1
    <3> QED BY <2>4, <3>1, <3>2
  <2>8. \A i \in 1 .. k : ss[i].role # "deleted" => \E a \in 1 .. Len(u) : u[a] = ss[i]
    BY <2>2, <2>3, <2>6 DEF IsRest
  <2>9. ASSUME NEW role \in {"active", "building"},
               \A i, j \in 1 .. k : ss[i].role = role /\ ss[j].role = role => i = j,
               NEW a \in 1 .. Len(u), NEW b \in 1 .. Len(u), u[a].role = role, u[b].role = role
        PROVE  a = b
    <3>1. \A x, y \in 1 .. Len(t) : t[x].role = role /\ t[y].role = role => x = y
      <4>1. \A i, j \in 1 .. k - 1 : ss[i].role = role /\ ss[j].role = role => i = j
        BY <2>5, <2>9
      <4> QED BY <4>1 DEF IsRest
    <3>2. ASSUME NEW x \in 1 .. Len(t), t[x].role = role, ss[k].role = role PROVE FALSE
      <4>1. PICK i \in 1 .. k - 1 : t[x] = ss[i]
        BY DEF IsRest
      <4>2. i = k
        BY <2>5, <2>6, <2>9, <3>2, <4>1
      <4> QED BY <4>1, <4>2
    <3>3. a \in 1 .. Len(t) => u[a] = t[a]
      BY <2>2
    <3>4. b \in 1 .. Len(t) => u[b] = t[b]
      BY <2>2
    <3> QED BY <2>2, <2>4, <2>9, <3>1, <3>2, <3>3, <3>4
  <2> QED BY <2>2, <2>7, <2>8, <2>9 DEF IsRest, u
<1> QED BY <1>1, <1>2

LEMMA UndeletedIsRest ==
  ASSUME NEW ss, Len(ss) \in Nat, DOMAIN ss = 1 .. Len(ss)
  PROVE  IsRest(ss, Undeleted(ss), Len(ss))
<1> DEFINE n == Len(ss)
<1>1. PICK f : f = [i \in 0 .. n |-> LeftStep(ss, f, i)] /\ Undeleted(ss) = f[n]
  BY UndeletedUnfolds
<1> DEFINE Good == {k \in 0 .. n : IsRest(ss, f[k], k)}
<1>2. 0 \in Good
  <2>1. f[0] = <<>>
    BY <1>1 DEF LeftStep
  <2>2. <<>> \in Seq({ss[i] : i \in DOMAIN ss}) /\ Len(<<>>) = 0
    BY EmptySeq
  <2>3. IsRest(ss, f[0], 0)
    BY <2>1, <2>2 DEF IsRest
  <2> QED BY <2>3
<1>3. ASSUME NEW k \in 1 .. n, k - 1 \in Good PROVE k \in Good
  <2>1. IsRest(ss, f[k - 1], k - 1)
    BY <1>3
  <2>2. f[k] = LeftStep(ss, f, k)
    BY <1>1
  <2>3. IsRest(ss, f[k], k)
    BY <2>1, <2>2, RestGrows DEF LeftStep
  <2> QED BY <2>3
<1>4. Good = 0 .. n
  <2> HIDE DEF Good
  <2>1. Good \in SUBSET (0 .. n)
    BY DEF Good
  <2> QED BY <1>2, <1>3, <2>1, ByFirstCounterexample
<1>5. n \in Good
  BY <1>4
<1> QED BY <1>1, <1>5

-----------------------------------------------------------------------------
(* Reconciling, building and cleaning keep every live version a prefix.    *)

\* Slots that keep their roles, and are prefixes where they are live.
LEMMA SlotsChange ==
  ASSUME NEW ss, SlotsKept(ss), NEW new, new = [i \in DOMAIN ss |-> new[i]],
         \A i \in DOMAIN ss : /\ IsSlot(new[i])
                              /\ new[i].role = ss[i].role \/ new[i].role \notin {"active", "building"},
         \A i \in DOMAIN ss : new[i].role \in {"active", "building"} => IsPrefix(new[i])
  PROVE  SlotsKept(new) /\ Len(new) = Len(ss) /\ DOMAIN new = DOMAIN ss
<1>1. Len(ss) \in Nat /\ DOMAIN ss = 1 .. Len(ss)
  BY SlotsAreSeq DEF SlotsKept
<1>2. IsSlots(new) /\ Len(new) = Len(ss) /\ DOMAIN new = DOMAIN ss
  BY <1>1, SlotBySlot
<1>3. Single(new)
  BY <1>2 DEF SlotsKept, Single, With
<1>4. \A i \in Live(new) : IsPrefix(new[i])
  BY <1>2 DEF Live, With
<1> QED BY <1>2, <1>3, <1>4 DEF SlotsKept

\* What reconciling does to a slot, and the slot it may add.
LEMMA ReconciledSlots ==
  ASSUME NEW ss, IsSlots(ss)
  PROVE  /\ IsSlots(Reconciled(ss)) /\ DOMAIN ss \subseteq DOMAIN Reconciled(ss)
         /\ \A i \in DOMAIN ss :
              Reconciled(ss)[i] = IF ss[i].role = "building" /\ ss[i].version # Current
                                  THEN [ss[i] EXCEPT !.role = "retired"] ELSE ss[i]
         /\ \A i \in DOMAIN Reconciled(ss) \ DOMAIN ss :
              \/ Reconciled(ss)[i] = New(Current, "building")
                 /\ \A j \in DOMAIN ss : Reconciled(ss)[j].role # "building"
              \/ Reconciled(ss)[i] = New(Current, "active") /\ LogHead = 0 /\ Live(ss) = {}
         /\ \A i, j \in DOMAIN Reconciled(ss) \ DOMAIN ss : i = j
<1> DEFINE n == Len(ss)
           superseded == {i \in With(ss, "building") : ss[i].version # Current}
           kept == [i \in DOMAIN ss |->
                      IF i \in superseded THEN [ss[i] EXCEPT !.role = "retired"] ELSE ss[i]]
           started == \/ \E i \in With(ss, "active") : ss[i].version = Current
                      \/ With(kept, "building") # {}
<1>1. n \in Nat /\ DOMAIN ss = 1 .. n /\ ss = [i \in 1 .. n |-> ss[i]]
      /\ \A i \in 1 .. n : IsSlot(ss[i])
  BY SlotsAreSeq DEF IsSlots
<1>2. \A i \in 1 .. n : kept[i] = IF ss[i].role = "building" /\ ss[i].version # Current
                                  THEN [ss[i] EXCEPT !.role = "retired"] ELSE ss[i]
  BY <1>1 DEF With
<1>3. \A i \in 1 .. n : IsSlot(kept[i])
  <2> TAKE i \in 1 .. n
  <2>1. "retired" \in Stages
    BY DEF Stages
  <2>2. IsSlot([ss[i] EXCEPT !.role = "retired"])
    BY <1>1, <2>1, SlotStaysSlot
  <2> HIDE DEF kept
  <2> QED BY <1>1, <1>2, <2>2
<1>4. IsSlots(kept) /\ Len(kept) = n /\ DOMAIN kept = 1 .. n
  <2>1. kept = [i \in 1 .. n |-> kept[i]]
    BY <1>1
  <2> HIDE DEF kept
  <2> QED BY <1>1, <1>3, <2>1, SlotBySlot
<1>5. ASSUME NEW r \in {"active", "building"} PROVE IsSlot(New(Current, r))
  BY DEF New, IsSlot, Stages
<1>6. ASSUME NEW tt, IsSlots(tt), Len(tt) = n, NEW x, IsSlot(x)
      PROVE  /\ IsSlots(Append(tt, x)) /\ DOMAIN Append(tt, x) = 1 .. n + 1
             /\ Append(tt, x)[n + 1] = x /\ \A i \in 1 .. n : Append(tt, x)[i] = tt[i]
  <2>1. PICK S : tt \in Seq(S)
    BY <1>6 DEF IsSlots
  <2> DEFINE T == S \cup {x}
             u == Append(tt, x)
  <2>2. tt \in Seq(T)
    <3>1. tt \in [1 .. n -> S]
      BY <1>6, <2>1, LenProperties
    <3>2. tt \in [1 .. n -> T]
      BY <3>1
    <3> HIDE DEF T
    <3> QED BY <1>1, <3>2, SeqDef
  <2>3. x \in T
    OBVIOUS
  <2> HIDE DEF T
  <2>4. u \in Seq(T) /\ Len(u) = n + 1 /\ u[n + 1] = x /\ \A i \in 1 .. n : u[i] = tt[i]
    BY <1>6, <2>2, <2>3, AppendProperties
  <2> HIDE DEF u
  <2>5. DOMAIN u = 1 .. n + 1
    BY <2>4, LenProperties
  <2>6. DOMAIN tt = 1 .. n
    BY <1>6, <2>1, LenProperties
  <2>7. \A i \in 1 .. n : IsSlot(tt[i])
    BY <1>6, <2>6 DEF IsSlots
  <2>8. \A i \in 1 .. n + 1 : i = n + 1 \/ i \in 1 .. n
    BY <1>1
  <2>9. \A i \in DOMAIN u : IsSlot(u[i])
    BY <1>6, <2>4, <2>5, <2>7, <2>8
  <2>10. IsSlots(u)
    BY <2>4, <2>9 DEF IsSlots
  <2> QED BY <2>4, <2>5, <2>10 DEF u
<1>7. \A i \in 1 .. n : i \in 1 .. n + 1 /\ i # n + 1
  BY <1>1
<1>8. \A i \in 1 .. n + 1 : i \notin 1 .. n => i = n + 1
  BY <1>1
<1> HIDE DEF kept
<1>9. CASE Live(ss) = {}
  <2>1. PICK r \in {"active", "building"} :
          /\ Reconciled(ss) = Append(ss, New(Current, r)) /\ (r = "active" => LogHead = 0)
    BY <1>9 DEF Reconciled
  <2>2. \A i \in 1 .. n : ss[i].role # "building"
    BY <1>1, <1>9 DEF Live, With
  <2>3. IsSlots(ss) /\ Len(ss) = n
    OBVIOUS
  <2> DEFINE x == New(Current, r)
             rs == Reconciled(ss)
  <2>4. IsSlot(x) /\ rs = Append(ss, x)
    BY <1>5, <2>1
  <2>5. /\ IsSlots(rs) /\ DOMAIN rs = 1 .. n + 1
        /\ rs[n + 1] = x /\ \A i \in 1 .. n : rs[i] = ss[i]
    <3> HIDE DEF x, rs
    <3> QED BY <1>6, <2>3, <2>4
  <2>6. x \in {New(Current, "active"), New(Current, "building")}
        /\ (x # New(Current, "building") => x = New(Current, "active") /\ LogHead = 0)
    BY <2>1
  <2> HIDE DEF x, rs
  <2> QED BY <1>1, <1>7, <1>8, <1>9, <2>2, <2>5, <2>6 DEF rs
<1>10. CASE Live(ss) # {} /\ started
  <2>1. Reconciled(ss) = kept
    BY <1>10 DEF Reconciled, kept
  <2> QED BY <1>1, <1>2, <1>4, <2>1
<1>11. CASE Live(ss) # {} /\ ~started
  <2> DEFINE x == New(Current, "building")
             rs == Reconciled(ss)
  <2>1. rs = Append(kept, x)
    BY <1>11 DEF Reconciled, kept
  <2>2. IsSlot(x)
    BY <1>5
  <2>3. /\ IsSlots(rs) /\ DOMAIN rs = 1 .. n + 1
        /\ rs[n + 1] = x /\ \A i \in 1 .. n : rs[i] = kept[i]
    <3> HIDE DEF x, rs
    <3> QED BY <1>4, <1>6, <2>1, <2>2
  <2>4. \A i \in 1 .. n : kept[i].role # "building"
    BY <1>4, <1>11 DEF With
  <2> HIDE DEF x, rs
  <2> QED BY <1>1, <1>2, <1>7, <1>8, <2>3, <2>4 DEF rs, x
<1> QED BY <1>9, <1>10, <1>11

LEMMA LogIsSeq ==
  ASSUME log \in Seq(Kinds)
  PROVE  LogHead \in Nat /\ DOMAIN log = 1 .. LogHead
BY LenProperties DEF LogHead

LEMMA NewIsPrefix == ASSUME LogHead \in Nat, NEW v, NEW role PROVE IsPrefix(New(v, role))
<1> DEFINE s == New(v, role)
<1>1. s.rows = <<>> /\ s.cursor = 0
  BY DEF New
<1>2. Count(0) = <<>>
  <2>1. Count(0) \in [1 .. 0 -> Nat]
    BY DEF Count
  <2>2. Count(0) \in Seq(Nat)
    BY <2>1, SeqDef
  <2>3. Len(Count(0)) = 0
    BY <2>1, <2>2, LenProperties
  <2> QED BY <2>2, <2>3, EmptySeq
<1> HIDE DEF s
<1> QED BY <1>1, <1>2 DEF IsPrefix, s

LEMMA ReconciledKeeps ==
  ASSUME NEW ss, SlotsKept(ss), LogHead \in Nat
  PROVE  /\ SlotsKept(Reconciled(ss))
         /\ \A i \in With(ss, "active") : i \in With(Reconciled(ss), "active")
                                          /\ Reconciled(ss)[i] = ss[i]
<1> DEFINE rs == Reconciled(ss)
<1>1. IsSlots(ss) /\ Single(ss) /\ \A i \in Live(ss) : IsPrefix(ss[i])
  BY DEF SlotsKept
<1>2. /\ IsSlots(rs) /\ DOMAIN ss \subseteq DOMAIN rs
      /\ \A i \in DOMAIN ss :
           rs[i] = IF ss[i].role = "building" /\ ss[i].version # Current
                   THEN [ss[i] EXCEPT !.role = "retired"] ELSE ss[i]
      /\ \A i \in DOMAIN rs \ DOMAIN ss :
           \/ rs[i] = New(Current, "building") /\ \A j \in DOMAIN ss : rs[j].role # "building"
           \/ rs[i] = New(Current, "active") /\ LogHead = 0 /\ Live(ss) = {}
      /\ \A i, j \in DOMAIN rs \ DOMAIN ss : i = j
  BY <1>1, ReconciledSlots
<1> HIDE DEF rs
<1>3. \A i \in DOMAIN ss : \/ rs[i] = ss[i]
                           \/ (ss[i].role = "building" /\ rs[i].role = "retired")
  <2> TAKE i \in DOMAIN ss
  <2>1. CASE ss[i].role = "building" /\ ss[i].version # Current
    <3>1. "retired" \in Stages /\ IsSlot(ss[i])
      BY <1>1 DEF Stages, IsSlots
    <3>2. rs[i] = [ss[i] EXCEPT !.role = "retired"]
      BY <1>2, <2>1
    <3>3. [ss[i] EXCEPT !.role = "retired"].role = "retired"
      BY <3>1, SlotStaysSlot
    <3> QED BY <2>1, <3>2, <3>3
  <2>2. CASE ~(ss[i].role = "building" /\ ss[i].version # Current)
    BY <1>2, <2>2
  <2> QED BY <2>1, <2>2
<1>4. \A i \in DOMAIN rs \ DOMAIN ss :
        /\ IsPrefix(rs[i])
        /\ \/ rs[i].role = "building" /\ \A j \in DOMAIN ss : rs[j].role # "building"
           \/ rs[i].role = "active" /\ \A j \in DOMAIN ss : ss[j].role # "active"
  <2>1. New(Current, "active").role = "active" /\ New(Current, "building").role = "building"
    BY DEF New
  <2>2. Live(ss) = {} => \A j \in DOMAIN ss : ss[j].role # "active"
    BY DEF Live, With
  <2> QED BY <1>2, <2>1, <2>2, NewIsPrefix
<1>5. Single(rs)
  <2> SUFFICES ASSUME NEW role \in {"active", "building"}, NEW i \in DOMAIN rs, NEW j \in DOMAIN rs,
                      rs[i].role = role, rs[j].role = role
               PROVE  i = j
    BY DEF Single, With
  <2>1. CASE i \in DOMAIN ss /\ j \in DOMAIN ss
    <3>1. ss[i].role = role /\ ss[j].role = role
      BY <1>3, <2>1
    <3> QED BY <1>1, <2>1, <3>1 DEF Single, With
  <2>2. CASE i \notin DOMAIN ss /\ j \notin DOMAIN ss
    <3>1. i \in DOMAIN rs \ DOMAIN ss /\ j \in DOMAIN rs \ DOMAIN ss
      BY <2>2
    <3>2. \A x, y \in DOMAIN rs \ DOMAIN ss : x = y
      BY <1>2
    <3> QED BY <3>1, <3>2
  <2>3. CASE i \in DOMAIN ss /\ j \notin DOMAIN ss
    BY <1>3, <1>4, <2>3
  <2>4. CASE i \notin DOMAIN ss /\ j \in DOMAIN ss
    BY <1>3, <1>4, <2>4
  <2> QED BY <2>1, <2>2, <2>3, <2>4
<1>6. \A i \in Live(rs) : IsPrefix(rs[i])
  BY <1>1, <1>2, <1>3, <1>4 DEF Live, With
<1>7. \A i \in With(ss, "active") : i \in With(rs, "active") /\ rs[i] = ss[i]
  BY <1>2, <1>3 DEF With
<1> QED BY <1>2, <1>5, <1>6, <1>7 DEF SlotsKept, rs

\* A count goes on with the next events.
LEMMA CountGoesOn ==
  ASSUME NEW a \in Nat, NEW b \in Nat, a <= b
  PROVE  Count(a) \o [i \in 1 .. b - a |-> a + i] = Count(b)
<1> DEFINE rest == [i \in 1 .. b - a |-> a + i]
<1>1. Count(a) \in Seq(Nat) /\ Len(Count(a)) = a /\ Count(b) \in Seq(Nat) /\ Len(Count(b)) = b
  <2>1. \A k \in Nat : Count(k) \in Seq(Nat) /\ Len(Count(k)) = k
    <3> TAKE k \in Nat
    <3>1. Count(k) \in [1 .. k -> Nat]
      BY DEF Count
    <3>2. Count(k) \in Seq(Nat)
      BY <3>1, SeqDef
    <3> QED BY <3>1, <3>2, LenProperties
  <2> QED BY <2>1
<1>2. rest \in Seq(Nat) /\ Len(rest) = b - a
  <2>1. rest \in [1 .. b - a -> Nat] /\ b - a \in Nat
    OBVIOUS
  <2> HIDE DEF rest
  <2>2. rest \in Seq(Nat)
    BY <2>1, SeqDef
  <2> QED BY <2>1, <2>2, LenProperties
<1>3. \A i \in 1 .. b - a : rest[i] = a + i
  OBVIOUS
<1> HIDE DEF rest
<1> DEFINE u == Count(a) \o rest
<1>4. u \in Seq(Nat) /\ Len(u) = b
      /\ \A i \in 1 .. b : u[i] = IF i <= a THEN Count(a)[i] ELSE rest[i - a]
  <2>1. u \in Seq(Nat) /\ Len(u) = a + (b - a)
        /\ \A i \in 1 .. a + (b - a) : u[i] = IF i <= a THEN Count(a)[i] ELSE rest[i - a]
    BY <1>1, <1>2, ConcatProperties
  <2> QED BY <2>1
<1>5. \A i \in 1 .. b : u[i] = Count(b)[i]
  BY <1>3, <1>4 DEF Count
<1> HIDE DEF u
<1>6. u = Count(b)
  BY <1>1, <1>4, <1>5, SeqEqual
<1> QED BY <1>6 DEF u, rest

\* Projecting a prefix on up to to, over events its version does not refuse.
LEMMA ProjectedIsPrefix ==
  ASSUME NEW s, IsSlot(s), s.rows = Count(s.cursor), NEW to \in Nat, s.cursor <= to
  PROVE  /\ IsSlot(Projected(s, to)) /\ Projected(s, to).role = s.role
         /\ Projected(s, to).version = s.version /\ Projected(s, to).ok = s.ok
         /\ Projected(s, to).cursor = to /\ Projected(s, to).rows = Count(to)
<1> DEFINE rows == s.rows \o [i \in 1 .. (to - s.cursor) |-> s.cursor + i]
           s1 == [s EXCEPT !.rows = rows]
<1>1. Projected(s, to) = [s1 EXCEPT !.cursor = to]
  BY DEF Projected
<1>2. rows = Count(to)
  BY CountGoesOn DEF IsSlot
<1> HIDE DEF rows
<1>3. s1 = [version |-> s.version, role |-> s.role, cursor |-> s.cursor, rows |-> rows,
            ok |-> s.ok, failures |-> s.failures]
  BY SlotIsRecord
<1> HIDE DEF s1
<1>4. IsSlot(s1) /\ s1.role = s.role /\ s1.version = s.version /\ s1.ok = s.ok /\ s1.rows = rows
  BY <1>3 DEF IsSlot
<1>5. [s1 EXCEPT !.cursor = to]
        = [version |-> s1.version, role |-> s1.role, cursor |-> to, rows |-> s1.rows,
           ok |-> s1.ok, failures |-> s1.failures]
  BY <1>4, SlotIsRecord
<1> QED BY <1>1, <1>2, <1>4, <1>5 DEF IsSlot

-----------------------------------------------------------------------------
(* A slice's pages.                                                        *)

\* A slice goes on with a version as far as it can read and project the log, and no further.
LEMMA AdvancedKeeps ==
  ASSUME BuilderAssumption, LogHead \in Nat, NEW s, IsSlot(s), IsPrefix(s)
  PROVE  /\ IsSlot(Advanced(s)) /\ IsPrefix(Advanced(s)) /\ Advanced(s).role = s.role
         /\ Advanced(s).version = s.version /\ s.cursor <= Advanced(s).cursor
<1> DEFINE limit == Min({LogHead, s.cursor + MaxEvents})
           refused == Refuses[s.version] \cup Undecodable[release]
           bad == {q \in s.cursor + 1 .. limit : log[q] \in refused}
           pages == (Min(bad) - 1 - s.cursor) \div PageEvents
           stop == s.cursor + pages * PageEvents
<1>1. s.cursor \in Nat /\ s.cursor <= LogHead /\ s.rows = Count(s.cursor)
      /\ \A q \in 1 .. s.cursor : log[q] \notin Refuses[s.version]
  BY DEF IsSlot, IsPrefix
<1>2. MaxEvents \in Nat \ {0} /\ PageEvents \in Nat \ {0}
  BY DEF BuilderAssumption
<1>3. limit \in Nat /\ s.cursor <= limit /\ limit <= LogHead
  <2> DEFINE S == {LogHead, s.cursor + MaxEvents}
  <2>1. S \in SUBSET Nat /\ S # {}
    BY <1>1, <1>2
  <2>2. LogHead \in S
    OBVIOUS
  <2>3. \A x \in S : s.cursor <= x
    BY <1>1, <1>2
  <2> HIDE DEF S
  <2>4. Min(S) \in S /\ \A y \in S : Min(S) <= y
    BY <2>1, LeastIsMember
  <2> QED BY <2>1, <2>2, <2>3, <2>4 DEF S
<1> HIDE DEF limit
<1>4. ASSUME NEW to \in Nat, s.cursor <= to, to <= LogHead,
             \A q \in s.cursor + 1 .. to : log[q] \notin Refuses[s.version]
      PROVE  /\ IsSlot(Projected(s, to)) /\ IsPrefix(Projected(s, to))
             /\ Projected(s, to).role = s.role /\ Projected(s, to).version = s.version
             /\ Projected(s, to).cursor = to
  <2> DEFINE p == Projected(s, to)
  <2>1. /\ IsSlot(p) /\ p.role = s.role /\ p.version = s.version /\ p.cursor = to
        /\ p.rows = Count(to)
    BY <1>1, <1>4, ProjectedIsPrefix
  <2> HIDE DEF p
  <2>2. \A q \in 1 .. to : q \in 1 .. s.cursor \/ q \in s.cursor + 1 .. to
    BY <1>1, <1>4
  <2>3. IsPrefix(p)
    BY <1>1, <1>4, <2>1, <2>2 DEF IsPrefix
  <2> QED BY <2>1, <2>3 DEF p
<1>5. CASE bad = {}
  <2>1. Advanced(s) = Projected(s, limit)
    BY <1>5 DEF Advanced, limit
  <2>2. \A q \in s.cursor + 1 .. limit : log[q] \notin Refuses[s.version]
    BY <1>5
  <2> HIDE DEF bad
  <2> QED BY <1>3, <1>4, <2>1, <2>2
<1>6. CASE bad # {}
  <2>1. bad \in SUBSET Nat
    BY <1>1, <1>3
  <2>2. Min(bad) \in bad /\ \A y \in bad : Min(bad) <= y
    <3> HIDE DEF bad
    <3> QED BY <1>6, <2>1, LeastIsMember
  <2> DEFINE m == Min(bad)
             x == m - 1 - s.cursor
  <2>3. m \in s.cursor + 1 .. limit
    BY <2>2
  <2>4. m \in Nat /\ x \in Nat
    <3> HIDE DEF m
    <3> QED BY <1>1, <1>3, <2>3
  <2>5. (x \div PageEvents) * PageEvents \in Nat /\ (x \div PageEvents) * PageEvents <= x
    <3> HIDE DEF x
    <3>1. PageEvents \in Nat /\ PageEvents > 0
      BY <1>2
    <3>2. \A y \in Nat : \A p \in Nat : p > 0 => (y \div p) * p \in Nat /\ (y \div p) * p <= y
      OBVIOUS
    <3> QED BY <2>4, <3>1, <3>2
  <2>6. Advanced(s) = Frozen(Projected(s, stop))
    BY <1>6 DEF Advanced, limit
  <2> DEFINE y == (x \div PageEvents) * PageEvents
  <2>7. stop = s.cursor + y
    OBVIOUS
  <2>8. \A q \in s.cursor + 1 .. limit : q < m => log[q] \notin Refuses[s.version]
    <3> TAKE q \in s.cursor + 1 .. limit
    <3>1. q \in Nat /\ m \in Nat
      BY <1>1, <1>3, <2>4
    <3>2. q \in bad => m <= q
      BY <2>2
    <3>3. q \notin bad => log[q] \notin refused
      OBVIOUS
    <3> HIDE DEF bad, m
    <3> QED BY <3>1, <3>2, <3>3
  <2>9. y \in Nat /\ y <= x
    BY <2>5
  <2>10. x = m - 1 - s.cursor
    OBVIOUS
  <2> HIDE DEF bad, m, x, y, stop
  <2>11. stop \in Nat /\ s.cursor <= stop /\ stop <= LogHead /\ stop < m /\ stop <= limit
    BY <1>1, <1>3, <2>3, <2>4, <2>7, <2>9, <2>10
  <2>12. \A q \in s.cursor + 1 .. stop : log[q] \notin Refuses[s.version]
    <3> TAKE q \in s.cursor + 1 .. stop
    <3>1. q \in s.cursor + 1 .. limit /\ q < m
      BY <1>1, <1>3, <2>4, <2>11
    <3> QED BY <2>8, <3>1
  <2> DEFINE p == Projected(s, stop)
             z == Frozen(p)
  <2>13. /\ IsSlot(p) /\ IsPrefix(p) /\ p.role = s.role /\ p.version = s.version
         /\ p.cursor = stop
    BY <1>4, <2>11, <2>12
  <2> HIDE DEF p
  <2>14. /\ IsSlot(z) /\ z.role = p.role /\ z.version = p.version /\ z.cursor = p.cursor
         /\ z.rows = p.rows
    BY <2>13, SlotStaysSlot DEF Frozen
  <2> HIDE DEF z
  <2>15. IsPrefix(z)
    BY <2>13, <2>14 DEF IsPrefix
  <2>16. Advanced(s) = z
    BY <2>6 DEF p, z
  <2> QED BY <2>11, <2>13, <2>14, <2>15, <2>16
<1> QED BY <1>5, <1>6

-----------------------------------------------------------------------------
(* Activation and cleanup.                                                 *)

\* Whatever is served before is served after, as far or further.
Serves(before, after) ==
  \A i \in With(before, "active") : \E j \in With(after, "active") :
    after[j].cursor >= before[i].cursor

LEMMA ServesOn ==
  ASSUME NEW a, IsSlots(a), NEW b, IsSlots(b), NEW c, IsSlots(c), Serves(a, b), Serves(b, c)
  PROVE  Serves(a, c)
<1> SUFFICES ASSUME NEW i \in With(a, "active")
             PROVE  \E k \in With(c, "active") : c[k].cursor >= a[i].cursor
  BY DEF Serves
<1>1. PICK j \in With(b, "active") : b[j].cursor >= a[i].cursor
  BY DEF Serves
<1>2. PICK k \in With(c, "active") : c[k].cursor >= b[j].cursor
  BY DEF Serves
<1>3. a[i].cursor \in Nat /\ b[j].cursor \in Nat /\ c[k].cursor \in Nat
  BY DEF With, IsSlots, IsSlot
<1>4. c[k].cursor >= a[i].cursor
  BY <1>1, <1>2, <1>3
<1> QED BY <1>4

\* A build that is activated is at the head: what it replaces is not ahead of it.
LEMMA SwitchedKeeps ==
  ASSUME NEW ss, SlotsKept(ss), LogHead \in Nat, NEW i \in Live(ss), Activated(ss, i)
  PROVE  SlotsKept(Switched(ss, i)) /\ Serves(ss, Switched(ss, i))
<1> DEFINE new == Switched(ss, i)
<1>1. IsSlots(ss) /\ Single(ss) /\ \A j \in Live(ss) : IsPrefix(ss[j])
  BY DEF SlotsKept
<1>2. Len(ss) \in Nat /\ DOMAIN ss = 1 .. Len(ss) /\ \A j \in DOMAIN ss : IsSlot(ss[j])
  BY <1>1, SlotsAreSeq DEF IsSlots
<1>3. /\ DOMAIN new = DOMAIN ss /\ new = [j \in 1 .. Len(ss) |-> new[j]]
      /\ \A j \in DOMAIN ss :
           new[j] = IF j = i THEN [ss[j] EXCEPT !.role = "active"]
                    ELSE IF ss[j].role = "active" THEN [ss[j] EXCEPT !.role = "retired"]
                    ELSE ss[j]
  BY <1>2 DEF Switched
<1>4. i \in DOMAIN ss /\ ss[i].role = "building" /\ ss[i].cursor = LogHead /\ IsPrefix(ss[i])
  BY <1>1 DEF Live, With, Activated
<1> HIDE DEF new
<1>5. \A j \in DOMAIN ss :
        /\ IsSlot(new[j]) /\ new[j].version = ss[j].version /\ new[j].cursor = ss[j].cursor
        /\ new[j].rows = ss[j].rows
        /\ new[j].role = IF j = i THEN "active"
                         ELSE IF ss[j].role = "active" THEN "retired" ELSE ss[j].role
  <2> TAKE j \in DOMAIN ss
  <2>1. IsSlot(ss[j]) /\ "active" \in Stages /\ "retired" \in Stages
    BY <1>2 DEF Stages
  <2>2. CASE j = i
    <3>1. new[j] = [ss[j] EXCEPT !.role = "active"]
      BY <1>3, <2>2
    <3> QED BY <2>1, <2>2, <3>1, SlotStaysSlot
  <2>3. CASE j # i /\ ss[j].role = "active"
    <3>1. new[j] = [ss[j] EXCEPT !.role = "retired"]
      BY <1>3, <2>3
    <3> QED BY <2>1, <2>3, <3>1, SlotStaysSlot
  <2>4. CASE j # i /\ ss[j].role # "active"
    <3>1. new[j] = ss[j]
      BY <1>3, <2>4
    <3> QED BY <2>1, <2>4, <3>1
  <2> QED BY <2>2, <2>3, <2>4
<1>6. IsSlots(new) /\ Len(new) = Len(ss)
  <2>1. \A j \in 1 .. Len(ss) : IsSlot(new[j])
    BY <1>2, <1>5
  <2> QED BY <1>2, <1>3, <2>1, SlotBySlot
<1>7. \A j \in DOMAIN ss : new[j].role = "active" => j = i
  BY <1>5
<1>8. \A j \in DOMAIN ss : new[j].role = "building" => ss[j].role = "building"
  BY <1>5
<1>9. Single(new)
  <2> SUFFICES ASSUME NEW role \in {"active", "building"}, NEW j \in DOMAIN new, NEW k \in DOMAIN new,
                      new[j].role = role, new[k].role = role
               PROVE  j = k
    BY DEF Single, With
  <2>1. CASE role = "active"
    BY <1>3, <1>7, <2>1
  <2>2. CASE role = "building"
    <3>1. ss[j].role = role /\ ss[k].role = role
      BY <1>3, <1>8, <2>2
    <3> QED BY <1>1, <1>3, <3>1 DEF Single, With
  <2> QED BY <2>1, <2>2
<1>10. \A j \in Live(new) : IsPrefix(new[j])
  <2> TAKE j \in Live(new)
  <2>1. j \in DOMAIN ss /\ (new[j].role = "active" \/ new[j].role = "building")
    BY <1>3 DEF Live, With
  <2>2. j \in Live(ss)
    BY <1>4, <1>7, <1>8, <2>1 DEF Live, With
  <2>3. IsPrefix(ss[j])
    BY <1>1, <2>2
  <2>4. new[j].version = ss[j].version /\ new[j].cursor = ss[j].cursor /\ new[j].rows = ss[j].rows
    BY <1>5, <2>1
  <2> QED BY <2>3, <2>4 DEF IsPrefix
<1>11. Serves(ss, new)
  <2>1. i \in With(new, "active") /\ new[i].cursor = LogHead
    BY <1>3, <1>4, <1>5 DEF With
  <2>2. \A j \in With(ss, "active") : ss[j].cursor \in Nat /\ ss[j].cursor <= LogHead
    BY <1>1, <1>2 DEF Live, With, IsPrefix, IsSlot
  <2>3. \A j \in With(ss, "active") : new[i].cursor >= ss[j].cursor
    BY <2>1, <2>2
  <2> QED BY <2>1, <2>3 DEF Serves
<1> QED BY <1>6, <1>9, <1>10, <1>11 DEF SlotsKept, new

\* Cleanup deletes of what is retired, and nothing else.
LEMMA CleanedKeeps ==
  ASSUME NEW ss, SlotsKept(ss)
  PROVE  SlotsKept(Cleaned(ss)) /\ Serves(ss, Cleaned(ss))
<1> DEFINE retired == With(ss, "retired")
           left[i \in 0 .. Len(ss)] ==
             IF i = 0 THEN MaxDeletedRows
             ELSE IF i \in retired THEN left[i - 1] - Min({left[i - 1], Len(ss[i].rows)})
             ELSE left[i - 1]
           shrunk == [i \in DOMAIN ss |->
                        IF i \notin retired THEN ss[i]
                        ELSE IF left[i] > 0 THEN [ss[i] EXCEPT !.role = "deleted"]
                        ELSE [ss[i] EXCEPT !.rows = SubSeq(@, 1 + left[i - 1], Len(@))]]
           new == Undeleted(shrunk)
<1>1. Cleaned(ss) = new
  BY DEF Cleaned
<1>2. IsSlots(ss) /\ Single(ss) /\ \A j \in Live(ss) : IsPrefix(ss[j])
  BY DEF SlotsKept
<1>3. Len(ss) \in Nat /\ DOMAIN ss = 1 .. Len(ss) /\ \A j \in DOMAIN ss : IsSlot(ss[j])
  BY <1>2, SlotsAreSeq DEF IsSlots
<1> HIDE DEF left
<1>4. /\ shrunk = [i \in DOMAIN ss |-> shrunk[i]] /\ DOMAIN shrunk = DOMAIN ss
      /\ \A i \in DOMAIN ss :
           \/ i \notin retired /\ shrunk[i] = ss[i]
           \/ i \in retired /\ shrunk[i] = [ss[i] EXCEPT !.role = "deleted"]
           \/ \E rows : i \in retired /\ shrunk[i] = [ss[i] EXCEPT !.rows = rows]
  OBVIOUS
<1> HIDE DEF shrunk
<1>5. \A i \in DOMAIN ss :
        /\ IsSlot(shrunk[i])
        /\ \/ shrunk[i] = ss[i]
           \/ (ss[i].role = "retired" /\ shrunk[i].role \in {"deleted", "retired"})
  <2> TAKE i \in DOMAIN ss
  <2>1. IsSlot(ss[i]) /\ "deleted" \in Stages
    BY <1>3 DEF Stages
  <2>2. i \in retired => ss[i].role = "retired"
    BY DEF With
  <2>3. CASE i \notin retired /\ shrunk[i] = ss[i]
    BY <2>1, <2>3
  <2>4. CASE i \in retired /\ shrunk[i] = [ss[i] EXCEPT !.role = "deleted"]
    BY <2>1, <2>2, <2>4, SlotStaysSlot
  <2>5. CASE \E rows : i \in retired /\ shrunk[i] = [ss[i] EXCEPT !.rows = rows]
    BY <2>1, <2>2, <2>5, SlotStaysSlot
  <2> QED BY <1>4, <2>3, <2>4, <2>5
<1> HIDE DEF retired
<1>6. \A i \in DOMAIN ss : shrunk[i].role \in {"active", "building"} => shrunk[i] = ss[i]
  BY <1>5
<1>7. SlotsKept(shrunk) /\ Len(shrunk) = Len(ss) /\ DOMAIN shrunk = DOMAIN ss
  <2>1. \A i \in DOMAIN ss : /\ IsSlot(shrunk[i])
                             /\ \/ shrunk[i].role = ss[i].role
                                \/ shrunk[i].role \notin {"active", "building"}
    BY <1>5
  <2>2. \A i \in DOMAIN ss : shrunk[i].role \in {"active", "building"} => IsPrefix(shrunk[i])
    BY <1>2, <1>6 DEF Live, With
  <2> QED BY <1>4, <2>1, <2>2, SlotsChange
<1>8. IsRest(shrunk, new, Len(shrunk)) /\ DOMAIN shrunk = 1 .. Len(shrunk)
  BY <1>3, <1>7, UndeletedIsRest
<1> HIDE DEF new
<1>9. new \in Seq({shrunk[i] : i \in DOMAIN shrunk}) /\ DOMAIN new = 1 .. Len(new)
  BY <1>8, LenProperties DEF IsRest
<1>10. \A a \in DOMAIN new : \E i \in DOMAIN shrunk : new[a] = shrunk[i]
  BY <1>8, <1>9 DEF IsRest
<1>11. IsSlots(new)
  <2>1. \A a \in DOMAIN new : IsSlot(new[a])
    BY <1>5, <1>7, <1>10
  <2> QED BY <1>9, <2>1 DEF IsSlots
<1>12. Single(new)
  <2> SUFFICES ASSUME NEW role \in {"active", "building"}, NEW a \in DOMAIN new, NEW b \in DOMAIN new,
                      new[a].role = role, new[b].role = role
               PROVE  a = b
    BY DEF Single, With
  <2>1. \A i, j \in 1 .. Len(shrunk) : shrunk[i].role = role /\ shrunk[j].role = role => i = j
    BY <1>7, <1>8 DEF SlotsKept, Single, With
  <2>2. \A x, y \in 1 .. Len(new) : new[x].role = role /\ new[y].role = role => x = y
    BY <1>8, <2>1 DEF IsRest
  <2> QED BY <1>9, <2>2
<1>13. \A a \in Live(new) : IsPrefix(new[a])
  <2> TAKE a \in Live(new)
  <2>1. a \in DOMAIN new /\ new[a].role \in {"active", "building"}
    BY DEF Live, With
  <2>2. PICK i \in DOMAIN shrunk : new[a] = shrunk[i]
    BY <1>10, <2>1
  <2>3. i \in Live(shrunk)
    BY <2>1, <2>2 DEF Live, With
  <2> QED BY <1>7, <2>2, <2>3 DEF SlotsKept
<1>14. Serves(ss, new)
  <2> SUFFICES ASSUME NEW i \in With(ss, "active")
               PROVE  \E a \in With(new, "active") : new[a].cursor >= ss[i].cursor
    BY DEF Serves
  <2>1. i \in DOMAIN ss /\ ss[i].role = "active"
    BY DEF With
  <2>2. shrunk[i] = ss[i]
    BY <1>5, <2>1
  <2>3. i \in 1 .. Len(shrunk) /\ shrunk[i].role # "deleted"
    BY <1>3, <1>7, <2>1, <2>2
  <2>4. PICK a \in 1 .. Len(new) : new[a] = shrunk[i]
    BY <1>8, <2>3 DEF IsRest
  <2>5. a \in With(new, "active") /\ new[a].cursor = ss[i].cursor
    BY <1>9, <2>1, <2>2, <2>4 DEF With
  <2>6. ss[i].cursor \in Nat
    BY <1>3, <2>1 DEF IsSlot
  <2> QED BY <2>5, <2>6
<1> QED BY <1>1, <1>11, <1>12, <1>13, <1>14 DEF SlotsKept

-----------------------------------------------------------------------------
(* The slices.                                                             *)

\* A slice, and a slice that is charged for, keep every live version a prefix and serve on.
LEMMA TargetsAreLive ==
  ASSUME NEW ss
  PROVE  \A i \in Targets(ss) : i \in Live(ss) /\ i \in DOMAIN ss /\ ss[i].ok
BY DEF Targets, Live, With

\* A slot that is only written where it is a target stays what it was, or goes on.
LEMMA TargetsKeep ==
  ASSUME NEW ss, SlotsKept(ss), NEW new, new = [i \in DOMAIN ss |-> new[i]],
         \A i \in DOMAIN ss : i \notin Targets(ss) => new[i] = ss[i],
         \A i \in Targets(ss) : /\ IsSlot(new[i]) /\ IsPrefix(new[i])
                                /\ new[i].role = ss[i].role /\ ss[i].cursor <= new[i].cursor
  PROVE  SlotsKept(new) /\ Live(new) = Live(ss) /\ Serves(ss, new)
<1>1. /\ \A i \in DOMAIN ss : IsSlot(ss[i])
      /\ \A i \in Live(ss) : IsPrefix(ss[i])
  BY DEF SlotsKept, IsSlots
<1>2. \A i \in DOMAIN ss : /\ IsSlot(new[i]) /\ new[i].role = ss[i].role
                           /\ ss[i].cursor <= new[i].cursor
  <2> TAKE i \in DOMAIN ss
  <2>1. CASE i \in Targets(ss)
    BY <2>1
  <2>2. CASE i \notin Targets(ss)
    <3>1. new[i] = ss[i] /\ IsSlot(ss[i])
      BY <1>1, <2>2
    <3>2. ss[i].cursor \in Nat
      BY <3>1 DEF IsSlot
    <3> QED BY <3>1, <3>2
  <2> QED BY <2>1, <2>2
<1>3. DOMAIN new = DOMAIN ss
  OBVIOUS
<1>4. \A role : With(new, role) = With(ss, role)
  BY <1>2, <1>3 DEF With
<1>5. \A i \in DOMAIN ss : new[i].role \in {"active", "building"} => IsPrefix(new[i])
  <2> TAKE i \in DOMAIN ss
  <2>1. CASE i \in Targets(ss)
    BY <2>1
  <2>2. CASE i \notin Targets(ss) /\ new[i].role \in {"active", "building"}
    <3>1. i \in Live(ss) /\ new[i] = ss[i]
      BY <1>2, <2>2 DEF Live, With
    <3> QED BY <1>1, <3>1
  <2> QED BY <2>1, <2>2
<1>6. SlotsKept(new)
  BY <1>2, <1>5, SlotsChange
<1>7. Live(new) = Live(ss)
  BY <1>4 DEF Live
<1>8. Serves(ss, new)
  <2> SUFFICES ASSUME NEW i \in With(ss, "active")
               PROVE  \E j \in With(new, "active") : new[j].cursor >= ss[i].cursor
    BY DEF Serves
  <2>1. i \in With(new, "active") /\ i \in DOMAIN ss
    BY <1>4 DEF With
  <2>2. ss[i].cursor <= new[i].cursor /\ IsSlot(new[i]) /\ IsSlot(ss[i])
    BY <1>1, <1>2, <2>1
  <2>3. new[i].cursor >= ss[i].cursor
    BY <2>2 DEF IsSlot
  <2> QED BY <2>1, <2>3
<1> QED BY <1>6, <1>7, <1>8

LEMMA ReconciledServes ==
  ASSUME NEW ss, SlotsKept(ss), LogHead \in Nat
  PROVE  Serves(ss, Reconciled(ss))
<1>1. \A i \in With(ss, "active") : i \in With(Reconciled(ss), "active")
                                    /\ Reconciled(ss)[i] = ss[i]
  BY ReconciledKeeps
<1>2. \A i \in With(ss, "active") : ss[i].cursor \in Nat
  BY DEF SlotsKept, IsSlots, IsSlot, With
<1>3. \A i \in With(ss, "active") : Reconciled(ss)[i].cursor >= ss[i].cursor
  BY <1>1, <1>2
<1> QED BY <1>1, <1>3 DEF Serves

LEMMA RunSliceKeeps ==
  ASSUME BuilderAssumption, LogHead \in Nat, SlotsKept(slots), RunSlice
  PROVE  SlotsKept(slots') /\ Serves(slots, slots')
<1> DEFINE rs == Reconciled(slots)
           advanced == [i \in DOMAIN rs |->
                          IF i \in Targets(rs) THEN [Advanced(rs[i]) EXCEPT !.failures = 0]
                          ELSE rs[i]]
           activated == {i \in Targets(rs) : Activated(advanced, i)}
           last == IF activated = {} THEN advanced ELSE Switched(advanced, Min(activated))
<1>1. slots' = Cleaned(last)
  BY DEF RunSlice
<1>2. SlotsKept(rs) /\ Serves(slots, rs)
  BY ReconciledKeeps, ReconciledServes
<1>3. \A i \in Targets(rs) : i \in Live(rs) /\ i \in DOMAIN rs
  <2> HIDE DEF rs
  <2> QED BY TargetsAreLive
<1>4. \A i \in Targets(rs) : IsSlot(rs[i]) /\ IsPrefix(rs[i])
  <2> HIDE DEF rs
  <2> QED BY <1>2, <1>3 DEF SlotsKept, IsSlots
<1>5. /\ advanced = [i \in DOMAIN rs |-> advanced[i]]
      /\ \A i \in DOMAIN rs : i \notin Targets(rs) => advanced[i] = rs[i]
      /\ \A i \in DOMAIN rs : i \in Targets(rs)
                              => advanced[i] = [Advanced(rs[i]) EXCEPT !.failures = 0]
  <2> HIDE DEF rs
  <2> QED OBVIOUS
<1> HIDE DEF advanced
<1>6. \A i \in Targets(rs) : /\ IsSlot(advanced[i]) /\ IsPrefix(advanced[i])
                             /\ advanced[i].role = rs[i].role
                             /\ rs[i].cursor <= advanced[i].cursor
  <2> TAKE i \in Targets(rs)
  <2> DEFINE s == rs[i]
             a == Advanced(s)
             z == [a EXCEPT !.failures = 0]
  <2>1. IsSlot(s) /\ IsPrefix(s) /\ advanced[i] = z
    BY <1>3, <1>4, <1>5
  <2> HIDE DEF s
  <2>2. IsSlot(a) /\ IsPrefix(a) /\ a.role = s.role /\ s.cursor <= a.cursor
    BY <2>1, AdvancedKeeps
  <2> HIDE DEF a
  <2>3. /\ IsSlot(z) /\ z.role = a.role /\ z.version = a.version /\ z.cursor = a.cursor
        /\ z.rows = a.rows
    BY <2>2, SlotStaysSlot
  <2> HIDE DEF z
  <2>4. IsPrefix(z)
    BY <2>2, <2>3 DEF IsPrefix
  <2> QED BY <2>1, <2>2, <2>3, <2>4 DEF s
<1> HIDE DEF rs
<1>7. SlotsKept(advanced) /\ Live(advanced) = Live(rs) /\ Serves(rs, advanced)
  BY <1>2, <1>5, <1>6, TargetsKeep
<1>8. SlotsKept(last) /\ Serves(advanced, last)
  <2>1. CASE activated = {}
    <3>1. last = advanced
      BY <2>1
    <3>2. \A i \in With(advanced, "active") : advanced[i].cursor >= advanced[i].cursor
      BY <1>7 DEF SlotsKept, IsSlots, IsSlot, With
    <3> HIDE DEF last
    <3> QED BY <1>7, <3>1, <3>2 DEF Serves
  <2>2. CASE activated # {}
    <3> DEFINE i == Min(activated)
    <3>1. activated \in SUBSET Nat
      <4>1. \A j \in activated : j \in DOMAIN rs
        BY <1>3
      <4>2. DOMAIN rs = 1 .. Len(rs) /\ Len(rs) \in Nat
        BY <1>2, SlotsAreSeq DEF SlotsKept
      <4> HIDE DEF activated
      <4> QED BY <4>1, <4>2
    <3>2. i \in activated
      <4> HIDE DEF activated
      <4> QED BY <2>2, <3>1, LeastIsMember
    <3> HIDE DEF i
    <3>3. i \in Live(advanced) /\ Activated(advanced, i)
      BY <1>3, <1>7, <3>2
    <3>4. last = Switched(advanced, i)
      BY <2>2 DEF i
    <3> HIDE DEF last
    <3> QED BY <1>7, <3>3, <3>4, SwitchedKeeps
  <2> QED BY <2>1, <2>2
<1> HIDE DEF last
<1>9. SlotsKept(slots') /\ Serves(last, slots')
  BY <1>1, <1>8, CleanedKeeps
<1>10. IsSlots(slots) /\ IsSlots(rs) /\ IsSlots(advanced) /\ IsSlots(last) /\ IsSlots(slots')
  BY <1>2, <1>7, <1>8, <1>9 DEF SlotsKept
<1>11. Serves(slots, advanced)
  BY <1>2, <1>7, <1>10, ServesOn
<1>12. Serves(slots, last)
  BY <1>8, <1>10, <1>11, ServesOn
<1> QED BY <1>9, <1>10, <1>12, ServesOn

LEMMA ChargedKeeps ==
  ASSUME LogHead \in Nat, SlotsKept(slots), Charged
  PROVE  SlotsKept(slots') /\ Serves(slots, slots')
<1> DEFINE rs == Reconciled(slots)
           frozen == {i \in Targets(rs) : rs[i].failures + 1 >= MaxSliceFailures}
<1>1. slots' = [i \in DOMAIN rs |->
                  IF i \notin Targets(rs) THEN rs[i]
                  ELSE [rs[i] EXCEPT !.failures = @ + 1, !.ok = i \notin frozen]]
  BY DEF Charged
<1>2. SlotsKept(rs) /\ Serves(slots, rs)
  BY ReconciledKeeps, ReconciledServes
<1> HIDE DEF rs, frozen
<1>3. \A i \in Targets(rs) : i \in DOMAIN rs /\ IsSlot(rs[i]) /\ IsPrefix(rs[i])
  BY <1>2, TargetsAreLive DEF SlotsKept, IsSlots
<1>4. /\ slots' = [i \in DOMAIN rs |-> slots'[i]]
      /\ \A i \in DOMAIN rs : i \notin Targets(rs) => slots'[i] = rs[i]
      /\ \A i \in DOMAIN rs : i \in Targets(rs) =>
           slots'[i] = [rs[i] EXCEPT !.failures = @ + 1, !.ok = i \notin frozen]
  BY <1>1
<1>5. \A i \in Targets(rs) : /\ IsSlot(slots'[i]) /\ IsPrefix(slots'[i])
                             /\ slots'[i].role = rs[i].role
                             /\ rs[i].cursor <= slots'[i].cursor
  <2> TAKE i \in Targets(rs)
  <2> DEFINE s == rs[i]
             a == [s EXCEPT !.failures = s.failures + 1]
             sound == i \notin frozen
             z == [a EXCEPT !.ok = sound]
  <2>1. IsSlot(s) /\ IsPrefix(s)
    BY <1>3
  <2>2. slots'[i] = z
    BY <1>3, <1>4
  <2> HIDE DEF s
  <2>3. IsSlot(a) /\ a.role = s.role /\ s.cursor = a.cursor /\ a.version = s.version
        /\ a.rows = s.rows
    BY <2>1, SlotStaysSlot
  <2> HIDE DEF a, sound
  <2>4. /\ IsSlot(z) /\ z.role = a.role /\ z.version = a.version /\ z.cursor = a.cursor
        /\ z.rows = a.rows
    BY <2>3, SlotStaysSlot
  <2> HIDE DEF z
  <2>5. IsPrefix(z)
    BY <2>1, <2>3, <2>4 DEF IsPrefix
  <2>6. s.cursor <= z.cursor
    BY <2>1, <2>3, <2>4 DEF IsSlot
  <2> QED BY <2>2, <2>3, <2>4, <2>5, <2>6 DEF s
<1>6. SlotsKept(slots') /\ Serves(rs, slots')
  BY <1>2, <1>4, <1>5, TargetsKeep
<1>7. IsSlots(slots) /\ IsSlots(rs) /\ IsSlots(slots')
  BY <1>2, <1>6 DEF SlotsKept
<1> QED BY <1>2, <1>6, <1>7, ServesOn

-----------------------------------------------------------------------------
(* The append hook.                                                        *)

\* The log after a batch: longer, and the same where it was.
LEMMA LogGrows ==
  ASSUME log \in Seq(Kinds), NEW n \in 1 .. 2, NEW batch \in [1 .. n -> Kinds],
         log' = log \o batch
  PROVE  /\ log' \in Seq(Kinds) /\ LogHead' = LogHead + n /\ LogHead \in Nat
         /\ \A q \in 1 .. LogHead : log'[q] = log[q]
<1>1. batch \in Seq(Kinds) /\ Len(batch) = n
  <2>1. n \in Nat
    OBVIOUS
  <2>2. batch \in Seq(Kinds)
    BY <2>1, SeqDef
  <2> QED BY <2>1, <2>2, LenProperties
<1>2. log \in Seq(Kinds) /\ Len(log) \in Nat
  BY LenProperties
<1>3. /\ log \o batch \in Seq(Kinds) /\ Len(log \o batch) = Len(log) + Len(batch)
      /\ \A q \in 1 .. Len(log) + Len(batch) :
           (log \o batch)[q] = IF q <= Len(log) THEN log[q] ELSE batch[q - Len(log)]
  BY <1>1, <1>2, ConcatProperties
<1>4. \A q \in 1 .. Len(log) : q \in 1 .. Len(log) + Len(batch) /\ q <= Len(log)
  BY <1>1, <1>2
<1> QED BY <1>1, <1>2, <1>3, <1>4 DEF LogHead

\* The hook takes a version that is at the head to the new head, or freezes it where it is.
LEMMA MaintainedKeeps ==
  ASSUME NEW ss, SlotsKept(ss), log \in Seq(Kinds), log' \in Seq(Kinds), LogHead < LogHead',
         \A q \in 1 .. LogHead : log'[q] = log[q], NEW new, new = Maintained(ss)
  PROVE  /\ IsSlots(new) /\ Single(new) /\ Serves(ss, new) /\ DOMAIN new = DOMAIN ss
         /\ \A i \in Live(new) : /\ new[i].rows = Count(new[i].cursor) /\ new[i].cursor <= LogHead'
                                 /\ \A q \in 1 .. new[i].cursor :
                                      log'[q] \notin Refuses[new[i].version]
         /\ \A i \in DOMAIN ss : /\ new[i].role = ss[i].role /\ new[i].version = ss[i].version
                                 /\ new[i].ok => ss[i].ok
                                 /\ new[i].cursor < LogHead' /\ new[i].ok /\ i \in Live(ss)
                                    /\ Carried(ss[i].version)
                                    => ss[i].cursor < LogHead
<1>1. LogHead \in Nat /\ \A q \in 1 .. LogHead : log'[q] = log[q]
  BY LenProperties DEF LogHead
<1>2. LogHead' \in Nat /\ Len(log') = LogHead' /\ LogHead < LogHead'
  BY LenProperties DEF LogHead
<1>3. /\ IsSlots(ss) /\ Single(ss) /\ (\A i \in Live(ss) : IsPrefix(ss[i]))
      /\ (\A i \in DOMAIN ss : IsSlot(ss[i])) /\ Len(ss) \in Nat /\ DOMAIN ss = 1 .. Len(ss)
  BY SlotsAreSeq DEF SlotsKept, IsSlots
<1> DEFINE Follows(i) == i \in Live(ss) /\ ss[i].ok /\ Carried(ss[i].version)
                         /\ ss[i].cursor = LogHead
           refused(i) == Refused(ss[i].version, LogHead + 1 .. Len(log'))
<1>4. /\ new = [i \in DOMAIN ss |-> new[i]]
      /\ \A i \in DOMAIN ss :
           new[i] = IF Follows(i) THEN IF refused(i) # {} THEN Frozen(ss[i])
                                       ELSE Projected(ss[i], Len(log'))
                    ELSE ss[i]
  BY DEF Maintained
<1>5. ASSUME NEW i \in DOMAIN ss
      PROVE  /\ IsSlot(new[i]) /\ new[i].role = ss[i].role /\ new[i].version = ss[i].version
             /\ new[i].ok => ss[i].ok
             /\ ss[i].cursor <= new[i].cursor
             /\ i \in Live(ss) => /\ new[i].rows = Count(new[i].cursor)
                                  /\ new[i].cursor <= LogHead'
                                  /\ \A q \in 1 .. new[i].cursor :
                                       log'[q] \notin Refuses[new[i].version]
             /\ Follows(i) => new[i].cursor = LogHead' \/ ~new[i].ok
             /\ ~Follows(i) => new[i] = ss[i]
  <2>1. IsSlot(ss[i]) /\ ss[i].cursor \in Nat
    BY <1>3 DEF IsSlot
  <2>2. i \in Live(ss) => /\ ss[i].rows = Count(ss[i].cursor) /\ ss[i].cursor <= LogHead
                          /\ \A q \in 1 .. ss[i].cursor : log'[q] \notin Refuses[ss[i].version]
    <3>1. i \in Live(ss) => IsPrefix(ss[i])
      BY <1>3
    <3>2. ss[i].cursor <= LogHead => \A q \in 1 .. ss[i].cursor : q \in 1 .. LogHead
      BY <1>1, <2>1
    <3> QED BY <1>1, <3>1, <3>2 DEF IsPrefix
  <2>3. ss[i].cursor <= LogHead => ss[i].cursor <= LogHead'
    BY <1>1, <1>2, <2>1
  <2>4. CASE ~Follows(i)
    <3> DEFINE s == ss[i]
    <3>1. new[i] = s
      BY <1>4, <2>4
    <3>2. s.cursor <= s.cursor /\ IsSlot(s)
      BY <2>1
    <3>3. i \in Live(ss) => /\ s.rows = Count(s.cursor) /\ s.cursor <= LogHead'
                            /\ \A q \in 1 .. s.cursor : log'[q] \notin Refuses[s.version]
      BY <2>2, <2>3
    <3> HIDE DEF Follows, s
    <3>4. ~Follows(i) => new[i] = ss[i]
      BY <3>1 DEF s
    <3> QED BY <2>4, <3>1, <3>2, <3>3, <3>4 DEF s
  <2>5. CASE Follows(i) /\ refused(i) # {}
    <3> DEFINE s == ss[i]
               z == new[i]
    <3>1. z = Frozen(s) /\ IsSlot(s)
      BY <1>4, <2>1, <2>5
    <3>2. i \in Live(ss) /\ s.ok /\ Follows(i)
      BY <2>5
    <3>3. /\ s.rows = Count(s.cursor) /\ s.cursor <= LogHead'
          /\ \A q \in 1 .. s.cursor : log'[q] \notin Refuses[s.version]
      BY <2>2, <2>3, <3>2
    <3>4. s.cursor <= s.cursor
      BY <2>1
    <3> HIDE DEF Follows, refused, s, z
    <3>9. /\ IsSlot(z) /\ z.role = s.role /\ z.version = s.version
          /\ z.cursor = s.cursor /\ z.rows = s.rows /\ ~z.ok
      BY <3>1, FrozenSlot
    <3>8. /\ z.rows = Count(z.cursor) /\ z.cursor <= LogHead' /\ s.cursor <= z.cursor
          /\ \A q \in 1 .. z.cursor : log'[q] \notin Refuses[z.version]
      BY <3>3, <3>4, <3>9
    <3> QED BY <3>2, <3>8, <3>9 DEF s, z
  <2>6. CASE Follows(i) /\ refused(i) = {}
    <3> DEFINE s == ss[i]
               to == LogHead'
    <3>1. new[i] = Projected(s, to)
      BY <1>2, <1>4, <2>6
    <3>2. i \in Live(ss) /\ s.ok /\ s.cursor = LogHead
      BY <2>6
    <3>3. IsSlot(s) /\ s.rows = Count(s.cursor) /\ to \in Nat /\ s.cursor <= to
      BY <1>2, <2>1, <2>2, <2>3, <3>2
    <3>4. \A q \in LogHead + 1 .. to : log'[q] \notin Refuses[s.version]
      BY <1>2, <2>6 DEF Refused
    <3> HIDE DEF s, to
    <3>5. /\ IsSlot(new[i]) /\ new[i].role = s.role /\ new[i].version = s.version
          /\ new[i].ok = s.ok /\ new[i].cursor = to /\ new[i].rows = Count(to)
      BY <3>1, <3>3, ProjectedIsPrefix
    <3>6. \A q \in 1 .. to : q \in 1 .. LogHead \/ q \in LogHead + 1 .. to
      BY <1>1, <3>3
    <3>7. \A q \in 1 .. to : log'[q] \notin Refuses[s.version]
      BY <2>2, <3>2, <3>4, <3>6 DEF s
    <3>8. new[i].cursor <= to
      BY <3>3, <3>5
    <3> HIDE DEF Follows, refused
    <3> QED BY <2>6, <3>2, <3>3, <3>5, <3>7, <3>8 DEF s, to
  <2> QED BY <2>4, <2>5, <2>6
<1>6. IsSlots(new) /\ DOMAIN new = DOMAIN ss
  <2>1. \A i \in 1 .. Len(ss) : IsSlot(new[i])
    BY <1>3, <1>5
  <2> HIDE DEF Follows, refused
  <2> QED BY <1>3, <1>4, <2>1, SlotBySlot
<1>7. \A role : With(new, role) = With(ss, role)
  BY <1>5, <1>6 DEF With
<1>8. Single(new)
  BY <1>3, <1>7 DEF Single
<1>9. Live(new) = Live(ss) /\ \A i \in Live(ss) : i \in DOMAIN ss
  BY <1>7 DEF Live, With
<1>10. Serves(ss, new)
  <2> SUFFICES ASSUME NEW i \in With(ss, "active")
               PROVE  \E j \in With(new, "active") : new[j].cursor >= ss[i].cursor
    BY DEF Serves
  <2>1. i \in With(new, "active") /\ i \in DOMAIN ss
    BY <1>7 DEF With
  <2>2. ss[i].cursor <= new[i].cursor /\ IsSlot(new[i]) /\ IsSlot(ss[i])
    BY <1>3, <1>5, <2>1
  <2>3. new[i].cursor >= ss[i].cursor
    BY <2>2 DEF IsSlot
  <2> QED BY <2>1, <2>3
<1>11. \A i \in DOMAIN ss : new[i].cursor < LogHead' /\ new[i].ok /\ i \in Live(ss)
                            /\ Carried(ss[i].version)
                            => ss[i].cursor < LogHead
  <2> SUFFICES ASSUME NEW i \in DOMAIN ss, new[i].cursor < LogHead', new[i].ok, i \in Live(ss),
                      Carried(ss[i].version)
               PROVE  ss[i].cursor < LogHead
    OBVIOUS
  <2>1. IsSlot(new[i]) /\ IsSlot(ss[i]) /\ ss[i].ok
    BY <1>3, <1>5
  <2>2. ~Follows(i)
    <3>1. new[i].cursor # LogHead'
      BY <1>2, <2>1 DEF IsSlot
    <3> QED BY <1>5, <3>1
  <2>3. ss[i].cursor # LogHead
    BY <2>1, <2>2
  <2>4. ss[i].cursor \in Nat /\ ss[i].cursor <= LogHead
    BY <1>3, <2>1 DEF IsSlot, IsPrefix
  <2> QED BY <1>1, <2>3, <2>4
<1>12. \A i \in Live(new) : /\ new[i].rows = Count(new[i].cursor) /\ new[i].cursor <= LogHead'
                            /\ \A q \in 1 .. new[i].cursor :
                                 log'[q] \notin Refuses[new[i].version]
  BY <1>5, <1>9
<1> HIDE DEF Follows, refused
<1> QED BY <1>5, <1>6, <1>8, <1>10, <1>11, <1>12

-----------------------------------------------------------------------------
(* What is pending.                                                        *)

\* Reconciling appends at most one slot, and changes nothing that it need not change.
LEMMA ReconciledIsFixed ==
  ASSUME NEW ss, IsSlots(ss), Reconciled(ss) = ss
  PROVE  /\ Live(ss) # {} /\ \A i \in With(ss, "building") : ss[i].version = Current
         /\ \/ \E i \in With(ss, "active") : ss[i].version = Current
            \/ With(ss, "building") # {}
<1> DEFINE superseded == {i \in With(ss, "building") : ss[i].version # Current}
           kept == [i \in DOMAIN ss |->
                      IF i \in superseded THEN [ss[i] EXCEPT !.role = "retired"] ELSE ss[i]]
           started == \/ \E i \in With(ss, "active") : ss[i].version = Current
                      \/ With(kept, "building") # {}
<1>1. Len(ss) \in Nat /\ DOMAIN ss = 1 .. Len(ss) /\ \A i \in DOMAIN ss : IsSlot(ss[i])
  BY SlotsAreSeq DEF IsSlots
<1>2. ASSUME NEW tt, DOMAIN tt = DOMAIN ss, NEW x, ss = Append(tt, x) PROVE FALSE
  <2>1. Len(tt) = Len(ss)
    BY <1>1, <1>2
  <2>2. DOMAIN Append(tt, x) = 1 .. Len(tt) + 1
    OBVIOUS
  <2> QED BY <1>1, <1>2, <2>1, <2>2
<1>3. Live(ss) # {}
  BY <1>2 DEF Reconciled
<1>4. DOMAIN kept = DOMAIN ss
  OBVIOUS
<1>5. started /\ ss = kept
  <2>1. Reconciled(ss) = IF started THEN kept ELSE Append(kept, New(Current, "building"))
    BY <1>3 DEF Reconciled
  <2> HIDE DEF kept, started
  <2> QED BY <1>2, <1>4, <2>1
<1>6. \A i \in With(ss, "building") : ss[i].version = Current
  <2> SUFFICES ASSUME NEW i \in With(ss, "building"), ss[i].version # Current PROVE FALSE
    OBVIOUS
  <2>1. i \in DOMAIN ss /\ ss[i].role = "building" /\ i \in superseded
    BY DEF With
  <2>2. kept[i] = [ss[i] EXCEPT !.role = "retired"]
    BY <2>1
  <2>3. "retired" \in Stages
    BY DEF Stages
  <2>4. kept[i].role = "retired"
    <3> HIDE DEF kept
    <3> QED BY <1>1, <2>1, <2>2, <2>3, SlotStaysSlot
  <2>5. kept[i] = ss[i]
    <3> HIDE DEF kept
    <3> QED BY <1>5
  <2> HIDE DEF kept
  <2> QED BY <2>1, <2>4, <2>5
<1>7. With(kept, "building") = With(ss, "building")
  <2> HIDE DEF kept
  <2> QED BY <1>5
<1> QED BY <1>3, <1>5, <1>6, <1>7

\* Where nothing is pending, reconciling leaves nothing to build.
LEMMA QuietStaysQuiet ==
  ASSUME NEW ss, SlotsKept(ss), LogHead \in Nat, ~Pending(ss)
  PROVE  ~Pending(Reconciled(ss)) /\ Targets(Reconciled(ss)) = {}
<1>1. CASE Live(ss) # {}
  <2>1. Reconciled(ss) = ss
    BY <1>1 DEF Pending
  <2>2. Targets(ss) = {}
    BY DEF Pending
  <2> QED BY <2>1, <2>2
<1>2. CASE Live(ss) = {}
  <2> DEFINE x == New(Current, "active")
             rs == Reconciled(ss)
             n == Len(ss)
  <2>1. LogHead = 0 /\ With(ss, "retired") = {}
    BY <1>2 DEF Pending
  <2>2. rs = Append(ss, x)
    BY <1>2, <2>1 DEF Reconciled
  <2>3. n \in Nat /\ DOMAIN ss = 1 .. n
    BY SlotsAreSeq DEF SlotsKept
  <2>4. DOMAIN rs = 1 .. n + 1 /\ rs[n + 1] = x /\ \A i \in 1 .. n : rs[i] = ss[i]
    <3> HIDE DEF x, rs
    <3> QED BY <2>2, <2>3
  <2>5. x.role = "active" /\ x.cursor = 0 /\ x.version = Current
    BY DEF New
  <2> HIDE DEF x, rs, n
  <2>6. \A i \in 1 .. n : ss[i].role \notin {"active", "building", "retired"}
    BY <1>2, <2>1, <2>3 DEF Live, With
  <2>7. \A i \in DOMAIN rs : i = n + 1 \/ i \in 1 .. n
    BY <2>3, <2>4
  <2>8. n + 1 \in DOMAIN rs
    BY <2>3, <2>4
  <2>9. /\ With(rs, "retired") = {} /\ With(rs, "building") = {}
        /\ With(rs, "active") = {n + 1}
    BY <2>4, <2>5, <2>6, <2>7, <2>8 DEF With
  <2>10. Live(rs) = {n + 1}
    BY <2>9 DEF Live
  <2>11. rs = [i \in DOMAIN rs |-> rs[i]]
    <3>1. IsSlots(rs)
      <4>1. IsSlots(ss)
        BY DEF SlotsKept
      <4> QED BY <4>1, ReconciledSlots DEF rs
    <3> QED BY <3>1, SlotsAreSeq
  <2>12. Reconciled(rs) = rs
    <3> DEFINE superseded == {i \in With(rs, "building") : rs[i].version # Current}
               kept == [i \in DOMAIN rs |->
                          IF i \in superseded THEN [rs[i] EXCEPT !.role = "retired"] ELSE rs[i]]
    <3>1. superseded = {}
      BY <2>9
    <3>2. kept = [i \in DOMAIN rs |-> rs[i]]
      BY <3>1
    <3>3. kept = rs
      BY <2>11, <3>2
    <3>4. \E i \in With(rs, "active") : rs[i].version = Current
      BY <2>4, <2>5, <2>9
    <3>5. Live(rs) # {}
      BY <2>10
    <3>6. Reconciled(rs) = kept
      BY <3>4, <3>5 DEF Reconciled
    <3> QED BY <3>3, <3>6
  <2>13. Targets(rs) = {}
    <3>1. \A i \in Live(rs) : ~(rs[i].cursor < LogHead)
      BY <2>1, <2>4, <2>5, <2>10
    <3> QED BY <2>9, <3>1 DEF Targets
  <2>14. ~Pending(rs)
    BY <2>9, <2>10, <2>12, <2>13 DEF Pending
  <2> QED BY <2>13, <2>14 DEF rs
<1> QED BY <1>1, <1>2

\* A charge leaves nothing pending where nothing was.
LEMMA ChargeStaysQuiet ==
  ASSUME SlotsKept(slots), LogHead \in Nat, ~Pending(slots), Charged
  PROVE  ~Pending(slots')
<1> DEFINE rs == Reconciled(slots)
<1>1. ~Pending(rs) /\ Targets(rs) = {}
  BY QuietStaysQuiet
<1>2. IsSlots(rs)
  BY ReconciledKeeps DEF SlotsKept
<1>3. rs = [i \in DOMAIN rs |-> rs[i]]
  <2> HIDE DEF rs
  <2> QED BY <1>2, SlotsAreSeq
<1>4. slots' = [i \in DOMAIN rs |-> rs[i]]
  BY <1>1 DEF Charged
<1> HIDE DEF rs
<1> QED BY <1>1, <1>3, <1>4

\* What an append leaves pending was pending before, unless reconciling changed something.
LEMMA AppendLeavesQuiet ==
  ASSUME SlotsKept(slots), log \in Seq(Kinds), log' \in Seq(Kinds), LogHead < LogHead',
         \A q \in 1 .. LogHead : log'[q] = log[q], release' = release, Reconciled(slots) = slots,
         slots' = Maintained(slots), Pending(slots)'
  PROVE  Pending(slots)
<1>0. ASSUME NEW new, new = Maintained(slots)
      PROVE  /\ IsSlots(new) /\ DOMAIN new = DOMAIN slots
             /\ \A i \in DOMAIN slots :
                  /\ new[i].role = slots[i].role /\ new[i].version = slots[i].version
                  /\ new[i].ok => slots[i].ok
                  /\ new[i].cursor < LogHead' /\ new[i].ok /\ i \in Live(slots)
                     /\ Carried(slots[i].version)
                     => slots[i].cursor < LogHead
  BY <1>0, MaintainedKeeps
<1>1. /\ IsSlots(slots') /\ DOMAIN slots' = DOMAIN slots
      /\ \A i \in DOMAIN slots :
           /\ slots'[i].role = slots[i].role /\ slots'[i].version = slots[i].version
           /\ slots'[i].ok => slots[i].ok
           /\ slots'[i].cursor < LogHead' /\ slots'[i].ok /\ i \in Live(slots)
              /\ Carried(slots[i].version)
              => slots[i].cursor < LogHead
  BY <1>0
<1>2. IsSlots(slots)
  BY DEF SlotsKept
<1>3. /\ Live(slots) # {} /\ \A i \in With(slots, "building") : slots[i].version = Current
      /\ \/ \E i \in With(slots, "active") : slots[i].version = Current
         \/ With(slots, "building") # {}
  BY <1>2, ReconciledIsFixed
<1>4. \A role : With(slots', role) = With(slots, role)
  BY <1>1 DEF With
<1>5. Live(slots') = Live(slots)
  BY <1>4 DEF Live
<1>6. Current' = Current
  BY DEF Current
<1>7. \A i \in Live(slots) : i \in DOMAIN slots
  BY DEF Live, With
<1>8. Reconciled(slots)' = slots'
  <2> DEFINE superseded == {i \in With(slots', "building") : slots'[i].version # Current'}
             kept == [i \in DOMAIN slots' |->
                        IF i \in superseded THEN [slots'[i] EXCEPT !.role = "retired"]
                        ELSE slots'[i]]
             started == \/ \E i \in With(slots', "active") : slots'[i].version = Current'
                        \/ With(kept, "building") # {}
  <2>1. \A i \in With(slots', "building") : slots'[i].version = Current'
    BY <1>1, <1>3, <1>4, <1>6 DEF With
  <2>2. superseded = {}
    BY <2>1
  <2>3. kept = slots'
    <3>1. slots' = [i \in DOMAIN slots' |-> slots'[i]]
      BY <1>1, SlotsAreSeq
    <3>2. kept = [i \in DOMAIN slots' |-> slots'[i]]
      BY <2>2
    <3> QED BY <3>1, <3>2
  <2>4. started
    <3>1. (\E i \in With(slots', "active") : slots'[i].version = Current')
          \/ With(slots', "building") # {}
      BY <1>1, <1>3, <1>4, <1>6 DEF With
    <3>2. With(kept, "building") = With(slots', "building")
      <4> HIDE DEF kept
      <4> QED BY <2>3
    <3> HIDE DEF kept
    <3> QED BY <3>1, <3>2
  <2>5. Live(slots') # {}
    BY <1>3, <1>5
  <2>6. Reconciled(slots)' = kept
    BY <2>4, <2>5 DEF Reconciled
  <2> QED BY <2>3, <2>6
<1>9. Targets(slots)' # {} => Targets(slots) # {}
  <2> SUFFICES ASSUME Targets(slots)' # {} PROVE Targets(slots) # {}
    OBVIOUS
  <2> DEFINE healthy == {i \in Live(slots) : slots[i].ok /\ Carried(slots[i].version)}
             carried1(v) == v \in {Releases[release'].current, Releases[release'].previous}
             healthy1 == {i \in Live(slots') : slots'[i].ok /\ carried1(slots'[i].version)}
  <2>1. Targets(slots)' = IF healthy1 \cap With(slots', "building") # {}
                          THEN healthy1 \cap With(slots', "building")
                          ELSE {i \in healthy1 : slots'[i].cursor < LogHead'}
    BY DEF Targets, Carried
  <2>2. Targets(slots) = IF healthy \cap With(slots, "building") # {}
                         THEN healthy \cap With(slots, "building")
                         ELSE {i \in healthy : slots[i].cursor < LogHead}
    BY DEF Targets
  <2>3. \A i \in healthy1 : i \in healthy /\ slots'[i].ok
    <3> TAKE i \in healthy1
    <3>1. i \in Live(slots) /\ i \in DOMAIN slots /\ slots'[i].ok /\ slots[i].ok
      BY <1>1, <1>5, <1>7
    <3>2. carried1(slots'[i].version)
      OBVIOUS
    <3>3. slots'[i].version = slots[i].version
      BY <1>1, <3>1
    <3>4. Carried(slots[i].version)
      BY <3>2, <3>3 DEF Carried
    <3> QED BY <3>1, <3>4
  <2>4. \A i \in healthy1 : slots'[i].cursor < LogHead' => slots[i].cursor < LogHead
    <3> TAKE i \in healthy1
    <3>1. i \in healthy /\ slots'[i].ok
      BY <2>3
    <3>2. i \in DOMAIN slots /\ i \in Live(slots) /\ Carried(slots[i].version)
      BY <1>7, <3>1
    <3> QED BY <1>1, <3>1, <3>2
  <2> HIDE DEF healthy, healthy1
  <2> QED BY <1>4, <2>1, <2>2, <2>3, <2>4
<1>10. \/ With(slots', "retired") # {}
       \/ Live(slots') = {}
       \/ Reconciled(slots)' # slots'
       \/ Targets(slots)' # {}
  BY DEF Pending
<1>11. With(slots, "retired") # {} \/ Targets(slots) # {}
  BY <1>3, <1>4, <1>5, <1>8, <1>9, <1>10
<1> QED BY <1>11 DEF Pending

-----------------------------------------------------------------------------
(* The actions.                                                            *)

\* What every action keeps.
Goes == SlotsKept(slots)' /\ Serves(slots, slots')

LEMMA SlotsHold ==
  ASSUME log' = log, SlotsKept(slots')
  PROVE  SlotsKept(slots)'
BY DEF SlotsKept, IsPrefix, LogHead

LEMMA SlotsRest ==
  ASSUME SlotsKept(slots), UNCHANGED <<log, slots>>
  PROVE  Goes
<1>1. \A i \in With(slots, "active") : slots[i].cursor >= slots[i].cursor
  BY DEF SlotsKept, IsSlots, IsSlot, With
<1>2. Serves(slots, slots')
  BY <1>1 DEF Serves
<1>3. SlotsKept(slots)'
  BY DEF SlotsKept, IsPrefix, LogHead
<1> QED BY <1>2, <1>3 DEF Goes

LEMMA AppendBatchKeeps ==
  ASSUME BuilderInvariant, AppendBatch
  PROVE  BuilderInvariant' /\ Goes
<1>1. /\ log \in Seq(Kinds) /\ SlotsKept(slots) /\ PendingIsScheduled
      /\ wake = [on |-> wake.on, failures |-> wake.failures]
      /\ used = [starts |-> used.starts, faults |-> used.faults, stopped |-> used.stopped]
      /\ release' = release /\ up' = up /\ enabled' = enabled /\ used' = used
  BY DEF BuilderInvariant, AppendBatch
<1>2. PICK n \in 1 .. 2 : \E batch \in [1 .. n -> Kinds] : log' = log \o batch
  BY DEF AppendBatch
<1>3. /\ log' \in Seq(Kinds) /\ LogHead' = LogHead + n /\ LogHead \in Nat
      /\ \A q \in 1 .. LogHead : log'[q] = log[q]
  <2>1. PICK batch \in [1 .. n -> Kinds] : log' = log \o batch
    BY <1>2
  <2> QED BY <1>1, <2>1, LogGrows
<1>4. LogHead < LogHead' /\ LogHead' \in Nat
  BY <1>3
<1>5. CASE ~enabled
  <2>1. slots' = slots /\ wake' = wake
    BY <1>5 DEF AppendBatch
  <2>2. \A i \in Live(slots) : IsPrefix(slots[i])'
    <3> TAKE i \in Live(slots)
    <3>1. IsPrefix(slots[i]) /\ slots[i].cursor \in Nat
      <4>1. i \in DOMAIN slots
        BY DEF Live, With
      <4> QED BY <1>1, <4>1 DEF SlotsKept, IsSlots, IsSlot
    <3>2. slots[i].cursor <= LogHead'
      BY <1>3, <1>4, <3>1 DEF IsPrefix
    <3>3. \A q \in 1 .. slots[i].cursor : q \in 1 .. LogHead
      BY <1>3, <3>1 DEF IsPrefix
    <3> QED BY <1>3, <2>1, <3>1, <3>2, <3>3 DEF IsPrefix
  <2>3. SlotsKept(slots)'
    BY <1>1, <2>1, <2>2 DEF SlotsKept
  <2>4. Serves(slots, slots')
    <3>1. \A i \in With(slots, "active") : slots[i].cursor >= slots[i].cursor
      BY <1>1 DEF SlotsKept, IsSlots, IsSlot, With
    <3> QED BY <2>1, <3>1 DEF Serves
  <2>5. PendingIsScheduled'
    BY <1>1, <1>5 DEF PendingIsScheduled
  <2> QED BY <1>1, <1>3, <2>1, <2>3, <2>4, <2>5 DEF BuilderInvariant, Goes
<1>6. CASE enabled
  <2> DEFINE rs == Reconciled(slots)
  <2>1. slots' = Maintained(rs) /\ Kicked
    BY <1>6 DEF AppendBatch
  <2>2. SlotsKept(rs) /\ Serves(slots, rs)
    BY <1>1, <1>3, ReconciledKeeps, ReconciledServes
  <2> HIDE DEF rs
  <2>3. ASSUME NEW new, new = Maintained(rs)
        PROVE  /\ IsSlots(new) /\ Single(new) /\ Serves(rs, new)
               /\ \A i \in Live(new) : /\ new[i].rows = Count(new[i].cursor)
                                       /\ new[i].cursor <= LogHead'
                                       /\ \A q \in 1 .. new[i].cursor :
                                            log'[q] \notin Refuses[new[i].version]
    BY <1>1, <1>3, <1>4, <2>2, <2>3, MaintainedKeeps
  <2>4. /\ IsSlots(slots') /\ Single(slots') /\ Serves(rs, slots')
        /\ \A i \in Live(slots') : /\ slots'[i].rows = Count(slots'[i].cursor)
                                   /\ slots'[i].cursor <= LogHead'
                                   /\ \A q \in 1 .. slots'[i].cursor :
                                        log'[q] \notin Refuses[slots'[i].version]
    BY <2>1, <2>3
  <2>5. SlotsKept(slots)'
    BY <2>4 DEF SlotsKept, IsPrefix
  <2>6. Serves(slots, slots')
    BY <1>1, <2>2, <2>4, ServesOn DEF SlotsKept
  <2>7. wake' = [on |-> wake'.on, failures |-> wake'.failures]
    BY <1>1, <2>1 DEF Kicked, Scheduled, Awake
  <2>8. PendingIsScheduled'
    <3> SUFFICES ASSUME up', enabled', Pending(slots)' PROVE wake'.on \/ used'.stopped
      BY DEF PendingIsScheduled
    <3>1. CASE rs # slots
      <4>1. wake' = Awake
        BY <2>1, <3>1 DEF Kicked, Scheduled, rs
      <4> QED BY <4>1 DEF Awake
    <3>2. CASE rs = slots
      <4>1. wake' = wake
        BY <2>1, <3>2 DEF Kicked, rs
      <4>2. Reconciled(slots) = slots /\ slots' = Maintained(slots)
        BY <2>1, <3>2 DEF rs
      <4>3. Pending(slots)
        BY <1>1, <1>3, <1>4, <4>2, AppendLeavesQuiet
      <4> QED BY <1>1, <4>1, <4>3 DEF PendingIsScheduled
    <3> QED BY <3>1, <3>2
  <2> QED BY <1>1, <1>3, <2>5, <2>6, <2>7, <2>8 DEF BuilderInvariant, Goes
<1> QED BY <1>5, <1>6

\* The steps of a slice: they keep the log, and schedule what they leave.
LEMMA SliceKeeps ==
  ASSUME BuilderAssumption, BuilderInvariant, AlarmSlice \/ StatusSlice
  PROVE  BuilderInvariant' /\ Goes
<1>1. /\ log \in Seq(Kinds) /\ SlotsKept(slots)
      /\ wake = [on |-> wake.on, failures |-> wake.failures]
      /\ used = [starts |-> used.starts, faults |-> used.faults, stopped |-> used.stopped]
      /\ LogHead \in Nat
  BY LogIsSeq DEF BuilderInvariant
<1>2. log' = log /\ RunSlice /\ Working
  BY DEF AlarmSlice, StatusSlice, Working
<1>3. SlotsKept(slots') /\ Serves(slots, slots')
  BY <1>1, <1>2, RunSliceKeeps
<1>4. SlotsKept(slots)'
  BY <1>2, <1>3, SlotsHold
<1>5. CASE AlarmSlice
  <2>1. /\ wake' = IF Pending(slots)' THEN [on |-> TRUE, failures |-> 0]
                   ELSE [on |-> FALSE, failures |-> 0]
        /\ used' = used
    BY <1>5 DEF AlarmSlice, Asleep
  <2>2. wake' = [on |-> wake'.on, failures |-> wake'.failures]
    BY <2>1
  <2>3. Pending(slots)' => wake'.on
    BY <2>1
  <2> QED BY <1>1, <1>2, <1>3, <1>4, <2>1, <2>2, <2>3
          DEF BuilderInvariant, PendingIsScheduled, Goes
<1>6. CASE StatusSlice
  <2>1. /\ wake' = IF Pending(slots)' THEN [on |-> TRUE, failures |-> wake.failures] ELSE wake
        /\ used' = [used EXCEPT !.stopped = @ /\ ~Pending(slots)']
    BY <1>6 DEF StatusSlice, Scheduled, Awake
  <2>2. wake' = [on |-> wake'.on, failures |-> wake'.failures]
    BY <1>1, <2>1
  <2>3. Pending(slots)' => wake'.on
    BY <2>1
  <2>4. used' = [starts |-> used'.starts, faults |-> used'.faults, stopped |-> used'.stopped]
    <3> DEFINE stopped == used.stopped /\ ~Pending(slots)'
    <3>1. used' = [used EXCEPT !.stopped = stopped]
      BY <2>1
    <3> HIDE DEF stopped
    <3> QED BY <1>1, <3>1
  <2> QED BY <1>1, <1>2, <1>3, <1>4, <2>2, <2>3, <2>4
          DEF BuilderInvariant, PendingIsScheduled, Goes
<1> QED BY <1>5, <1>6

\* The steps of a slice that fails.
LEMMA FailKeeps ==
  ASSUME BuilderInvariant, AlarmFails \/ StatusFails
  PROVE  BuilderInvariant' /\ Goes
<1>1. /\ log \in Seq(Kinds) /\ SlotsKept(slots) /\ PendingIsScheduled
      /\ wake = [on |-> wake.on, failures |-> wake.failures]
      /\ used = [starts |-> used.starts, faults |-> used.faults, stopped |-> used.stopped]
      /\ LogHead \in Nat
  BY LogIsSeq DEF BuilderInvariant
<1>2. /\ log' = log /\ release' = release /\ up /\ enabled
      /\ Charged \/ UNCHANGED slots
  BY DEF AlarmFails, StatusFails, Working, Uncharged
<1>3. Goes
  <2>1. CASE Charged
    <3>1. SlotsKept(slots') /\ Serves(slots, slots')
      BY <1>1, <2>1, ChargedKeeps
    <3> QED BY <1>2, <3>1, SlotsHold DEF Goes
  <2>2. CASE UNCHANGED slots
    BY <1>1, <1>2, <2>2, SlotsRest
  <2> QED BY <1>2, <2>1, <2>2
<1>4. CASE AlarmFails
  <2> DEFINE failures == wake.failures + 1
             stops == ~FrozeOne /\ failures >= MaxBuilderFailures
  <2>1. /\ wake' = IF FrozeOne
                   THEN IF Pending(slots)' THEN [on |-> TRUE, failures |-> 0]
                        ELSE [on |-> FALSE, failures |-> 0]
                   ELSE IF stops THEN [on |-> FALSE, failures |-> 0]
                        ELSE [on |-> TRUE, failures |-> failures]
        /\ used' = [used EXCEPT !.faults = @ + 1, !.stopped = stops]
    BY <1>4 DEF AlarmFails, Asleep
  <2>2. used' = [starts |-> used'.starts, faults |-> used'.faults, stopped |-> used'.stopped]
        /\ (stops => used'.stopped)
    <3> HIDE DEF stops
    <3>1. used' = [starts |-> used.starts, faults |-> used.faults + 1, stopped |-> stops]
      BY <1>1, <2>1
    <3>2. used'.stopped = stops
      BY <3>1
    <3> QED BY <3>1, <3>2
  <2> HIDE DEF stops, failures
  <2>3. wake' = [on |-> wake'.on, failures |-> wake'.failures]
    BY <2>1
  <2>4. Pending(slots)' => wake'.on \/ used'.stopped
    BY <2>1, <2>2
  <2> QED BY <1>1, <1>2, <1>3, <2>2, <2>3, <2>4 DEF BuilderInvariant, PendingIsScheduled, Goes
<1>5. CASE StatusFails
  <2>1. /\ wake' = IF FrozeOne THEN IF Pending(slots)' THEN [on |-> TRUE, failures |-> wake.failures]
                                    ELSE wake
                   ELSE wake
        /\ used' = [used EXCEPT !.faults = @ + 1]
    BY <1>5 DEF StatusFails, Scheduled, Awake
  <2>2. /\ used' = [starts |-> used'.starts, faults |-> used'.faults, stopped |-> used'.stopped]
        /\ used'.stopped = used.stopped
    <3> DEFINE st == used.starts
               fa == used.faults
               so == used.stopped
    <3>1. used = [starts |-> st, faults |-> fa, stopped |-> so]
      BY <1>1
    <3> HIDE DEF st, fa, so
    <3>2. used' = [starts |-> st, faults |-> used.faults + 1, stopped |-> so]
      BY <2>1, <3>1
    <3> QED BY <3>1, <3>2
  <2>3. wake' = [on |-> wake'.on, failures |-> wake'.failures]
    BY <1>1, <2>1
  <2>4. Pending(slots)' => wake'.on \/ used'.stopped
    <3>1. CASE FrozeOne
      BY <2>1, <3>1
    <3>2. CASE ~FrozeOne /\ Charged
      <4>1. Pending(slots)' => Pending(slots')
        <5>1. Current' = Current /\ LogHead' = LogHead /\ (\A v : Carried(v)' <=> Carried(v))
          BY <1>2 DEF Current, LogHead, Carried
        <5> QED BY <1>2 DEF Pending, Targets, Reconciled, Carried, Current, LogHead
      <4>2. Pending(slots') => Pending(slots)
        BY <1>1, <3>2, ChargeStaysQuiet
      <4>3. wake' = wake
        BY <2>1, <3>2
      <4> QED BY <1>1, <1>2, <2>2, <4>1, <4>2, <4>3 DEF PendingIsScheduled
    <3>3. CASE ~FrozeOne /\ UNCHANGED slots
      <4>1. Pending(slots)' => Pending(slots)
        BY <1>2, <3>3 DEF Pending, Targets, Reconciled, Carried, Current, LogHead
      <4>2. wake' = wake
        BY <2>1, <3>3
      <4> QED BY <1>1, <1>2, <2>2, <4>1, <4>2 DEF PendingIsScheduled
    <3> QED BY <1>2, <3>1, <3>2, <3>3
  <2> QED BY <1>1, <1>2, <1>3, <2>2, <2>3, <2>4 DEF BuilderInvariant, PendingIsScheduled, Goes
<1> QED BY <1>4, <1>5

\* A read that reconciles.
LEMMA ReadKeeps ==
  ASSUME BuilderInvariant, Read
  PROVE  BuilderInvariant' /\ Goes
<1>1. /\ log \in Seq(Kinds) /\ SlotsKept(slots)
      /\ wake = [on |-> wake.on, failures |-> wake.failures]
      /\ used = [starts |-> used.starts, faults |-> used.faults, stopped |-> used.stopped]
      /\ LogHead \in Nat
  BY LogIsSeq DEF BuilderInvariant
<1>2. log' = log /\ slots' = Reconciled(slots) /\ used' = used
      /\ wake' = IF Pending(slots)' THEN [on |-> TRUE, failures |-> wake.failures] ELSE wake
  BY DEF Read, Working, Kicked, Scheduled, Awake
<1>3. SlotsKept(slots') /\ Serves(slots, slots')
  BY <1>1, <1>2, ReconciledKeeps, ReconciledServes
<1>4. SlotsKept(slots)'
  BY <1>2, <1>3, SlotsHold
<1>5. wake' = [on |-> wake'.on, failures |-> wake'.failures] /\ (Pending(slots)' => wake'.on)
  BY <1>1, <1>2
<1> QED BY <1>1, <1>2, <1>3, <1>4, <1>5 DEF BuilderInvariant, PendingIsScheduled, Goes

\* The object's life, and an alarm nobody answers.
LEMMA LifeKeeps ==
  ASSUME BuilderInvariant, Start \/ Stop \/ AlarmOfDisabled
  PROVE  BuilderInvariant' /\ Goes
<1>1. /\ log \in Seq(Kinds) /\ SlotsKept(slots)
      /\ wake = [on |-> wake.on, failures |-> wake.failures]
      /\ used = [starts |-> used.starts, faults |-> used.faults, stopped |-> used.stopped]
  BY DEF BuilderInvariant
<1>2. UNCHANGED <<log, slots>>
  BY DEF Start, Stop, AlarmOfDisabled
<1>3. Goes
  BY <1>1, <1>2, SlotsRest
<1>4. CASE Start
  <2>1. /\ wake' = IF enabled' THEN IF Pending(slots)'
                                    THEN [on |-> TRUE, failures |-> wake.failures] ELSE wake
                   ELSE wake
        /\ used' = [used EXCEPT !.starts = @ + 1, !.stopped = FALSE]
    BY <1>4 DEF Start, Scheduled, Awake
  <2>2. used' = [starts |-> used'.starts, faults |-> used'.faults, stopped |-> used'.stopped]
    <3>1. PICK no : used' = [used EXCEPT !.starts = @ + 1, !.stopped = no]
      BY <2>1
    <3>2. used' = [starts |-> used.starts + 1, faults |-> used.faults, stopped |-> no]
      BY <1>1, <3>1
    <3> QED BY <3>2
  <2>3. wake' = [on |-> wake'.on, failures |-> wake'.failures]
    BY <1>1, <2>1
  <2>4. enabled' /\ Pending(slots)' => wake'.on
    BY <2>1
  <2> QED BY <1>1, <1>2, <1>3, <2>2, <2>3, <2>4 DEF BuilderInvariant, PendingIsScheduled, Goes
<1>5. CASE Stop
  <2>1. ~up' /\ wake' = wake /\ used' = used
    BY <1>5 DEF Stop
  <2> QED BY <1>1, <1>2, <1>3, <2>1 DEF BuilderInvariant, PendingIsScheduled, Goes
<1>6. CASE AlarmOfDisabled
  <2>1. ~enabled' /\ used' = used /\ wake' = [on |-> FALSE, failures |-> 0]
    BY <1>6 DEF AlarmOfDisabled, Asleep
  <2>2. wake' = [on |-> wake'.on, failures |-> wake'.failures]
    BY <2>1
  <2> QED BY <1>1, <1>2, <1>3, <2>1, <2>2 DEF BuilderInvariant, PendingIsScheduled, Goes
<1> QED BY <1>4, <1>5, <1>6

LEMMA BuilderStarts == ASSUME BuilderInit PROVE BuilderInvariant
<1>1. log \in Seq(Kinds)
  <2>1. PICK n \in 0 .. 1, k \in Kinds : log = [i \in 1 .. n |-> k]
    BY DEF BuilderInit
  <2>2. n \in Nat /\ log \in [1 .. n -> Kinds]
    BY <2>1
  <2> QED BY <2>2, SeqDef
<1>2. SlotsKept(slots)
  <2>1. slots = <<>> /\ DOMAIN slots = {} /\ slots \in Seq({})
    BY EmptySeq DEF BuilderInit
  <2> QED BY <2>1 DEF SlotsKept, IsSlots, Single, Live, With
<1>3. PendingIsScheduled
  BY DEF PendingIsScheduled, BuilderInit
<1>4. wake = [on |-> wake.on, failures |-> wake.failures]
  <2>1. wake = [on |-> FALSE, failures |-> 0]
    BY DEF BuilderInit, Asleep
  <2> QED BY <2>1
<1>5. used = [starts |-> used.starts, faults |-> used.faults, stopped |-> used.stopped]
  <2>1. used = [starts |-> 0, faults |-> 0, stopped |-> FALSE]
    BY DEF BuilderInit
  <2> QED BY <2>1
<1> QED BY <1>1, <1>2, <1>3, <1>4, <1>5 DEF BuilderInvariant

LEMMA BuilderGoesOn ==
  ASSUME BuilderAssumption, BuilderInvariant, [BuilderNext]_builder
  PROVE  BuilderInvariant' /\ Goes
<1>1. CASE UNCHANGED builder
  <2>1. Goes
    BY <1>1, SlotsRest DEF BuilderInvariant, builder
  <2>2. PendingIsScheduled'
    <3>1. Pending(slots)' => Pending(slots)
      BY <1>1 DEF Pending, Targets, Reconciled, Carried, Current, LogHead, builder
    <3> QED BY <1>1, <3>1 DEF BuilderInvariant, PendingIsScheduled, builder
  <2> QED BY <1>1, <2>1, <2>2 DEF BuilderInvariant, Goes, builder
<1>2. CASE BuilderNext
  BY <1>2, AppendBatchKeeps, SliceKeeps, FailKeeps, ReadKeeps, LifeKeeps DEF BuilderNext
<1> QED BY <1>1, <1>2

\* The versions of a transcript are always what the log says they are, one served and one built,
\* and whatever is left to do has a wake-up (the transactions of the append hook and the builder).
THEOREM BuilderInvariantHolds == BuilderSpec => []BuilderInvariant
<1>1. BuilderInit => BuilderInvariant
  BY BuilderStarts
<1>2. BuilderInvariant /\ [BuilderNext]_builder => BuilderInvariant'
  BY BuilderAssumption, BuilderGoesOn
<1> QED BY <1>1, <1>2, PTL DEF BuilderSpec

\* Every live version holds exactly the projection of the log up to its cursor, whoever wrote it,
\* and there is never a second one of either kind (maintainTranscriptsOnAppend, advanceTarget).
THEOREM RowsStayThePrefix == BuilderSpec => []RowsAreThePrefix
<1>1. BuilderInvariant => RowsAreThePrefix
  BY DEF BuilderInvariant, SlotsKept, Single, IsPrefix, Count, RowsAreThePrefix
<1> QED BY <1>1, BuilderInvariantHolds, PTL

\* Work left to the builder has a wake-up, unless the builder gave up on it
\* (hasPendingTranscriptWork, kick, ensureScheduled).
THEOREM PendingStaysScheduled == BuilderSpec => []PendingIsScheduled
<1>1. BuilderInvariant => PendingIsScheduled
  BY DEF BuilderInvariant
<1> QED BY <1>1, BuilderInvariantHolds, PTL

\* No step takes reads back in the log: not an activation, a cleanup or a freeze
\* (runTranscriptSlice's switch of the active version).
THEOREM NeverRegresses == BuilderSpec => ServedNeverRegresses
<1>1. BuilderInvariant /\ [BuilderNext]_builder
      => \A i \in With(slots, "active") : \E j \in With(slots', "active") :
           slots'[j].cursor >= slots[i].cursor
  BY BuilderAssumption, BuilderGoesOn DEF Goes, Serves
<1> QED BY <1>1, BuilderInvariantHolds, PTL DEF BuilderSpec, ServedNeverRegresses
=============================================================================
