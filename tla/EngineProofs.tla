---------------------------- MODULE EngineProofs ----------------------------
(* Theorems of the two analyses: of DrsRules, for any inventory, patterns    *)
(* and number of hosts, and of StorageScan, for any vCenter and any changes  *)
(* of it while the inventory is collected.                                   *)
EXTENDS DrsRules, StorageScan, FiniteSetTheorems, FunctionTheorems, SequenceTheorems,
        WellFoundedInduction, TLAPS

-----------------------------------------------------------------------------
(* Numbers *)

\* A set of numbers has a least one.
LEMMA Least ==
  ASSUME NEW T \in SUBSET Nat, T # {}
  PROVE  \E x \in T : \A y \in T : x <= y
<1> DEFINE R == {ss \in Nat \X Nat : ss[1] < ss[2]}
<1>1. IsWellFoundedOn(R, Nat)
  BY NatLessThanWellFounded DEF OpToRel
<1> HIDE DEF R
<1>2. PICK x \in T : \A y \in T : <<y, x>> \notin R
  BY <1>1, WFMin
<1>3. ASSUME NEW y \in T PROVE x <= y
  <2>1. <<y, x>> \in Nat \X Nat /\ <<y, x>>[1] = y /\ <<y, x>>[2] = x
    OBVIOUS
  <2>2. ~(y < x)
    BY <1>2, <2>1 DEF R
  <2> QED
    BY <2>2
<1> QED
  BY <1>3

\* What the division by the size of a rule leaves.
LEMMA Quotient ==
  ASSUME NEW a \in Nat, NEW m \in Nat \ {0}
  PROVE  a \div m \in Nat /\ (a \div m) * m <= a /\ a < (a \div m) * m + m
  OBVIOUS

\* Counting in steps of m: rows do not overlap.
LEMMA Row ==
  ASSUME NEW m \in Nat \ {0}, NEW b \in Nat
  PROVE  b * m \in Nat /\ (b - 1) * m + m = b * m /\ (b - 1) * m \in Int
  OBVIOUS

\* A position is in one row, at one place of it.
LEMMA RowsApart ==
  ASSUME NEW m \in Nat \ {0}, NEW b \in Nat, NEW c \in Nat, NEW i \in 1..m, NEW j \in 1..m,
         (b - 1) * m + i = (c - 1) * m + j
  PROVE  b = c /\ i = j
  OBVIOUS

\* Rows follow one another.
LEMMA RowsGrow ==
  ASSUME NEW m \in Nat \ {0}, NEW b \in Nat, NEW c \in Nat, b <= c
  PROVE  b * m <= c * m /\ (b < c => b * m + m <= c * m)
  OBVIOUS
-----------------------------------------------------------------------------
(* The batches of a group *)

\* A rule is about two VMs or more, and no more than the hosts.
LEMMA Sizes ==
  ASSUME NEW n \in Nat
  PROVE  /\ RuleSizeOf(n) \in Nat \ {0}
         /\ n >= 2 => RuleSizeOf(n) <= n
  BY DEF RuleSizeOf, Max2

\* A batch is a slice of the group, and only the last is short.
LEMMA BatchSlice ==
  ASSUME NEW S, NEW g \in Seq(S), NEW m \in Nat \ {0}, NEW b \in 1..NBatches(g, m)
  PROVE  /\ Batch(g, m, b) \in Seq(S) /\ Len(Batch(g, m, b)) \in 1..m
         /\ \A i \in 1..Len(Batch(g, m, b)) :
              (b - 1) * m + i \in 1..Len(g) /\ Batch(g, m, b)[i] = g[(b - 1) * m + i]
         /\ b < NBatches(g, m) => Len(Batch(g, m, b)) = m
         /\ b <= Len(g)
<1> DEFINE L    == Len(g)
           n    == NBatches(g, m)
           from == (b - 1) * m + 1
           to   == IF b * m < L THEN b * m ELSE L
<1>1. L \in Nat
  BY LenProperties
<1>2. n \in Nat /\ n * m <= L + m - 1
  BY <1>1, Quotient DEF NBatches
<1> HIDE DEF n
<1>3. b \in Nat /\ 1 <= b /\ b <= n
  BY <1>2 DEF n
<1>4. b * m \in Nat /\ (b - 1) * m + m = b * m /\ (b - 1) * m \in Int /\ b * m <= n * m
  BY <1>2, <1>3, Row, RowsGrow
<1>5. (b - 1) * m \in Nat
  BY <1>3
<1>6. (b - 1) * m < L
  BY <1>1, <1>2, <1>4
<1>7. from \in 1..L /\ to \in from..L /\ to - from + 1 <= m
  BY <1>1, <1>4, <1>5, <1>6
<1>8. b < n => b * m < L
  <2>1. b < n => b * m + m <= n * m
    BY <1>2, <1>3, RowsGrow
  <2> QED
    BY <1>1, <1>2, <1>4, <2>1
<1>9. b <= L
  <2>1. b - 1 <= (b - 1) * m
    BY <1>3
  <2> QED
    BY <1>1, <1>3, <1>5, <1>6, <2>1
<1> HIDE DEF from, to, L
<1>10. Batch(g, m, b) = SubSeq(g, from, to)
  BY DEF Batch, from, to, L
<1>11. /\ Batch(g, m, b) \in Seq(S) /\ Len(Batch(g, m, b)) = to - from + 1
       /\ \A i \in 1..(to - from + 1) : Batch(g, m, b)[i] = g[from + i - 1]
  BY <1>1, <1>7, <1>10, SubSeqProperties DEF L
<1>12. Len(Batch(g, m, b)) \in 1..m
  BY <1>1, <1>7, <1>11
<1>13. b < n => Len(Batch(g, m, b)) = m
  BY <1>1, <1>4, <1>5, <1>8, <1>11 DEF from, to
<1>14. ASSUME NEW i \in 1..Len(Batch(g, m, b))
       PROVE  (b - 1) * m + i \in 1..L /\ Batch(g, m, b)[i] = g[(b - 1) * m + i]
  <2>1. i \in 1..(to - from + 1) /\ from + i - 1 = (b - 1) * m + i
    BY <1>1, <1>5, <1>7, <1>11 DEF from
  <2>2. from + i - 1 \in 1..L
    BY <1>1, <1>7, <2>1
  <2> QED
    BY <1>11, <2>1, <2>2
<1> QED
  BY <1>9, <1>11, <1>12, <1>13, <1>14 DEF n, L

InBatch(g, m, p) == \E b \in 1..NBatches(g, m) :
                      \E i \in 1..Len(Batch(g, m, b)) : p = (b - 1) * m + i

\* Every place of the group is in a batch.
LEMMA BatchHolds ==
  ASSUME NEW S, NEW g \in Seq(S), NEW m \in Nat \ {0}, NEW p \in 1..Len(g)
  PROVE  InBatch(g, m, p)
<1> DEFINE q == (p - 1) \div m
           b == q + 1
           n == NBatches(g, m)
<1>1. Len(g) \in Nat /\ p \in Nat /\ 1 <= p /\ p <= Len(g)
  BY LenProperties
<1>2. q \in Nat /\ q * m <= p - 1 /\ p - 1 < q * m + m
  BY <1>1, Quotient
<1>3. n \in Nat /\ Len(g) + m - 1 < n * m + m
  BY <1>1, Quotient DEF NBatches
<1> HIDE DEF q, n
<1>4. b \in 1..n
  <2>1. q * m < n * m
    BY <1>1, <1>2, <1>3
  <2>2. q < n
    BY <1>2, <1>3, <2>1, RowsGrow
  <2> QED
    BY <1>2, <1>3, <2>2
<1>5. (b - 1) * m = q * m /\ b * m = q * m + m /\ q * m \in Nat
  BY <1>2
<1>6. p - q * m \in 1..Len(Batch(g, m, b))
  <2> DEFINE to == IF b * m < Len(g) THEN b * m ELSE Len(g)
  <2>1. Batch(g, m, b) = SubSeq(g, q * m + 1, to)
    BY <1>5 DEF Batch
  <2>2. to \in p..Len(g) /\ q * m + 1 \in 1..p
    BY <1>1, <1>2, <1>5
  <2>3. \A i \in (q * m + 1)..to : g[i] \in S
    BY <1>1, <2>2
  <2> HIDE DEF to
  <2>4. Len(Batch(g, m, b)) = to - q * m
    BY <1>1, <1>5, <2>1, <2>2, <2>3, SubSeqProperties
  <2> QED
    BY <1>1, <1>2, <1>5, <2>2, <2>4
<1> QED
  BY <1>2, <1>4, <1>5, <1>6 DEF n, InBatch
-----------------------------------------------------------------------------
(* The inductive invariant *)

\* A VM's place in a group, and in a rule or a skip.
At(vm, j, i) == j \in DOMAIN groups /\ i \in DOMAIN groups[j].vms /\ groups[j].vms[i] = vm
On(vm, x, i) == x \in rules \cup skips /\ i \in DOMAIN x.vms /\ x.vms[i] = vm

Inventory == \E n, p \in Nat : hits \in [1..n -> [1..p -> Hit]]

Group == [key : Keys, vms : Seq(Nat)]

Types ==
  /\ hosts \in Nat /\ Inventory /\ phase \in {"group", "split"}
  /\ next \in 1..(Len(hits) + 1) /\ (phase = "split" => next = Len(hits) + 1)
  /\ groups \in Seq(Group)
  /\ \A x \in rules : x.key \in Keys /\ x.vms \in Seq(Nat)
  /\ \A x \in skips : x.vms \in Seq(Nat)
  /\ phase = "group" => rules = {} /\ skips = {}

\* VMs are grouped by their keys, each after those before it in the inventory,
\* and go on with them.
Keyed ==
  /\ \A vm, j, i : At(vm, j, i) => vm \in 1..(next - 1) /\ KeyOf(vm) = groups[j].key /\ i <= vm
  /\ \A vm, x, i : On(vm, x, i) => /\ vm \in 1..(next - 1) /\ KeyOf(vm) # NoKey /\ i <= vm
                                   /\ x \in rules => x.key = KeyOf(vm)

\* A key has one group, and when its VMs are in rules or skips it has none.
KeysOnce ==
  /\ \A j, k \in DOMAIN groups : groups[j].key = groups[k].key => j = k
  /\ \A vm, x, i : On(vm, x, i) => \A j \in DOMAIN groups : groups[j].key # KeyOf(vm)

\* A VM seen so far, with a key, has one place.
Somewhere == \A vm \in 1..(next - 1) : KeyOf(vm) # NoKey =>
  (\E j, i : At(vm, j, i)) \/ (\E x, i : On(vm, x, i))

Once ==
  /\ \A vm, j, i, k, l : At(vm, j, i) /\ At(vm, k, l) => j = k /\ i = l
  /\ \A vm, x, i, y, l : On(vm, x, i) /\ On(vm, y, l) => x = y /\ i = l

\* Of the VMs of one key no two are skipped, if there are hosts.
LoneSkip == hosts >= 2 => \A u, v, x, i, y, l :
  On(u, x, i) /\ x \in skips /\ On(v, y, l) /\ y \in skips /\ KeyOf(u) = KeyOf(v) => u = v

\* The name of a rule is its key, or has a number behind it; a key gives no
\* name twice.
Numbered(k, b) == [k EXCEPT !.tail = Append(@, b)]
Named ==
  /\ \A x \in rules : x.name = x.key \/ \E b \in 1..Len(hits) : x.name = Numbered(x.key, b)
  /\ \A x, y \in rules : x.key = y.key /\ x.name = y.name => x = y

IInv == Types /\ Keyed /\ KeysOnce /\ Somewhere /\ Once /\ LoneSkip /\ Named /\ RuleSizes

\* The first pattern that matches decides.
LEMMA FirstHit ==
  ASSUME NEW p \in Nat, NEW h \in [1..p -> Hit], GroupKey(h) # NoKey
  PROVE  /\ GroupKey(h) \in Keys
         /\ \E i \in 1..p : h[i] = GroupKey(h) /\ \A j \in 1..(i - 1) : h[j] = NoKey
<1> DEFINE T == {i \in 1..p : h[i] # NoKey}
           P(i) == h[i] # NoKey /\ \A j \in DOMAIN h : j < i => h[j] = NoKey
<1>1. T \in SUBSET Nat /\ T # {}
  BY DEF GroupKey
<1>2. PICK i \in T : \A j \in T : i <= j
  BY <1>1, Least
<1>3. i \in DOMAIN h /\ P(i)
  BY <1>2
<1>4. (CHOOSE x \in DOMAIN h : P(x)) \in DOMAIN h /\ P(CHOOSE x \in DOMAIN h : P(x))
  BY <1>3
<1>5. GroupKey(h) = h[CHOOSE x \in DOMAIN h : P(x)]
  BY <1>3 DEF GroupKey
<1> DEFINE c == CHOOSE x \in DOMAIN h : P(x)
<1>6. c \in 1..p /\ GroupKey(h) = h[c] /\ P(c)
  BY <1>4, <1>5
<1> HIDE DEF c
<1>7. GroupKey(h) \in Keys
  BY <1>6 DEF Hit
<1>8. \A j \in 1..(c - 1) : h[j] = NoKey
  BY <1>6
<1> QED
  BY <1>6, <1>7, <1>8

\* Nothing has been grouped at first.
LEMMA InitIInv == Init => IInv
<1> SUFFICES ASSUME Init PROVE IInv
  OBVIOUS
<1>1. Inventory
  <2>1. PICK p \in DOMAIN MaxVMs : \E n \in 0..MaxVMs[p] : hits \in Clusters(n, p)
    BY DEF Init
  <2>2. MaxVMs[p] \in Nat /\ p \in Nat
    BY <2>1, BoundsAssumption
  <2>3. PICK n \in 0..MaxVMs[p] : hits \in [1..n -> [1..p -> Hit]]
    BY <2>1 DEF Clusters
  <2>4. n \in Nat
    BY <2>2
  <2> QED
    BY <2>2, <2>3, <2>4, Zenon DEF Inventory
<1>2. Len(hits) \in Nat
  BY <1>1 DEF Inventory
<1>3. Types
  BY <1>1, <1>2, BoundsAssumption DEF Init, Types
<1>4. groups = <<>> /\ rules = {} /\ skips = {} /\ next = 1
  BY DEF Init
<1>5. \A vm, j, i, x : ~At(vm, j, i) /\ ~On(vm, x, i)
  BY <1>4 DEF At, On
<1>6. Keyed /\ Once /\ LoneSkip
  BY <1>5, Zenon DEF Keyed, Once, LoneSkip
<1>7. Somewhere /\ Named /\ RuleSizes
  BY <1>4 DEF Somewhere, Named, RuleSizes
<1>8. KeysOnce
  BY <1>4, <1>5 DEF KeysOnce
<1> QED
  BY <1>3, <1>6, <1>7, <1>8 DEF IInv
-----------------------------------------------------------------------------
(* Grouping *)

\* The next VM joins no group, a new one or the one of its key: it gets one
\* place, and the others keep theirs.
LEMMA GroupStep == IInv /\ GroupVM => IInv'
<1> SUFFICES ASSUME IInv, GroupVM PROVE IInv'
  OBVIOUS
<1> DEFINE k  == GroupKey(hits[next])
           same == {i \in DOMAIN groups : groups[i].key = k}
<1>1. /\ phase = "group" /\ next <= Len(hits) /\ next' = next + 1
      /\ UNCHANGED <<hosts, hits, existing, phase, stale, rules, skips>>
      /\ groups' = IF k = NoKey THEN groups
                   ELSE IF same = {} THEN Append(groups, [key |-> k, vms |-> <<next>>])
                   ELSE [i \in DOMAIN groups |->
                           IF i \in same THEN [groups[i] EXCEPT !.vms = Append(@, next)]
                                       ELSE groups[i]]
  BY DEF GroupVM
<1>2. /\ next \in Nat /\ 1 <= next /\ rules = {} /\ skips = {} /\ groups \in Seq(Group)
      /\ hosts \in Nat /\ Inventory
  BY <1>1 DEF IInv, Types
<1>3. KeyOf(next) = k /\ (k # NoKey => k \in Keys)
  <2>1. PICK n, p \in Nat : hits \in [1..n -> [1..p -> Hit]]
    BY <1>2 DEF Inventory
  <2>2. hits[next] \in [1..p -> Hit]
    BY <1>1, <1>2, <2>1
  <2> QED
    BY <2>2, FirstHit DEF KeyOf
<1>4. Len(hits) \in Nat
  BY <1>2 DEF Inventory
<1>5. \A vm : KeyOf(vm)' = KeyOf(vm)
  BY <1>1 DEF KeyOf
<1>6. \A vm, x, i : ~On(vm, x, i) /\ ~On(vm, x, i)'
  BY <1>1, <1>2 DEF On
<1>7. ASSUME groups' \in Seq(Group),
             \A i, j \in DOMAIN groups' : groups'[i].key = groups'[j].key => i = j,
             NEW j0, NEW i0 \in Nat, i0 <= next, k # NoKey,
             \A i : ~At(next, j0, i),
             \A vm, j, i : At(vm, j, i)' <=> At(vm, j, i) \/ (vm = next /\ j = j0 /\ i = i0),
             \A vm, j, i : At(vm, j, i) => groups'[j].key = groups[j].key,
             groups'[j0].key = k
      PROVE  IInv'
  <2>1. Types'
    <3>1. Inventory'
      BY <1>1, <1>2 DEF Inventory
    <3>2. next' \in 1..(Len(hits) + 1)
      BY <1>1, <1>2, <1>4
    <3> QED
      BY <1>1, <1>2, <1>7, <3>1, <3>2 DEF Types
  <2>2. \A vm, j, i : At(vm, j, i) =>
          /\ vm \in 1..(next - 1) /\ KeyOf(vm) = groups[j].key /\ i <= vm
    BY DEF IInv, Keyed
  <2>3. \A vm, j, i : At(vm, j, i)' =>
          /\ vm \in 1..(next' - 1) /\ KeyOf(vm) = groups'[j].key /\ i <= vm
    <3> SUFFICES ASSUME NEW vm, NEW j, NEW i, At(vm, j, i)'
                 PROVE  /\ vm \in 1..(next' - 1) /\ KeyOf(vm) = groups'[j].key /\ i <= vm
      OBVIOUS
    <3>1. CASE At(vm, j, i)
      <4>1. vm \in 1..(next - 1) /\ KeyOf(vm) = groups[j].key /\ i <= vm
        BY <2>2, <3>1
      <4>2. groups'[j].key = groups[j].key
        BY <1>7, <3>1
      <4>3. vm \in 1..(next' - 1)
        BY <1>1, <1>2, <4>1
      <4> QED
        BY <4>1, <4>2, <4>3
    <3>2. CASE vm = next /\ j = j0 /\ i = i0
      <4>1. vm \in 1..(next' - 1)
        BY <1>1, <1>2, <3>2
      <4>2. KeyOf(vm) = groups'[j].key
        BY <1>3, <1>7, <3>2
      <4> QED
        BY <1>7, <3>2, <4>1, <4>2
    <3> QED
      BY <1>7, <3>1, <3>2
  <2>4. Keyed'
    BY <1>5, <1>6, <2>3 DEF Keyed
  <2>5. KeysOnce'
    BY <1>6, <1>7 DEF KeysOnce
  <2>6. Somewhere'
    <3> SUFFICES ASSUME NEW vm \in 1..(next' - 1), KeyOf(vm) # NoKey
                 PROVE  \E j, i : At(vm, j, i)'
      BY <1>5 DEF Somewhere
    <3>1. CASE vm = next
      BY <1>7, <3>1
    <3>2. CASE vm # next
      <4>1. vm \in 1..(next - 1)
        BY <1>1, <1>2, <3>2
      <4>2. \E j, i : At(vm, j, i)
        BY <1>6, <4>1 DEF IInv, Somewhere
      <4> QED
        BY <1>7, <4>2
    <3> QED
      BY <3>1, <3>2
  <2>7. Once'
    <3> SUFFICES ASSUME NEW vm, NEW j, NEW i, NEW m, NEW l, At(vm, j, i)', At(vm, m, l)'
                 PROVE  j = m /\ i = l
      BY <1>6 DEF Once
    <3>1. vm = next => ~At(vm, j, i) /\ ~At(vm, m, l)
      BY <1>2, <2>2
    <3>2. CASE vm = next
      BY <1>7, <3>1, <3>2
    <3>3. CASE vm # next
      BY <1>7, <3>3 DEF IInv, Once
    <3> QED
      BY <3>2, <3>3
  <2>8. LoneSkip' /\ Named' /\ RuleSizes'
    BY <1>1, <1>2, <1>6 DEF LoneSkip, Named, RuleSizes
  <2> QED
    BY <2>1, <2>4, <2>5, <2>6, <2>7, <2>8 DEF IInv
<1> HIDE DEF k
<1>8. CASE k = NoKey
  <2>1. groups' = groups
    BY <1>1, <1>8
  <2>2. \A vm, j, i : At(vm, j, i)' <=> At(vm, j, i)
    BY <2>1 DEF At
  <2>3. Types'
    <3>1. Inventory'
      BY <1>1, <1>2 DEF Inventory
    <3>2. next' \in 1..(Len(hits) + 1)
      BY <1>1, <1>2, <1>4
    <3> QED
      BY <1>1, <1>2, <2>1, <3>1, <3>2 DEF Types
  <2>4. \A vm, j, i : At(vm, j, i) =>
          /\ vm \in 1..(next' - 1) /\ KeyOf(vm) = groups[j].key /\ i <= vm
    BY <1>1, <1>2 DEF IInv, Keyed
  <2>5. Keyed'
    BY <1>5, <1>6, <2>1, <2>2, <2>4 DEF Keyed
  <2>6. KeysOnce'
    BY <1>6, <2>1 DEF IInv, KeysOnce
  <2>7. Somewhere'
    <3> SUFFICES ASSUME NEW vm \in 1..(next' - 1), KeyOf(vm) # NoKey
                 PROVE  \E j, i : At(vm, j, i)
      BY <1>5, <2>2 DEF Somewhere
    <3>1. vm \in 1..(next - 1)
      BY <1>1, <1>2, <1>3, <1>8
    <3> QED
      BY <1>6, <3>1 DEF IInv, Somewhere
  <2>8. Once'
    BY <1>6, <2>2 DEF IInv, Once
  <2>9. LoneSkip' /\ Named' /\ RuleSizes'
    BY <1>1, <1>2, <1>6 DEF LoneSkip, Named, RuleSizes
  <2> QED
    BY <2>3, <2>5, <2>6, <2>7, <2>8, <2>9 DEF IInv
<1>9. CASE k # NoKey /\ same = {}
  <2> DEFINE j0 == Len(groups) + 1
             new == [key |-> k, vms |-> <<next>>]
  <2>1. groups' = Append(groups, new) /\ Len(groups) \in Nat /\ j0 \notin DOMAIN groups
    BY <1>1, <1>2, <1>9
  <2>2. new \in Group /\ new.key = k /\ new.vms = <<next>>
    BY <1>2, <1>3, <1>9 DEF Group
  <2> HIDE DEF new
  <2>3. /\ groups' \in Seq(Group) /\ Len(groups') = j0 /\ groups'[j0] = new
        /\ \A j \in 1..Len(groups) : groups'[j] = groups[j]
    BY <1>2, <2>1, <2>2, AppendProperties
  <2>4. DOMAIN groups = 1..Len(groups) /\ DOMAIN groups' = 1..j0
    BY <1>2, <2>3
  <2>5. \A j \in DOMAIN groups : groups[j].key # k
    BY <1>9
  <2>6. \A i, j \in DOMAIN groups' : groups'[i].key = groups'[j].key => i = j
    <3>1. \A i, j \in DOMAIN groups : groups[i].key = groups[j].key => i = j
      BY DEF IInv, KeysOnce
    <3> QED
      BY <2>1, <2>2, <2>3, <2>4, <2>5, <3>1
  <2>7. \A vm, j, i : At(vm, j, i)' <=> At(vm, j, i) \/ (vm = next /\ j = j0 /\ i = 1)
    <3> SUFFICES ASSUME NEW vm, NEW j, NEW i
                 PROVE  At(vm, j, i)' <=> At(vm, j, i) \/ (vm = next /\ j = j0 /\ i = 1)
      OBVIOUS
    <3>1. CASE j = j0
      BY <2>1, <2>2, <2>3, <2>4, <3>1 DEF At
    <3>2. CASE j # j0
      BY <2>1, <2>3, <2>4, <3>2 DEF At
    <3> QED
      BY <3>1, <3>2
  <2>8. \A vm, j, i : At(vm, j, i) => groups'[j].key = groups[j].key
    BY <2>3, <2>4 DEF At
  <2>9. \A i : ~At(next, j0, i)
    BY <2>1 DEF At
  <2> HIDE DEF j0
  <2> QED
    BY <1>2, <1>7, <1>9, <2>2, <2>3, <2>6, <2>7, <2>8, <2>9
<1>10. CASE k # NoKey /\ same # {}
  <2>1. PICK j0 \in DOMAIN groups : groups[j0].key = k
    BY <1>10
  <2>2. same = {j0}
    BY <2>1 DEF IInv, KeysOnce
  <2> DEFINE g  == groups[j0]
             i0 == Len(g.vms) + 1
             new == [g EXCEPT !.vms = Append(g.vms, next)]
  <2>3. groups' = [i \in DOMAIN groups |-> IF i = j0 THEN new ELSE groups[i]]
    BY <1>1, <1>10, <2>2
  <2>4. g \in Group /\ g.vms \in Seq(Nat) /\ Len(g.vms) \in Nat
    <3>1. g \in Group
      BY <1>2, <2>1
    <3> QED
      BY <3>1 DEF Group
  <2>5. /\ Append(g.vms, next) \in Seq(Nat) /\ Len(Append(g.vms, next)) = i0
        /\ \A i \in 1..Len(g.vms) : Append(g.vms, next)[i] = g.vms[i]
        /\ Append(g.vms, next)[i0] = next
    BY <1>2, <2>4, AppendProperties
  <2>6. new \in Group /\ new.key = k /\ new.vms = Append(g.vms, next)
    BY <2>1, <2>4, <2>5 DEF Group
  <2> HIDE DEF new
  <2>7. /\ DOMAIN groups' = DOMAIN groups /\ groups'[j0] = new
        /\ \A j \in DOMAIN groups : j # j0 => groups'[j] = groups[j]
    BY <2>1, <2>3
  <2>8. groups' \in Seq(Group)
    <3>1. DOMAIN groups = 1..Len(groups) /\ Len(groups) \in Nat
      BY <1>2
    <3>2. \A j \in 1..Len(groups) : groups'[j] \in Group
      BY <1>2, <2>6, <2>7, <3>1
    <3>3. groups' = [i \in 1..Len(groups) |-> groups'[i]]
      BY <2>3, <3>1
    <3> QED
      BY <3>1, <3>2, <3>3, IsASeq
  <2>9. \A j \in DOMAIN groups : groups'[j].key = groups[j].key
    BY <2>1, <2>6, <2>7
  <2>10. \A i, j \in DOMAIN groups' : groups'[i].key = groups'[j].key => i = j
    BY <2>7, <2>9 DEF IInv, KeysOnce
  <2>11. DOMAIN g.vms = 1..Len(g.vms) /\ DOMAIN new.vms = 1..i0
    BY <2>4, <2>5, <2>6
  <2>12. \A vm, j, i : At(vm, j, i)' <=> At(vm, j, i) \/ (vm = next /\ j = j0 /\ i = i0)
    <3> SUFFICES ASSUME NEW vm, NEW j, NEW i
                 PROVE  At(vm, j, i)' <=> At(vm, j, i) \/ (vm = next /\ j = j0 /\ i = i0)
      OBVIOUS
    <3>1. CASE j = j0
      <4>1. At(vm, j, i)' <=> i \in 1..i0 /\ Append(g.vms, next)[i] = vm
        BY <2>1, <2>6, <2>7, <2>11, <3>1 DEF At
      <4>2. At(vm, j, i) <=> i \in 1..Len(g.vms) /\ g.vms[i] = vm
        BY <2>1, <2>11, <3>1 DEF At
      <4>3. i \in 1..i0 <=> i \in 1..Len(g.vms) \/ i = i0
        BY <2>4
      <4>4. i0 \notin 1..Len(g.vms)
        BY <2>4
      <4> QED
        BY <2>5, <3>1, <4>1, <4>2, <4>3, <4>4
    <3>2. CASE j # j0
      BY <2>7, <3>2 DEF At
    <3> QED
      BY <3>1, <3>2
  <2>13. \A i : ~At(next, j0, i)
    BY <1>2 DEF IInv, Keyed
  <2>14. i0 <= next
    <3>1. CASE Len(g.vms) = 0
      BY <1>2, <3>1
    <3>2. CASE Len(g.vms) # 0
      <4> DEFINE last == g.vms[Len(g.vms)]
      <4>1. At(last, j0, Len(g.vms))
        BY <2>1, <2>4, <2>11, <3>2 DEF At
      <4> HIDE DEF last
      <4>2. last \in 1..(next - 1) /\ Len(g.vms) <= last
        BY <4>1 DEF IInv, Keyed
      <4> QED
        BY <1>2, <2>4, <4>2
    <3> QED
      BY <3>1, <3>2
  <2>15. \A vm, j, i : At(vm, j, i) => groups'[j].key = groups[j].key
    BY <2>9 DEF At
  <2>16. i0 \in Nat /\ groups'[j0].key = k
    BY <2>4, <2>6, <2>7
  <2> HIDE DEF i0, g
  <2> QED
    BY <1>7, <1>10, <2>8, <2>10, <2>12, <2>13, <2>14, <2>15, <2>16
<1> QED
  BY <1>8, <1>9, <1>10
-----------------------------------------------------------------------------
(* Splitting *)

\* Rules R and skips K are made of the VMs of a group g, each of which is in one
\* of them, once.
Cut(g, R, K) ==
  /\ \A x \in R \cup K : /\ x.vms \in Seq(Nat)
                         /\ \A l \in DOMAIN x.vms :
                              \E i \in DOMAIN g.vms : l <= i /\ x.vms[l] = g.vms[i]
  /\ \A i \in DOMAIN g.vms : \E x \in R \cup K : \E l \in DOMAIN x.vms : x.vms[l] = g.vms[i]
  /\ \A x, y \in R \cup K : \A l \in DOMAIN x.vms, m \in DOMAIN y.vms :
       x.vms[l] = y.vms[m] => x = y /\ l = m
  /\ \A x \in R : /\ x.key = g.key
                  /\ x.name = x.key \/ \E b \in 1..Len(hits) : x.name = Numbered(x.key, b)
                  /\ hosts >= 2 /\ Len(x.vms) >= 2
                  /\ Len(x.vms) <= RuleSizeOf(hosts) /\ Len(x.vms) <= hosts
  /\ \A x, y \in R : x.name = y.name => x = y
  /\ hosts >= 2 => \A x, y \in K : \A l \in DOMAIN x.vms, m \in DOMAIN y.vms :
       x.vms[l] = y.vms[m]

\* The first group becomes rules and skips in which each of its VMs stands once.
LEMMA HeadStep ==
  ASSUME IInv, phase = "split", groups # <<>>,
         NEW R, NEW K, Cut(Head(groups), R, K),
         groups' = Tail(groups), rules' = rules \cup R, skips' = skips \cup K,
         UNCHANGED <<hosts, hits, phase, next>>
  PROVE  IInv'
<1> DEFINE g == Head(groups)
<1> USE DEF Cut
<1>1. /\ groups \in Seq(Group) /\ Len(groups) \in Nat /\ Len(groups) >= 1
      /\ groups[1] = g /\ g \in Group /\ 1 \in DOMAIN groups /\ DOMAIN groups = 1..Len(groups)
  <2>1. groups \in Seq(Group)
    BY DEF IInv, Types
  <2> QED
    BY <2>1
<1>2. /\ groups' \in Seq(Group) /\ DOMAIN groups' = 1..(Len(groups) - 1)
      /\ \A j \in DOMAIN groups' : j + 1 \in DOMAIN groups /\ groups'[j] = groups[j + 1]
  BY <1>1, HeadTailProperties
<1>3. \A vm : KeyOf(vm)' = KeyOf(vm)
  BY DEF KeyOf
\* Places left, and places new.
<1>4. ASSUME NEW vm, NEW j, NEW i, At(vm, j, i)'
      PROVE  j \in 1..(Len(groups) - 1) /\ At(vm, j + 1, i) /\ groups'[j].key = groups[j + 1].key
  BY <1>2, <1>4 DEF At
<1>5. ASSUME NEW vm, NEW i, At(vm, 1, i)
      PROVE  i \in DOMAIN g.vms /\ vm = g.vms[i] /\ KeyOf(vm) = g.key
  BY <1>1, <1>5 DEF At, IInv, Keyed
<1>6. ASSUME NEW vm, NEW x, NEW l, On(vm, x, l)'
      PROVE  On(vm, x, l) \/ (x \in R \cup K /\ l \in DOMAIN x.vms /\ x.vms[l] = vm)
  BY <1>6 DEF On
<1>7. ASSUME NEW vm, NEW x \in R \cup K, NEW l \in DOMAIN x.vms, x.vms[l] = vm
      PROVE  \E i \in DOMAIN g.vms : At(vm, 1, i) /\ l <= i
  BY <1>1, <1>7 DEF At
<1>8. ASSUME NEW vm, NEW x, NEW l, On(vm, x, l)
      PROVE  KeyOf(vm) # g.key /\ On(vm, x, l)'
  BY <1>1, <1>8 DEF IInv, KeysOnce, On
<1>9. ASSUME NEW vm, NEW i, At(vm, 1, i)
      PROVE  \E x, l : On(vm, x, l)'
  <2>1. i \in DOMAIN g.vms /\ vm = g.vms[i]
    BY <1>5, <1>9
  <2>2. PICK x \in R \cup K : \E l \in DOMAIN x.vms : x.vms[l] = g.vms[i]
    BY <2>1
  <2>3. PICK l \in DOMAIN x.vms : x.vms[l] = vm
    BY <2>1, <2>2
  <2>4. On(vm, x, l)'
    BY <2>3 DEF On
  <2> QED
    BY <2>4, Zenon
<1>10. ASSUME NEW j \in DOMAIN groups PROVE groups[j].key \in Keys
  <2>1. groups[j] \in Group
    BY <1>1
  <2> QED
    BY <2>1 DEF Group
<1>11. Types'
  <2>1. Inventory'
    BY DEF IInv, Types, Inventory
  <2>2. \A x \in R : x.key \in Keys
    BY <1>1 DEF Group
  <2> QED
    BY <1>2, <2>1, <2>2 DEF IInv, Types
<1>12. Keyed'
  <2>1. ASSUME NEW vm, NEW j, NEW i, At(vm, j, i)'
        PROVE  vm \in 1..(next - 1) /\ KeyOf(vm) = groups'[j].key /\ i <= vm
    BY <1>4, <2>1 DEF IInv, Keyed
  <2>2. ASSUME NEW vm, NEW x, NEW l, On(vm, x, l)'
        PROVE  vm \in 1..(next - 1) /\ KeyOf(vm) # NoKey /\ (x \in rules' => x.key = KeyOf(vm))
               /\ l <= vm
    <3>1. CASE On(vm, x, l) /\ x \notin R
      BY <3>1 DEF IInv, Keyed
    <3>2. CASE x \in R \cup K /\ l \in DOMAIN x.vms /\ x.vms[l] = vm /\ ~On(vm, x, l)
      <4>1. PICK i \in DOMAIN g.vms : At(vm, 1, i) /\ l <= i
        BY <1>7, <3>2
      <4>2. vm \in 1..(next - 1) /\ KeyOf(vm) = g.key /\ i <= vm
        BY <1>5, <4>1 DEF IInv, Keyed
      <4>5. l \in Nat /\ i \in Nat /\ vm \in Nat
        <5>1. x.vms \in Seq(Nat) /\ g.vms \in Seq(Nat)
          BY <1>1, <3>2 DEF Group
        <5>2. next \in Nat
          BY <1>1 DEF IInv, Types, Inventory
        <5>3. DOMAIN x.vms = 1..Len(x.vms) /\ DOMAIN g.vms = 1..Len(g.vms)
          BY <5>1
        <5>4. l \in Nat /\ i \in Nat
          BY <3>2, <4>1, <5>3
        <5> QED
          BY <4>2, <5>2, <5>4
      <4>3. g.key # NoKey
        BY <1>1, <1>10, KeysAssumption
      <4>4. x \in rules' => x \in R
        BY <3>2 DEF On
      <4> QED
        BY <4>1, <4>2, <4>3, <4>4, <4>5
    <3>3. CASE On(vm, x, l) /\ x \in R
      <4>1. l \in DOMAIN x.vms /\ x.vms[l] = vm
        BY <3>3 DEF On
      <4>2. PICK i : At(vm, 1, i)
        BY <1>7, <3>3, <4>1
      <4> QED
        BY <1>5, <1>8, <3>3, <4>2
    <3> QED
      BY <1>6, <2>2, <3>1, <3>2, <3>3
  <2> QED
    BY <1>3, <2>1, <2>2 DEF Keyed
<1>13. KeysOnce'
  <2>1. ASSUME NEW j \in DOMAIN groups', NEW k \in DOMAIN groups', groups'[j].key = groups'[k].key
        PROVE  j = k
    <3>1. j + 1 = k + 1
      BY <1>2, <2>1 DEF IInv, KeysOnce
    <3> QED
      BY <1>1, <1>2, <3>1
  <2>2. ASSUME NEW vm, NEW x, NEW l, On(vm, x, l)', NEW j \in DOMAIN groups'
        PROVE  groups'[j].key # KeyOf(vm)
    <3>1. j + 1 \in DOMAIN groups /\ groups'[j] = groups[j + 1] /\ j + 1 # 1
      BY <1>1, <1>2
    <3>2. CASE On(vm, x, l)
      BY <3>1, <3>2 DEF IInv, KeysOnce
    <3>3. CASE x \in R \cup K /\ l \in DOMAIN x.vms /\ x.vms[l] = vm
      <4>1. KeyOf(vm) = g.key
        BY <1>5, <1>7, <3>3
      <4>2. groups[j + 1].key # groups[1].key
        BY <1>1, <3>1 DEF IInv, KeysOnce
      <4> QED
        BY <1>1, <3>1, <4>1, <4>2
    <3> QED
      BY <1>6, <2>2, <3>2, <3>3
  <2> QED
    BY <1>3, <2>1, <2>2 DEF KeysOnce
<1>14. Somewhere'
  <2> SUFFICES ASSUME NEW vm \in 1..(next - 1), KeyOf(vm) # NoKey
               PROVE  (\E j, i : At(vm, j, i)') \/ (\E x, l : On(vm, x, l)')
    BY <1>3 DEF Somewhere
  <2>1. CASE \E x, l : On(vm, x, l)
    BY <1>8, <2>1
  <2>2. CASE \E j, i : At(vm, j, i)
    <3>1. PICK j, i : At(vm, j, i)
      BY <2>2
    <3>2. CASE j = 1
      BY <1>9, <3>1, <3>2
    <3>3. CASE j # 1
      <4>1. j \in 1..Len(groups)
        BY <1>1, <3>1 DEF At
      <4>2. j - 1 \in DOMAIN groups' /\ (j - 1) + 1 = j
        BY <1>1, <1>2, <3>3, <4>1
      <4>3. groups'[j - 1] = groups[j]
        BY <1>2, <4>2
      <4> DEFINE h == j - 1
      <4>4. At(vm, h, i)'
        BY <3>1, <4>2, <4>3 DEF At
      <4> QED
        BY <4>4
    <3> QED
      BY <3>2, <3>3
  <2> QED
    BY <2>1, <2>2 DEF IInv, Somewhere
<1>15. Once'
  <2>1. ASSUME NEW vm, NEW j, NEW i, NEW k, NEW l, At(vm, j, i)', At(vm, k, l)'
        PROVE  j = k /\ i = l
    <3>1. j + 1 = k + 1 /\ i = l
      BY <1>4, <2>1 DEF IInv, Once
    <3>2. j \in Int /\ k \in Int
      BY <1>1, <1>4, <2>1
    <3> QED
      BY <3>1, <3>2
  <2>2. ASSUME NEW vm, NEW x, NEW i, NEW y, NEW l, On(vm, x, i)', On(vm, y, l)'
        PROVE  x = y /\ i = l
    <3>1. CASE On(vm, x, i) /\ On(vm, y, l)
      BY <3>1 DEF IInv, Once
    <3>2. CASE /\ x \in R \cup K /\ i \in DOMAIN x.vms /\ x.vms[i] = vm
               /\ y \in R \cup K /\ l \in DOMAIN y.vms /\ y.vms[l] = vm
      BY <3>2
    <3>3. CASE On(vm, x, i) /\ y \in R \cup K /\ l \in DOMAIN y.vms /\ y.vms[l] = vm
      <4>1. PICK m : At(vm, 1, m)
        BY <1>7, <3>3
      <4> QED
        BY <1>5, <1>8, <3>3, <4>1
    <3>4. CASE On(vm, y, l) /\ x \in R \cup K /\ i \in DOMAIN x.vms /\ x.vms[i] = vm
      <4>1. PICK m : At(vm, 1, m)
        BY <1>7, <3>4
      <4> QED
        BY <1>5, <1>8, <3>4, <4>1
    <3> QED
      BY <1>6, <2>2, <3>1, <3>2, <3>3, <3>4
  <2> QED
    BY <2>1, <2>2 DEF Once
<1>16. LoneSkip'
  <2> SUFFICES ASSUME hosts >= 2, NEW u, NEW v, NEW x, NEW i, NEW y, NEW l,
                      On(u, x, i)', x \in skips', On(v, y, l)', y \in skips', KeyOf(u) = KeyOf(v)
               PROVE  u = v
    BY <1>3 DEF LoneSkip
  <2>1. ASSUME NEW w, NEW z, NEW m, On(w, z, m)', z \in skips'
        PROVE  \/ On(w, z, m) /\ z \in skips /\ KeyOf(w) # g.key
               \/ z \in K /\ m \in DOMAIN z.vms /\ z.vms[m] = w /\ KeyOf(w) = g.key
    <3>1. m \in DOMAIN z.vms /\ z.vms[m] = w
      BY <2>1 DEF On
    <3>2. CASE z \in K
      BY <1>5, <1>7, <3>1, <3>2
    <3>3. CASE z \in skips
      BY <1>8, <3>1, <3>3 DEF On
    <3> QED
      BY <2>1, <3>2, <3>3
  <2>2. CASE KeyOf(u) = g.key
    <3>1. x \in K /\ i \in DOMAIN x.vms /\ x.vms[i] = u
      BY <2>1, <2>2
    <3>2. KeyOf(v) = g.key
      BY <2>2
    <3>3. y \in K /\ l \in DOMAIN y.vms /\ y.vms[l] = v
      BY <2>1, <3>2
    <3> QED
      BY <3>1, <3>3
  <2>3. CASE KeyOf(u) # g.key
    BY <2>1, <2>3 DEF IInv, LoneSkip
  <2> QED
    BY <2>2, <2>3
<1>17. RuleSizes'
  BY DEF IInv, RuleSizes
<1>18. Named'
  <2>1. ASSUME NEW x \in rules' PROVE x.name = x.key \/ \E b \in 1..Len(hits) : x.name = Numbered(x.key, b)
    BY <2>1 DEF IInv, Named
  <2>2. ASSUME NEW x \in rules PROVE x.key # g.key
    <3>1. x.vms \in Seq(Nat) /\ Len(x.vms) >= 2
      BY DEF IInv, Types, RuleSizes
    <3>2. On(x.vms[1], x, 1)
      BY <3>1 DEF On
    <3> QED
      BY <1>8, <3>2 DEF IInv, Keyed
  <2>3. ASSUME NEW x \in rules', NEW y \in rules', x.key = y.key, x.name = y.name
        PROVE  x = y
    BY <2>2, <2>3 DEF IInv, Named
  <2> QED
    BY <2>1, <2>3 DEF Named, Numbered
<1> QED
  BY <1>11, <1>12, <1>13, <1>14, <1>15, <1>16, <1>17, <1>18 DEF IInv
\* The rules made before are found; the groups stay.
LEMMA StaleStep == IInv /\ FindStale => IInv'
<1> SUFFICES ASSUME IInv, FindStale PROVE IInv'
  OBVIOUS
<1>1. /\ phase' = "split" /\ next > Len(hits)
      /\ UNCHANGED <<hosts, hits, next, groups, rules, skips>>
  BY DEF FindStale
<1>2. \A vm : KeyOf(vm)' = KeyOf(vm)
  BY <1>1 DEF KeyOf
<1>3. /\ \A vm, j, i : At(vm, j, i)' <=> At(vm, j, i)
      /\ \A vm, x, i : On(vm, x, i)' <=> On(vm, x, i)
  BY <1>1 DEF At, On
<1>4. Types'
  <2>1. Inventory' /\ Len(hits) \in Nat
    <3>1. Inventory
      BY DEF IInv, Types
    <3>2. Inventory'
      BY <1>1, <3>1 DEF Inventory
    <3>3. Len(hits) \in Nat
      BY <3>1 DEF Inventory
    <3> QED
      BY <3>2, <3>3
  <2>2. next = Len(hits) + 1
    BY <1>1, <2>1 DEF IInv, Types
  <2> QED
    BY <1>1, <2>1, <2>2 DEF IInv, Types
<1>5. Keyed' /\ KeysOnce' /\ Somewhere' /\ Once' /\ LoneSkip'
  <2>1. Keyed'
    BY <1>1, <1>2, <1>3 DEF IInv, Keyed
  <2>2. KeysOnce'
    BY <1>1, <1>2, <1>3 DEF IInv, KeysOnce
  <2>3. Somewhere'
    BY <1>1, <1>2, <1>3 DEF IInv, Somewhere
  <2>4. Once'
    <3>1. ASSUME NEW vm, NEW j, NEW i, NEW k, NEW l, At(vm, j, i)', At(vm, k, l)'
          PROVE  j = k /\ i = l
      BY <1>3, <3>1 DEF IInv, Once
    <3>2. ASSUME NEW vm, NEW x, NEW i, NEW y, NEW l, On(vm, x, i)', On(vm, y, l)'
          PROVE  x = y /\ i = l
      BY <1>3, <3>2 DEF IInv, Once
    <3> QED
      BY <3>1, <3>2 DEF Once
  <2>5. LoneSkip'
    BY <1>1, <1>2, <1>3 DEF IInv, LoneSkip
  <2> QED
    BY <2>1, <2>2, <2>3, <2>4, <2>5
<1>6. Named' /\ RuleSizes'
  BY <1>1 DEF IInv, Named, Numbered, RuleSizes
<1> QED
  BY <1>4, <1>5, <1>6 DEF IInv

\* A group that is skipped is one entry, with all its VMs.
LEMMA SkipStep == IInv /\ (SkipSingle \/ SkipHosts) => IInv'
<1> SUFFICES ASSUME IInv, SkipSingle \/ SkipHosts PROVE IInv'
  OBVIOUS
<1> DEFINE g == Head(groups)
<1>1. PICK e : /\ e.vms = g.vms /\ skips' = skips \cup {e} /\ rules' = rules
               /\ phase = "split" /\ groups # <<>> /\ groups' = Tail(groups)
               /\ UNCHANGED <<hosts, hits, phase, next>>
               /\ hosts >= 2 => Len(g.vms) = 1
  <2>1. ASSUME NEW r, skips' = skips \cup {[reason |-> r, vms |-> g.vms]},
               hosts >= 2 => Len(g.vms) = 1, rules' = rules,
               phase = "split", groups # <<>>, groups' = Tail(groups),
               UNCHANGED <<hosts, hits, phase, next>>
        PROVE  \E e : /\ e.vms = g.vms /\ skips' = skips \cup {e} /\ rules' = rules
                      /\ phase = "split" /\ groups # <<>> /\ groups' = Tail(groups)
                      /\ UNCHANGED <<hosts, hits, phase, next>>
                      /\ hosts >= 2 => Len(g.vms) = 1
    <3> WITNESS [reason |-> r, vms |-> g.vms]
    <3> QED
      BY <2>1
  <2>2. CASE SkipSingle
    BY <2>1, <2>2 DEF SkipSingle
  <2>3. CASE SkipHosts
    <3>1. hosts >= 2 => Len(g.vms) = 1
      BY <2>3 DEF SkipHosts, IInv, Types
    <3>2. skips' = skips \cup {[reason |-> "hosts", vms |-> g.vms]} /\ rules' = rules
      BY <2>3 DEF SkipHosts
    <3>3. /\ phase = "split" /\ groups # <<>> /\ groups' = Tail(groups)
          /\ UNCHANGED <<hosts, hits, phase, next>>
      BY <2>3 DEF SkipHosts
    <3> HIDE DEF g
    <3> QED
      BY <2>1, <3>1, <3>2, <3>3
  <2> QED
    BY <2>2, <2>3
<1>2. g.vms \in Seq(Nat)
  <2>1. groups \in Seq(Group) /\ groups # <<>>
    BY <1>1 DEF IInv, Types
  <2>2. g \in Group
    BY <2>1, HeadTailProperties
  <2> QED
    BY <2>2 DEF Group
<1>3. \A i, l \in DOMAIN g.vms : g.vms[i] = g.vms[l] => i = l
  <2> SUFFICES ASSUME NEW i \in DOMAIN g.vms, NEW l \in DOMAIN g.vms, g.vms[i] = g.vms[l]
               PROVE  i = l
    OBVIOUS
  <2>1. 1 \in DOMAIN groups /\ groups[1] = g
    BY <1>1 DEF IInv, Types
  <2>2. At(g.vms[i], 1, i) /\ At(g.vms[i], 1, l)
    BY <2>1 DEF At
  <2> QED
    BY <2>2 DEF IInv, Once
<1>4. hosts >= 2 => \A i, l \in DOMAIN g.vms : g.vms[i] = g.vms[l]
  BY <1>1, <1>2
<1> DEFINE R == {}
           K == {e}
<1>5. \A x : x \notin R /\ (x \in K <=> x = e)
  OBVIOUS
<1>6. rules' = rules \cup R /\ skips' = skips \cup K
  BY <1>1
<1> HIDE DEF R, K
<1>7. \A x \in R \cup K : /\ x.vms \in Seq(Nat)
                         /\ \A l \in DOMAIN x.vms :
                              \E i \in DOMAIN g.vms : l <= i /\ x.vms[l] = g.vms[i]
  BY <1>1, <1>2, <1>5
<1>8. \A i \in DOMAIN g.vms : \E x \in R \cup K : \E l \in DOMAIN x.vms : x.vms[l] = g.vms[i]
  BY <1>1, <1>5
<1>9. \A x, y \in R \cup K : \A l \in DOMAIN x.vms, m \in DOMAIN y.vms :
        x.vms[l] = y.vms[m] => x = y /\ l = m
  BY <1>1, <1>3, <1>5
<1>10. hosts >= 2 => \A x, y \in K : \A l \in DOMAIN x.vms, m \in DOMAIN y.vms :
        x.vms[l] = y.vms[m]
  BY <1>1, <1>4, <1>5
<1>11. \A x \in R : /\ x.key = g.key
                    /\ x.name = x.key \/ \E b \in 1..Len(hits) : x.name = Numbered(x.key, b)
                    /\ hosts >= 2 /\ Len(x.vms) >= 2
                    /\ Len(x.vms) <= RuleSizeOf(hosts) /\ Len(x.vms) <= hosts
  BY <1>5
<1>12. \A x, y \in R : x.name = y.name => x = y
  BY <1>5
<1>13. Cut(g, R, K)
  BY <1>7, <1>8, <1>9, <1>10, <1>11, <1>12, Zenon DEF Cut
<1> QED
  BY <1>1, <1>6, <1>13, HeadStep
\* A group that is split becomes its batches: rules, and perhaps a skip at the end.
LEMMA SplitStep == IInv /\ SplitGroup => IInv'
<1> SUFFICES ASSUME IInv, SplitGroup PROVE IInv'
  OBVIOUS
<1> DEFINE g == Head(groups)
           m == RuleSizeOf(hosts)
           n == NBatches(g.vms, m)
           B(b) == Batch(g.vms, m, b)
           Long == RuleBatches(g.vms, hosts)
           rule(b) == [name |-> RuleName(g.key, b, n), key |-> g.key, vms |-> B(b)]
           skip(b) == [reason |-> "tail", vms |-> B(b)]
           R == {rule(b) : b \in Long}
           K == {skip(b) : b \in (1..n) \ Long}
<1>1. /\ phase = "split" /\ groups # <<>> /\ hosts >= 2 /\ groups' = Tail(groups)
      /\ rules' = rules \cup R /\ skips' = skips \cup K
      /\ UNCHANGED <<hosts, hits, phase, next>>
  BY DEF SplitGroup
<1>2. groups \in Seq(Group) /\ hosts \in Nat /\ Inventory
  BY DEF IInv, Types
<1>3. g \in Group /\ 1 \in DOMAIN groups /\ groups[1] = g
  BY <1>1, <1>2, HeadTailProperties
<1>4. g.key \in Keys /\ g.vms \in Seq(Nat) /\ Len(g.vms) \in Nat /\ DOMAIN g.vms = 1..Len(g.vms)
  BY <1>3 DEF Group
<1>5. m \in Nat \ {0} /\ m <= hosts
  BY <1>1, <1>2, Sizes
<1>6. n \in Nat
  BY <1>4, <1>5, Quotient DEF NBatches
<1>7. \A i, l \in DOMAIN g.vms : g.vms[i] = g.vms[l] => i = l
  <2> SUFFICES ASSUME NEW i \in DOMAIN g.vms, NEW l \in DOMAIN g.vms, g.vms[i] = g.vms[l]
               PROVE  i = l
    OBVIOUS
  <2>1. At(g.vms[i], 1, i) /\ At(g.vms[i], 1, l)
    BY <1>3 DEF At
  <2> QED
    BY <2>1 DEF IInv, Once
<1>8. Len(g.vms) <= Len(hits)
  <2>1. Len(hits) \in Nat /\ next = Len(hits) + 1
    BY <1>1, <1>2 DEF IInv, Types, Inventory
  <2>2. CASE Len(g.vms) = 0
    BY <2>1, <2>2
  <2>3. CASE Len(g.vms) # 0
    <3> DEFINE last == g.vms[Len(g.vms)]
    <3>1. At(last, 1, Len(g.vms))
      BY <1>3, <1>4, <2>3 DEF At
    <3> HIDE DEF last
    <3>2. last \in 1..(next - 1) /\ Len(g.vms) <= last
      BY <3>1 DEF IInv, Keyed
    <3> QED
      BY <1>4, <2>1, <3>2
  <2> QED
    BY <2>2, <2>3
\* Batches as slices.
<1>9. ASSUME NEW b \in 1..n
      PROVE  /\ B(b) \in Seq(Nat) /\ Len(B(b)) \in 1..m /\ DOMAIN B(b) = 1..Len(B(b))
             /\ b <= Len(hits)
             /\ b < n => Len(B(b)) = m
             /\ \A i \in DOMAIN B(b) : (b - 1) * m + i \in DOMAIN g.vms
                                       /\ B(b)[i] = g.vms[(b - 1) * m + i]
  <2>1. /\ B(b) \in Seq(Nat) /\ Len(B(b)) \in 1..m
        /\ \A i \in 1..Len(B(b)) : (b - 1) * m + i \in 1..Len(g.vms)
                                   /\ B(b)[i] = g.vms[(b - 1) * m + i]
        /\ b < n => Len(B(b)) = m
        /\ b <= Len(g.vms)
    BY <1>4, <1>5, BatchSlice
  <2>2. DOMAIN B(b) = 1..Len(B(b))
    BY <2>1
  <2>3. b <= Len(hits)
    <3>1. Len(hits) \in Nat
      BY <1>2 DEF Inventory
    <3> QED
      BY <1>4, <1>8, <2>1, <3>1
  <2> QED
    BY <1>4, <2>1, <2>2, <2>3
<1>10. ASSUME NEW p \in DOMAIN g.vms
       PROVE  \E b \in 1..n : \E i \in DOMAIN B(b) : B(b)[i] = g.vms[p]
  <2>1. p \in 1..Len(g.vms)
    BY <1>4
  <2>2. \E b \in 1..NBatches(g.vms, m) :
          \E i \in 1..Len(Batch(g.vms, m, b)) : p = (b - 1) * m + i
    <3> DEFINE v == g.vms
    <3>1. v \in Seq(Nat) /\ m \in Nat \ {0} /\ p \in 1..Len(v)
      BY <1>4, <1>5, <2>1
    <3> HIDE DEF v, m
    <3>2. InBatch(v, m, p)
      BY <3>1, BatchHolds
    <3> QED
      BY <3>2 DEF v, InBatch
  <2>3. PICK b \in 1..n : \E i \in 1..Len(B(b)) : p = (b - 1) * m + i
    BY <2>2
  <2> HIDE DEF n, B
  <2> QED
    BY <1>9, <2>3
<1>11. ASSUME NEW b \in 1..n, NEW c \in 1..n, NEW i \in DOMAIN B(b), NEW l \in DOMAIN B(c),
              B(b)[i] = B(c)[l]
       PROVE  b = c /\ i = l
  <2>1. (b - 1) * m + i = (c - 1) * m + l
    BY <1>7, <1>9, <1>11
  <2>2. /\ Len(B(b)) \in 1..m /\ DOMAIN B(b) = 1..Len(B(b))
        /\ Len(B(c)) \in 1..m /\ DOMAIN B(c) = 1..Len(B(c))
    BY <1>9
  <2>3. i \in 1..Len(B(b)) /\ l \in 1..Len(B(c))
    BY <2>2
  <2> HIDE DEF n, B, m
  <2>4. b \in Nat /\ c \in Nat
    BY <1>6
  <2>5. i \in 1..m /\ l \in 1..m
    BY <1>5, <2>2, <2>3
  <2> QED
    BY <1>5, <2>1, <2>4, <2>5, RowsApart
<1>12. /\ Long \subseteq 1..n
       /\ \A b \in 1..n : b \in Long <=> Len(B(b)) >= 2
  BY <1>1 DEF RuleBatches
<1> HIDE DEF n, B, Long
<1>13. \A x \in R \cup K : \E b \in 1..n : x.vms = B(b)
  BY <1>12
<1>14. \A b \in 1..n : \E x \in R \cup K : x.vms = B(b)
  <2> SUFFICES ASSUME NEW b \in 1..n PROVE \E x \in R \cup K : x.vms = B(b)
    OBVIOUS
  <2>1. CASE b \in Long
    <3>1. rule(b) \in R /\ rule(b).vms = B(b)
      BY <2>1
    <3> QED
      BY <3>1
  <2>2. CASE b \notin Long
    <3>1. skip(b) \in K /\ skip(b).vms = B(b)
      BY <2>2
    <3> QED
      BY <3>1
  <2> QED
    BY <2>1, <2>2
<1>15. \A x \in R : \E b \in Long : x = rule(b) /\ x.vms = B(b) /\ x.key = g.key
                                   /\ x.name = RuleName(g.key, b, n)
  OBVIOUS
<1>16. \A x \in K : \E b \in (1..n) \ Long : x = skip(b) /\ x.vms = B(b)
  OBVIOUS
<1>17. ASSUME NEW x \in R \cup K, NEW y \in R \cup K, NEW b \in 1..n, x.vms = B(b), y.vms = B(b)
       PROVE  x = y
  <2>1. \A c \in 1..n : B(c) = B(b) => c = b
    <3> SUFFICES ASSUME NEW c \in 1..n, B(c) = B(b) PROVE c = b
      OBVIOUS
    <3>1. 1 \in DOMAIN B(b) /\ 1 \in DOMAIN B(c)
      BY <1>9
    <3> QED
      BY <1>11, <3>1
  <2>2. CASE b \in Long
    <3>1. x \notin K /\ y \notin K
      BY <1>16, <1>17, <2>1, <2>2
    <3> QED
      BY <1>12, <1>15, <1>17, <2>1, <3>1
  <2>3. CASE b \notin Long
    <3>1. x \notin R /\ y \notin R
      BY <1>12, <1>15, <1>17, <2>1, <2>3
    <3> QED
      BY <1>16, <1>17, <2>1, <3>1
  <2> QED
    BY <2>2, <2>3
<1> HIDE DEF rule, skip, R, K
<1>18. \A x \in R \cup K : /\ x.vms \in Seq(Nat)
                          /\ \A l \in DOMAIN x.vms :
                               \E i \in DOMAIN g.vms : l <= i /\ x.vms[l] = g.vms[i]
  <2> SUFFICES ASSUME NEW x \in R \cup K, NEW b \in 1..n, x.vms = B(b)
               PROVE  /\ B(b) \in Seq(Nat)
                      /\ \A l \in DOMAIN B(b) :
                           \E i \in DOMAIN g.vms : l <= i /\ B(b)[l] = g.vms[i]
    BY <1>13
  <2>1. \A l \in DOMAIN B(b) : l <= (b - 1) * m + l
    <3>1. b \in Nat \ {0} /\ DOMAIN B(b) \subseteq Nat
      BY <1>6, <1>9
    <3>2. (b - 1) * m \in Nat
      BY <1>5, <3>1
    <3> QED
      BY <3>1, <3>2
  <2> QED
    BY <1>9, <2>1
<1>19. \A i \in DOMAIN g.vms : \E x \in R \cup K : \E l \in DOMAIN x.vms : x.vms[l] = g.vms[i]
  <2> SUFFICES ASSUME NEW i \in DOMAIN g.vms
               PROVE  \E x \in R \cup K : \E l \in DOMAIN x.vms : x.vms[l] = g.vms[i]
    OBVIOUS
  <2>1. PICK b \in 1..n : \E l \in DOMAIN B(b) : B(b)[l] = g.vms[i]
    BY <1>10
  <2>2. PICK x \in R \cup K : x.vms = B(b)
    BY <1>14
  <2> QED
    BY <2>1, <2>2
<1>20. \A x, y \in R \cup K : \A l \in DOMAIN x.vms, k \in DOMAIN y.vms :
         x.vms[l] = y.vms[k] => x = y /\ l = k
  <2> SUFFICES ASSUME NEW x \in R \cup K, NEW y \in R \cup K, NEW l \in DOMAIN x.vms,
                      NEW k \in DOMAIN y.vms, x.vms[l] = y.vms[k]
               PROVE  x = y /\ l = k
    OBVIOUS
  <2>1. PICK b \in 1..n : x.vms = B(b)
    BY <1>13
  <2>2. PICK c \in 1..n : y.vms = B(c)
    BY <1>13
  <2>3. b = c /\ l = k
    BY <1>11, <2>1, <2>2
  <2> QED
    BY <1>17, <2>1, <2>2, <2>3
<1>21. \A x \in R : /\ x.key = g.key
                    /\ x.name = x.key \/ \E b \in 1..Len(hits) : x.name = Numbered(x.key, b)
                    /\ hosts >= 2 /\ Len(x.vms) >= 2
                    /\ Len(x.vms) <= RuleSizeOf(hosts) /\ Len(x.vms) <= hosts
  <2> SUFFICES ASSUME NEW x \in R
               PROVE  /\ x.key = g.key
                      /\ x.name = x.key \/ \E b \in 1..Len(hits) : x.name = Numbered(x.key, b)
                      /\ hosts >= 2 /\ Len(x.vms) >= 2
                      /\ Len(x.vms) <= m /\ Len(x.vms) <= hosts
    OBVIOUS
  <2>1. PICK b \in Long : x.vms = B(b) /\ x.key = g.key /\ x.name = RuleName(g.key, b, n)
    BY <1>15
  <2>2. b \in 1..n /\ Len(B(b)) >= 2 /\ Len(B(b)) \in 1..m /\ b <= Len(hits)
    BY <1>9, <1>12
  <2>3. b \in 1..Len(hits)
    <3>1. Len(hits) \in Nat
      BY <1>2 DEF Inventory
    <3> QED
      BY <1>6, <2>2, <3>1
  <2>4. x.name = x.key \/ x.name = Numbered(x.key, b)
    BY <2>1 DEF RuleName, Numbered
  <2> QED
    BY <1>1, <1>2, <1>5, <2>1, <2>2, <2>3, <2>4
<1>22. \A x, y \in R : x.name = y.name => x = y
  <2> SUFFICES ASSUME NEW x \in R, NEW y \in R, x.name = y.name PROVE x = y
    OBVIOUS
  <2>1. PICK b \in Long : x.vms = B(b) /\ x.name = RuleName(g.key, b, n)
    BY <1>15
  <2>2. PICK c \in Long : y.vms = B(c) /\ y.name = RuleName(g.key, c, n)
    BY <1>15
  <2>3. b \in 1..n /\ c \in 1..n
    BY <1>12
  <2>4. b = c
    <3>1. CASE n > 1
      <4>1. RuleName(g.key, b, n).tail = Append(g.key.tail, b)
            /\ RuleName(g.key, c, n).tail = Append(g.key.tail, c)
        <5>1. g.key = [stem |-> g.key.stem, tail |-> g.key.tail]
          BY <1>4, KeysAssumption
        <5> DEFINE k == g.key
        <5>2. \A d : [k EXCEPT !.tail = Append(@, d)].tail = Append(k.tail, d)
          BY <5>1
        <5> QED
          BY <3>1, <5>2 DEF RuleName
      <4>2. g.key.tail \in Seq(Nat)
        BY <1>4, KeysAssumption
      <4>3. b \in Nat /\ c \in Nat
        BY <1>6, <2>3
      <4>4. Append(g.key.tail, b) = Append(g.key.tail, c)
        BY <2>1, <2>2, <4>1
      <4> HIDE DEF g
      <4> QED
        BY <4>2, <4>3, <4>4, AppendInjective
    <3>2. CASE ~(n > 1)
      BY <1>6, <2>3, <3>2
    <3> QED
      BY <3>1, <3>2
  <2> QED
    BY <1>17, <2>1, <2>2, <2>3, <2>4
<1>23. hosts >= 2 => \A x, y \in K : \A l \in DOMAIN x.vms, k \in DOMAIN y.vms :
         x.vms[l] = y.vms[k]
  <2> SUFFICES ASSUME NEW x \in K, NEW y \in K, NEW l \in DOMAIN x.vms, NEW k \in DOMAIN y.vms
               PROVE  x.vms[l] = y.vms[k]
    OBVIOUS
  <2>1. ASSUME NEW z \in K PROVE z.vms = B(n) /\ Len(B(n)) = 1 /\ n \in 1..n
    <3>1. PICK b \in (1..n) \ Long : z.vms = B(b)
      BY <1>16
    <3>2. Len(B(b)) \in Nat /\ Len(B(b)) >= 1 /\ ~(Len(B(b)) >= 2) /\ m >= 2
      BY <1>5, <1>9, <1>12 DEF RuleSizeOf, Max2
    <3>3. ~(b < n)
      <4>1. b < n => Len(B(b)) = m
        BY <1>9
      <4> HIDE DEF m
      <4> QED
        BY <1>5, <3>2, <4>1
    <3>4. b = n
      BY <1>6, <3>3
    <3>5. Len(B(b)) = 1
      <4> DEFINE q == Len(B(b))
      <4>1. q \in Nat /\ q >= 1 /\ ~(q >= 2)
        BY <3>2
      <4> HIDE DEF q
      <4>2. q = 1
        BY <4>1
      <4> QED
        BY <4>2 DEF q
    <3> QED
      BY <3>1, <3>4, <3>5
  <2>2. DOMAIN B(n) = 1..1
    BY <1>9, <2>1
  <2> QED
    BY <2>1, <2>2
<1>24. Cut(g, R, K)
  BY <1>18, <1>19, <1>20, <1>21, <1>22, <1>23, Zenon DEF Cut
<1> QED
  BY <1>1, <1>24, HeadStep DEF R, K
-----------------------------------------------------------------------------
\* Every turn of the loops keeps the invariant.
LEMMA StepIInv == IInv /\ [Next]_vars => IInv'
<1> SUFFICES ASSUME IInv, [Next]_vars PROVE IInv'
  OBVIOUS
<1>1. CASE GroupVM
  BY <1>1, GroupStep
<1>2. CASE FindStale
  BY <1>2, StaleStep
<1>3. CASE SkipSingle \/ SkipHosts
  BY <1>3, SkipStep
<1>4. CASE SplitGroup
  BY <1>4, SplitStep
<1>5. CASE UNCHANGED vars
  <2>1. /\ \A vm, j, i : At(vm, j, i)' = At(vm, j, i)
        /\ \A vm, x, i : On(vm, x, i)' = On(vm, x, i)
        /\ \A vm : KeyOf(vm)' = KeyOf(vm)
    BY <1>5 DEF vars, At, On, KeyOf
  <2>2. Types' /\ Named' /\ RuleSizes'
    BY <1>5 DEF vars, IInv, Types, Inventory, Named, RuleSizes
  <2>3. Keyed'
    BY <1>5, <2>1 DEF vars, IInv, Keyed
  <2>4. KeysOnce'
    BY <1>5, <2>1 DEF vars, IInv, KeysOnce
  <2>5. Somewhere'
    BY <1>5, <2>1 DEF vars, IInv, Somewhere
  <2>6. Once'
    BY <1>5, <2>1 DEF vars, IInv, Once
  <2>7. LoneSkip'
    BY <1>5, <2>1 DEF vars, IInv, LoneSkip
  <2> QED
    BY <2>2, <2>3, <2>4, <2>5, <2>6, <2>7 DEF IInv
<1> QED
  BY <1>1, <1>2, <1>3, <1>4, <1>5 DEF Next

\* The inductive invariant holds throughout.
THEOREM Invariance == Spec => []IInv
  BY InitIInv, StepIInv, PTL DEF Spec

\* Every rule asks two VMs or more apart, and no more than the hosts can keep.
THEOREM SizesHold == Spec => []RuleSizes
<1>1. IInv => RuleSizes
  BY DEF IInv
<1> QED
  BY <1>1, Invariance, PTL

\* When the analysis ends, every VM that has a key is in one place.
LEMMA PlacedOnce == ASSUME IInv, Done PROVE Accounted
<1> SUFFICES ASSUME NEW vm \in VMsOf
             PROVE  LET places == {p \in (rules \cup skips) \X VMsOf :
                                     p[2] \in DOMAIN p[1].vms /\ p[1].vms[p[2]] = vm}
                    IN /\ Cardinality(places) = IF KeyOf(vm) = NoKey THEN 0 ELSE 1
                       /\ \A p \in places : p[1] \in rules => IsFirstHit(vm, p[1].key)
  BY DEF Accounted
<1> DEFINE places == {p \in (rules \cup skips) \X VMsOf :
                        p[2] \in DOMAIN p[1].vms /\ p[1].vms[p[2]] = vm}
<1>1. groups = <<>> /\ phase = "split"
  BY DEF Done
<1>2. PICK n, p \in Nat : hits \in [1..n -> [1..p -> Hit]]
  BY DEF IInv, Types, Inventory
<1>3. Len(hits) = n /\ VMsOf = 1..n /\ next = n + 1
  BY <1>1, <1>2 DEF IInv, Types, VMsOf
<1>4. vm \in 1..(next - 1) /\ vm \in 1..n
  BY <1>2, <1>3
<1>5. \A j, i : ~At(vm, j, i)
  BY <1>1 DEF At
<1>6. \A q \in places : q = <<q[1], q[2]>> /\ On(vm, q[1], q[2])
  BY DEF On
<1>7. \A x, i : On(vm, x, i) => <<x, i>> \in places
  <2> SUFFICES ASSUME NEW x, NEW i, On(vm, x, i) PROVE <<x, i>> \in places
    OBVIOUS
  <2>1. x \in rules \cup skips /\ i \in DOMAIN x.vms /\ x.vms[i] = vm
    BY DEF On
  <2>2. i \in VMsOf
    <3>1. x.vms \in Seq(Nat)
      BY <2>1 DEF IInv, Types
    <3>2. i \in Nat \ {0}
      BY <2>1, <3>1
    <3>3. vm \in 1..(next - 1) /\ i <= vm
      BY DEF IInv, Keyed
    <3> QED
      BY <1>3, <3>2, <3>3
  <2> QED
    BY <2>1, <2>2
<1> HIDE DEF places
<1>8. CASE KeyOf(vm) = NoKey
  <2>1. places = {}
    BY <1>6, <1>8 DEF IInv, Keyed
  <2> QED
    BY <1>8, <2>1, FS_EmptySet DEF places
<1>9. CASE KeyOf(vm) # NoKey
  <2>1. PICK x, i : On(vm, x, i)
    BY <1>4, <1>5, <1>9 DEF IInv, Somewhere
  <2>2. \A q \in places : q = <<x, i>>
    BY <1>6, <2>1 DEF IInv, Once
  <2>3. places = {<<x, i>>}
    BY <1>7, <2>1, <2>2
  <2>4. Cardinality(places) = 1
    BY <2>3, FS_Singleton
  <2>5. x \in rules => x.key = GroupKey(hits[vm])
    BY <2>1 DEF IInv, Keyed, KeyOf
  <2>6. IsFirstHit(vm, GroupKey(hits[vm]))
    <3>1. hits[vm] \in [1..p -> Hit]
      BY <1>2, <1>4
    <3>2. GroupKey(hits[vm]) # NoKey
      BY <1>9 DEF KeyOf
    <3>3. \E j \in 1..p : hits[vm][j] = GroupKey(hits[vm])
                          /\ \A k \in 1..(j - 1) : hits[vm][k] = NoKey
      BY <3>1, <3>2, FirstHit, Zenon
    <3> QED
      BY <3>1, <3>3 DEF IsFirstHit
  <2>7. \A q \in places : q[1] \in rules => IsFirstHit(vm, q[1].key)
    BY <2>2, <2>5, <2>6
  <2> QED
    BY <1>9, <2>4, <2>7 DEF places
<1> QED
  BY <1>8, <1>9

\* When the analysis ends every VM some pattern matches is in one rule or one
\* skip, once, under the key of the first pattern that matches it.
THEOREM AllAccounted == Spec => []Accounted
<1>1. IInv => Accounted
  <2>1. CASE Done
    BY <2>1, PlacedOnce
  <2>2. CASE ~Done
    BY <2>2 DEF Accounted
  <2> QED
    BY <2>1, <2>2
<1> QED
  BY <1>1, Invariance, PTL

\* Of one key no two VMs are without a rule.
LEMMA OneLeft == ASSUME IInv, Done, hosts >= 2 PROVE Covered
<1> SUFFICES ASSUME NEW k \in Keys
             PROVE  Cardinality({vm \in VMsOf : KeyOf(vm) = k}
                                \ UNION {Members(x) : x \in {y \in rules : y.key = k}}) <= 1
  BY DEF Covered
<1> DEFINE group == {vm \in VMsOf : KeyOf(vm) = k}
           ruled == UNION {Members(x) : x \in {y \in rules : y.key = k}}
           left  == group \ ruled
<1>1. groups = <<>> /\ phase = "split" /\ NoKey \notin Keys
  BY KeysAssumption DEF Done
<1>2. VMsOf = 1..(next - 1)
  BY <1>1 DEF IInv, Types, Inventory, VMsOf
<1>3. ASSUME NEW u \in left PROVE \E x, i : On(u, x, i) /\ x \in skips
  <2>1. u \in 1..(next - 1) /\ KeyOf(u) = k /\ KeyOf(u) # NoKey /\ u \notin ruled
    BY <1>1, <1>2
  <2>2. PICK x, i : On(u, x, i)
    BY <1>1, <2>1 DEF IInv, Somewhere, At
  <2>3. x \notin rules
    <3> SUFFICES ASSUME x \in rules PROVE FALSE
      OBVIOUS
    <3>1. x.key = k
      BY <2>1, <2>2 DEF IInv, Keyed
    <3>2. u \in Members(x)
      BY <2>2 DEF On, Members
    <3> QED
      BY <2>1, <3>1, <3>2
  <2> QED
    BY <2>2, <2>3 DEF On
<1>4. ASSUME NEW u \in left, NEW v \in left PROVE u = v
  <2>1. KeyOf(u) = KeyOf(v)
    OBVIOUS
  <2>2. PICK x, i : On(u, x, i) /\ x \in skips
    BY <1>3
  <2>3. PICK y, l : On(v, y, l) /\ y \in skips
    BY <1>3
  <2> QED
    BY <2>1, <2>2, <2>3 DEF IInv, LoneSkip
<1> HIDE DEF left
<1>5. CASE left = {}
  BY <1>5, FS_EmptySet DEF left
<1>6. CASE left # {}
  <2>1. PICK u : left = {u}
    BY <1>4, <1>6
  <2>2. Cardinality(left) = 1
    BY <2>1, FS_Singleton
  <2> QED
    BY <2>2 DEF left
<1> QED
  BY <1>5, <1>6

\* A cluster with hosts to spread over leaves at most one VM of a group
\* without a rule.
THEOREM AllCovered == Spec => []Covered
<1>1. IInv => Covered
  <2>1. CASE Done /\ hosts >= 2
    BY <2>1, OneLeft
  <2>2. CASE ~(Done /\ hosts >= 2)
    BY <2>2 DEF Covered
  <2> QED
    BY <2>1, <2>2
<1> QED
  BY <1>1, Invariance, PTL

\* Two rules have one name only if the key of one is the key of the other with
\* a batch number behind it.
LEMMA NamesTell == ASSUME IInv PROVE NamesDistinct
<1> SUFFICES ASSUME NEW x \in rules, NEW y \in rules, x # y, x.name = y.name
             PROVE  \E i \in 1..Len(hits) : \/ x.key.tail = Append(y.key.tail, i)
                                            \/ y.key.tail = Append(x.key.tail, i)
  BY DEF NamesDistinct
<1>1. x.key \in Keys /\ y.key \in Keys /\ x.key # y.key
  BY DEF IInv, Types, Named
<1>2. \A key \in Keys : \A b : /\ Numbered(key, b).tail = Append(key.tail, b)
                               /\ Numbered(key, b).stem = key.stem
                               /\ key.tail \in Seq(Nat)
  <2> SUFFICES ASSUME NEW key \in Keys, NEW b
               PROVE  /\ Numbered(key, b).tail = Append(key.tail, b)
                      /\ Numbered(key, b).stem = key.stem
                      /\ key.tail \in Seq(Nat)
    OBVIOUS
  <2>1. key = [stem |-> key.stem, tail |-> key.tail] /\ key.tail \in Seq(Nat)
    BY KeysAssumption
  <2>2. \A d : /\ [key EXCEPT !.tail = Append(@, d)].tail = Append(key.tail, d)
               /\ [key EXCEPT !.tail = Append(@, d)].stem = key.stem
    BY <2>1
  <2> QED
    BY <2>1, <2>2 DEF Numbered
<1>3. CASE x.name = x.key
  <2>1. PICK b \in 1..Len(hits) : y.name = Numbered(y.key, b)
    BY <1>1, <1>3 DEF IInv, Named
  <2> QED
    BY <1>1, <1>2, <1>3, <2>1
<1>4. CASE y.name = y.key
  <2>1. PICK b \in 1..Len(hits) : x.name = Numbered(x.key, b)
    BY <1>1, <1>4 DEF IInv, Named
  <2>2. y.key.tail = Append(x.key.tail, b)
    BY <1>1, <1>2, <1>4, <2>1
  <2> QED
    BY <2>2
<1>5. CASE x.name # x.key /\ y.name # y.key
  <2>1. PICK b \in 1..Len(hits) : x.name = Numbered(x.key, b)
    BY <1>5 DEF IInv, Named
  <2>2. PICK c \in 1..Len(hits) : y.name = Numbered(y.key, c)
    BY <1>5 DEF IInv, Named
  <2>3. Append(x.key.tail, b) = Append(y.key.tail, c) /\ x.key.stem = y.key.stem
    <3>1. Numbered(x.key, b) = Numbered(y.key, c)
      BY <2>1, <2>2
    <3>2. /\ Numbered(x.key, b).tail = Append(x.key.tail, b)
          /\ Numbered(x.key, b).stem = x.key.stem
      BY <1>1, <1>2
    <3>3. /\ Numbered(y.key, c).tail = Append(y.key.tail, c)
          /\ Numbered(y.key, c).stem = y.key.stem
      BY <1>1, <1>2
    <3> QED
      BY <3>1, <3>2, <3>3
  <2>4. b \in Nat /\ c \in Nat
    <3>1. Len(hits) \in Nat
      BY DEF IInv, Types, Inventory
    <3> QED
      BY <3>1
  <2>5. x.key.tail = y.key.tail
    <3>1. x.key.tail \in Seq(Nat) /\ y.key.tail \in Seq(Nat)
      BY <1>1, <1>2
    <3> DEFINE s == x.key.tail
               t == y.key.tail
    <3>2. s \in Seq(Nat) /\ t \in Seq(Nat) /\ Append(s, b) = Append(t, c)
      BY <2>3, <3>1
    <3> HIDE DEF s, t
    <3>3. s = t
      BY <2>4, <3>2, AppendInjective
    <3> QED
      BY <3>3 DEF s, t
  <2>6. x.key = [stem |-> x.key.stem, tail |-> x.key.tail]
        /\ y.key = [stem |-> y.key.stem, tail |-> y.key.tail]
    BY <1>1, KeysAssumption
  <2> QED
    BY <1>1, <2>3, <2>5, <2>6
<1> QED
  BY <1>3, <1>4, <1>5

\* Two rules of one name belong to one group, or the key of one is the key of
\* the other with a batch number: f"VCM-AAR-{key}-{n}" tells all others apart.
THEOREM NamesApart == Spec => []NamesDistinct
<1>1. IInv => NamesDistinct
  BY NamesTell
<1> QED
  BY <1>1, Invariance, PTL
-----------------------------------------------------------------------------
(* Sets of positions, and finite sets *)

\* The least of some numbers, by which Before orders the names.
LEMMA MinOf ==
  ASSUME NEW T \in SUBSET Nat, T # {}
  PROVE  Min(T) \in T /\ \A y \in T : Min(T) <= y
<1>1. \E x \in T : \A y \in T : x =< y
  BY Least
<1> QED
  BY <1>1 DEF Min

\* The greatest of some numbers up to a bound.
LEMMA MaxOf ==
  ASSUME NEW T \in SUBSET Nat, T # {}, NEW n \in Nat, \A y \in T : y <= n
  PROVE  Max(T) \in T /\ \A y \in T : y <= Max(T)
<1> DEFINE B == {b \in Nat : \A y \in T : y <= b}
<1>1. PICK b \in B : \A c \in B : b <= c
  <2>1. n \in B
    OBVIOUS
  <2> QED
    BY <2>1, Least
<1>2. b \in T
  <2> SUFFICES ASSUME b \notin T PROVE FALSE
    OBVIOUS
  <2>1. \A y \in T : y \in Nat /\ y < b
    BY <1>1
  <2>2. b \in Nat /\ b # 0
    <3>1. PICK y \in T : TRUE
      OBVIOUS
    <3> QED
      BY <2>1, <3>1
  <2>3. b - 1 \in B
    BY <2>1, <2>2
  <2> QED
    BY <1>1, <2>2, <2>3
<1>3. \E x \in T : \A y \in T : x >= y
  BY <1>1, <1>2
<1>4. Max(T) \in T /\ \A y \in T : Max(T) >= y
  BY <1>3 DEF Max
<1> QED
  BY <1>4

\* A set with more than one element has two.
LEMMA TwoElements ==
  ASSUME NEW S, IsFiniteSet(S)
  PROVE  Cardinality(S) > 1 <=> \E x, y \in S : x # y
<1>1. Cardinality(S) \in Nat
  BY FS_CardinalityType
<1>2. Cardinality(S) = 0 <=> S = {}
  BY FS_EmptySet
<1>3. Cardinality(S) = 1 <=> \E x : S = {x}
  BY FS_Singleton
<1>4. (S # {} /\ ~\E x : S = {x}) <=> \E x, y \in S : x # y
  OBVIOUS
<1> QED
  BY <1>1, <1>2, <1>3, <1>4

\* A set whose elements are all equal has one at most.
LEMMA OneElement ==
  ASSUME NEW S, IsFiniteSet(S), \A x, y \in S : x = y
  PROVE  Cardinality(S) <= 1
<1>1. Cardinality(S) \in Nat
  BY FS_CardinalityType
<1> QED
  BY <1>1, TwoElements

\* SetToSeq lists every element, once.
LEMMA SetToSeqLists ==
  ASSUME NEW S, IsFiniteSet(S)
  PROVE  /\ Cardinality(S) \in Nat /\ SetToSeq(S) \in [1..Cardinality(S) -> S]
         /\ \A i, j \in 1..Cardinality(S) : SetToSeq(S)[i] = SetToSeq(S)[j] => i = j
<1>1. Cardinality(S) \in Nat /\ ExistsBijection(1..Cardinality(S), S)
  BY FS_CardinalityType
<1>2. PICK f : f \in Bijection(1..Cardinality(S), S)
  BY <1>1 DEF ExistsBijection
<1>3. f \in [1..Cardinality(S) -> S] /\ \A a, b \in 1..Cardinality(S) : f[a] = f[b] => a = b
  BY <1>2, Fun_BijectionProperties
<1>4. \E g \in [1..Cardinality(S) -> S] : IsInjective(g)
  BY <1>3 DEF IsInjective
<1>5. SetToSeq(S) \in [1..Cardinality(S) -> S] /\ IsInjective(SetToSeq(S))
  BY <1>4 DEF SetToSeq
<1> QED
  BY <1>1, <1>5 DEF IsInjective

\* Each of the orders of a set lists every element, once.
LEMMA OrderLists ==
  ASSUME NEW S, IsFiniteSet(S), NEW s \in SetToSeqs(S)
  PROVE  /\ s \in Seq(S) /\ Len(s) = Cardinality(S)
         /\ \A i, j \in 1..Len(s) : s[i] = s[j] => i = j
         /\ \A x \in S : \E i \in 1..Len(s) : s[i] = x
<1> DEFINE n == Cardinality(S)
<1>1. n \in Nat
  BY FS_CardinalityType
<1>2. s \in [1..n -> S] /\ \A i, j \in 1..n : s[i] = s[j] => i = j
  BY DEF SetToSeqs
<1>3. s \in Seq(S) /\ Len(s) = n
  BY <1>1, <1>2
<1>4. s \in Injection(1..n, S)
  BY <1>2, Fun_IsInj
<1>5. IsFiniteSet(1..n) /\ Cardinality(1..n) = n
  BY <1>1, FS_Interval
<1>6. s \in Surjection(1..n, S)
  BY <1>4, <1>5, FS_Injection
<1>7. \A x \in S : \E i \in 1..n : s[i] = x
  BY <1>6 DEF Surjection
<1> QED
  BY <1>2, <1>3, <1>7

\* Up to three of a set of two or more are at least two.
LEMMA FirstThreeDiffer ==
  ASSUME NEW S, IsFiniteSet(S), Cardinality(S) >= 2
  PROVE  \E x, y \in FirstThree(S) : x # y
<1>1. /\ Cardinality(S) \in Nat /\ SetToSeq(S) \in [1..Cardinality(S) -> S]
      /\ \A i, j \in 1..Cardinality(S) : SetToSeq(S)[i] = SetToSeq(S)[j] => i = j
  BY SetToSeqLists
<1>2. 1 \in DOMAIN SetToSeq(S) \cap (1..3) /\ 2 \in DOMAIN SetToSeq(S) \cap (1..3)
  BY <1>1
<1>3. SetToSeq(S)[1] \in FirstThree(S) /\ SetToSeq(S)[2] \in FirstThree(S)
  BY <1>2 DEF FirstThree
<1> QED
  BY <1>1, <1>2, <1>3

\* Up to three of a set of three or more are three.
LEMMA FirstThreeAreThree ==
  ASSUME NEW S, IsFiniteSet(S), Cardinality(S) > 2
  PROVE  \E x, y, z \in FirstThree(S) : x # y /\ x # z /\ y # z
<1>1. /\ Cardinality(S) \in Nat /\ SetToSeq(S) \in [1..Cardinality(S) -> S]
      /\ \A i, j \in 1..Cardinality(S) : SetToSeq(S)[i] = SetToSeq(S)[j] => i = j
  BY SetToSeqLists
<1>2. \A i \in 1..3 : i \in DOMAIN SetToSeq(S) \cap (1..3)
  BY <1>1
<1>3. /\ SetToSeq(S)[1] \in FirstThree(S) /\ SetToSeq(S)[2] \in FirstThree(S)
      /\ SetToSeq(S)[3] \in FirstThree(S)
  BY <1>2 DEF FirstThree
<1> QED
  BY <1>1, <1>2, <1>3

\* Fewer places than are offered are not all of those offered.
LEMMA FewLeaveOne ==
  ASSUME NEW S, IsFiniteSet(S), Cardinality(S) >= 2, NEW T, IsFiniteSet(T), Few(T, S)
  PROVE  FirstThree(S) \ T # {}
<1>1. CASE Cardinality(T) = 1
  <2>1. PICK t : T = {t}
    BY <1>1, FS_Singleton
  <2>2. PICK y, z \in FirstThree(S) : y # z
    BY FirstThreeDiffer
  <2> QED
    BY <2>1, <2>2
<1>2. CASE Cardinality(T) = 2 /\ Cardinality(S) > 2
  <2>1. PICK x, y, z \in FirstThree(S) : x # y /\ x # z /\ y # z
    BY <1>2, FirstThreeAreThree
  <2> SUFFICES ASSUME x \in T PROVE FirstThree(S) \ T # {}
    BY <2>1
  <2>2. IsFiniteSet(T \ {x}) /\ Cardinality(T \ {x}) = 1
    BY <1>2, FS_RemoveElement
  <2>3. PICK t : T \ {x} = {t}
    BY <2>2, FS_Singleton
  <2> QED
    BY <2>1, <2>3
<1> QED
  BY <1>1, <1>2 DEF Few

Rising(s, n) == \A i, j \in 1..n : i < j => s[i] < s[j]

\* A set of positions can be listed from its first to its last.
LEMMA RisingExists ==
  ASSUME NEW m \in Nat, NEW S \in SUBSET (1..m)
  PROVE  \E s \in [1..Cardinality(S) -> S] : Rising(s, Cardinality(S))
<1> DEFINE Has(T, n) == \E s \in [1..n -> T] : Rising(s, n)
           Bad == {n \in Nat : \E T \in SUBSET (1..m) : Cardinality(T) = n /\ ~Has(T, n)}
<1>1. ASSUME NEW T \in SUBSET (1..m)
      PROVE  IsFiniteSet(T) /\ Cardinality(T) \in Nat
  <2>1. IsFiniteSet(1..m)
    BY FS_Interval
  <2> QED
    BY <2>1, FS_Subset, FS_CardinalityType
<1>2. Bad = {}
  <2> SUFFICES ASSUME Bad # {} PROVE FALSE
    OBVIOUS
  <2>1. PICK n \in Bad : \A k \in Bad : n <= k
    BY Least
  <2>2. PICK T \in SUBSET (1..m) : Cardinality(T) = n /\ ~Has(T, n)
    BY <2>1
  <2>3. n \in Nat
    BY <2>1
  <2>4. CASE n = 0
    <3>1. <<>> \in [1..n -> T] /\ Rising(<<>>, n)
      BY <2>4 DEF Rising
    <3> QED
      BY <2>2, <3>1
  <2>5. CASE n # 0
    <3>1. T # {}
      BY <1>1, <2>2, <2>5, FS_EmptySet
    <3>2. T \in SUBSET Nat /\ \A y \in T : y <= m
      OBVIOUS
    <3> DEFINE t == Max(T)
               k == n - 1
    <3>3. t \in T /\ \A y \in T : y <= t
      BY <3>1, <3>2, MaxOf
    <3> HIDE DEF t
    <3>4. k \in Nat /\ k < n /\ Cardinality(T \ {t}) = k
      BY <1>1, <2>2, <2>3, <2>5, <3>3, FS_RemoveElement
    <3>5. k \notin Bad
      BY <2>1, <2>3, <3>4
    <3>6. T \ {t} \in SUBSET (1..m)
      OBVIOUS
    <3>7. Has(T \ {t}, k)
      BY <3>4, <3>5, <3>6
    <3>8. PICK s \in [1..k -> T \ {t}] : Rising(s, k)
      BY <3>7
    <3> DEFINE r == [i \in 1..n |-> IF i = n THEN t ELSE s[i]]
    <3>9. \A i \in 1..n : i # n => i \in 1..k
      BY <2>3
    <3>10. r \in [1..n -> T]
      BY <3>3, <3>8, <3>9
    <3>11. ASSUME NEW i \in 1..n, NEW j \in 1..n, i < j PROVE r[i] < r[j]
      <4>1. i # n /\ i \in 1..k /\ r[i] = s[i] /\ s[i] \in T \ {t}
        BY <2>3, <3>9, <3>11
      <4>2. CASE j = n
        <5>1. r[j] = t /\ s[i] <= t /\ s[i] # t
          BY <3>3, <4>1, <4>2
        <5>2. s[i] \in Nat /\ t \in Nat
          BY <3>2, <3>3, <4>1
        <5> QED
          BY <4>1, <5>1, <5>2
      <4>3. CASE j # n
        <5>1. j \in 1..k /\ r[j] = s[j]
          BY <3>9, <4>3
        <5> QED
          BY <3>8, <3>11, <4>1, <5>1 DEF Rising
      <4> QED
        BY <4>2, <4>3
    <3>12. Rising(r, n)
      BY <3>11 DEF Rising
    <3> QED
      BY <2>2, <3>10, <3>12
  <2> QED
    BY <2>4, <2>5
<1>3. Cardinality(S) \notin Bad
  BY <1>2
<1> QED
  BY <1>1, <1>3

\* InOrder lists every position once.
LEMMA InOrderLists ==
  ASSUME NEW m \in Nat, NEW S \in SUBSET (1..m)
  PROVE  /\ InOrder(S) \in Seq(S)
         /\ \A i, j \in 1..Len(InOrder(S)) : InOrder(S)[i] = InOrder(S)[j] => i = j
         /\ \A x \in S : \E i \in 1..Len(InOrder(S)) : InOrder(S)[i] = x
         /\ Rising(InOrder(S), Len(InOrder(S)))
<1> DEFINE n == Cardinality(S)
<1>1. IsFiniteSet(S) /\ n \in Nat
  <2>1. IsFiniteSet(1..m)
    BY FS_Interval
  <2> QED
    BY <2>1, FS_Subset, FS_CardinalityType
<1>2. PICK s \in [1..n -> S] : Rising(s, n)
  BY RisingExists
<1>3. ASSUME NEW i \in 1..n, NEW j \in 1..n, i # j PROVE s[i] # s[j]
  <2>1. s[i] \in S /\ s[j] \in S
    BY <1>2
  <2>2. s[i] \in Nat /\ s[j] \in Nat
    <3>1. \A x \in S : x \in Nat
      OBVIOUS
    <3> QED
      BY <2>1, <3>1, Zenon
  <2>3. i < j \/ j < i
    BY <1>1, <1>3
  <2>4. s[i] < s[j] \/ s[j] < s[i]
    BY <1>2, <2>3 DEF Rising
  <2> QED
    BY <2>2, <2>4
<1>4. s \in SetToSeqs(S) /\ \A i, j \in DOMAIN s : i < j => s[i] < s[j]
  BY <1>2, <1>3 DEF SetToSeqs, Rising
<1> DEFINE t == InOrder(S)
<1>5. t \in SetToSeqs(S) /\ \A i, j \in DOMAIN t : i < j => t[i] < t[j]
  BY <1>4 DEF InOrder
<1> HIDE DEF t
<1>6. /\ t \in Seq(S) /\ \A i, j \in 1..Len(t) : t[i] = t[j] => i = j
      /\ \A x \in S : \E i \in 1..Len(t) : t[i] = x
  BY <1>1, <1>5, OrderLists
<1>7. DOMAIN t = 1..Len(t)
  BY <1>6, LenProperties
<1>8. Rising(t, Len(t))
  BY <1>5, <1>7 DEF Rising
<1> QED
  BY <1>6, <1>8 DEF t
-----------------------------------------------------------------------------
(* The inductive invariant of the collection *)

Disk == [ds : Datastores \cup {None}, pod : Pods \cup {None}, iso : BOOLEAN]
VMEntry == [name : Names, cluster : DOMAIN Layout, disks : SUBSET Disk]

\* The next place to list, and the clusters listed to the end when it is read.
Place ==
  /\ at \in (1..(Len(Layout) + 1)) \X (Nat \ {0})
  /\ IF pc = "list" THEN at[1] \in DOMAIN Layout /\ at[2] \in DOMAIN Layout[at[1]]
                    ELSE at[2] = 1
  /\ pc # "list" /\ listed # <<>> => at[1] - 1 \in DOMAIN Layout
  /\ pc = "done" => at[1] = Len(Layout) + 1 /\ listed = <<>>

ScanTypes ==
  /\ host \in [VMs -> Hosts \cup {None}] /\ placed \in [VMs -> SUBSET Datastores]
  /\ podOf \in [Datastores -> Pods \cup {None}]
  /\ pc \in {"list", "read", "failed", "done"} /\ Place
  /\ listed \in Seq(VMs) /\ inv \in Seq(VMEntry)
  /\ reading \in [stores : SUBSET Datastores, disks : SUBSET Disk]
  /\ podsLeft \subseteq Pods /\ dsToPod \in [Datastores -> Pods \cup {None}]
  /\ moves \in [VMs -> Nat]
  /\ was \in [VMs -> SUBSET SUBSET Datastores]
  /\ podWas \in [Datastores -> SUBSET (Pods \cup {None})]

\* The ghosts tell what the vCenter was like.
History ==
  /\ \A v \in VMs : /\ placed[v] \in was[v]
                    /\ host[v] # None => placed[v] # {}
                    /\ placed[v] # {} /\ moves[v] = 0 => host[v] # None
  /\ \A d \in Datastores : podOf[d] \in podWas[d]

\* Entry e may be what was read of v.
ReadFrom(e, v) ==
  /\ e.name = NameOf[v] /\ placed[v] # {}
  /\ moves[v] = 0 => host[v] \in HostsOf(e.cluster)
  /\ StoresOf(e) \in was[v]
  /\ \A d \in RealDisks(e) : d.pod \in podWas[d.ds]

Entries ==
  /\ \A i \in DOMAIN inv : inv[i].cluster < at[1] /\ \E v \in VMs : ReadFrom(inv[i], v)
  /\ \A i, j \in DOMAIN inv : i < j => inv[i].cluster <= inv[j].cluster

\* What has been read of the next VM and of the pods was so at some time.
Looked ==
  /\ reading # NoVM => /\ pc \in {"read", "failed"} /\ listed # <<>>
                       /\ reading.stores \in was[Head(listed)]
  /\ \A x \in reading.disks : /\ x.ds \in reading.stores /\ ~x.iso
                              /\ x.pod \in podWas[x.ds]
  /\ \A d \in Datastores : dsToPod[d] # None => dsToPod[d] \in podWas[d]

\* The cluster whose VMs are in listed, and the places listed so far.
Current == IF pc = "list" THEN at[1] ELSE at[1] - 1
Passed(c, h) == c < at[1] \/ (c = at[1] /\ h < at[2])

Pending == \A i \in DOMAIN listed :
  /\ placed[listed[i]] # {}
  /\ moves[listed[i]] = 0 => \E h \in DOMAIN Layout[Current] :
       host[listed[i]] = Layout[Current][h] /\ Passed(Current, h)

\* A VM that stays on a host listed is in the list or among the entries.
Seen(v) == (\E i \in DOMAIN listed : listed[i] = v) \/ (\E i \in DOMAIN inv : ReadFrom(inv[i], v))
NoneMissed == \A v \in VMs : placed[v] # {} /\ moves[v] = 0 =>
  \A c \in DOMAIN Layout : \A h \in DOMAIN Layout[c] :
    host[v] = Layout[c][h] /\ Passed(c, h) => Seen(v)

\* One that stays and has its name alone is there once.
Alone(v) == WithName(NameOf[v]) = {v} /\ moves[v] = 0
NoneTwice == \A v \in VMs : Alone(v) =>
  /\ \A i, j \in DOMAIN listed : listed[i] = v /\ listed[j] = v => i = j
  /\ \A i, j \in DOMAIN inv : inv[i].name = NameOf[v] /\ inv[j].name = NameOf[v] => i = j
  /\ \A i \in DOMAIN listed, j \in DOMAIN inv : ~(listed[i] = v /\ inv[j].name = NameOf[v])

Results == found = IF pc = "done"
                   THEN [violations |-> Violations(inv, dsToPod),
                         scattered |-> {inv[i].name : i \in Scattered(inv, dsToPod)},
                         rules |-> Rules(inv)]
                   ELSE NotFound

ScanIInv == /\ ScanTypes /\ History /\ Entries /\ Looked
            /\ Pending /\ NoneMissed /\ NoneTwice /\ Results
-----------------------------------------------------------------------------
(* The steps of the collection *)

\* The places of a cluster are numbered, and hosts are there.
LEMMA LayoutFacts ==
  /\ Len(Layout) \in Nat /\ DOMAIN Layout = 1..Len(Layout)
  /\ \A c \in DOMAIN Layout :
       /\ Len(Layout[c]) \in Nat /\ DOMAIN Layout[c] = 1..Len(Layout[c])
       /\ \A h \in DOMAIN Layout[c] : Layout[c][h] \in Hosts \ {None} /\ Layout[c][h] \in HostsOf(c)
<1>1. Layout \in Seq(Seq(Hosts)) /\ None \notin Hosts
  BY LayoutAssumption
<1>2. Len(Layout) \in Nat /\ DOMAIN Layout = 1..Len(Layout)
  BY <1>1
<1>3. ASSUME NEW c \in DOMAIN Layout
      PROVE  /\ Len(Layout[c]) \in Nat /\ DOMAIN Layout[c] = 1..Len(Layout[c])
             /\ \A h \in DOMAIN Layout[c] : Layout[c][h] \in Hosts /\ Layout[c][h] \in HostsOf(c)
  <2>1. Layout[c] \in Seq(Hosts)
    BY <1>1
  <2> HIDE DEF Hosts
  <2>2. \A h \in DOMAIN Layout[c] : Layout[c][h] \in Hosts
    BY <2>1
  <2> QED
    BY <2>1, <2>2 DEF HostsOf
<1> QED
  BY <1>1, <1>2, <1>3

\* Nothing has been listed or read at first.
LEMMA InitScan == ScanInit => ScanIInv
<1> SUFFICES ASSUME ScanInit PROVE ScanIInv
  OBVIOUS
<1>1. /\ at = <<1, 1>> /\ pc = "read" /\ listed = <<>> /\ inv = <<>> /\ found = NotFound
      /\ host \in [VMs -> Hosts \cup {None}] /\ placed \in [VMs -> SUBSET Datastores]
      /\ podOf \in [Datastores -> Pods \cup {None}]
      /\ moves = [v \in VMs |-> 0] /\ was = [v \in VMs |-> {placed[v]}]
      /\ podWas = [d \in Datastores |-> {podOf[d]}]
      /\ reading = NoVM /\ podsLeft = Pods /\ dsToPod = [d \in Datastores |-> None]
  BY StartsAssumption DEF ScanInit
<1>2. \A v \in VMs : host[v] # None <=> placed[v] # {}
  BY DEF ScanInit
<1>3. Place
  BY <1>1, LayoutFacts DEF Place
<1>4. was \in [VMs -> SUBSET SUBSET Datastores] /\ podWas \in [Datastores -> SUBSET (Pods \cup {None})]
  BY <1>1
<1>5. ScanTypes
  BY <1>1, <1>3, <1>4 DEF ScanTypes, NoVM
<1>6. History /\ Looked
  BY <1>1, <1>2 DEF History, Looked, NoVM
<1>7. Entries /\ Pending /\ NoneTwice
  BY <1>1 DEF Entries, Pending, NoneTwice
<1>8. NoneMissed
  <2>1. \A c \in DOMAIN Layout : \A h \in DOMAIN Layout[c] : ~Passed(c, h)
    BY <1>1, LayoutFacts DEF Passed
  <2> QED
    BY <2>1 DEF NoneMissed
<1>9. Results
  BY <1>1 DEF Results
<1> QED
  BY <1>5, <1>6, <1>7, <1>8, <1>9 DEF ScanIInv
-----------------------------------------------------------------------------
(* The vCenter *)

\* What holds of the VMs and of the entries survives a change of the vCenter:
\* the ghosts grow, and a VM that moved is not spoken of any more.
LEMMA VCenterStep ==
  ASSUME ScanIInv, pc # "done", UNCHANGED <<pc, at, listed, inv, found>>,
         UNCHANGED <<reading, podsLeft, dsToPod>>,
         host' \in [VMs -> Hosts \cup {None}], placed' \in [VMs -> SUBSET Datastores],
         podOf' \in [Datastores -> Pods \cup {None}], moves' \in [VMs -> Nat],
         was' \in [VMs -> SUBSET SUBSET Datastores],
         podWas' \in [Datastores -> SUBSET (Pods \cup {None})],
         History',
         \A v \in VMs : /\ placed[v] # {} <=> placed'[v] # {}
                        /\ moves'[v] = 0 => moves[v] = 0 /\ host'[v] = host[v]
                        /\ was[v] \subseteq was'[v],
         \A d \in Datastores : podWas[d] \subseteq podWas'[d]
  PROVE  ScanIInv'
<1>1. ScanTypes /\ Entries /\ Looked /\ Pending /\ NoneMissed /\ NoneTwice /\ Results
  BY DEF ScanIInv
<1>2. ScanTypes'
  BY <1>1 DEF ScanTypes, Place
<1>3. ASSUME NEW i \in DOMAIN inv, NEW v \in VMs, ReadFrom(inv[i], v)
      PROVE  ReadFrom(inv[i], v)'
  <2>1. inv'[i] = inv[i]
    OBVIOUS
  <2>2. \A d \in RealDisks(inv[i]) : d.ds \in Datastores
    <3>1. inv[i] \in VMEntry
      BY <1>1 DEF ScanTypes
    <3> QED
      BY <3>1 DEF VMEntry, Disk, RealDisks
  <2> QED
    BY <1>3, <2>1, <2>2 DEF ReadFrom
<1>4. Entries'
  <2>1. ASSUME NEW i \in DOMAIN inv' PROVE \E v \in VMs : ReadFrom(inv[i], v)'
    BY <1>1, <1>3 DEF Entries
  <2> QED
    BY <1>1, <2>1 DEF Entries
<1>5. Pending'
  <2>1. \A i \in DOMAIN listed : listed[i] \in VMs
    BY <1>1 DEF ScanTypes
  <2> QED
    BY <1>1, <2>1 DEF Pending, Current, Passed
<1>6. NoneMissed'
  <2>1. ASSUME NEW v \in VMs, Seen(v) PROVE Seen(v)'
    BY <1>3, <2>1 DEF Seen
  <2>2. \A c, h : Passed(c, h)' = Passed(c, h)
    BY DEF Passed
  <2> QED
    BY <1>1, <2>1, <2>2 DEF NoneMissed
<1>7. NoneTwice'
  <2>1. \A n : WithName(n)' = WithName(n)
    BY DEF WithName
  <2>2. \A v \in VMs : Alone(v)' => Alone(v)
    BY <2>1 DEF Alone
  <2> QED
    BY <1>1, <2>2 DEF NoneTwice
<1>8. Results'
  BY <1>1 DEF Results
<1>9. Looked'
  <2>1. \A x \in reading.disks : x.ds \in Datastores
    BY <1>1 DEF ScanTypes, Looked
  <2>2. listed # <<>> => Head(listed) \in VMs
    BY <1>1 DEF ScanTypes
  <2> QED
    BY <1>1, <2>1, <2>2 DEF Looked
<1> QED
  BY <1>2, <1>4, <1>5, <1>6, <1>7, <1>8, <1>9 DEF ScanIInv

\* Whatever the vCenter does between two reads keeps the invariant: what was read stays true of the past.
LEMMA ChangeStep == ScanIInv /\ (Change \/ \E d \in Datastores, p \in Pods \cup {None} : MovePod(d, p))
                    => ScanIInv'
<1> SUFFICES ASSUME ScanIInv,
                    Change \/ \E d \in Datastores, p \in Pods \cup {None} : MovePod(d, p)
             PROVE  ScanIInv'
  OBVIOUS
<1>1. /\ host \in [VMs -> Hosts \cup {None}] /\ placed \in [VMs -> SUBSET Datastores]
      /\ podOf \in [Datastores -> Pods \cup {None}] /\ moves \in [VMs -> Nat]
      /\ was \in [VMs -> SUBSET SUBSET Datastores]
      /\ podWas \in [Datastores -> SUBSET (Pods \cup {None})] /\ History
  BY DEF ScanIInv, ScanTypes
<1>2. None \notin Hosts
  BY LayoutAssumption
<1>3. ASSUME NEW v \in VMs, NEW h \in Hosts, Migrate(v, h) PROVE ScanIInv'
  <2>1. /\ pc # "done" /\ UNCHANGED <<pc, at, listed, inv, found, placed, podOf, was, podWas>>
        /\ UNCHANGED <<reading, podsLeft, dsToPod>>
        /\ host[v] # None /\ host' = [host EXCEPT ![v] = h]
        /\ moves' = [moves EXCEPT ![v] = @ + 1]
    BY <1>3 DEF Migrate, Changing, lists
  <2>2. host' \in [VMs -> Hosts \cup {None}] /\ moves' \in [VMs -> Nat]
    BY <1>1, <2>1
  <2>3. \A w \in VMs : moves'[w] = 0 => w # v /\ moves[w] = 0 /\ host'[w] = host[w]
    BY <1>1, <2>1
  <2>4. \A w \in VMs : host'[w] # None => host[w] # None
    BY <1>1, <2>1
  <2>5. History'
    BY <1>1, <2>1, <2>3, <2>4 DEF History
  <2> QED
    BY <1>1, <2>1, <2>2, <2>3, <2>5, VCenterStep
<1>4. ASSUME NEW v \in VMs, NEW ds \in (SUBSET Datastores) \ {{}}, Relocate(v, ds)
      PROVE  ScanIInv'
  <2>1. /\ pc # "done" /\ UNCHANGED <<pc, at, listed, inv, found, host, podOf, moves, podWas>>
        /\ UNCHANGED <<reading, podsLeft, dsToPod>>
        /\ host[v] # None /\ placed' = [placed EXCEPT ![v] = ds]
        /\ was' = [was EXCEPT ![v] = @ \cup {ds}]
    BY <1>4 DEF Relocate, Changing, lists
  <2>2. placed' \in [VMs -> SUBSET Datastores] /\ was' \in [VMs -> SUBSET SUBSET Datastores]
    BY <1>1, <2>1
  <2>3. \A w \in VMs : was[w] \subseteq was'[w] /\ placed'[w] \in was'[w]
    BY <1>1, <2>1 DEF History
  <2>4. ASSUME NEW w \in VMs PROVE placed[w] # {} <=> placed'[w] # {}
    <3>1. CASE w = v
      <4>1. placed[v] # {}
        BY <1>1, <2>1 DEF History
      <4>2. placed'[v] = ds /\ ds # {}
        BY <1>1, <2>1
      <4> QED
        BY <3>1, <4>1, <4>2
    <3>2. CASE w # v
      BY <1>1, <2>1, <3>2
    <3> QED
      BY <3>1, <3>2
  <2>5. History'
    BY <1>1, <2>1, <2>3, <2>4 DEF History
  <2> QED
    BY <1>1, <2>1, <2>2, <2>3, <2>4, <2>5, VCenterStep
<1>5. ASSUME NEW v \in VMs, Delete(v) PROVE ScanIInv'
  <2>1. /\ pc # "done" /\ UNCHANGED <<pc, at, listed, inv, found, placed, podOf, was, podWas>>
        /\ UNCHANGED <<reading, podsLeft, dsToPod>>
        /\ host[v] # None /\ host' = [host EXCEPT ![v] = None]
        /\ moves' = [moves EXCEPT ![v] = @ + 1]
    BY <1>5 DEF Delete, Changing, lists
  <2>2. host' \in [VMs -> Hosts \cup {None}] /\ moves' \in [VMs -> Nat]
    BY <1>1, <2>1
  <2>3. \A w \in VMs : moves'[w] = 0 => w # v /\ moves[w] = 0 /\ host'[w] = host[w]
    BY <1>1, <2>1
  <2>4. \A w \in VMs : host'[w] # None => host[w] # None
    BY <1>1, <2>1
  <2>5. History'
    BY <1>1, <2>1, <2>3, <2>4 DEF History
  <2> QED
    BY <1>1, <2>1, <2>2, <2>3, <2>5, VCenterStep
<1>6. ASSUME NEW d \in Datastores, NEW p \in Pods \cup {None}, MovePod(d, p) PROVE ScanIInv'
  <2>1. /\ pc # "done" /\ UNCHANGED <<pc, at, listed, inv, found, host, placed, moves, was>>
        /\ UNCHANGED <<reading, podsLeft, dsToPod>>
        /\ podOf' = [podOf EXCEPT ![d] = p]
        /\ podWas' = [podWas EXCEPT ![d] = @ \cup {p}]
    BY <1>6 DEF MovePod, Changing, lists
  <2>2. /\ podOf' \in [Datastores -> Pods \cup {None}]
        /\ podWas' \in [Datastores -> SUBSET (Pods \cup {None})]
    BY <1>1, <2>1
  <2>3. \A f \in Datastores : podWas[f] \subseteq podWas'[f] /\ podOf'[f] \in podWas'[f]
    BY <1>1, <2>1 DEF History
  <2>4. History'
    BY <1>1, <2>1, <2>3 DEF History
  <2> QED
    BY <1>1, <2>1, <2>2, <2>3, <2>4, VCenterStep
<1> QED
  BY <1>3, <1>4, <1>5, <1>6 DEF Change
-----------------------------------------------------------------------------
(* The collection *)

\* What the collection does not change.
LEMMA Kept ==
  ASSUME UNCHANGED <<vcenter, ghosts>>
  PROVE  /\ History => History'
         /\ \A e, v : ReadFrom(e, v)' = ReadFrom(e, v)
         /\ \A n : WithName(n)' = WithName(n)
         /\ \A v : Alone(v)' = Alone(v)
         /\ UNCHANGED <<host, placed, podOf, moves, was, podWas>>
<1>1. UNCHANGED <<host, placed, podOf, moves, was, podWas>>
  BY DEF vcenter, ghosts
<1>2. History => History'
  BY <1>1 DEF History
<1>3. \A e, v : ReadFrom(e, v)' = ReadFrom(e, v)
  BY <1>1, Zenon DEF ReadFrom
<1>4. \A n : WithName(n)' = WithName(n)
  BY <1>1 DEF WithName
<1>5. \A v : Alone(v)' = Alone(v)
  BY <1>1, <1>4, Zenon DEF Alone
<1> QED
  BY <1>1, <1>2, <1>3, <1>4, <1>5

\* No host has two places in the layout, so the entries of a VM that stays are
\* in the cluster of its host.
LEMMA OnePlace ==
  ASSUME NEW c \in DOMAIN Layout, NEW h \in DOMAIN Layout[c], NEW e \in DOMAIN Layout
  PROVE  /\ \A i \in DOMAIN Layout[e] : Layout[c][h] = Layout[e][i] => c = e /\ h = i
         /\ Layout[c][h] \in HostsOf(e) => c = e
  BY LayoutAssumption DEF HostsOf

\* Listing a host finds those who run there now: who stays was on no host listed before.
LEMMA ListStep == ScanIInv /\ ListHost => ScanIInv'
<1> SUFFICES ASSUME ScanIInv, ListHost PROVE ScanIInv'
  OBVIOUS
<1> DEFINE c == at[1]
           h == at[2]
           S == Running(c, h)
           n == Len(listed)
<1>1. /\ ScanTypes /\ Place /\ History /\ Entries /\ Looked
      /\ Pending /\ NoneMissed /\ NoneTwice /\ Results
  BY DEF ScanIInv, ScanTypes
<1>2. PICK order \in SetToSeqs(S) : listed' = listed \o order
  BY DEF ListHost
<1>3. /\ pc = "list" \/ (pc = "read" /\ listed = <<>>)
      /\ at[1] <= Len(Layout) /\ Listed
      /\ UNCHANGED <<vcenter, ghosts>> /\ UNCHANGED <<inv, found, reading, podsLeft, dsToPod>>
  BY DEF ListHost, lists
<1>4. at \in Nat \X Nat /\ c \in DOMAIN Layout /\ h \in Nat \ {0} /\ at = <<c, h>>
  BY <1>1, <1>3, LayoutFacts DEF Place
<1>5. /\ order \in Seq(VMs) /\ Len(order) \in Nat
      /\ \A i \in 1..Len(order) : order[i] \in S
      /\ \A i, j \in 1..Len(order) : order[i] = order[j] => i = j
      /\ \A v \in S : \E i \in 1..Len(order) : order[i] = v
  <2>1. IsFiniteSet(S)
    BY VMsAssumption, FS_Subset DEF Running
  <2>2. /\ order \in Seq(S) /\ \A i, j \in 1..Len(order) : order[i] = order[j] => i = j
        /\ \A v \in S : \E i \in 1..Len(order) : order[i] = v
    BY <2>1, OrderLists
  <2> HIDE DEF S
  <2>3. \A i \in 1..Len(order) : order[i] \in S
    BY <2>2
  <2>4. S \subseteq VMs
    BY DEF S, Running
  <2> QED
    BY <2>2, <2>3, <2>4
<1>6. /\ listed \in Seq(VMs) /\ n \in Nat /\ DOMAIN listed = 1..n
      /\ listed' \in Seq(VMs) /\ DOMAIN listed' = 1..(n + Len(order))
      /\ \A i \in 1..n : listed'[i] = listed[i]
      /\ \A i \in 1..Len(order) : listed'[n + i] = order[i]
  <2>1. listed \in Seq(VMs) /\ n \in Nat /\ DOMAIN listed = 1..n
    BY <1>1 DEF ScanTypes
  <2> QED
    BY <1>2, <1>5, <2>1, ConcatProperties
<1> HIDE DEF S, n
<1>7. ASSUME NEW i \in DOMAIN listed'
       PROVE  /\ i \in 1..n => listed'[i] = listed[i] /\ i \in DOMAIN listed
              /\ i \notin 1..n => /\ i - n \in 1..Len(order) /\ listed'[i] = order[i - n]
                                  /\ listed'[i] \in S
  <2>1. i \notin 1..n => i - n \in 1..Len(order) /\ n + (i - n) = i
    BY <1>5, <1>6
  <2>2. i \notin 1..n => listed'[i] = order[i - n]
    BY <1>6, <2>1
  <2> QED
    BY <1>5, <1>6, <2>1, <2>2
\* Where the listing goes on.
<1>8. /\ Place' /\ pc' \in {"list", "read"} /\ Current' = c /\ at'[1] >= c /\ at'[1] \in Nat
      /\ pc = "list" => Current = c
  <2>1. /\ Len(Layout[c]) \in Nat /\ DOMAIN Layout[c] = 1..Len(Layout[c]) /\ Len(Layout) \in Nat
        /\ DOMAIN Layout = 1..Len(Layout)
    BY <1>4, LayoutFacts
  <2>2. CASE h < Len(Layout[c])
    <3>1. at' = <<c, h + 1>> /\ pc' = "list"
      BY <1>3, <2>2 DEF Listed
    <3>2. Place'
      BY <1>3, <1>4, <2>1, <2>2, <3>1 DEF Place
    <3> QED
      BY <1>4, <3>1, <3>2 DEF Current
  <2>3. CASE ~(h < Len(Layout[c]))
    <3>1. at' = <<c + 1, 1>> /\ pc' = "read"
      BY <1>3, <2>3 DEF Listed
    <3>2. Place'
      BY <1>3, <1>4, <2>1, <3>1 DEF Place
    <3> QED
      BY <1>4, <3>1, <3>2 DEF Current
  <2> QED
    BY <2>2, <2>3
<1>9. ASSUME NEW e \in DOMAIN Layout, NEW i \in DOMAIN Layout[e]
      PROVE  Passed(e, i)' <=> Passed(e, i) \/ (e = c /\ i = h)
  <2>1. e \in Nat /\ i \in Nat /\ c \in Nat /\ h \in Nat /\ i >= 1
    BY <1>4, LayoutFacts
  <2>2. CASE h < Len(Layout[c])
    BY <1>3, <2>1, <2>2 DEF Listed, Passed
  <2>3. CASE ~(h < Len(Layout[c]))
    <3>1. at' = <<c + 1, 1>>
      BY <1>3, <2>3 DEF Listed
    <3>2. e = c => i <= h
      BY <1>4, <2>1, <2>3, LayoutFacts
    <3> QED
      BY <2>1, <3>1, <3>2 DEF Passed
  <2> QED
    BY <2>2, <2>3
<1>10. ~Passed(c, h)
  BY <1>4 DEF Passed
<1>11. UNCHANGED <<host, placed, podOf, moves, was, podWas>> /\ History'
  BY <1>1, <1>3, Kept
<1>12. ScanTypes'
  BY <1>1, <1>3, <1>6, <1>8, <1>11 DEF ScanTypes
\* A VM listed now is on the host.
<1>13. ASSUME NEW v \in S
       PROVE  v \in VMs /\ h \in DOMAIN Layout[c] /\ host[v] = Layout[c][h] /\ placed[v] # {}
  <2>1. v \in VMs /\ h \in DOMAIN Layout[c] /\ host[v] = Layout[c][h]
    BY DEF S, Running
  <2>2. Layout[c][h] # None
    BY <1>4, <2>1, LayoutFacts
  <2> QED
    BY <1>1, <2>1, <2>2 DEF History
<1>14. Entries'
  <2>1. \A i \in DOMAIN inv : inv[i].cluster \in Nat
    <3>1. \A i \in DOMAIN inv : inv[i] \in VMEntry
      BY <1>1 DEF ScanTypes
    <3> QED
      BY <3>1, LayoutFacts DEF VMEntry
  <2>2. \A i \in DOMAIN inv : inv[i].cluster < at'[1]
    BY <1>1, <1>4, <1>8, <2>1 DEF Entries
  <2>3. \A i \in DOMAIN inv : \E v \in VMs : ReadFrom(inv[i], v)'
    BY <1>1, <1>3, Kept DEF Entries
  <2> QED
    BY <1>1, <1>3, <2>2, <2>3 DEF Entries
<1>15. Pending'
  <2>1. ASSUME NEW g \in DOMAIN Layout[c], Passed(c, g) \/ g = h
        PROVE  c < at'[1] \/ (c = at'[1] /\ g < at'[2])
    <3>1. \A e \in DOMAIN Layout : \A i \in DOMAIN Layout[e] :
            Passed(e, i) \/ (e = c /\ i = h) => e < at'[1] \/ (e = at'[1] /\ i < at'[2])
      BY <1>9 DEF Passed
    <3> QED
      BY <1>4, <2>1, <3>1
  <2>2. ASSUME NEW i \in DOMAIN listed'
        PROVE  /\ placed[listed'[i]] # {}
               /\ moves[listed'[i]] = 0 => \E g \in DOMAIN Layout[c] :
                    host[listed'[i]] = Layout[c][g] /\ (Passed(c, g) \/ g = h)
    <3>1. CASE i \in 1..n
      <4>1. listed'[i] = listed[i] /\ i \in DOMAIN listed /\ listed # <<>> /\ pc = "list"
        BY <1>3, <1>6, <3>1
      <4> QED
        BY <1>1, <1>8, <4>1 DEF Pending
    <3>2. CASE i \notin 1..n
      BY <1>4, <1>13, <1>7, <3>2
    <3> QED
      BY <3>1, <3>2
  <2> QED
    BY <1>8, <1>11, <2>1, <2>2 DEF Pending, Passed
<1>16. ASSUME NEW v \in VMs, Seen(v) \/ v \in S
       PROVE  Seen(v)'
  <2>1. CASE \E i \in DOMAIN listed : listed[i] = v
    BY <1>5, <1>6, <2>1 DEF Seen
  <2>2. CASE \E i \in DOMAIN inv : ReadFrom(inv[i], v)
    BY <1>3, <2>2, Kept DEF Seen
  <2>3. CASE v \in S
    <3>1. PICK i \in 1..Len(order) : order[i] = v
      BY <1>5, <2>3
    <3>2. n + i \in 1..(n + Len(order)) /\ listed'[n + i] = order[i]
      BY <1>5, <1>6
    <3>3. n + i \in DOMAIN listed' /\ listed'[n + i] = v
      BY <1>6, <3>1, <3>2
    <3> QED
      BY <3>3 DEF Seen
  <2> QED
    BY <1>16, <2>1, <2>2, <2>3 DEF Seen
<1>17. NoneMissed'
  <2> SUFFICES ASSUME NEW v \in VMs, placed[v] # {}, moves[v] = 0,
                      NEW e \in DOMAIN Layout, NEW i \in DOMAIN Layout[e],
                      host[v] = Layout[e][i], Passed(e, i)'
               PROVE  Seen(v)'
    BY <1>11 DEF NoneMissed
  <2>1. CASE Passed(e, i)
    BY <1>1, <1>16, <2>1 DEF NoneMissed
  <2>2. CASE e = c /\ i = h
    BY <1>16, <2>2 DEF S, Running
  <2> QED
    BY <1>9, <2>1, <2>2
\* A VM that stays, listed now, was not listed before.
<1>18. ASSUME NEW v \in S, moves[v] = 0, WithName(NameOf[v]) = {v}
       PROVE  /\ \A i \in DOMAIN listed : listed[i] # v
              /\ \A j \in DOMAIN inv : inv[j].name # NameOf[v]
  <2>1. v \in VMs /\ h \in DOMAIN Layout[c] /\ host[v] = Layout[c][h]
    BY <1>13
  <2>2. ASSUME NEW i \in DOMAIN listed, listed[i] = v PROVE FALSE
    <3>1. pc = "list" /\ Current = c
      BY <1>3, <1>6, <1>8, <2>2
    <3>2. PICK g \in DOMAIN Layout[c] : host[v] = Layout[c][g] /\ Passed(c, g)
      BY <1>1, <1>18, <2>2, <3>1 DEF Pending
    <3>3. Layout[c][h] = Layout[c][g]
      BY <2>1, <3>2
    <3>4. g = h
      BY <1>4, <2>1, <3>3, OnePlace
    <3> QED
      BY <1>10, <3>2, <3>4
  <2>3. ASSUME NEW j \in DOMAIN inv, inv[j].name = NameOf[v] PROVE FALSE
    <3>1. PICK w \in VMs : ReadFrom(inv[j], w)
      BY <1>1 DEF Entries
    <3>2. NameOf[w] = NameOf[v] /\ placed[w] # {}
      BY <2>3, <3>1 DEF ReadFrom
    <3>3. w = v
      BY <1>18, <3>2 DEF WithName
    <3>4. host[v] \in HostsOf(inv[j].cluster)
      BY <1>18, <3>1, <3>3 DEF ReadFrom
    <3>5. inv[j].cluster \in DOMAIN Layout /\ inv[j].cluster < c
      <4>1. inv[j] \in VMEntry
        BY <1>1 DEF ScanTypes
      <4> QED
        BY <1>1, <4>1 DEF VMEntry, Entries
    <3>6. inv[j].cluster = c
      BY <1>4, <2>1, <3>4, <3>5, OnePlace
    <3> QED
      BY <1>4, <3>5, <3>6
  <2> QED
    BY <2>2, <2>3
<1>19. NoneTwice'
  <2> SUFFICES ASSUME NEW v \in VMs, Alone(v)
               PROVE  /\ \A i, j \in DOMAIN listed' : listed'[i] = v /\ listed'[j] = v => i = j
                      /\ \A i, j \in DOMAIN inv :
                           inv[i].name = NameOf[v] /\ inv[j].name = NameOf[v] => i = j
                      /\ \A i \in DOMAIN listed', j \in DOMAIN inv :
                           ~(listed'[i] = v /\ inv[j].name = NameOf[v])
    BY <1>3, Kept DEF NoneTwice
  <2>1. moves[v] = 0 /\ WithName(NameOf[v]) = {v}
    BY DEF Alone
  <2>2. ASSUME NEW i \in DOMAIN listed', NEW j \in DOMAIN listed', listed'[i] = v, listed'[j] = v
        PROVE  i = j
    <3>1. CASE v \in S
      <4>1. i \notin 1..n /\ j \notin 1..n
        BY <1>18, <2>1, <1>7, <2>2, <3>1
      <4>2. i - n = j - n
        BY <1>5, <1>7, <2>2, <4>1
      <4> QED
        BY <1>5, <1>6, <4>2
    <3>2. CASE v \notin S
      <4>1. i \in 1..n /\ j \in 1..n
        BY <1>7, <2>2, <3>2
      <4> QED
        BY <1>1, <1>7, <2>2, <4>1 DEF NoneTwice
    <3> QED
      BY <3>1, <3>2
  <2>3. ASSUME NEW i \in DOMAIN listed', NEW j \in DOMAIN inv, listed'[i] = v,
               inv[j].name = NameOf[v]
        PROVE  FALSE
    <3>1. v \notin S
      BY <1>18, <2>1, <2>3
    <3>2. i \in 1..n
      BY <1>7, <2>3, <3>1
    <3> QED
      BY <1>1, <1>7, <2>3, <3>2 DEF NoneTwice
  <2> QED
    BY <1>1, <2>2, <2>3 DEF NoneTwice
<1>20. Results'
  BY <1>1, <1>3, <1>8 DEF Results
<1>21. Looked'
  BY <1>1, <1>3, <1>11 DEF Looked
<1> QED
  BY <1>11, <1>12, <1>14, <1>15, <1>17, <1>19, <1>20, <1>21 DEF ScanIInv

\* A step that reads something beside the list keeps the invariant, if what it read is true.
LEMMA AsideStep ==
  ASSUME ScanIInv, pc = "read", pc' \in {"read", "failed"},
         UNCHANGED <<vcenter, ghosts>>, UNCHANGED <<at, listed, inv, found>>,
         reading' \in [stores : SUBSET Datastores, disks : SUBSET Disk],
         podsLeft' \subseteq Pods, dsToPod' \in [Datastores -> Pods \cup {None}], Looked'
  PROVE  ScanIInv'
<1>1. ScanTypes /\ Place /\ History /\ Entries /\ Pending /\ NoneMissed /\ NoneTwice /\ Results
  BY DEF ScanIInv, ScanTypes
<1>2. UNCHANGED <<host, placed, podOf, moves, was, podWas>> /\ History'
  BY <1>1, Kept
<1>3. Current' = Current /\ \A c, h : Passed(c, h)' = Passed(c, h)
  BY DEF Current, Passed
<1>4. Place'
  BY <1>1 DEF Place
<1>5. ScanTypes'
  BY <1>1, <1>2, <1>4 DEF ScanTypes
<1>6. Entries'
  <2>1. \A i \in DOMAIN inv : \E w \in VMs : ReadFrom(inv[i], w)'
    BY <1>1, Kept DEF Entries
  <2> QED
    BY <1>1, <2>1 DEF Entries
<1>7. Pending'
  BY <1>1, <1>2, <1>3 DEF Pending
<1>8. NoneMissed'
  <2>1. \A w \in VMs : Seen(w) => Seen(w)'
    BY Kept DEF Seen
  <2> QED
    BY <1>1, <1>2, <1>3, <2>1 DEF NoneMissed
<1>9. NoneTwice'
  BY <1>1, Kept DEF NoneTwice
<1>10. Results'
  BY <1>1 DEF Results
<1> QED
  BY <1>2, <1>5, <1>6, <1>7, <1>8, <1>9, <1>10 DEF ScanIInv

\* A VM that is gone ends the collection.
LEMMA GoneStep == ScanIInv /\ Gone => ScanIInv'
<1> SUFFICES ASSUME ScanIInv, Gone PROVE ScanIInv'
  OBVIOUS
<1>1. /\ pc = "read" /\ pc' = "failed" /\ UNCHANGED <<vcenter, ghosts>>
      /\ UNCHANGED <<at, listed, inv, found, reading, podsLeft, dsToPod>>
  BY DEF Gone, lists
<1>2. ScanTypes /\ Looked /\ UNCHANGED <<was, podWas>>
  BY <1>1 DEF ScanIInv, ghosts
<1>3. Looked'
  BY <1>1, <1>2 DEF Looked
<1> QED
  BY <1>1, <1>2, <1>3, AsideStep DEF ScanTypes

\* The devices of a VM are those it has at one time.
LEMMA DevicesStep == ScanIInv /\ ReadDevices => ScanIInv'
<1> SUFFICES ASSUME ScanIInv, ReadDevices PROVE ScanIInv'
  OBVIOUS
<1> DEFINE v == Head(listed)
<1>1. /\ pc = "read" /\ pc' = "read" /\ listed # <<>> /\ UNCHANGED <<vcenter, ghosts>>
      /\ UNCHANGED <<at, listed, inv, found, podsLeft, dsToPod>>
      /\ reading' = [stores |-> placed[v], disks |-> {}]
  BY DEF ReadDevices, lists
<1>2. ScanTypes /\ History /\ Looked /\ UNCHANGED <<was, podWas>>
  BY <1>1 DEF ScanIInv, ghosts
<1>3. v \in VMs
  BY <1>1, <1>2 DEF ScanTypes
<1>4. reading' \in [stores : SUBSET Datastores, disks : SUBSET Disk]
  BY <1>1, <1>2, <1>3 DEF ScanTypes
<1>5. Looked'
  BY <1>1, <1>2, <1>3 DEF Looked, History
<1> QED
  BY <1>1, <1>2, <1>4, <1>5, AsideStep DEF ScanTypes

\* The pod looked up for a disk is that of its datastore at the time.
LEMMA LookUpStep == ASSUME NEW d \in Datastores PROVE ScanIInv /\ LookUpDisk(d) => ScanIInv'
<1> SUFFICES ASSUME ScanIInv, LookUpDisk(d) PROVE ScanIInv'
  OBVIOUS
<1> DEFINE x == [ds |-> d, pod |-> podOf[d], iso |-> FALSE]
<1>1. /\ pc = "read" /\ pc' = "read" /\ d \in reading.stores /\ UNCHANGED <<vcenter, ghosts>>
      /\ UNCHANGED <<at, listed, inv, found, podsLeft, dsToPod>>
      /\ reading' = [reading EXCEPT !.disks = @ \cup {x}]
  BY DEF LookUpDisk, lists
<1>2. ScanTypes /\ History /\ Looked /\ UNCHANGED <<was, podWas>>
  BY <1>1 DEF ScanIInv, ghosts
<1>3. x \in Disk
  BY <1>2 DEF ScanTypes, Disk
<1> HIDE DEF x
<1>4. /\ reading' \in [stores : SUBSET Datastores, disks : SUBSET Disk]
      /\ reading'.stores = reading.stores /\ reading'.disks = reading.disks \cup {x}
  BY <1>1, <1>2, <1>3 DEF ScanTypes
<1>5. x.ds \in reading.stores /\ ~x.iso /\ x.pod \in podWas[x.ds]
  BY <1>1, <1>2 DEF History, x
<1>6. reading # NoVM
  BY <1>1 DEF NoVM
<1>7. Looked'
  BY <1>1, <1>2, <1>4, <1>5, <1>6 DEF Looked
<1> QED
  BY <1>1, <1>2, <1>4, <1>7, AsideStep DEF ScanTypes

\* The datastores of a pod are in it when it is listed.
LEMMA ListPodStep == ASSUME NEW p \in Pods PROVE ScanIInv /\ ListPod(p) => ScanIInv'
<1> SUFFICES ASSUME ScanIInv, ListPod(p) PROVE ScanIInv'
  OBVIOUS
<1>1. /\ pc = "read" /\ pc' = "read" /\ UNCHANGED <<vcenter, ghosts>>
      /\ UNCHANGED <<at, listed, inv, found, reading>> /\ podsLeft' = podsLeft \ {p}
      /\ dsToPod' = [d \in Datastores |-> IF podOf[d] = p THEN p ELSE dsToPod[d]]
  BY DEF ListPod
<1>2. ScanTypes /\ History /\ Looked /\ UNCHANGED <<was, podWas>>
  BY <1>1 DEF ScanIInv, ghosts
<1>3. dsToPod' \in [Datastores -> Pods \cup {None}]
  BY <1>1, <1>2 DEF ScanTypes
<1>4. \A d \in Datastores : dsToPod'[d] # None => dsToPod'[d] \in podWas[d]
  BY <1>1, <1>2 DEF History, Looked
<1>5. Looked'
  BY <1>1, <1>2, <1>4 DEF Looked
<1> QED
  BY <1>1, <1>2, <1>3, <1>5, AsideStep DEF ScanTypes

\* The real disks of the entry made are those looked up, and their datastores those read at first.
LEMMA DisksRead ==
  ASSUME ScanIInv, NEW v \in VMs, NEW e, e.disks = reading.disks \cup IsoOf(v),
         {x.ds : x \in reading.disks} = reading.stores
  PROVE  /\ e.disks \in SUBSET Disk
         /\ StoresOf(e) = reading.stores
         /\ \A d \in RealDisks(e) : d.pod \in podWas[d.ds]
<1>1. /\ reading.stores \in SUBSET Datastores /\ reading.disks \in SUBSET Disk
      /\ MountedIso[v] \in Datastores \cup {None} /\ None \notin Datastores
      /\ \A x \in reading.disks : x.ds \in reading.stores /\ ~x.iso /\ x.pod \in podWas[x.ds]
  BY IsoAssumption, StoresAssumption DEF ScanIInv, ScanTypes, Looked
<1>2. IsoOf(v) = {[ds |-> MountedIso[v], pod |-> None, iso |-> TRUE]}
  BY DEF IsoOf
<1>3. IsoOf(v) \in SUBSET Disk
  BY <1>1, <1>2 DEF Disk
<1>4. \A x \in IsoOf(v) : x.iso
  BY <1>2
<1>5. RealDisks(e) = reading.disks
  <2>1. \A x \in reading.disks : x.ds \in Datastores /\ x.ds # None /\ ~x.iso
    BY <1>1
  <2> QED
    BY <1>4, <2>1 DEF RealDisks
<1> QED
  BY <1>1, <1>3, <1>5 DEF StoresOf

\* Reading a VM to the end turns its place in the list into an entry.
LEMMA EntryStep == ScanIInv /\ AddEntry => ScanIInv'
<1> SUFFICES ASSUME ScanIInv, AddEntry PROVE ScanIInv'
  OBVIOUS
<1> DEFINE v == Head(listed)
           n == Len(inv)
           e == [name |-> NameOf[v], cluster |-> at[1] - 1, disks |-> reading.disks \cup IsoOf(v)]
<1>1. /\ ScanTypes /\ Place /\ History /\ Entries /\ Looked
      /\ Pending /\ NoneMissed /\ NoneTwice /\ Results
  BY DEF ScanIInv, ScanTypes
<1>2. /\ pc = "read" /\ reading # NoVM /\ {x.ds : x \in reading.disks} = reading.stores
      /\ UNCHANGED <<vcenter, ghosts>> /\ UNCHANGED <<pc, at, found, podsLeft, dsToPod>>
      /\ host[v] # None /\ reading' = NoVM
  BY DEF AddEntry, lists
<1>3. inv' = Append(inv, e) /\ listed' = Tail(listed)
  BY DEF AddEntry
<1>4. UNCHANGED <<host, placed, podOf, moves, was, podWas>> /\ History'
  BY <1>1, <1>2, Kept
<1>5. /\ listed # <<>>
      /\ listed \in Seq(VMs) /\ Len(listed) \in Nat \ {0} /\ DOMAIN listed = 1..Len(listed)
      /\ v = listed[1] /\ v \in VMs /\ inv \in Seq(VMEntry) /\ n \in Nat /\ DOMAIN inv = 1..n
  BY <1>1, <1>2 DEF ScanTypes, Looked
<1>6. Current = at[1] - 1 /\ at \in Nat \X Nat /\ at[1] - 1 \in DOMAIN Layout
  BY <1>1, <1>2, <1>5 DEF Current, Place
<1>7. \A c, h : Passed(c, h)' = Passed(c, h)
  BY <1>2 DEF Passed
<1>8. e.disks = reading.disks \cup IsoOf(v) /\ e.name = NameOf[v] /\ e.cluster = at[1] - 1
  OBVIOUS
<1> HIDE DEF e
<1>9. /\ StoresOf(e) = reading.stores /\ e.disks \in SUBSET Disk
      /\ \A d \in RealDisks(e) : d.pod \in podWas[d.ds]
  BY <1>2, <1>5, <1>8, DisksRead
<1>10. e \in VMEntry
  BY <1>5, <1>6, <1>8, <1>9, NameAssumption DEF VMEntry, e
<1>11. ReadFrom(e, v)
  <2>1. placed[v] # {} /\ reading.stores \in was[v]
    BY <1>1, <1>2, <1>5 DEF History, Looked
  <2>2. moves[v] = 0 => host[v] \in HostsOf(e.cluster)
    <3>1. moves[v] = 0 => \E h \in DOMAIN Layout[Current] : host[v] = Layout[Current][h]
      BY <1>1, <1>5 DEF Pending
    <3> QED
      BY <1>6, <1>8, <3>1 DEF HostsOf
  <2> QED
    BY <1>8, <1>9, <2>1, <2>2 DEF ReadFrom
<1>12. /\ inv' \in Seq(VMEntry) /\ Len(inv') = n + 1 /\ DOMAIN inv' = 1..(n + 1)
      /\ inv'[n + 1] = e /\ \A i \in 1..n : inv'[i] = inv[i]
  BY <1>3, <1>5, <1>8, <1>10, AppendProperties
<1>13. /\ listed' \in Seq(VMs) /\ Len(listed') = Len(listed) - 1
      /\ DOMAIN listed' = 1..(Len(listed) - 1)
      /\ \A i \in 1..(Len(listed) - 1) : listed'[i] = listed[i + 1] /\ i + 1 \in DOMAIN listed
  BY <1>3, <1>5, HeadTailProperties
<1>14. Current' = Current
  BY <1>2, <1>5, <1>6 DEF Current
<1>15. ScanTypes'
  BY <1>1, <1>2, <1>4, <1>5, <1>6, <1>12, <1>13 DEF ScanTypes, Place, NoVM
<1>16. Entries'
  <2>1. \A i \in DOMAIN inv' : \E w \in VMs : ReadFrom(inv'[i], w)
    BY <1>1, <1>5, <1>11, <1>12 DEF Entries
  <2>2. \A i \in DOMAIN inv' : \E w \in VMs : ReadFrom(inv[i], w)'
    BY <1>4, <2>1 DEF ReadFrom
  <2>3. \A i \in 1..n : inv[i].cluster \in Nat
    <3>1. \A i \in 1..n : inv[i] \in VMEntry
      BY <1>5
    <3> QED
      BY <3>1, LayoutFacts DEF VMEntry
  <2>4. \A i \in DOMAIN inv' : inv'[i].cluster < at[1]
    BY <1>1, <1>5, <1>6, <1>8, <1>12 DEF Entries
  <2>5. ASSUME NEW i \in DOMAIN inv', NEW j \in DOMAIN inv', i < j
        PROVE  inv'[i].cluster <= inv'[j].cluster
    <3>1. i \in 1..n /\ inv'[i] = inv[i] /\ inv[i].cluster < at[1]
      BY <1>1, <1>5, <1>12, <2>5 DEF Entries
    <3>2. CASE j = n + 1
      BY <1>6, <1>8, <1>12, <2>3, <3>1, <3>2
    <3>3. CASE j # n + 1
      <4>1. j \in 1..n /\ inv'[j] = inv[j]
        BY <1>5, <1>12, <3>3
      <4> QED
        BY <1>1, <1>5, <2>5, <3>1, <4>1 DEF Entries
    <3> QED
      BY <3>2, <3>3
  <2> QED
    BY <1>2, <2>2, <2>4, <2>5 DEF Entries
<1>17. Pending'
  BY <1>1, <1>2, <1>4, <1>13, <1>14 DEF Pending, Passed
<1>18. ASSUME NEW w \in VMs, Seen(w) PROVE Seen(w)'
  <2>1. \A i \in DOMAIN inv' : ReadFrom(inv'[i], w) => Seen(w)'
    BY <1>4 DEF Seen, ReadFrom
  <2>2. CASE \E i \in DOMAIN inv : ReadFrom(inv[i], w)
    <3>1. PICK i \in DOMAIN inv : ReadFrom(inv[i], w)
      BY <2>2
    <3>2. i \in DOMAIN inv' /\ inv'[i] = inv[i]
      BY <1>5, <1>12, <3>1
    <3> QED
      BY <2>1, <3>1, <3>2
  <2>3. CASE \E i \in DOMAIN listed : listed[i] = w
    <3>1. PICK i \in DOMAIN listed : listed[i] = w
      BY <2>3
    <3>2. CASE i = 1
      <4>1. w = v /\ n + 1 \in DOMAIN inv'
        BY <1>5, <1>12, <3>1, <3>2
      <4> QED
        BY <1>11, <1>12, <2>1, <4>1
    <3>3. CASE i # 1
      <4>1. i - 1 \in DOMAIN listed' /\ (i - 1) + 1 = i
        BY <1>5, <1>13, <3>1, <3>3
      <4>2. listed'[i - 1] = w
        BY <1>13, <3>1, <4>1
      <4> QED
        BY <4>1, <4>2 DEF Seen
    <3> QED
      BY <3>2, <3>3
  <2> QED
    BY <1>18, <2>2, <2>3 DEF Seen
<1>19. NoneMissed'
  BY <1>1, <1>4, <1>7, <1>18 DEF NoneMissed
<1>20. NoneTwice'
  <2> SUFFICES ASSUME NEW w \in VMs, Alone(w)
               PROVE  /\ \A i, j \in DOMAIN listed' : listed'[i] = w /\ listed'[j] = w => i = j
                      /\ \A i, j \in DOMAIN inv' :
                           inv'[i].name = NameOf[w] /\ inv'[j].name = NameOf[w] => i = j
                      /\ \A i \in DOMAIN listed', j \in DOMAIN inv' :
                           ~(listed'[i] = w /\ inv'[j].name = NameOf[w])
    BY <1>2, Kept DEF NoneTwice
  <2>1. /\ \A i, j \in DOMAIN listed : listed[i] = w /\ listed[j] = w => i = j
        /\ \A i, j \in DOMAIN inv : inv[i].name = NameOf[w] /\ inv[j].name = NameOf[w] => i = j
        /\ \A i \in DOMAIN listed, j \in DOMAIN inv : ~(listed[i] = w /\ inv[j].name = NameOf[w])
    BY <1>1 DEF NoneTwice
  \* The entry is of another name, or it is this VM that leaves the list.
  <2>2. e.name = NameOf[w] => v = w
    BY <1>5, <1>8, <1>11 DEF Alone, WithName, ReadFrom
  <2>3. 1 \in DOMAIN listed
    BY <1>5
  <2>4. ASSUME NEW i \in DOMAIN listed', NEW j \in DOMAIN listed', listed'[i] = w, listed'[j] = w
        PROVE  i = j
    <3>1. i + 1 = j + 1
      BY <1>13, <2>1, <2>4
    <3> QED
      BY <1>5, <1>13, <3>1
  <2>5. ASSUME NEW i \in DOMAIN inv', inv'[i].name = NameOf[w]
        PROVE  i \in 1..n => v # w /\ inv[i].name = NameOf[w]
    BY <1>5, <1>12, <2>1, <2>3, <2>5
  <2>6. ASSUME NEW i \in DOMAIN inv', inv'[i].name = NameOf[w], i \notin 1..n
        PROVE  i = n + 1 /\ v = w
    BY <1>5, <1>12, <2>2, <2>6
  <2>7. ASSUME NEW i \in DOMAIN inv', NEW j \in DOMAIN inv',
               inv'[i].name = NameOf[w], inv'[j].name = NameOf[w]
        PROVE  i = j
    BY <1>5, <2>1, <2>5, <2>6, <2>7
  <2>8. ASSUME NEW i \in DOMAIN listed', NEW j \in DOMAIN inv', listed'[i] = w,
               inv'[j].name = NameOf[w]
        PROVE  FALSE
    <3>1. i + 1 \in DOMAIN listed /\ listed[i + 1] = w /\ i + 1 # 1
      BY <1>5, <1>13, <2>8
    <3>2. CASE j \in 1..n
      BY <1>5, <2>1, <2>5, <2>8, <3>1, <3>2
    <3>3. CASE j \notin 1..n
      BY <1>5, <2>1, <2>3, <2>6, <2>8, <3>1, <3>3
    <3> QED
      BY <3>2, <3>3
  <2> QED
    BY <2>4, <2>7, <2>8
<1>21. Results'
  BY <1>1, <1>2 DEF Results
<1>22. Looked'
  BY <1>1, <1>2, <1>4 DEF Looked, NoVM
<1> QED
  BY <1>4, <1>15, <1>16, <1>17, <1>19, <1>20, <1>21, <1>22 DEF ScanIInv

\* The analysis reports on the entries and leaves the rest alone.
LEMMA AnalyzeStep == ScanIInv /\ Analyze => ScanIInv'
<1> SUFFICES ASSUME ScanIInv, Analyze PROVE ScanIInv'
  OBVIOUS
<1>1. ScanTypes /\ Place /\ History /\ Entries /\ Looked /\ Pending /\ NoneMissed /\ NoneTwice
  BY DEF ScanIInv, ScanTypes
<1>2. /\ pc = "read" /\ listed = <<>> /\ at[1] > Len(Layout) /\ pc' = "done"
      /\ UNCHANGED <<vcenter, ghosts>> /\ UNCHANGED <<at, listed, inv, reading, podsLeft, dsToPod>>
      /\ found' = [violations |-> Violations(inv, dsToPod),
                   scattered |-> {inv[i].name : i \in Scattered(inv, dsToPod)},
                   rules |-> Rules(inv)]
  BY DEF Analyze, lists
<1>3. UNCHANGED <<host, placed, podOf, moves, was, podWas>> /\ History'
  BY <1>1, <1>2, Kept
<1>4. Place'
  BY <1>1, <1>2, LayoutFacts DEF Place
<1>5. ScanTypes'
  BY <1>1, <1>2, <1>3, <1>4 DEF ScanTypes
<1>6. Entries'
  <2>1. \A i \in DOMAIN inv : \E w \in VMs : ReadFrom(inv[i], w)'
    BY <1>1, <1>2, Kept DEF Entries
  <2> QED
    BY <1>1, <1>2, <2>1 DEF Entries
<1>7. Pending'
  BY <1>2 DEF Pending
<1>8. NoneMissed'
  <2>1. \A w \in VMs : Seen(w) => Seen(w)'
    BY <1>2, Kept DEF Seen
  <2>2. \A c, h : Passed(c, h)' = Passed(c, h)
    BY <1>2 DEF Passed
  <2> QED
    BY <1>1, <1>3, <2>1, <2>2 DEF NoneMissed
<1>9. NoneTwice'
  BY <1>1, <1>2, Kept DEF NoneTwice
<1>10. Results'
  BY <1>2, <1>3 DEF Results
<1>11. Looked'
  BY <1>1, <1>2, <1>3 DEF Looked
<1> QED
  BY <1>3, <1>5, <1>6, <1>7, <1>8, <1>9, <1>10, <1>11 DEF ScanIInv

\* A step that changes nothing keeps the invariant.
LEMMA StillScan == ScanIInv /\ UNCHANGED scanVars => ScanIInv'
<1> SUFFICES ASSUME ScanIInv, UNCHANGED scanVars PROVE ScanIInv'
  OBVIOUS
<1>1. /\ UNCHANGED <<vcenter, ghosts>> /\ UNCHANGED <<pc, at, listed, inv, found>>
      /\ UNCHANGED <<reading, podsLeft, dsToPod>>
      /\ UNCHANGED <<host, placed, podOf, moves, was, podWas>>
  BY DEF scanVars, vcenter, ghosts, lists
<1>2. /\ ScanTypes /\ History /\ Entries /\ Looked
      /\ Pending /\ NoneMissed /\ NoneTwice /\ Results
  BY DEF ScanIInv
<1>3. ScanTypes'
  BY <1>1, <1>2 DEF ScanTypes, Place
<1>4. CASE pc # "done"
  <2>1. History'
    BY <1>1, <1>2, Kept
  <2>2. \A v \in VMs : placed[v] # {} <=> placed'[v] # {}
    BY <1>1
  <2> QED
    BY <1>1, <1>3, <1>4, <2>1, <2>2, VCenterStep DEF ScanTypes
<1>5. CASE pc = "done"
  <2>1. Entries' /\ Pending' /\ NoneMissed' /\ NoneTwice'
    <3>1. \A i \in DOMAIN inv : \E w \in VMs : ReadFrom(inv[i], w)'
      BY <1>1, <1>2, Kept DEF Entries
    <3>2. \A w \in VMs : Seen(w) => Seen(w)'
      BY <1>1, Kept DEF Seen
    <3>3. \A c, h : Passed(c, h)' = Passed(c, h)
      BY <1>1 DEF Passed
    <3>4. Entries'
      BY <1>1, <1>2, <3>1 DEF Entries
    <3>5. Pending'
      BY <1>1, <1>2 DEF Pending, Passed, Current
    <3>6. NoneMissed'
      BY <1>1, <1>2, <3>2, <3>3 DEF NoneMissed
    <3> QED
      BY <1>1, <1>2, <3>4, <3>5, <3>6, Kept DEF NoneTwice
  <2>2. Results'
    BY <1>1, <1>2 DEF Results
  <2>3. Looked'
    BY <1>1, <1>2 DEF Looked
  <2> QED
    BY <1>1, <1>2, <1>3, <2>1, <2>2, <2>3, Kept DEF ScanIInv
<1> QED
  BY <1>4, <1>5

\* The inductive invariant of the collection and the analysis holds throughout.
THEOREM ScanInvariance == ScanSpec => []ScanIInv
<1>1. ScanInit => ScanIInv
  BY InitScan
<1>2. ScanIInv /\ [ScanNext]_scanVars => ScanIInv'
  BY ChangeStep, ListStep, GoneStep, DevicesStep, LookUpStep, EntryStep, ListPodStep, AnalyzeStep,
     StillScan
     DEF ScanNext, Collect
<1> QED
  BY <1>1, <1>2, PTL DEF ScanSpec
-----------------------------------------------------------------------------
(* The entries of a name, and the pairs of a group *)

\* The positions of a sequence are finitely many.
LEMMA FinitePlaces ==
  ASSUME NEW S, NEW s \in Seq(S), NEW T \in SUBSET DOMAIN s
  PROVE  IsFiniteSet(T) /\ Cardinality(T) \in Nat
<1>1. DOMAIN s = 1..Len(s) /\ Len(s) \in Nat
  OBVIOUS
<1>2. IsFiniteSet(1..Len(s))
  BY <1>1, FS_Interval
<1> QED
  BY <1>1, <1>2, FS_Subset, FS_CardinalityType

Present(es, m) == Positions(es, m) # {}

\* The entry of a name that was read is its last.
LEMMA NamePlaces ==
  ASSUME NEW es \in Seq(VMEntry), NEW m, Present(es, m)
  PROVE  /\ Positions(es, m) \in SUBSET Nat
         /\ Min(Positions(es, m)) \in Positions(es, m)
         /\ Max(Positions(es, m)) \in DOMAIN es /\ es[Max(Positions(es, m))].name = m
         /\ \A i \in Positions(es, m) : i <= Max(Positions(es, m))
         /\ Entry(es, m) \in VMEntry /\ Entry(es, m).name = m
<1> DEFINE T == Positions(es, m)
<1>1. DOMAIN es = 1..Len(es) /\ Len(es) \in Nat /\ \A i \in DOMAIN es : es[i] \in VMEntry
  OBVIOUS
<1>2. T \in SUBSET Nat /\ T # {} /\ \A y \in T : y <= Len(es) /\ y \in DOMAIN es /\ es[y].name = m
  BY <1>1 DEF Positions, Present
<1> HIDE DEF T
<1>3. Min(T) \in T /\ Max(T) \in T /\ \A y \in T : y <= Max(T)
  BY <1>1, <1>2, MinOf, MaxOf
<1> QED
  BY <1>1, <1>2, <1>3 DEF T, Entry

\* What a violation reports of two names.
ViolationOf(es, pods, m, n) ==
  [group |-> GroupOf[m], a |-> m, b |-> n,
   ds   |-> StoresOf(Entry(es, m)) \cap StoresOf(Entry(es, n)),
   pods |-> PodsOf(Entry(es, m), pods) \cap PodsOf(Entry(es, n), pods)]

\* A violation is about two names that were read, the one before the other, and what their entries share.
LEMMA ViolationIs ==
  ASSUME NEW es \in Seq(VMEntry), NEW pods, NEW x \in Violations(es, pods)
  PROVE  \E m, n : /\ Present(es, m) /\ Present(es, n) /\ Before(es, m, n)
                   /\ x = ViolationOf(es, pods, m, n)
<1>1. PICK k \in {GroupOf[m] : m \in Names} \ {None} : \E p \in Pairs(es, k) :
        x = [group |-> k, a |-> p[1].name, b |-> p[2].name,
             ds   |-> StoresOf(p[1]) \cap StoresOf(p[2]),
             pods |-> PodsOf(p[1], pods) \cap PodsOf(p[2], pods)]
  BY DEF Violations
<1>2. PICK p \in Pairs(es, k) :
        x = [group |-> k, a |-> p[1].name, b |-> p[2].name,
             ds   |-> StoresOf(p[1]) \cap StoresOf(p[2]),
             pods |-> PodsOf(p[1], pods) \cap PodsOf(p[2], pods)]
  BY <1>1
<1> DEFINE names == {es[i].name : i \in Grouped(es, k)}
<1>3. PICK q \in names \X names : Before(es, q[1], q[2]) /\ p = <<Entry(es, q[1]), Entry(es, q[2])>>
  BY <1>2 DEF Pairs
<1>4. \A m \in names : Present(es, m) /\ GroupOf[m] = k
  BY DEF Grouped, Positions, Present
<1>5. q[1] \in names /\ q[2] \in names
  BY <1>3
<1>6. Present(es, q[1]) /\ Present(es, q[2]) /\ GroupOf[q[1]] = k
  BY <1>4, <1>5
<1>7. p[1] = Entry(es, q[1]) /\ p[2] = Entry(es, q[2]) /\ p[1].name = q[1] /\ p[2].name = q[2]
  BY <1>3, <1>6, NamePlaces
<1>8. x = ViolationOf(es, pods, q[1], q[2])
  BY <1>2, <1>6, <1>7 DEF ViolationOf
<1> QED
  BY <1>3, <1>6, <1>8

\* Two names of a group whose entries share something are a violation.
LEMMA ViolationFound ==
  ASSUME NEW es \in Seq(VMEntry), NEW pods, NEW m, NEW n,
         Present(es, m), Present(es, n), Before(es, m, n),
         GroupOf[m] = GroupOf[n], GroupOf[m] # None,
         ViolationOf(es, pods, m, n).ds # {} \/ ViolationOf(es, pods, m, n).pods # {}
  PROVE  ViolationOf(es, pods, m, n) \in Violations(es, pods)
<1> DEFINE k == GroupOf[m]
           names == {es[i].name : i \in Grouped(es, k)}
           p == <<Entry(es, m), Entry(es, n)>>
           i == Min(Positions(es, m))
           j == Min(Positions(es, n))
<1>1. /\ i \in Positions(es, m) /\ j \in Positions(es, n) /\ i \in Nat /\ j \in Nat
      /\ Entry(es, m).name = m /\ Entry(es, n).name = n
  BY NamePlaces
<1>2. i < j
  BY DEF Before
<1> HIDE DEF i, j
<1>3. i \in Grouped(es, k) /\ j \in Grouped(es, k) /\ es[i].name = m /\ es[j].name = n
  BY <1>1 DEF Positions, Grouped
<1>4. m \in names /\ n \in names
  BY <1>3
<1>5. Cardinality(Grouped(es, k)) >= 2
  <2>1. IsFiniteSet(Grouped(es, k)) /\ Cardinality(Grouped(es, k)) \in Nat
    BY FinitePlaces DEF Grouped
  <2>2. \E y, z \in Grouped(es, k) : y # z
    BY <1>1, <1>2, <1>3
  <2> QED
    BY <2>1, <2>2, TwoElements
<1> HIDE DEF k
<1>6. p \in Pairs(es, k)
  <2>1. <<m, n>> \in {q \in names \X names : Before(es, q[1], q[2])}
    BY <1>4
  <2>2. ~(Cardinality(Grouped(es, k)) < 2)
    <3>1. Cardinality(Grouped(es, k)) \in Nat
      BY FinitePlaces DEF Grouped
    <3> QED
      BY <1>5, <3>1
  <2> QED
    BY <2>1, <2>2 DEF Pairs
<1>7. m \in Names
  <2>1. es[i] \in VMEntry
    BY <1>3 DEF Grouped
  <2> QED
    BY <1>3, <2>1 DEF VMEntry
<1>8. k \in {GroupOf[y] : y \in Names} \ {None}
  BY <1>7 DEF k
<1> DEFINE x == [group |-> k, a |-> p[1].name, b |-> p[2].name,
                 ds   |-> StoresOf(p[1]) \cap StoresOf(p[2]),
                 pods |-> PodsOf(p[1], pods) \cap PodsOf(p[2], pods)]
<1>9. x = ViolationOf(es, pods, m, n)
  BY <1>1 DEF ViolationOf, k
<1>10. x.ds # {} \/ x.pods # {}
  BY <1>9
<1>11. x \in {[group |-> k, a |-> q[1].name, b |-> q[2].name,
               ds   |-> StoresOf(q[1]) \cap StoresOf(q[2]),
               pods |-> PodsOf(q[1], pods) \cap PodsOf(q[2], pods)] : q \in Pairs(es, k)}
  BY <1>6
<1> HIDE DEF x
<1>12. x \in Violations(es, pods)
  BY <1>8, <1>10, <1>11 DEF Violations
<1> QED
  BY <1>9, <1>12

\* What the invariant says of the results.
LEMMA FoundIs ==
  ASSUME ScanIInv
  PROVE  /\ inv \in Seq(VMEntry)
         /\ pc # "done" => /\ found.violations = {} /\ found.scattered = {} /\ found.rules = {}
         /\ pc = "done" => /\ found.violations = Violations(inv, dsToPod)
                           /\ found.scattered = {inv[i].name : i \in Scattered(inv, dsToPod)}
                           /\ found.rules = Rules(inv)
  BY DEF ScanIInv, ScanTypes, Results, NotFound
-----------------------------------------------------------------------------
(* The theorems *)

\* A violation names two, in the order of the entries, so that no pair stands twice.
LEMMA PairsOnceLemma == ScanIInv => PairsOnce
<1> SUFFICES ASSUME ScanIInv PROVE PairsOnce
  OBVIOUS
<1>1. ASSUME NEW x \in found.violations
      PROVE  /\ pc = "done" /\ Before(inv, x.a, x.b) /\ Present(inv, x.a) /\ Present(inv, x.b)
             /\ x = ViolationOf(inv, dsToPod, x.a, x.b)
  <2>1. pc = "done" /\ inv \in Seq(VMEntry) /\ x \in Violations(inv, dsToPod)
    BY FoundIs
  <2>2. PICK m, n : /\ Present(inv, m) /\ Present(inv, n) /\ Before(inv, m, n)
                    /\ x = ViolationOf(inv, dsToPod, m, n)
    BY <2>1, ViolationIs
  <2>3. x.a = m /\ x.b = n
    BY <2>2 DEF ViolationOf
  <2> QED
    BY <2>1, <2>2, <2>3
<1>2. ASSUME NEW m, NEW n, Present(inv, m), Present(inv, n), Before(inv, m, n)
      PROVE  ~Before(inv, n, m) /\ m # n
  <2>1. /\ Positions(inv, m) \in SUBSET Nat /\ Min(Positions(inv, m)) \in Positions(inv, m)
        /\ Positions(inv, n) \in SUBSET Nat /\ Min(Positions(inv, n)) \in Positions(inv, n)
    BY <1>2, NamePlaces, FoundIs
  <2>2. Min(Positions(inv, m)) \in Nat /\ Min(Positions(inv, n)) \in Nat
    BY <2>1
  <2> QED
    BY <1>2, <2>2 DEF Before
<1>3. ASSUME NEW x \in found.violations PROVE x.a # x.b
  BY <1>1, <1>2
<1>4. ASSUME NEW x \in found.violations, NEW y \in found.violations, {x.a, x.b} = {y.a, y.b}
      PROVE  x = y
  <2>1. (x.a = y.a /\ x.b = y.b) \/ (x.a = y.b /\ x.b = y.a)
    BY <1>4
  <2>2. ~(x.a = y.b /\ x.b = y.a)
    BY <1>1, <1>2
  <2> QED
    BY <1>1, <2>1, <2>2
<1> QED
  BY <1>3, <1>4 DEF PairsOnce

\* The entry a name keeps was read of a VM of the name.
LEMMA EntryRead ==
  ASSUME ScanIInv, NEW m, Present(inv, m)
  PROVE  \E w \in WithName(m) : ReadFrom(Entry(inv, m), w)
<1>1. Max(Positions(inv, m)) \in DOMAIN inv /\ Entry(inv, m).name = m
  BY NamePlaces, FoundIs
<1>2. PICK w \in VMs : ReadFrom(Entry(inv, m), w)
  BY <1>1 DEF Entry, ScanIInv, Entries
<1> QED
  BY <1>1, <1>2 DEF ReadFrom, WithName

\* The stores and the pods of an entry are those of its VM.
LEMMA EntryStores ==
  ASSUME ScanIInv, NEW e \in VMEntry, NEW w \in VMs, ReadFrom(e, w)
  PROVE  /\ StoresOf(e) \in was[w] /\ StoresOf(e) \in SUBSET Datastores
         /\ \A p \in PodsOf(e, dsToPod) : p \in Pods /\ \E d \in StoresOf(e) : p \in podWas[d]
<1>1. StoresOf(e) \in was[w] /\ \A d \in RealDisks(e) : d.pod \in podWas[d.ds]
  BY DEF ReadFrom
<1>2. \A d \in RealDisks(e) : d.ds \in Datastores /\ d.pod \in Pods \cup {None}
  BY DEF VMEntry, Disk, RealDisks
<1>3. StoresOf(e) \in SUBSET Datastores
  BY <1>2 DEF StoresOf
<1>4. ASSUME NEW p \in PodsOf(e, dsToPod)
      PROVE  p \in Pods /\ \E d \in StoresOf(e) : p \in podWas[d]
  <2>1. PICK d \in RealDisks(e) : p = PodAt(d, dsToPod) /\ p # None
    BY DEF PodsOf
  <2>2. /\ dsToPod[d.ds] \in Pods \cup {None}
        /\ dsToPod[d.ds] # None => dsToPod[d.ds] \in podWas[d.ds]
        /\ d.ds \in StoresOf(e)
    BY <1>2 DEF ScanIInv, ScanTypes, Looked, StoresOf
  <2>3. p = dsToPod[d.ds] \/ p = d.pod
    BY <2>1 DEF PodAt
  <2>4. p \in podWas[d.ds] /\ p \in Pods
    BY <1>1, <1>2, <2>1, <2>2, <2>3
  <2> QED
    BY <2>2, <2>4
<1> QED
  BY <1>1, <1>3, <1>4

\* When the analysis ends a VM that stayed has an entry.
LEMMA SteadySeen ==
  ASSUME ScanIInv, pc = "done", NEW v \in VMs, placed[v] # {}, moves[v] = 0
  PROVE  \E i \in DOMAIN inv : ReadFrom(inv[i], v)
<1>1. /\ host[v] \in Hosts /\ listed = <<>> /\ at[1] = Len(Layout) + 1
      /\ NoneMissed
  BY DEF ScanIInv, ScanTypes, History, Place
<1>2. PICK c \in DOMAIN Layout : \E h \in DOMAIN Layout[c] : host[v] = Layout[c][h]
  BY <1>1 DEF Hosts, HostsOf
<1>3. PICK h \in DOMAIN Layout[c] : host[v] = Layout[c][h]
  BY <1>2
<1>4. Passed(c, h)
  BY <1>1, LayoutFacts DEF Passed
<1>5. Seen(v)
  BY <1>1, <1>3, <1>4 DEF NoneMissed
<1> QED
  BY <1>1, <1>5 DEF Seen

\* What two entries share was shared in the past, from the origin of each entry.
LEMMA SharedLemma == ScanIInv => SharedWasShared
<1> SUFFICES ASSUME ScanIInv, NEW x \in found.violations
             PROVE  /\ \A d \in x.ds, m \in {x.a, x.b} :
                         \E v \in WithName(m) : d \in UNION was[v]
                    /\ \A p \in x.pods, m \in {x.a, x.b} : \E d \in Datastores :
                         (\E v \in WithName(m) : d \in UNION was[v]) /\ p \in podWas[d]
  BY DEF SharedWasShared
<1>1. inv \in Seq(VMEntry) /\ x \in Violations(inv, dsToPod)
  BY FoundIs
<1>2. PICK m, n : Present(inv, m) /\ Present(inv, n) /\ x = ViolationOf(inv, dsToPod, m, n)
  BY <1>1, ViolationIs
<1>3. /\ x.a = m /\ x.b = n
      /\ \A o \in {m, n} : /\ Present(inv, o) /\ x.ds \subseteq StoresOf(Entry(inv, o))
                           /\ x.pods \subseteq PodsOf(Entry(inv, o), dsToPod)
  BY <1>2 DEF ViolationOf
<1>4. ASSUME NEW o \in {x.a, x.b}
      PROVE  \E v \in WithName(o) : /\ x.ds \subseteq UNION was[v]
                                    /\ \A p \in x.pods : \E d \in Datastores :
                                         d \in UNION was[v] /\ p \in podWas[d]
  <2> DEFINE e == Entry(inv, o)
  <2>1. Present(inv, o) /\ x.ds \subseteq StoresOf(e) /\ x.pods \subseteq PodsOf(e, dsToPod)
    BY <1>3
  <2>2. PICK w \in WithName(o) : ReadFrom(e, w)
    BY <2>1, EntryRead
  <2>3. e \in VMEntry /\ w \in VMs
    BY <1>1, <2>1, NamePlaces DEF WithName
  <2>4. /\ StoresOf(e) \in was[w] /\ StoresOf(e) \in SUBSET Datastores
        /\ \A p \in PodsOf(e, dsToPod) : \E d \in StoresOf(e) : p \in podWas[d]
    BY <2>2, <2>3, EntryStores
  <2>5. StoresOf(e) \subseteq UNION was[w]
    BY <2>4
  <2> HIDE DEF e
  <2> QED
    BY <2>1, <2>4, <2>5
<1> QED
  BY <1>4

\* Several stores of an entry were a placement, and two pods of one store are two
\* it was in; the entry of one that stays has its placement.
LEMMA ScatteredLemma == ScanIInv => ScatteredTrue
<1> SUFFICES ASSUME ScanIInv PROVE ScatteredTrue
  OBVIOUS
<1>1. ASSUME NEW m \in found.scattered
      PROVE  \E v \in WithName(m) : \E s \in was[v] :
               Cardinality(s) > 1 \/ \E d \in s : ~SteadyPod(d)
  <2>1. PICK i \in Scattered(inv, dsToPod) : m = inv[i].name
    BY FoundIs
  <2>2. i \in DOMAIN inv /\ inv[i] \in VMEntry
    BY <2>1, FoundIs DEF Scattered
  <2> DEFINE e == inv[i]
  <2>3. PICK w \in VMs : ReadFrom(e, w)
    BY <2>2 DEF ScanIInv, Entries
  <2>4. /\ StoresOf(e) \in was[w] /\ StoresOf(e) \in SUBSET Datastores
        /\ \A p \in PodsOf(e, dsToPod) : p \in Pods
    BY <2>2, <2>3, EntryStores
  <2>5. IsFiniteSet(StoresOf(e)) /\ IsFiniteSet(PodsOf(e, dsToPod))
    <3>1. PodsOf(e, dsToPod) \in SUBSET Pods
      BY <2>4
    <3> QED
      BY <2>4, <3>1, StoresAssumption, FS_Subset
  \* Two pods are those of two datastores, or one datastore was in both.
  <2>6. ASSUME Cardinality(PodsOf(e, dsToPod)) > 1, ~(Cardinality(StoresOf(e)) > 1)
        PROVE  \E d \in StoresOf(e) : ~SteadyPod(d)
    <3>1. PICK p, q \in PodsOf(e, dsToPod) : p # q
      BY <2>5, <2>6, TwoElements
    <3>2. PICK d \in StoresOf(e) : p \in podWas[d]
      BY <2>2, <2>3, EntryStores
    <3>3. PICK f \in StoresOf(e) : q \in podWas[f]
      BY <2>2, <2>3, EntryStores
    <3>4. d = f
      BY <2>5, <2>6, TwoElements
    <3> QED
      BY <3>1, <3>2, <3>3, <3>4 DEF SteadyPod
  <2>7. Cardinality(StoresOf(e)) > 1 \/ \E d \in StoresOf(e) : ~SteadyPod(d)
    BY <2>1, <2>6 DEF Scattered
  <2>8. w \in WithName(m)
    BY <2>1, <2>3 DEF ReadFrom, WithName
  <2> QED
    BY <2>4, <2>7, <2>8
<1>2. ASSUME pc = "done", NEW v \in VMs, Steady(v), Cardinality(placed[v]) > 1
      PROVE  NameOf[v] \in found.scattered
  <2>1. PICK i \in DOMAIN inv : ReadFrom(inv[i], v)
    BY <1>2, SteadySeen DEF Steady, ScanIInv, History
  <2>2. StoresOf(inv[i]) = placed[v] /\ inv[i].name = NameOf[v]
    BY <1>2, <2>1 DEF ReadFrom, Steady
  <2>3. i \in Scattered(inv, dsToPod)
    BY <1>2, <2>2 DEF Scattered
  <2> QED
    BY <1>2, <2>2, <2>3, FoundIs
<1> QED
  BY <1>1, <1>2 DEF ScatteredTrue

\* What a name keeps is the entry of its last VM.
LEMMA SteadyEntry ==
  ASSUME ScanIInv, pc = "done", NEW u \in VMs, Steady(u), LastOfName(u),
         \A d \in placed[u] : SteadyPod(d)
  PROVE  /\ Present(inv, NameOf[u])
         /\ StoresOf(Entry(inv, NameOf[u])) = placed[u]
         /\ PodsOf(Entry(inv, NameOf[u]), dsToPod) = {podOf[d] : d \in placed[u]} \ {None}
<1> DEFINE m == NameOf[u]
           M == Max(Positions(inv, m))
           e == Entry(inv, m)
<1>1. host[u] # None /\ moves[u] = 0 /\ was[u] = {placed[u]} /\ placed[u] # {}
  BY DEF Steady, ScanIInv, History
<1>2. PICK i \in DOMAIN inv : ReadFrom(inv[i], u)
  BY <1>1, SteadySeen
<1>3. i \in Positions(inv, m) /\ Present(inv, m) /\ host[u] \in HostsOf(inv[i].cluster)
  BY <1>1, <1>2 DEF ReadFrom, Positions, Present
<1>4. /\ M \in DOMAIN inv /\ e = inv[M] /\ i <= M /\ inv \in Seq(VMEntry)
  BY <1>3, NamePlaces, FoundIs DEF Entry
<1>5. /\ i \in Nat /\ M \in Nat /\ inv[i] \in VMEntry /\ e \in VMEntry
  BY <1>4
<1>6. /\ inv[i].cluster \in DOMAIN Layout /\ inv[M].cluster \in DOMAIN Layout
      /\ inv[i].cluster \in Nat /\ inv[M].cluster \in Nat
  BY <1>4, <1>5, LayoutFacts DEF VMEntry
<1> HIDE DEF M, m, e
<1>7. inv[i].cluster <= inv[M].cluster
  BY <1>4, <1>5, <1>6 DEF ScanIInv, Entries
<1>8. PICK w \in WithName(m) : ReadFrom(e, w)
  BY <1>3, EntryRead DEF e
<1>9. w = u
  <2> SUFFICES ASSUME w # u PROVE FALSE
    OBVIOUS
  <2>1. \A c, f \in DOMAIN Layout :
          moves[w] = 0 /\ (host[w] \in HostsOf(c) /\ host[u] \in HostsOf(f) => c < f)
    BY <1>8 DEF LastOfName, m
  <2>2. host[w] \in HostsOf(inv[M].cluster)
    BY <1>4, <1>6, <1>8, <2>1 DEF ReadFrom
  <2>3. inv[M].cluster < inv[i].cluster
    BY <1>3, <1>6, <2>1, <2>2
  <2> QED
    BY <1>6, <1>7, <2>3
<1>10. StoresOf(e) = placed[u]
  BY <1>1, <1>8, <1>9 DEF ReadFrom
<1>11. ASSUME NEW d \in RealDisks(e) PROVE d.ds \in placed[u] /\ PodAt(d, dsToPod) = podOf[d.ds]
  <2>1. d.ds \in placed[u] /\ d.ds \in Datastores
    BY <1>10 DEF StoresOf, ScanIInv, ScanTypes
  <2>2. d.pod = podOf[d.ds]
    BY <1>8, <1>9, <2>1 DEF ReadFrom, SteadyPod
  <2>3. dsToPod[d.ds] # None => dsToPod[d.ds] = podOf[d.ds]
    BY <2>1 DEF ScanIInv, Looked, SteadyPod
  <2> QED
    BY <2>1, <2>2, <2>3 DEF PodAt
<1>12. \A s \in placed[u] : \E d \in RealDisks(e) : d.ds = s
  BY <1>10 DEF StoresOf
<1>13. {PodAt(d, dsToPod) : d \in RealDisks(e)} = {podOf[d] : d \in placed[u]}
  BY <1>11, <1>12
<1> QED
  BY <1>3, <1>10, <1>13 DEF PodsOf, m, e

\* The last entries of two VMs that stay are what they are now, so what they share is reported.
LEMMA SteadyLemma == ScanIInv => SteadyReported
<1> SUFFICES ASSUME ScanIInv, pc = "done", NEW u \in VMs, NEW v \in VMs
             PROVE  LET ds   == placed[u] \cap placed[v]
                        pods == ({podOf[d] : d \in placed[u]} \cap {podOf[d] : d \in placed[v]})
                                \ {None}
                    IN /\ u # v /\ Grouped2(u, v) /\ Steady(u) /\ Steady(v)
                       /\ NameOf[u] # NameOf[v] /\ LastOfName(u) /\ LastOfName(v)
                       /\ \A d \in placed[u] \cup placed[v] : SteadyPod(d)
                       /\ ds \cup pods # {}
                       => \E x \in found.violations : /\ {x.a, x.b} = {NameOf[u], NameOf[v]}
                                                     /\ x.ds = ds /\ x.pods = pods
  BY Zenon DEF SteadyReported
<1> DEFINE ds   == placed[u] \cap placed[v]
           pods == ({podOf[d] : d \in placed[u]} \cap {podOf[d] : d \in placed[v]}) \ {None}
           m == NameOf[u]
           n == NameOf[v]
<1> SUFFICES ASSUME Grouped2(u, v), Steady(u), Steady(v), m # n, LastOfName(u), LastOfName(v),
                    \A d \in placed[u] \cup placed[v] : SteadyPod(d), ds \cup pods # {}
             PROVE  \E x \in found.violations : {x.a, x.b} = {m, n} /\ x.ds = ds /\ x.pods = pods
  OBVIOUS
<1>1. /\ Present(inv, m) /\ StoresOf(Entry(inv, m)) = placed[u]
      /\ PodsOf(Entry(inv, m), dsToPod) = {podOf[d] : d \in placed[u]} \ {None}
  BY SteadyEntry
<1>2. /\ Present(inv, n) /\ StoresOf(Entry(inv, n)) = placed[v]
      /\ PodsOf(Entry(inv, n), dsToPod) = {podOf[d] : d \in placed[v]} \ {None}
  BY SteadyEntry
<1>3. m # n /\ GroupOf[m] = GroupOf[n] /\ GroupOf[m] # None
  BY DEF Grouped2
<1>4. inv \in Seq(VMEntry) /\ found.violations = Violations(inv, dsToPod)
  BY FoundIs
<1>5. \A e, f : PodsOf(e, dsToPod) = {podOf[d] : d \in placed[u]} \ {None} /\
                 PodsOf(f, dsToPod) = {podOf[d] : d \in placed[v]} \ {None}
                 => PodsOf(e, dsToPod) \cap PodsOf(f, dsToPod) = pods
  OBVIOUS
<1> HIDE DEF m, n
\* Their entries are in one order or the other.
<1>6. Before(inv, m, n) \/ Before(inv, n, m)
  <2> DEFINE i == Min(Positions(inv, m))
             j == Min(Positions(inv, n))
  <2>1. /\ Positions(inv, m) \in SUBSET Nat /\ i \in Positions(inv, m)
        /\ Positions(inv, n) \in SUBSET Nat /\ j \in Positions(inv, n)
    BY <1>1, <1>2, <1>4, NamePlaces
  <2> HIDE DEF i, j
  <2>2. i \in Nat /\ j \in Nat /\ i # j
    BY <1>3, <2>1 DEF Positions
  <2>3. i < j \/ j < i
    BY <2>2
  <2> QED
    BY <2>3 DEF Before, i, j
<1>7. /\ ViolationOf(inv, dsToPod, m, n).ds = ds /\ ViolationOf(inv, dsToPod, m, n).pods = pods
      /\ ViolationOf(inv, dsToPod, n, m).ds = ds /\ ViolationOf(inv, dsToPod, n, m).pods = pods
  BY <1>1, <1>2, <1>5 DEF ViolationOf
<1> HIDE DEF pods, ds
<1>8. ds # {} \/ pods # {}
  OBVIOUS
<1>9. CASE Before(inv, m, n)
  <2>1. ViolationOf(inv, dsToPod, m, n) \in found.violations
    <3>1. ViolationOf(inv, dsToPod, m, n).ds # {} \/ ViolationOf(inv, dsToPod, m, n).pods # {}
      BY <1>7, <1>8
    <3> QED
      BY <1>1, <1>2, <1>3, <1>4, <1>9, <3>1, ViolationFound
  <2>2. ViolationOf(inv, dsToPod, m, n).a = m /\ ViolationOf(inv, dsToPod, m, n).b = n
    BY DEF ViolationOf
  <2> QED
    BY <1>7, <2>1, <2>2
<1>10. CASE Before(inv, n, m)
  <2>1. ViolationOf(inv, dsToPod, n, m) \in found.violations
    <3>1. ViolationOf(inv, dsToPod, n, m).ds # {} \/ ViolationOf(inv, dsToPod, n, m).pods # {}
      BY <1>7, <1>8
    <3> QED
      BY <1>1, <1>2, <1>3, <1>4, <1>10, <3>1, ViolationFound
  <2>2. ViolationOf(inv, dsToPod, n, m).a = n /\ ViolationOf(inv, dsToPod, n, m).b = m
    BY DEF ViolationOf
  <2> QED
    BY <1>7, <2>1, <2>2
<1> QED
  BY <1>6, <1>9, <1>10

\* The options are two or three pods, or datastores: fewer than that are shared.
LEMMA AdviceLemma == ScanIInv => AdviceSeparates
<1> SUFFICES ASSUME ScanIInv, NEW roomy \in SUBSET Datastores, NEW empty \in SUBSET Pods,
                    NEW pods, pods = empty \cup ({dsToPod[d] : d \in Datastores} \ {None}),
                    NEW q \in Proposals(found.violations, roomy, pods), q.feasible
             PROVE  /\ q.suggestion.kind = "pod" /\ Few(q.violation.pods, pods)
                        => q.suggestion.options \ q.violation.pods # {}
                    /\ q.suggestion.kind = "datastore" /\ q.violation.pods = {}
                          /\ Few(q.violation.ds, roomy)
                        => q.suggestion.options \ q.violation.ds # {}
  BY DEF AdviceSeparates
<1>1. /\ q.violation \in found.violations /\ q.suggestion = Suggest(q.violation, roomy, pods)
  BY DEF Proposals
<1> DEFINE x == q.violation
           o == q.suggestion
<1>2. IsFiniteSet(roomy) /\ IsFiniteSet(pods)
  <2>1. dsToPod \in [Datastores -> Pods \cup {None}]
    BY DEF ScanIInv, ScanTypes
  <2>2. pods \in SUBSET Pods
    BY <2>1
  <2> QED
    BY <2>2, StoresAssumption, FS_Subset
<1>3. x.ds \in SUBSET Datastores /\ x.pods \in SUBSET Pods
  <2>1. inv \in Seq(VMEntry) /\ x \in Violations(inv, dsToPod)
    BY <1>1, FoundIs
  <2>2. PICK m, n : Present(inv, m) /\ Present(inv, n) /\ x = ViolationOf(inv, dsToPod, m, n)
    BY <2>1, ViolationIs
  <2> DEFINE e == Entry(inv, m)
  <2>3. x.ds \subseteq StoresOf(e) /\ x.pods \subseteq PodsOf(e, dsToPod)
    BY <2>2 DEF ViolationOf
  <2>4. PICK w \in WithName(m) : ReadFrom(e, w)
    BY <2>2, EntryRead
  <2>5. e \in VMEntry /\ w \in VMs
    BY <2>1, <2>2, NamePlaces DEF WithName
  <2>6. StoresOf(e) \in SUBSET Datastores /\ \A p \in PodsOf(e, dsToPod) : p \in Pods
    BY <2>4, <2>5, EntryStores
  <2> QED
    BY <2>3, <2>6
<1>4. IsFiniteSet(x.ds) /\ IsFiniteSet(x.pods)
  BY <1>3, StoresAssumption, FS_Subset
<1> HIDE DEF x, o
<1>5. o.kind = "pod" => Cardinality(pods) >= 2 /\ o.options = FirstThree(pods)
  BY <1>1 DEF Suggest, o, x
<1>6. o.kind = "datastore" => Cardinality(roomy) >= 2 /\ o.options = FirstThree(roomy)
  BY <1>1 DEF Suggest, o, x
<1>7. o.kind = "pod" /\ Few(x.pods, pods) => o.options \ x.pods # {}
  BY <1>2, <1>4, <1>5, FewLeaveOne
<1>8. o.kind = "datastore" /\ Few(x.ds, roomy) => o.options \ x.ds # {}
  BY <1>2, <1>4, <1>6, FewLeaveOne
<1> QED
  BY <1>7, <1>8 DEF o, x

\* A rule takes its VMs from different entries of its cluster.
LEMMA RuleFrom ==
  ASSUME NEW es \in Seq(VMEntry), NEW x \in Rules(es)
  PROVE  /\ DOMAIN x.vms = 1..Len(x.vms) /\ Len(x.vms) \in Nat
         /\ \E r : /\ \A i \in DOMAIN x.vms : /\ r[i] \in DOMAIN es /\ es[r[i]].name = x.vms[i]
                                              /\ es[r[i]].cluster = x.cluster
                   /\ \A i, j \in DOMAIN x.vms : r[i] = r[j] => i = j
<1>1. PICK c \in DOMAIN Layout, k \in {RuleGroupOf[m] : m \in Names} \ {None} :
        x \in RulesOf(es, c, k)
  BY DEF Rules
<1> DEFINE P == RulePositions(es, c, k)
           s == InOrder(P)
           g == RuleMembers(es, c, k)
           m == RuleSizeOf(Len(Layout[c]))
<1>2. PICK b \in RuleBatches(g, Len(Layout[c])) : x = [cluster |-> c, vms |-> Batch(g, m, b)]
  BY <1>1 DEF RulesOf
<1>3. DOMAIN es = 1..Len(es) /\ Len(es) \in Nat /\ \A i \in DOMAIN es : es[i].name \in Names
  <2>1. \A i \in DOMAIN es : es[i] \in VMEntry
    OBVIOUS
  <2> QED
    BY <2>1 DEF VMEntry
<1>4. P \in SUBSET (1..Len(es)) /\ \A i \in P : i \in DOMAIN es /\ es[i].cluster = c
  BY <1>3 DEF RulePositions
<1> HIDE DEF P
<1>5. s \in Seq(P) /\ \A i, j \in 1..Len(s) : s[i] = s[j] => i = j
  BY <1>3, <1>4, InOrderLists
<1> HIDE DEF s
<1>6. g = [i \in DOMAIN s |-> es[s[i]].name]
  BY DEF RuleMembers, s, P
<1>7. DOMAIN s = 1..Len(s) /\ Len(s) \in Nat /\ \A i \in DOMAIN s : s[i] \in P
  BY <1>5
<1> HIDE DEF g
<1>8. g \in Seq(Names) /\ Len(g) = Len(s)
  <2>1. \A i \in 1..Len(s) : g[i] \in Names
    BY <1>3, <1>4, <1>6, <1>7
  <2>2. g = [i \in 1..Len(s) |-> g[i]]
    BY <1>6, <1>7
  <2>3. g \in Seq(Names)
    BY <1>7, <2>1, <2>2, IsASeq
  <2> QED
    BY <1>7, <2>2, <2>3
<1>9. m \in Nat \ {0} /\ b \in 1..NBatches(g, m)
  <2>1. Len(Layout[c]) \in Nat
    BY LayoutFacts
  <2> QED
    BY <2>1, Sizes DEF RuleBatches
<1> HIDE DEF m
<1>10. /\ x.vms \in Seq(Names) /\ x.cluster = c
       /\ \A i \in 1..Len(x.vms) : (b - 1) * m + i \in 1..Len(g) /\ x.vms[i] = g[(b - 1) * m + i]
  BY <1>2, <1>8, <1>9, BatchSlice
<1>11. DOMAIN x.vms = 1..Len(x.vms) /\ Len(x.vms) \in Nat
  BY <1>10
<1> DEFINE from == (b - 1) * m
           r == [i \in DOMAIN x.vms |-> s[from + i]]
<1>12. from \in Int
  <2>1. b \in Nat
    BY <1>9
  <2> QED
    BY <1>9, <2>1
<1>13. \A i \in DOMAIN x.vms : from + i \in DOMAIN s /\ x.vms[i] = g[from + i]
  BY <1>7, <1>8, <1>10, <1>11
<1> HIDE DEF from
<1>14. ASSUME NEW i \in DOMAIN x.vms
       PROVE  /\ r[i] \in DOMAIN es /\ es[r[i]].name = x.vms[i] /\ es[r[i]].cluster = x.cluster
  BY <1>4, <1>6, <1>7, <1>10, <1>13
<1>15. ASSUME NEW i \in DOMAIN x.vms, NEW j \in DOMAIN x.vms, r[i] = r[j] PROVE i = j
  <2>1. from + i = from + j
    BY <1>5, <1>7, <1>13, <1>15
  <2> QED
    BY <1>11, <1>12, <2>1
<1> QED
  BY <1>11, <1>14, <1>15

\* Who stays and has his name alone has one entry, and so one place in the rules of one cluster.
LEMMA ListedLemma == ScanIInv => ListedOnce
<1> SUFFICES ASSUME ScanIInv, NEW v \in VMs, WithName(NameOf[v]) = {v}, moves[v] = 0
             PROVE  /\ Listings(v) <= 1
                    /\ pc = "done" => Listings(v) = 1
                    /\ \A x \in found.rules :
                         LET ps == {i \in DOMAIN x.vms : x.vms[i] = NameOf[v]}
                         IN Cardinality(ps) <= 1 /\ (ps # {} => host[v] \in HostsOf(x.cluster))
  BY DEF ListedOnce
<1> DEFINE A == {i \in DOMAIN inv : inv[i].name = NameOf[v]}
           B == {i \in DOMAIN listed : listed[i] = v}
<1>1. /\ \A i, j \in DOMAIN inv : inv[i].name = NameOf[v] /\ inv[j].name = NameOf[v] => i = j
      /\ \A i, j \in A : i = j
      /\ \A i, j \in B : i = j
      /\ \A i \in A, j \in B : FALSE
  BY DEF ScanIInv, NoneTwice, Alone
<1>2. inv \in Seq(VMEntry) /\ listed \in Seq(VMs)
  BY DEF ScanIInv, ScanTypes
<1>3. IsFiniteSet(A) /\ Cardinality(A) \in Nat /\ IsFiniteSet(B) /\ Cardinality(B) \in Nat
  BY <1>2, FinitePlaces
<1>4. Cardinality(A) <= 1 /\ Cardinality(B) <= 1
  BY <1>1, <1>3, OneElement
<1>5. (A = {} => Cardinality(A) = 0) /\ (B = {} => Cardinality(B) = 0)
  BY FS_EmptySet
<1>6. A = {} \/ B = {}
  BY <1>1
<1>7. Listings(v) = Cardinality(A) + Cardinality(B)
  BY DEF Listings
<1> HIDE DEF A, B
<1>8. Listings(v) <= 1
  BY <1>3, <1>4, <1>5, <1>6, <1>7
<1>9. ASSUME pc = "done" PROVE Listings(v) = 1
  <2>1. placed[v] # {}
    <3>1. v \in WithName(NameOf[v])
      OBVIOUS
    <3> QED
      BY <3>1 DEF WithName
  <2>2. PICK i \in DOMAIN inv : ReadFrom(inv[i], v)
    BY <1>9, <2>1, SteadySeen
  <2>3. A # {}
    BY <2>2 DEF A, ReadFrom
  <2>4. Cardinality(A) # 0
    BY <1>3, <2>3, FS_EmptySet
  <2> QED
    BY <1>3, <1>4, <1>5, <1>6, <1>7, <2>3, <2>4
<1>10. ASSUME NEW x \in found.rules
       PROVE  LET ps == {i \in DOMAIN x.vms : x.vms[i] = NameOf[v]}
              IN Cardinality(ps) <= 1 /\ (ps # {} => host[v] \in HostsOf(x.cluster))
  <2> DEFINE ps == {i \in DOMAIN x.vms : x.vms[i] = NameOf[v]}
  <2>1. x \in Rules(inv)
    BY FoundIs
  <2>2. /\ DOMAIN x.vms = 1..Len(x.vms) /\ Len(x.vms) \in Nat
        /\ \E r : /\ \A i \in DOMAIN x.vms : /\ r[i] \in DOMAIN inv /\ inv[r[i]].name = x.vms[i]
                                             /\ inv[r[i]].cluster = x.cluster
                  /\ \A i, j \in DOMAIN x.vms : r[i] = r[j] => i = j
    BY <1>2, <2>1, RuleFrom
  <2>3. PICK r : /\ \A i \in DOMAIN x.vms : /\ r[i] \in DOMAIN inv /\ inv[r[i]].name = x.vms[i]
                                            /\ inv[r[i]].cluster = x.cluster
                 /\ \A i, j \in DOMAIN x.vms : r[i] = r[j] => i = j
    BY <2>2
  <2>4. \A i, j \in ps : i = j
    BY <1>1, <2>3
  <2>5. Cardinality(ps) <= 1
    <3>1. IsFiniteSet(1..Len(x.vms))
      BY <2>2, FS_Interval
    <3>2. IsFiniteSet(ps)
      BY <2>2, <3>1, FS_Subset
    <3> QED
      BY <2>4, <3>2, OneElement
  <2>6. ASSUME NEW i \in ps PROVE host[v] \in HostsOf(x.cluster)
    <3>1. r[i] \in DOMAIN inv /\ inv[r[i]].name = NameOf[v] /\ inv[r[i]].cluster = x.cluster
      BY <2>3
    <3>2. PICK w \in VMs : ReadFrom(inv[r[i]], w)
      BY <3>1 DEF ScanIInv, Entries
    <3>3. w \in WithName(NameOf[v])
      BY <3>1, <3>2 DEF ReadFrom, WithName
    <3> QED
      BY <3>1, <3>2, <3>3 DEF ReadFrom
  <2> QED
    BY <2>5, <2>6
<1> QED
  BY <1>8, <1>9, <1>10

\* A VM that does not move is listed once, and a rule names it once, in its
\* cluster: get_full_inventory lists every host once, one after the other.
THEOREM ScanListedOnce == ScanSpec => []ListedOnce
  BY ScanInvariance, ListedLemma, PTL

\* What a violation says two VMs share, each had at some time of the collection.
THEOREM ScanSharedWasShared == ScanSpec => []SharedWasShared
  BY ScanInvariance, SharedLemma, PTL

\* What two VMs of a group share throughout is reported, with all they share.
THEOREM ScanSteadyReported == ScanSpec => []SteadyReported
  BY ScanInvariance, SteadyLemma, PTL

\* No VM violates with itself and no pair is reported twice.
THEOREM ScanPairsOnce == ScanSpec => []PairsOnce
  BY ScanInvariance, PairsOnceLemma, PTL

\* A VM is reported as scattered if it was throughout, and only if it was once.
THEOREM ScanScatteredTrue == ScanSpec => []ScatteredTrue
  BY ScanInvariance, ScatteredLemma, PTL

\* The place a feasible proposal offers is not always the one they share.
THEOREM ScanAdviceSeparates == ScanSpec => []AdviceSeparates
  BY ScanInvariance, AdviceLemma, PTL
-----------------------------------------------------------------------------
(* What the loops of DrsRules make is what StorageScan has as one expression *)

\* A rising sequence that lists what another does is ahead of it nowhere.
LEMMA InStep ==
  ASSUME NEW S \in SUBSET Nat, NEW s \in Seq(S), NEW t \in Seq(S),
         Rising(s, Len(s)), Rising(t, Len(t)),
         \A x \in S : \E i \in 1..Len(s) : s[i] = x,
         \A x \in S : \E i \in 1..Len(t) : t[i] = x
  PROVE  \A i \in 1..Len(s) : i \in 1..Len(t) /\ t[i] = s[i]
<1> DEFINE Off == {i \in 1..Len(s) : ~(i \in 1..Len(t) /\ t[i] = s[i])}
<1>1. Len(s) \in Nat /\ Len(t) \in Nat
  BY LenProperties
<1>2. /\ \A i \in 1..Len(s) : s[i] \in S /\ s[i] \in Nat
      /\ \A i \in 1..Len(t) : t[i] \in S /\ t[i] \in Nat
  BY ElementOfSeq
<1>3. SUFFICES ASSUME Off # {} PROVE FALSE
  OBVIOUS
<1>4. PICK b \in Off : \A j \in Off : b <= j
  <2>1. Off \in SUBSET Nat
    BY <1>1
  <2> HIDE DEF Off
  <2> QED
    BY <1>3, <2>1, Least
<1>5. b \in Nat /\ b \in 1..Len(s) /\ ~(b \in 1..Len(t) /\ t[b] = s[b])
  BY <1>1, <1>4
<1>6. \A j \in 1..Len(s) : j < b => j \in 1..Len(t) /\ t[j] = s[j]
  BY <1>1, <1>4, <1>5
<1> HIDE DEF Off
<1>7. PICK j \in 1..Len(t) : t[j] = s[b]
  BY <1>2, <1>5
<1>8. ~(j < b)
  <2> SUFFICES ASSUME j < b PROVE FALSE
    OBVIOUS
  <2>1. j \in 1..Len(s) /\ t[j] = s[j] /\ s[j] < s[b]
    BY <1>1, <1>5, <1>6, <1>7 DEF Rising
  <2> QED
    BY <1>2, <1>5, <1>7, <2>1
<1>9. b \in 1..Len(t) /\ t[b] <= s[b]
  <2>1. b \in 1..Len(t) /\ (b = j \/ b < j)
    BY <1>1, <1>5, <1>8
  <2>2. b < j => t[b] < t[j]
    BY <1>7, <2>1 DEF Rising
  <2> QED
    BY <1>2, <1>7, <2>1, <2>2
<1>10. PICK l \in 1..Len(s) : s[l] = t[b]
  BY <1>2, <1>9
<1>11. ~(l < b)
  <2> SUFFICES ASSUME l < b PROVE FALSE
    OBVIOUS
  <2>1. l \in 1..Len(t) /\ t[l] = s[l] /\ t[l] < t[b]
    BY <1>6, <1>9, <1>10 DEF Rising
  <2> QED
    BY <1>2, <1>9, <1>10, <2>1
<1>12. s[b] <= t[b]
  <2>1. b = l \/ b < l
    BY <1>1, <1>5, <1>11
  <2>2. b < l => s[b] < s[l]
    BY <1>5, <1>10 DEF Rising
  <2> QED
    BY <1>2, <1>5, <1>10, <2>1, <2>2
<1> QED
  BY <1>2, <1>5, <1>9, <1>12

\* A set of positions has one rising list.
LEMMA OneOrder ==
  ASSUME NEW m \in Nat, NEW S \in SUBSET (1..m), NEW s \in Seq(S), Rising(s, Len(s)),
         \A x \in S : \E i \in 1..Len(s) : s[i] = x
  PROVE  s = InOrder(S)
<1> DEFINE t == InOrder(S)
<1>1. S \in SUBSET Nat
  OBVIOUS
<1>2. t \in Seq(S) /\ Rising(t, Len(t)) /\ \A x \in S : \E i \in 1..Len(t) : t[i] = x
  BY InOrderLists
<1> HIDE DEF t
<1>3. \A i \in 1..Len(s) : i \in 1..Len(t) /\ t[i] = s[i]
  BY <1>1, <1>2, InStep
<1>4. \A i \in 1..Len(t) : i \in 1..Len(s) /\ s[i] = t[i]
  BY <1>1, <1>2, InStep
<1>5. Len(s) \in Nat /\ Len(t) \in Nat
  BY <1>2, LenProperties
<1>6. Len(s) = Len(t)
  BY <1>3, <1>4, <1>5
<1> QED
  BY <1>2, <1>3, <1>6, SeqEqual DEF t

\* The VMs of a key, and the rules StorageScan has for them, in positions.
KeyedVMs(k) == {vm \in 1..Len(hits) : KeyOf(vm) = k}
Batches(g)  == {Batch(g, RuleSizeOf(hosts), b) : b \in RuleBatches(g, hosts)}
Expected(k) == Batches(InOrder(KeyedVMs(k)))
RuledOf(k)  == {x.vms : x \in {y \in rules : y.key = k}}

\* The grouping and batching loops, turn by turn over a dictionary of lists, end
\* with the batches of the VMs of each key in the order of the inventory, which
\* are what RulesOf of StorageScan has in one expression.
RulesAsExpected == Done => \A k \in Keys : RuledOf(k) = Expected(k)

\* Groups are in the order of the inventory; a key without a group has its rules.
Making ==
  /\ \A j \in DOMAIN groups : Rising(groups[j].vms, Len(groups[j].vms))
  /\ \A x \in rules : x.vms \in Expected(x.key)
  /\ phase = "split" => \A k \in Keys :
       (\A j \in DOMAIN groups : groups[j].key # k) => Expected(k) \subseteq RuledOf(k)

\* A group of one makes no rule, nor does any on one host.
LEMMA NoBatches ==
  ASSUME NEW g \in Seq(Nat), NEW n \in Nat, Len(g) <= 1 \/ n < 2
  PROVE  RuleBatches(g, n) = {}
<1> DEFINE m == RuleSizeOf(n)
<1> SUFFICES ASSUME NEW b \in RuleBatches(g, n) PROVE FALSE
  OBVIOUS
<1>1. m \in Nat \ {0} /\ Len(g) \in Nat
  BY Sizes, LenProperties
<1>2. b \in 1..NBatches(g, m) /\ n >= 2 /\ Len(Batch(g, m, b)) >= 2
  BY DEF RuleBatches
<1> HIDE DEF m
<1>3. /\ Len(Batch(g, m, b)) \in 1..m
      /\ \A i \in 1..Len(Batch(g, m, b)) : (b - 1) * m + i \in 1..Len(g)
  BY <1>1, <1>2, BatchSlice
<1>4. (b - 1) * m + 1 \in 1..Len(g) /\ (b - 1) * m + 2 \in 1..Len(g)
  BY <1>1, <1>2, <1>3
<1>5. (b - 1) * m \in Int
  <2>1. NBatches(g, m) \in Nat
    BY <1>1, Quotient DEF NBatches
  <2> QED
    BY <1>1, <1>2, <2>1, Row
<1> QED
  BY <1>1, <1>2, <1>4, <1>5

\* A group being split has all VMs of its key, in their order.
LEMMA WholeGroup ==
  ASSUME IInv, Making, phase = "split", NEW j \in DOMAIN groups
  PROVE  groups[j].vms = InOrder(KeyedVMs(groups[j].key)) /\ groups[j].vms \in Seq(Nat)
<1> DEFINE g == groups[j].vms
           k == groups[j].key
           S == KeyedVMs(k)
<1>1. /\ Len(hits) \in Nat /\ next = Len(hits) + 1 /\ k \in Keys /\ g \in Seq(Nat)
  <2>1. groups \in Seq(Group) /\ next = Len(hits) + 1 /\ Inventory
    BY DEF IInv, Types
  <2>2. groups[j] \in Group
    BY <2>1
  <2> QED
    BY <2>1, <2>2 DEF Group, Inventory
<1>2. k # NoKey
  BY <1>1, KeysAssumption
<1>3. Len(g) \in Nat /\ DOMAIN g = 1..Len(g)
  BY <1>1, LenProperties
<1>4. ASSUME NEW i \in 1..Len(g) PROVE g[i] \in S
  <2>1. At(g[i], j, i)
    BY <1>3 DEF At
  <2>2. g[i] \in 1..(next - 1) /\ KeyOf(g[i]) = k
    BY <2>1 DEF IInv, Keyed
  <2> QED
    BY <1>1, <2>2 DEF KeyedVMs
<1>5. ASSUME NEW vm \in S PROVE \E i \in 1..Len(g) : g[i] = vm
  <2>1. vm \in 1..(next - 1) /\ KeyOf(vm) = k
    BY <1>1 DEF KeyedVMs
  <2>2. (\E l, i : At(vm, l, i)) \/ (\E x, i : On(vm, x, i))
    BY <1>2, <2>1 DEF IInv, Somewhere
  <2>3. ASSUME NEW x, NEW i, On(vm, x, i) PROVE FALSE
    BY <2>1, <2>3 DEF IInv, KeysOnce
  <2>4. PICK l, i : At(vm, l, i)
    BY <2>2, <2>3
  <2>5. l \in DOMAIN groups /\ groups[l].key = k
    BY <2>1, <2>4 DEF IInv, Keyed, At
  <2>6. l = j
    BY <2>5 DEF IInv, KeysOnce
  <2> QED
    BY <1>3, <2>4, <2>6 DEF At
<1>6. S \in SUBSET (1..Len(hits)) /\ Rising(g, Len(g))
  BY DEF KeyedVMs, Making
<1> HIDE DEF g, S
<1>7. g \in Seq(S)
  <2>1. g = [i \in 1..Len(g) |-> g[i]]
    BY <1>1
  <2>2. g \in [1..Len(g) -> S]
    BY <1>4, <2>1
  <2> QED
    BY <1>3, <2>2
<1>8. g = InOrder(S)
  BY <1>1, <1>5, <1>6, <1>7, OneOrder
<1> QED
  BY <1>1, <1>8 DEF g, S

\* What is expected does not change.
LEMMA SameExpected ==
  ASSUME UNCHANGED <<hosts, hits>>
  PROVE  \A k : KeyedVMs(k)' = KeyedVMs(k) /\ Expected(k)' = Expected(k)
<1>1. \A k : KeyedVMs(k)' = KeyedVMs(k)
  BY DEF KeyedVMs, KeyOf
<1> QED
  BY <1>1 DEF Expected, Batches

\* A VM joins a group behind all before it.
LEMMA MakingGroup == IInv /\ Making /\ GroupVM => Making'
<1> SUFFICES ASSUME IInv, Making, GroupVM PROVE Making'
  OBVIOUS
<1> DEFINE k  == GroupKey(hits[next])
           same == {i \in DOMAIN groups : groups[i].key = k}
<1>1. /\ phase' = "group" /\ phase = "group" /\ rules' = rules
      /\ groups' = IF k = NoKey THEN groups
                   ELSE IF same = {} THEN Append(groups, [key |-> k, vms |-> <<next>>])
                   ELSE [i \in DOMAIN groups |->
                           IF i \in same THEN [groups[i] EXCEPT !.vms = Append(@, next)]
                                       ELSE groups[i]]
  BY DEF GroupVM
<1>2. rules = {} /\ groups \in Seq(Group) /\ next \in Nat
  BY <1>1 DEF IInv, Types, Inventory
<1>3. \A j \in DOMAIN groups : Rising(groups[j].vms, Len(groups[j].vms)) /\ groups[j].vms \in Seq(Nat)
  <2>1. \A j \in DOMAIN groups : groups[j] \in Group
    BY <1>2
  <2> QED
    BY <2>1 DEF Making, Group
<1> HIDE DEF k
<1>4. ASSUME NEW j \in DOMAIN groups'
      PROVE  Rising(groups'[j].vms, Len(groups'[j].vms))
  <2>1. CASE k = NoKey
    BY <1>1, <1>3, <1>4, <2>1
  <2>2. CASE k # NoKey /\ same = {}
    <3> DEFINE e == [key |-> k, vms |-> <<next>>]
    <3>1. groups' = Append(groups, e)
      BY <1>1, <2>2
    <3>2. CASE j \in DOMAIN groups
      <4>1. groups'[j] = groups[j]
        BY <1>2, <3>1, <3>2
      <4> QED
        BY <1>3, <3>2, <4>1
    <3>3. CASE j \notin DOMAIN groups
      <4>1. groups'[j] = e
        BY <1>2, <1>4, <3>1, <3>3
      <4>2. Len(groups'[j].vms) = 1
        BY <4>1
      <4> QED
        BY <4>2 DEF Rising
    <3> QED
      BY <3>2, <3>3
  <2>3. CASE k # NoKey /\ same # {}
    <3>1. groups' = [i \in DOMAIN groups |->
                       IF i \in same THEN [groups[i] EXCEPT !.vms = Append(@, next)]
                                   ELSE groups[i]]
      BY <1>1, <2>3
    <3>2. j \in DOMAIN groups
      BY <1>4, <3>1
    <3> DEFINE s == groups[j].vms
    <3>3. s \in Seq(Nat) /\ Len(s) \in Nat /\ DOMAIN s = 1..Len(s) /\ Rising(s, Len(s))
      BY <1>3, <3>2, LenProperties
    <3>4. groups'[j].vms = s \/ groups'[j].vms = Append(s, next)
      <4>1. groups[j] \in Group
        BY <1>2, <3>2
      <4> QED
        BY <3>1, <3>2, <4>1 DEF Group
    <3>5. \A i \in 1..Len(s) : s[i] < next
      <4>1. \A i \in 1..Len(s) : At(s[i], j, i)
        BY <3>2, <3>3 DEF At
      <4>2. \A i \in 1..Len(s) : s[i] \in 1..(next - 1)
        BY <4>1 DEF IInv, Keyed
      <4> QED
        BY <1>2, <4>2
    <3> HIDE DEF s
    <3>6. /\ Len(Append(s, next)) = Len(s) + 1 /\ Append(s, next)[Len(s) + 1] = next
          /\ \A i \in 1..Len(s) : Append(s, next)[i] = s[i]
      BY <1>2, <3>3, AppendProperties
    <3>7. Rising(Append(s, next), Len(Append(s, next)))
      BY <3>3, <3>5, <3>6 DEF Rising
    <3> QED
      BY <3>3, <3>4, <3>7 DEF s
  <2> QED
    BY <2>1, <2>2, <2>3
<1> QED
  BY <1>1, <1>2, <1>4 DEF Making

\* When all are grouped, a key without a group has no VMs and expects no rules.
LEMMA MakingStale == IInv /\ Making /\ FindStale => Making'
<1> SUFFICES ASSUME IInv, Making, FindStale PROVE Making'
  OBVIOUS
<1>1. /\ phase = "group" /\ next > Len(hits) /\ UNCHANGED <<hosts, hits, groups, rules>>
  BY DEF FindStale
<1>2. /\ rules = {} /\ skips = {} /\ Len(hits) \in Nat /\ next = Len(hits) + 1 /\ hosts \in Nat
  BY <1>1 DEF IInv, Types, Inventory
<1>3. ASSUME NEW k \in Keys, \A j \in DOMAIN groups : groups[j].key # k
      PROVE  Expected(k) = {}
  <2>1. ASSUME NEW vm \in KeyedVMs(k) PROVE FALSE
    <3>1. vm \in 1..(next - 1) /\ KeyOf(vm) = k /\ k # NoKey
      BY <1>2, KeysAssumption DEF KeyedVMs
    <3>2. PICK j, i : At(vm, j, i)
      BY <1>2, <3>1 DEF IInv, Somewhere, On
    <3>3. j \in DOMAIN groups /\ groups[j].key = k
      BY <3>1, <3>2 DEF IInv, Keyed, At
    <3> QED
      BY <1>3, <3>3
  <2>2. KeyedVMs(k) = {}
    BY <2>1
  <2> DEFINE t == InOrder({})
  <2>3. t \in Seq({})
    BY InOrderLists
  <2> HIDE DEF t
  <2>4. Len(t) = 0 /\ t \in Seq(Nat)
    <3>1. Len(t) \in Nat /\ \A i \in 1..Len(t) : t[i] \in {}
      BY <2>3, LenProperties, ElementOfSeq
    <3>2. Len(t) = 0
      <4>1. Len(t) # 0 => 1 \in 1..Len(t)
        BY <3>1
      <4> QED
        BY <3>1, <4>1
    <3>3. t \in Seq(Nat)
      BY <2>3, SeqMonotonic
    <3> QED
      BY <3>2, <3>3
  <2>5. RuleBatches(t, hosts) = {}
    <3>1. Len(t) <= 1
      BY <2>4
    <3> QED
      BY <1>2, <2>4, <3>1, NoBatches
  <2> QED
    BY <2>2, <2>5 DEF Expected, Batches, t
<1>4. \A k : Expected(k)' = Expected(k)
  BY <1>1, SameExpected
<1>5. \A j \in DOMAIN groups' : Rising(groups'[j].vms, Len(groups'[j].vms))
  BY <1>1 DEF Making
<1>6. \A k \in Keys : (\A j \in DOMAIN groups' : groups'[j].key # k) => Expected(k)' = {}
  BY <1>1, <1>3, <1>4
<1>7. rules' = {}
  BY <1>1, <1>2
<1> QED
  BY <1>5, <1>6, <1>7 DEF Making

\* The first group leaves with exactly its batches.
LEMMA MakingHead ==
  ASSUME IInv, Making, phase = "split", groups # <<>>, groups' = Tail(groups),
         UNCHANGED <<hosts, hits, phase>>,
         NEW R, rules' = rules \cup R, \A x \in R : x.key = Head(groups).key,
         {x.vms : x \in R} = Batches(Head(groups).vms)
  PROVE  Making'
<1> DEFINE g == Head(groups)
<1>1. /\ groups \in Seq(Group) /\ Len(groups) \in Nat /\ 1 \in DOMAIN groups
      /\ g = groups[1] /\ DOMAIN groups = 1..Len(groups)
  BY DEF IInv, Types
<1>2. /\ DOMAIN groups' = 1..(Len(groups) - 1)
      /\ \A j \in DOMAIN groups' : j + 1 \in DOMAIN groups /\ groups'[j] = groups[j + 1]
  <2>1. /\ Tail(groups) \in Seq(Group) /\ Len(Tail(groups)) = Len(groups) - 1
        /\ \A j \in 1..(Len(groups) - 1) : Tail(groups)[j] = groups[j + 1]
    BY <1>1, HeadTailProperties
  <2>2. DOMAIN groups' = 1..(Len(groups) - 1)
    BY <2>1
  <2> QED
    BY <1>1, <2>1, <2>2
<1>3. g.vms = InOrder(KeyedVMs(g.key))
  BY <1>1, WholeGroup
<1> HIDE DEF g
<1>4. {x.vms : x \in R} = Expected(g.key) /\ \A x \in R : x.key = g.key
  BY <1>3 DEF Expected, g
<1>5. \A k : Expected(k)' = Expected(k)
  BY SameExpected
<1>6. \A j \in DOMAIN groups' : Rising(groups'[j].vms, Len(groups'[j].vms))
  BY <1>2 DEF Making
<1>7. \A x \in rules' : x.vms \in Expected(x.key)
  <2>1. \A x \in R : x.vms \in Expected(g.key)
    BY <1>4
  <2> QED
    BY <1>4, <2>1 DEF Making
<1>8. ASSUME NEW k \in Keys, \A j \in DOMAIN groups' : groups'[j].key # k
      PROVE  Expected(k) \subseteq RuledOf(k)'
  <2>1. CASE k = g.key
    <3>1. \A v \in Expected(k) : \E x \in R : x.vms = v /\ x.key = k
      BY <1>4, <2>1
    <3> QED
      BY <3>1 DEF RuledOf
  <2>2. CASE k # g.key
    <3>1. ASSUME NEW j \in DOMAIN groups PROVE groups[j].key # k
      <4>1. CASE j = 1
        BY <1>1, <2>2, <4>1
      <4>2. CASE j # 1
        <5>1. j - 1 \in DOMAIN groups' /\ (j - 1) + 1 = j
          BY <1>1, <1>2, <4>2
        <5> QED
          BY <1>2, <1>8, <5>1
      <4> QED
        BY <4>1, <4>2
    <3>2. Expected(k) \subseteq RuledOf(k)
      BY <3>1 DEF Making
    <3> QED
      BY <3>2 DEF RuledOf
  <2> QED
    BY <2>1, <2>2
<1> QED
  BY <1>5, <1>6, <1>7, <1>8 DEF Making

\* A group is skipped for one of the reasons it has no batches, or split.
LEMMA MakingSplit == IInv /\ Making /\ (SkipSingle \/ SkipHosts \/ SplitGroup) => Making'
<1> SUFFICES ASSUME IInv, Making, SkipSingle \/ SkipHosts \/ SplitGroup PROVE Making'
  OBVIOUS
<1> DEFINE g == Head(groups)
<1>1. /\ phase = "split" /\ groups # <<>> /\ groups' = Tail(groups)
      /\ UNCHANGED <<hosts, hits, phase>>
  BY DEF SkipSingle, SkipHosts, SplitGroup
<1>2. g.vms \in Seq(Nat) /\ hosts \in Nat
  <2>1. groups \in Seq(Group) /\ groups # <<>> /\ hosts \in Nat
    BY <1>1 DEF IInv, Types
  <2>2. g \in Group
    BY <2>1, HeadTailProperties
  <2> QED
    BY <2>1, <2>2 DEF Group
<1>3. CASE SkipSingle \/ SkipHosts
  <2>1. rules' = rules \cup {} /\ (Len(g.vms) = 1 \/ hosts < 2)
    BY <1>3 DEF SkipSingle, SkipHosts
  <2>2. RuleBatches(g.vms, hosts) = {}
    BY <1>2, <2>1, NoBatches
  <2>3. {x.vms : x \in {}} = Batches(g.vms)
    BY <2>2 DEF Batches
  <2> QED
    BY <1>1, <2>1, <2>3, MakingHead
<1>4. CASE SplitGroup
  <2> DEFINE m == RuleSizeOf(hosts)
             n == NBatches(g.vms, m)
             R == {[name |-> RuleName(g.key, b, n), key |-> g.key, vms |-> Batch(g.vms, m, b)]
                   : b \in RuleBatches(g.vms, hosts)}
  <2>1. rules' = rules \cup R
    BY <1>4 DEF SplitGroup
  <2>2. \A x \in R : x.key = g.key
    OBVIOUS
  <2>3. {x.vms : x \in R} = Batches(g.vms)
    <3>1. ASSUME NEW b \in RuleBatches(g.vms, hosts)
          PROVE  \E x \in R : x.vms = Batch(g.vms, m, b)
      <4> DEFINE x == [name |-> RuleName(g.key, b, n), key |-> g.key, vms |-> Batch(g.vms, m, b)]
      <4>1. x \in R /\ x.vms = Batch(g.vms, m, b)
        OBVIOUS
      <4> QED
        BY <4>1
    <3>2. ASSUME NEW x \in R
          PROVE  \E b \in RuleBatches(g.vms, hosts) : x.vms = Batch(g.vms, m, b)
      OBVIOUS
    <3> HIDE DEF R
    <3> QED
      BY <3>1, <3>2 DEF Batches
  <2> HIDE DEF R
  <2> QED
    BY <1>1, <2>1, <2>2, <2>3, MakingHead
<1> QED
  BY <1>3, <1>4

\* The rules made from the inventory turn by turn are the batches of each key.
THEOREM RulesMade == Spec => []RulesAsExpected
<1>1. Init => Making
  BY DEF Init, Making
<1>2. IInv /\ Making /\ [Next]_vars => Making'
  <2>1. ASSUME Making, UNCHANGED vars PROVE Making'
    <3>1. UNCHANGED <<hosts, hits, phase, groups, rules>>
      BY <2>1 DEF vars
    <3>2. \A k : Expected(k)' = Expected(k)
      BY <3>1, SameExpected
    <3>3. \A k : RuledOf(k)' = RuledOf(k)
      BY <3>1 DEF RuledOf
    <3> QED
      BY <2>1, <3>1, <3>2, <3>3 DEF Making
  <2> QED
    BY <2>1, MakingGroup, MakingStale, MakingSplit DEF Next
<1>3. Making => RulesAsExpected
  <2> SUFFICES ASSUME Making, Done, NEW k \in Keys PROVE RuledOf(k) = Expected(k)
    BY DEF RulesAsExpected
  <2>1. Expected(k) \subseteq RuledOf(k)
    BY DEF Making, Done
  <2>2. RuledOf(k) \subseteq Expected(k)
    BY DEF Making, RuledOf
  <2> QED
    BY <2>1, <2>2
<1> QED
  BY <1>1, <1>2, <1>3, Invariance, PTL DEF Spec
=============================================================================
