--------------------------- MODULE PipelineProofs ---------------------------
(***************************************************************************)
(* The safety of CTriggerSorter for every range of trigger numbers, every  *)
(* set of events and every order of arrival; and what both kinds of run    *)
(* owe to the farmer and the outputter: the streams of the workers arrive  *)
(* in pairs, and the outputter writes what the sorter emits, in that       *)
(* order.                                                                  *)
(***************************************************************************)
EXTENDS Pipeline, FiniteSetTheorems, TLAPS

(***************************************************************************)
(* The inductive invariant.  Before the flush it says exactly which item   *)
(* is at which place: the k-th one emitted has trigger k-1, and whatever   *)
(* waits is beyond the next trigger.  Ascending and NothingLost follow     *)
(* from it, but are not inductive: they do not bound the waiting triggers. *)
(***************************************************************************)
Running ==
    ~ flushed =>
      /\ m_lastEmittedTrigger = IF Len(emitted) = 0 THEN MaxTrigger ELSE Len(emitted) - 1
      /\ \A i \in DOMAIN emitted : emitted[i].trigger = i - 1
      /\ \A t \in DOMAIN m_items : t > Len(emitted)
      /\ \A t \in Triggers : t \in DOMAIN given <=> t < Len(emitted) \/ t \in DOMAIN m_items

Faithful ==
    /\ \A i \in DOMAIN emitted : /\ emitted[i].trigger \in DOMAIN given
                                 /\ emitted[i].event = given[emitted[i].trigger]
    /\ \A t \in DOMAIN m_items : t \in DOMAIN given /\ m_items[t] = given[t]

Flushed ==
    flushed => /\ DOMAIN m_items = {}
               /\ DOMAIN given \subseteq EmittedTriggers

SorterInv ==
    /\ SorterTypeOK
    /\ Running
    /\ Faithful
    /\ Ascending
    /\ Flushed
-----------------------------------------------------------------------------
(***************************************************************************)
(* What the helpers on the map return.                                     *)
(***************************************************************************)
LEMMA HoldingType ==
    ASSUME NEW items \in Holdings, NEW item \in Item
    PROVE  /\ Holding(items, item) \in Holdings
           /\ DOMAIN Holding(items, item) = DOMAIN items \union {item.trigger}
           /\ Holding(items, item)[item.trigger] = item.event
           /\ \A t \in DOMAIN items : t # item.trigger => Holding(items, item)[t] = items[t]
<1>1. PICK S \in SUBSET Triggers : items \in [S -> Events]
  BY DEF Holdings
<1>2. Holding(items, item) \in [S \union {item.trigger} -> Events]
  BY <1>1 DEF Holding, Item
<1>3. S \union {item.trigger} \in SUBSET Triggers
  BY DEF Item
<1> QED
  BY <1>1, <1>2, <1>3 DEF Holdings, Holding

LEMMA WithoutType ==
    ASSUME NEW items \in Holdings, NEW T
    PROVE  /\ Without(items, T) \in Holdings
           /\ DOMAIN Without(items, T) = DOMAIN items \ T
           /\ \A t \in DOMAIN items \ T : Without(items, T)[t] = items[t]
<1>1. PICK S \in SUBSET Triggers : items \in [S -> Events]
  BY DEF Holdings
<1>2. Without(items, T) \in [S \ T -> Events]
  BY <1>1 DEF Without
<1>3. S \ T \in SUBSET Triggers
  OBVIOUS
<1> QED
  BY <1>1, <1>2, <1>3 DEF Holdings, Without

LEMMA HeldItemType ==
    ASSUME NEW items \in Holdings, NEW t \in DOMAIN items
    PROVE  /\ HeldItem(items, t) \in Item
           /\ HeldItem(items, t).trigger = t
           /\ HeldItem(items, t).event = items[t]
           /\ t \in Triggers
BY DEF Holdings, HeldItem, Item

LEMMA EmptyHolding == [t \in {} |-> {}] \in Holdings /\ DOMAIN [t \in {} |-> {}] = {}
<1>1. [t \in {} |-> {}] \in [{} -> Events]
  OBVIOUS
<1> QED
  BY <1>1 DEF Holdings

(***************************************************************************)
(* What a sequence of items becomes when more of them are emitted.         *)
(***************************************************************************)
LEMMA ConcatItems ==
    ASSUME NEW s \in Seq(Item), NEW n \in Nat, NEW f \in [1 .. n -> Item]
    PROVE  /\ s \o f \in Seq(Item)
           /\ Len(s \o f) = Len(s) + n
           /\ \A i \in 1 .. Len(s) : (s \o f)[i] = s[i]
           /\ \A k \in 1 .. n : (s \o f)[Len(s) + k] = f[k]
           /\ \A i \in 1 .. Len(s) + n : i > Len(s) => (s \o f)[i] = f[i - Len(s)]
<1>1. f \in Seq(Item) /\ Len(f) = n
  OBVIOUS
<1> QED
  BY <1>1

LEMMA AppendItem ==
    ASSUME NEW s \in Seq(Item), NEW item \in Item
    PROVE  /\ Append(s, item) \in Seq(Item)
           /\ Len(Append(s, item)) = Len(s) + 1
           /\ \A i \in 1 .. Len(s) : Append(s, item)[i] = s[i]
           /\ Append(s, item)[Len(s) + 1] = item
OBVIOUS
-----------------------------------------------------------------------------
LEMMA SorterInvInit == SorterInit => SorterInv
<1> SUFFICES ASSUME SorterInit PROVE SorterInv
  OBVIOUS
<1>1. SorterTypeOK
  <2>1. <<>> \in Seq(Item) /\ MaxTrigger \in Triggers
    BY MaxTriggerAssumption DEF Triggers
  <2> QED
    BY <2>1, EmptyHolding DEF SorterInit, SorterTypeOK
<1>2. Running /\ Faithful /\ Ascending /\ Flushed
  BY MaxTriggerAssumption DEF SorterInit, Running, Faithful, Ascending, Flushed, Triggers
<1> QED
  BY <1>1, <1>2 DEF SorterInv

(***************************************************************************)
(* An item that is not the next one only goes into the map.                *)
(***************************************************************************)
LEMMA AddOutOfOrder ==
    ASSUME SorterInv, ~ flushed,
           NEW item \in Item, item.trigger \notin DOMAIN given,
           given' = Holding(given, item), UNCHANGED flushed,
           HoldBack(item)
    PROVE  SorterInv'
<1> USE DEF SorterInv
<1>1. /\ item.trigger \in Triggers
      /\ item.trigger # NextTrigger(m_lastEmittedTrigger)
      /\ UNCHANGED <<m_lastEmittedTrigger, emitted>>
  BY DEF Item, HoldBack
<1>2. /\ DOMAIN m_items' = DOMAIN m_items \union {item.trigger}
      /\ m_items'[item.trigger] = item.event
      /\ \A t \in DOMAIN m_items : t # item.trigger => m_items'[t] = m_items[t]
      /\ m_items' \in Holdings
  BY HoldingType DEF SorterTypeOK, HoldBack
<1>3. /\ DOMAIN given' = DOMAIN given \union {item.trigger}
      /\ given'[item.trigger] = item.event
      /\ \A t \in DOMAIN given : t # item.trigger => given'[t] = given[t]
      /\ given' \in Holdings
  BY HoldingType DEF SorterTypeOK
<1>4. SorterTypeOK'
  BY <1>1, <1>2, <1>3 DEF SorterTypeOK
<1>5. item.trigger > Len(emitted)
  <2>1. ~ (item.trigger < Len(emitted))
    BY <1>1 DEF Running
  <2>2. item.trigger # Len(emitted)
    BY <1>1, MaxTriggerAssumption DEF Running, NextTrigger, Triggers, SorterTypeOK
  <2> QED
    BY <1>1, <2>1, <2>2 DEF Triggers, SorterTypeOK
<1>6. Running'
  <2>1. \A t \in DOMAIN m_items' : t > Len(emitted)
    BY <1>1, <1>2, <1>5 DEF Running
  <2> QED
    BY <1>1, <1>2, <1>3, <2>1 DEF Running
<1>7. Faithful'
  BY <1>1, <1>2, <1>3 DEF Faithful
<1>8. Ascending' /\ Flushed'
  BY <1>1 DEF Ascending, Flushed
<1> QED
  BY <1>4, <1>6, <1>7, <1>8

(***************************************************************************)
(* The next item goes out at once and takes the run behind it along.       *)
(***************************************************************************)
LEMMA AddInOrder ==
    ASSUME SorterInv, ~ flushed,
           NEW item \in Item, item.trigger \notin DOMAIN given,
           given' = Holding(given, item), UNCHANGED flushed,
           NEW n \in 0 .. MaxTrigger, EmitRun(item, n)
    PROVE  SorterInv'
<1> USE DEF SorterInv
<1> DEFINE L == Len(emitted)
           run == [k \in 1 .. n |-> HeldItem(m_items, item.trigger + k)]
<1>1. /\ item.trigger \in Triggers /\ L \in Nat /\ n \in Nat
      /\ item.trigger = NextTrigger(m_lastEmittedTrigger)
  BY MaxTriggerAssumption DEF Item, SorterTypeOK, Triggers, EmitRun
<1>2. item.trigger = L
  <2>1. CASE L = 0
    BY <1>1, <2>1, MaxTriggerAssumption DEF Running, NextTrigger
  <2>2. CASE L # 0
    <3>1. m_lastEmittedTrigger = L - 1
      BY <2>2 DEF Running
    <3>2. CASE m_lastEmittedTrigger = MaxTrigger
      <4>1. item.trigger = 0 /\ 0 \in Triggers /\ 0 < L
        BY <1>1, <2>2, <3>2, MaxTriggerAssumption DEF NextTrigger, Triggers
      <4>2. 0 \in DOMAIN given
        BY <4>1 DEF Running
      <4> QED
        BY <4>1, <4>2
    <3>3. CASE m_lastEmittedTrigger # MaxTrigger
      BY <1>1, <3>1, <3>3 DEF NextTrigger
    <3> QED
      BY <3>2, <3>3
  <2> QED
    BY <2>1, <2>2
<1>3. \A k \in 1 .. n : L + k \in DOMAIN m_items
  BY <1>2 DEF EmitRun, Drains
<1>4. L + (n + 1) \notin DOMAIN m_items
  <2>1. \A u \in DOMAIN m_items : L < u
    BY <1>1 DEF Running, SorterTypeOK, Holdings, Triggers
  <2>2. \A k \in 1 .. n + 1 : k \in 1 .. n \/ k = n + 1
    BY <1>1
  <2> QED
    BY <1>2, <1>3, <2>1, <2>2 DEF EmitRun, Drains
<1>5. /\ run \in [1 .. n -> Item]
      /\ \A k \in 1 .. n : run[k].trigger = L + k /\ run[k].event = m_items[L + k]
  <2>1. \A k \in 1 .. n : /\ HeldItem(m_items, L + k) \in Item
                          /\ HeldItem(m_items, L + k).trigger = L + k
                          /\ HeldItem(m_items, L + k).event = m_items[L + k]
    BY <1>3, HeldItemType DEF SorterTypeOK
  <2> HIDE DEF L
  <2> QED
    BY <1>2, <2>1
<1>6. /\ emitted' \in Seq(Item)
      /\ Len(emitted') = L + 1 + n
      /\ \A i \in 1 .. L : emitted'[i] = emitted[i]
      /\ emitted'[L + 1] = item
      /\ \A k \in 1 .. n : emitted'[L + 1 + k] = run[k]
  <2> DEFINE front == Append(emitted, item)
  <2>1. /\ front \in Seq(Item) /\ Len(front) = L + 1
        /\ \A i \in 1 .. L : front[i] = emitted[i]
        /\ front[L + 1] = item
    BY AppendItem DEF SorterTypeOK
  <2>2. emitted' = front \o run
    BY DEF EmitRun
  <2> HIDE DEF front, run, L
  <2>3. /\ front \o run \in Seq(Item)
        /\ Len(front \o run) = Len(front) + n
        /\ \A i \in 1 .. Len(front) : (front \o run)[i] = front[i]
        /\ \A k \in 1 .. n : (front \o run)[Len(front) + k] = run[k]
    BY <1>1, <1>5, <2>1, ConcatItems
  <2>4. front \o run \in Seq(Item) /\ Len(front \o run) = L + 1 + n
    BY <1>1, <2>1, <2>3
  <2>5. \A i \in 1 .. L : (front \o run)[i] = emitted[i]
    BY <1>1, <2>1, <2>3
  <2>6. (front \o run)[L + 1] = item
    BY <1>1, <2>1, <2>3
  <2>7. \A k \in 1 .. n : (front \o run)[L + 1 + k] = run[k]
    BY <2>1, <2>3
  <2> QED
    BY <2>2, <2>4, <2>5, <2>6, <2>7
<1>7. /\ m_items' \in Holdings
      /\ DOMAIN m_items' = DOMAIN m_items \ (L + 1 .. L + n)
      /\ \A t \in DOMAIN m_items' : m_items'[t] = m_items[t]
  <2>1. m_items' = Without(m_items, L + 1 .. L + n)
    BY <1>2 DEF EmitRun
  <2> DEFINE rest == Without(m_items, L + 1 .. L + n)
  <2>2. /\ rest \in Holdings
        /\ DOMAIN rest = DOMAIN m_items \ (L + 1 .. L + n)
        /\ \A t \in DOMAIN m_items \ (L + 1 .. L + n) : rest[t] = m_items[t]
    BY WithoutType DEF SorterTypeOK
  <2> HIDE DEF rest, L
  <2>3. m_items' = rest
    BY <2>1 DEF rest
  <2> QED
    BY <2>2, <2>3
<1>8. /\ DOMAIN given' = DOMAIN given \union {L}
      /\ given'[L] = item.event
      /\ \A t \in DOMAIN given : t # L => given'[t] = given[t]
      /\ given' \in Holdings
  BY <1>2, HoldingType DEF SorterTypeOK
<1> HIDE DEF run
<1>9. \A i \in DOMAIN emitted' : \/ i \in 1 .. L
                                 \/ i = L + 1
                                 \/ \E k \in 1 .. n : i = L + 1 + k
  <2>1. DOMAIN emitted' = 1 .. L + 1 + n
    BY <1>6
  <2> SUFFICES ASSUME NEW i \in 1 .. L + 1 + n, i \notin 1 .. L, i # L + 1
               PROVE  \E k \in 1 .. n : i = L + 1 + k
    BY <2>1
  <2>2. i - (L + 1) \in 1 .. n /\ i = L + 1 + (i - (L + 1))
    BY <1>1
  <2> QED
    BY <2>2
<1>10. \A i \in DOMAIN emitted' : emitted'[i].trigger = i - 1
  <2> SUFFICES ASSUME NEW i \in DOMAIN emitted' PROVE emitted'[i].trigger = i - 1
    OBVIOUS
  <2>1. CASE i \in 1 .. L
    <3>1. i \in DOMAIN emitted
      BY <2>1 DEF SorterTypeOK
    <3> QED
      BY <1>6, <2>1, <3>1 DEF Running
  <2>2. CASE i = L + 1
    BY <1>1, <1>2, <1>6, <2>2
  <2>3. CASE \E k \in 1 .. n : i = L + 1 + k
    <3>1. PICK k \in 1 .. n : i = L + 1 + k
      BY <2>3
    <3>2. emitted'[i].trigger = L + k
      BY <1>5, <1>6, <3>1
    <3> HIDE DEF L
    <3> QED
      BY <1>1, <3>1, <3>2
  <2> QED
    BY <1>9, <2>1, <2>2, <2>3
<1>11. SorterTypeOK'
  <2>1. L + n \in Triggers
    <3>1. CASE n = 0
      BY <1>1, <1>2, <3>1
    <3>2. CASE n # 0
      <4>1. L + n \in DOMAIN m_items
        BY <1>1, <1>3, <3>2
      <4> QED
        BY <4>1, HeldItemType DEF SorterTypeOK
    <3> QED
      BY <3>1, <3>2
  <2> QED
    BY <1>2, <1>6, <1>7, <1>8, <2>1 DEF SorterTypeOK, EmitRun
<1>12. Running'
  <2>1. m_lastEmittedTrigger' = IF Len(emitted') = 0 THEN MaxTrigger ELSE Len(emitted') - 1
    BY <1>1, <1>2, <1>6 DEF EmitRun
  <2>2. \A t \in DOMAIN m_items' : t > Len(emitted')
    <3> SUFFICES ASSUME NEW t \in DOMAIN m_items, t \notin L + 1 .. L + n
                 PROVE  t > L + 1 + n
      BY <1>6, <1>7
    <3>1. t \in Nat /\ t > L /\ t # L + (n + 1)
      BY <1>4, HeldItemType DEF Running, SorterTypeOK, Triggers
    <3>2. t < L + 1 \/ t > L + n
      BY <1>1, <3>1
    <3> HIDE DEF L
    <3> QED
      BY <1>1, <3>1, <3>2
  <2>3. \A t \in Triggers : t \in DOMAIN given' <=> t < Len(emitted') \/ t \in DOMAIN m_items'
    <3> SUFFICES ASSUME NEW t \in Triggers
                 PROVE  t \in DOMAIN given' <=> t < L + 1 + n \/ t \in DOMAIN m_items'
      BY <1>6
    <3>1. t \in DOMAIN given <=> t < L \/ t \in DOMAIN m_items
      BY DEF Running
    <3>2. t < L + 1 + n <=> t < L \/ t = L \/ t \in L + 1 .. L + n
      BY <1>1 DEF Triggers
    <3>3. t \in L + 1 .. L + n => t \in DOMAIN m_items
      <4> SUFFICES ASSUME t \in L + 1 .. L + n PROVE t \in DOMAIN m_items
        OBVIOUS
      <4>1. t - L \in 1 .. n /\ t = L + (t - L)
        BY <1>1 DEF Triggers
      <4> QED
        BY <1>3, <4>1
    <3> QED
      BY <1>7, <1>8, <3>1, <3>2, <3>3
  <2> QED
    BY <1>10, <2>1, <2>2, <2>3 DEF Running
<1>13. Faithful'
  <2>1. \A t \in DOMAIN m_items' : t \in DOMAIN given' /\ m_items'[t] = given'[t]
    BY <1>2, <1>7, <1>8 DEF Faithful
  <2>2. ASSUME NEW i \in DOMAIN emitted'
        PROVE  /\ emitted'[i].trigger \in DOMAIN given'
               /\ emitted'[i].event = given'[emitted'[i].trigger]
    <3>1. CASE i \in 1 .. L
      <4>1. i \in DOMAIN emitted
        BY <3>1 DEF SorterTypeOK
      <4> QED
        BY <1>2, <1>6, <1>8, <3>1, <4>1 DEF Faithful
    <3>2. CASE i = L + 1
      BY <1>2, <1>6, <1>8, <3>2
    <3>3. CASE \E k \in 1 .. n : i = L + 1 + k
      <4>1. PICK k \in 1 .. n : i = L + 1 + k
        BY <3>3
      <4>2. emitted'[i].trigger = L + k /\ emitted'[i].event = m_items[L + k]
        BY <1>5, <1>6, <4>1
      <4>3. L + k \in DOMAIN given /\ m_items[L + k] = given[L + k]
        BY <1>3 DEF Faithful
      <4> HIDE DEF L
      <4>4. L + k # L
        BY <1>1
      <4> QED
        BY <1>8, <4>2, <4>3, <4>4
    <3> QED
      BY <1>9, <3>1, <3>2, <3>3
  <2> QED
    BY <2>1, <2>2 DEF Faithful
<1>14. Ascending'
  <2>1. \A i \in DOMAIN emitted' : i \in Nat
    BY <1>1, <1>9
  <2> HIDE DEF L
  <2> QED
    BY <1>10, <2>1 DEF Ascending
<1>15. Flushed'
  BY DEF Flushed
<1> QED
  BY <1>11, <1>12, <1>13, <1>14, <1>15

(***************************************************************************)
(* The flush emits the waiting items, all beyond what was emitted before.  *)
(***************************************************************************)
LEMMA FlushStep ==
    ASSUME SorterInv, ~ flushed, Flush
    PROVE  SorterInv'
<1> USE DEF SorterInv
<1> DEFINE L == Len(emitted)
           n == Cardinality(DOMAIN m_items)
<1>1. /\ m_items' = [t \in {} |-> {}] /\ flushed' = TRUE
      /\ UNCHANGED <<m_lastEmittedTrigger, given>>
  BY DEF Flush
<1>2. PICK keys \in InMapOrder(DOMAIN m_items) :
         emitted' = emitted \o [k \in 1 .. n |-> HeldItem(m_items, keys[k])]
  BY DEF Flush
<1> DEFINE rest == [k \in 1 .. n |-> HeldItem(m_items, keys[k])]
<1>3. IsFiniteSet(DOMAIN m_items) /\ n \in Nat
  <2>1. DOMAIN m_items \subseteq Triggers
    BY DEF SorterTypeOK, Holdings
  <2>2. IsFiniteSet(Triggers)
    BY FS_Interval, MaxTriggerAssumption DEF Triggers
  <2> QED
    BY <2>1, <2>2, FS_Subset, FS_CardinalityType
<1>4. /\ keys \in [1 .. n -> DOMAIN m_items]
      /\ \A i, j \in 1 .. n : i < j => keys[i] < keys[j]
  BY <1>2 DEF InMapOrder
<1>5. /\ rest \in [1 .. n -> Item]
      /\ \A k \in 1 .. n : rest[k].trigger = keys[k] /\ rest[k].event = m_items[keys[k]]
  BY <1>4, HeldItemType DEF SorterTypeOK
<1>6. \A t \in DOMAIN m_items : \E k \in 1 .. n : keys[k] = t
  <2>1. keys \in Injection(1 .. n, DOMAIN m_items)
    <3>1. \A i, j \in 1 .. n : keys[i] \in Nat /\ (i # j => i < j \/ j < i)
      BY <1>3, <1>4, HeldItemType DEF SorterTypeOK, Triggers
    <3>2. \A i, j \in 1 .. n : keys[i] = keys[j] => i = j
      BY <1>4, <3>1
    <3> QED
      BY <1>4, <3>2 DEF Injection, IsInjective
  <2>2. IsFiniteSet(1 .. n) /\ Cardinality(1 .. n) = n
    BY <1>3, FS_Interval
  <2>3. keys \in Surjection(1 .. n, DOMAIN m_items)
    BY <1>3, <2>1, <2>2, FS_Injection
  <2> QED
    BY <2>3 DEF Surjection
<1> HIDE DEF rest
<1>7. /\ emitted' \in Seq(Item)
      /\ Len(emitted') = L + n
      /\ \A i \in 1 .. L : emitted'[i] = emitted[i]
      /\ \A i \in 1 .. L + n : i > L => emitted'[i] = rest[i - L]
      /\ \A k \in 1 .. n : emitted'[L + k] = rest[k]
  BY <1>2, <1>3, <1>5, ConcatItems DEF rest, SorterTypeOK
<1>8. \A i \in DOMAIN emitted' :
         \/ i \in DOMAIN emitted /\ emitted'[i] = emitted[i]
         \/ i > L /\ i - L \in 1 .. n /\ emitted'[i] = rest[i - L]
  BY <1>3, <1>7 DEF SorterTypeOK
<1>9. SorterTypeOK'
  BY <1>1, <1>7, EmptyHolding DEF SorterTypeOK
<1>10. Running'
  BY <1>1 DEF Running
<1>11. Faithful'
  BY <1>1, <1>4, <1>5, <1>8, EmptyHolding DEF Faithful
<1>12. Ascending'
  <2> SUFFICES ASSUME NEW i \in DOMAIN emitted', NEW j \in DOMAIN emitted', i < j
               PROVE  emitted'[i].trigger < emitted'[j].trigger
    BY DEF Ascending
  <2>1. L \in Nat /\ i \in Nat /\ j \in Nat
    BY <1>7 DEF SorterTypeOK
  <2>2. CASE i \in DOMAIN emitted /\ j \in DOMAIN emitted
    BY <1>7, <2>2 DEF Ascending, SorterTypeOK
  <2>3. CASE i \in DOMAIN emitted /\ j > L
    <3>1. emitted'[i].trigger = i - 1 /\ i <= L
      BY <1>7, <2>3 DEF Running, SorterTypeOK
    <3>2. emitted'[j].trigger = keys[j - L] /\ keys[j - L] \in DOMAIN m_items
      BY <1>4, <1>5, <1>8, <2>3 DEF SorterTypeOK
    <3>3. keys[j - L] > L /\ keys[j - L] \in Nat
      BY <3>2, HeldItemType DEF Running, SorterTypeOK, Triggers
    <3> QED
      BY <2>1, <3>1, <3>2, <3>3
  <2>4. CASE i > L /\ j > L
    <3>1. i - L \in 1 .. n /\ j - L \in 1 .. n /\ i - L < j - L
      BY <1>8, <2>1, <2>4 DEF SorterTypeOK
    <3>2. emitted'[i].trigger = keys[i - L] /\ emitted'[j].trigger = keys[j - L]
      BY <1>5, <1>8, <2>4, <3>1 DEF SorterTypeOK
    <3> QED
      BY <1>4, <3>1, <3>2
  <2> QED
    BY <1>8, <2>1, <2>2, <2>3, <2>4 DEF SorterTypeOK
<1>13. Flushed'
  <2> SUFFICES ASSUME NEW t \in DOMAIN given PROVE t \in EmittedTriggers'
    BY <1>1, EmptyHolding DEF Flushed
  <2>1. t \in Triggers
    BY DEF SorterTypeOK, Holdings
  <2>2. CASE t < L
    <3>1. t + 1 \in 1 .. L /\ t + 1 \in DOMAIN emitted
      BY <2>1, <2>2 DEF SorterTypeOK, Triggers
    <3>2. emitted'[t + 1].trigger = (t + 1) - 1 /\ t + 1 \in DOMAIN emitted'
      BY <1>3, <1>7, <3>1 DEF Running, SorterTypeOK
    <3> QED
      BY <2>1, <3>2 DEF EmittedTriggers, Triggers
  <2>3. CASE t \in DOMAIN m_items
    <3>1. PICK k \in 1 .. n : keys[k] = t
      BY <1>6, <2>3
    <3>2. L + k \in DOMAIN emitted' /\ emitted'[L + k].trigger = t
      BY <1>3, <1>5, <1>7, <3>1 DEF SorterTypeOK
    <3> QED
      BY <3>2 DEF EmittedTriggers
  <2> QED
    BY <2>1, <2>2, <2>3 DEF Running
<1> QED
  BY <1>9, <1>10, <1>11, <1>12, <1>13

LEMMA SorterInvNext == SorterInv /\ [SorterNext]_sorterVars => SorterInv'
<1> SUFFICES ASSUME SorterInv, [SorterNext]_sorterVars PROVE SorterInv'
  OBVIOUS
<1>1. ASSUME ~ flushed, NEW item \in Item, item.trigger \notin DOMAIN given, AddItem(item)
      PROVE  SorterInv'
  <2>1. given' = Holding(given, item) /\ UNCHANGED flushed
    BY <1>1 DEF AddItem
  <2>2. CASE HoldBack(item)
    BY <1>1, <2>1, <2>2, AddOutOfOrder
  <2>3. CASE \E n \in 0 .. MaxTrigger : EmitRun(item, n)
    BY <1>1, <2>1, <2>3, AddInOrder
  <2> QED
    BY <1>1, <2>2, <2>3 DEF AddItem
<1>2. ASSUME ~ flushed, Flush PROVE SorterInv'
  BY <1>2, FlushStep
<1>3. CASE UNCHANGED sorterVars
  BY <1>3 DEF sorterVars, SorterInv, SorterTypeOK, Running, Faithful, Ascending, Flushed,
              EmittedTriggers
<1> QED
  BY <1>1, <1>2, <1>3 DEF SorterNext
\* The invariant accounts for every item.
LEMMA InvLosesNothing == SorterInv => NothingLost
<1> SUFFICES ASSUME SorterInv PROVE NothingLost
  OBVIOUS
<1> USE DEF SorterInv
<1>1. DOMAIN given \subseteq Triggers /\ DOMAIN m_items \subseteq Triggers
  BY DEF SorterTypeOK, Holdings
<1>2. EmittedTriggers \union DOMAIN m_items \subseteq DOMAIN given
  BY DEF Faithful, EmittedTriggers
<1>3. ASSUME NEW t \in DOMAIN given, t \notin DOMAIN m_items
      PROVE  t \in EmittedTriggers
  <2>1. CASE flushed
    BY <2>1 DEF Flushed
  <2>2. CASE ~ flushed
    <3>1. t \in Nat /\ t < Len(emitted)
      BY <1>1, <1>3, <2>2 DEF Running, Triggers
    <3>2. t + 1 \in DOMAIN emitted /\ emitted[t + 1].trigger = (t + 1) - 1
      BY <2>2, <3>1 DEF Running, SorterTypeOK
    <3> QED
      BY <3>1, <3>2 DEF EmittedTriggers
  <2> QED
    BY <2>1, <2>2
<1>4. EmittedTriggers \intersect DOMAIN m_items = {}
  <2>1. CASE flushed
    BY <2>1 DEF Flushed
  <2>2. CASE ~ flushed
    <3>1. \A i \in DOMAIN emitted : emitted[i].trigger = i - 1 /\ i \in 1 .. Len(emitted)
      BY <2>2 DEF Running, SorterTypeOK
    <3>2. \A t \in DOMAIN m_items : t \in Nat /\ t > Len(emitted)
      BY <1>1, <2>2 DEF Running, Triggers
    <3> QED
      BY <3>1, <3>2 DEF EmittedTriggers, SorterTypeOK
  <2> QED
    BY <2>1, <2>2
<1> QED
  BY <1>2, <1>3, <1>4 DEF NothingLost, Faithful, Flushed

\* Under the invariant nothing waits behind a full run of triggers.
LEMMA InvNeedsNoFlush == SorterInv => NoNeedToFlush
<1> SUFFICES ASSUME SorterInv,
                    NEW n \in 0 .. MaxTrigger + 1,
                    DOMAIN given = {t \in Triggers : t < n},
                    NEW u \in DOMAIN m_items
             PROVE  FALSE
  BY DEF NoNeedToFlush
<1> USE DEF SorterInv
<1>1. ~ flushed
  BY DEF Flushed
<1>2. u \in Triggers /\ u > Len(emitted) /\ u < n
  BY <1>1, HeldItemType DEF Running, Faithful, SorterTypeOK
<1>3. Len(emitted) \in Triggers /\ Len(emitted) < n
  BY <1>2, MaxTriggerAssumption DEF Triggers, SorterTypeOK
<1>4. Len(emitted) \in DOMAIN m_items
  BY <1>1, <1>3 DEF Running, SorterTypeOK
<1> QED
  BY <1>1, <1>3, <1>4 DEF Running, SorterTypeOK, Triggers

-----------------------------------------------------------------------------
(***************************************************************************)
(* The invariant holds of the sorter, whatever the limits of the numbers.  *)
(***************************************************************************)
THEOREM SorterInvariant == SorterSpec => []SorterInv
<1>1. SorterInit => SorterInv
  BY SorterInvInit
<1>2. SorterInv /\ [SorterNext]_sorterVars => SorterInv'
  BY SorterInvNext
<1> QED
  BY <1>1, <1>2, PTL DEF SorterSpec

(***************************************************************************)
(* Type correctness of the sorter.                                         *)
(***************************************************************************)
THEOREM SorterTypeCorrect == SorterSpec => []SorterTypeOK
<1>1. SorterInv => SorterTypeOK
  BY DEF SorterInv
<1> QED
  BY <1>1, SorterInvariant, PTL

(***************************************************************************)
(* Until it is flushed the sorter emits 0, 1, 2, ... without a gap.        *)
(***************************************************************************)
THEOREM SorterContiguous == SorterSpec => []ContiguousUntilFlush
<1>1. SorterInv => ContiguousUntilFlush
  BY DEF SorterInv, Running, ContiguousUntilFlush
<1> QED
  BY <1>1, SorterInvariant, PTL

(***************************************************************************)
(* What is emitted is in strictly ascending order, the flush included.     *)
(***************************************************************************)
THEOREM SorterAscending == SorterSpec => []Ascending
<1>1. SorterInv => Ascending
  BY DEF SorterInv
<1> QED
  BY <1>1, SorterInvariant, PTL

(***************************************************************************)
(* No item given to the sorter is lost, repeated or changed.               *)
(***************************************************************************)
THEOREM SorterLosesNothing == SorterSpec => []NothingLost
BY InvLosesNothing, SorterInvariant, PTL

(***************************************************************************)
(* Once the triggers 0 .. n-1 are in, the flush has nothing left to do.    *)
(***************************************************************************)
THEOREM SorterNeedsNoFlush == SorterSpec => []NoNeedToFlush
BY InvNeedsNoFlush, SorterInvariant, PTL
-----------------------------------------------------------------------------
(***************************************************************************)
(* What precedes message k of the stream of worker w, the header that the  *)
(* farmer has already taken included.                                      *)
(***************************************************************************)
Before(w, k) ==
    IF k > 1
    THEN [tag |-> chan[w][FarmerRank][k - 1].tag, body |-> chan[w][FarmerRank][k - 1].body]
    ELSE IF fpc = "data" /\ fheader.source = w
    THEN [tag |-> "HEADER", body |-> fheader.trigger]
    ELSE [tag |-> "none", body |-> 0]

\* What worker w sent last, if the farmer is not done with it.
LastSent(w) == Before(w, Len(chan[w][FarmerRank]) + 1)

(***************************************************************************)
(* Header, data, header, data, ..., and nothing behind an end.             *)
(***************************************************************************)
InPairs ==
    \A w \in Workers : \A k \in DOMAIN chan[w][FarmerRank] :
        /\ chan[w][FarmerRank][k].tag = "DATA" <=> Before(w, k).tag = "HEADER"
        /\ Before(w, k).tag # "END"

(***************************************************************************)
(* The farmer flushes when the last end is in, and leaves the loop of the  *)
(* emission only when everything emitted is sent.                          *)
(***************************************************************************)
FarmerControl ==
    /\ flushed <=> m_nEndsLeft = 0
    /\ fpc \in {"header", "data"} => ~ flushed
    /\ fpc \in {"end", "finalize"} => flushed
    /\ fsent <= Len(emitted)
    /\ fpc \in {"emitHeader", "emitData"} <=> fsent < Len(emitted)

(***************************************************************************)
(* The farmer's messages to the outputter are numbered: the header of the  *)
(* e-th emitted item is number 2e - 1, its data number 2e, the end is the  *)
(* number after the last.                                                  *)
(***************************************************************************)
SentOut == 2 * fsent + (IF fpc \in {"emitData", "finalize"} THEN 1 ELSE 0)

TakenIn == 2 * Cardinality(EventPlaces) + (IF opc \in {"event", "finalize"} THEN 1 ELSE 0)

Carries(m, number) ==
    \/ /\ m.tag = "HEADER"
       /\ \E e \in DOMAIN emitted : number = 2 * e - 1 /\ m.body = emitted[e].trigger
    \/ /\ m.tag = "DATA"
       /\ \E e \in DOMAIN emitted : number = 2 * e /\ m.body = emitted[e].event
    \/ /\ m.tag = "END"
       /\ number = 2 * Len(emitted) + 1 /\ fpc = "finalize"

(***************************************************************************)
(* The file holds the first of the emitted items, in order; the messages   *)
(* on their way are the next ones.                                         *)
(***************************************************************************)
WrittenAsEmitted ==
    \A n \in 1 .. Cardinality(EventPlaces) :
        /\ n \in DOMAIN emitted
        /\ WrittenEvents[n].trigger = emitted[n].trigger
        /\ WrittenEvents[n].data = emitted[n].event

OutputControl ==
    /\ opc = "event" =>
          /\ oheader.source = FarmerRank
          /\ Cardinality(EventPlaces) + 1 \in DOMAIN emitted
          /\ oheader.trigger = emitted[Cardinality(EventPlaces) + 1].trigger
    /\ opc = "item" => oheader.source # FarmerRank
    /\ opc = "finalize" =>
          /\ fpc = "finalize"
          /\ Cardinality(EventPlaces) = Len(emitted)

Delivery ==
    /\ SentOut = TakenIn + Len(chan[FarmerRank][OutputRank])
    /\ \A k \in DOMAIN chan[FarmerRank][OutputRank] :
          Carries(chan[FarmerRank][OutputRank][k], TakenIn + k)
    /\ OutputControl
    /\ WrittenAsEmitted
-----------------------------------------------------------------------------
(***************************************************************************)
(* The k-th member in ascending order is the one that k members do not     *)
(* exceed.                                                                 *)
(***************************************************************************)
LEMMA BelowFinite ==
    ASSUME NEW S \in SUBSET Nat, IsFiniteSet(S), NEW x
    PROVE  /\ IsFiniteSet({y \in S : y <= x})
           /\ Cardinality({y \in S : y <= x}) \in Nat
           /\ Cardinality({y \in S : y <= x}) <= Cardinality(S)
           /\ Cardinality(S) \in Nat
<1>1. {y \in S : y <= x} \in SUBSET S
  OBVIOUS
<1> QED
  BY <1>1, FS_Subset, FS_CardinalityType

LEMMA BelowGrows ==
    ASSUME NEW S \in SUBSET Nat, IsFiniteSet(S), NEW x \in S, NEW z \in S, x < z
    PROVE  Cardinality({y \in S : y <= x}) < Cardinality({y \in S : y <= z})
<1> DEFINE X == {y \in S : y <= x}
           Z == {y \in S : y <= z}
<1>1. IsFiniteSet(Z) /\ Cardinality(X) \in Nat /\ Cardinality(Z) \in Nat
  BY BelowFinite
<1>2. X \in SUBSET Z /\ z \in Z /\ z \notin X
  <2>1. x \in Nat /\ z \in Nat /\ \A y \in S : y \in Nat
    OBVIOUS
  <2>2. \A y \in S : y <= x => y <= z
    BY <2>1
  <2>3. z <= z /\ ~ (z <= x)
    BY <2>1
  <2> QED
    BY <2>2, <2>3
<1> HIDE DEF X, Z
<1>3. Cardinality(X) <= Cardinality(Z) /\ Cardinality(X) # Cardinality(Z)
  BY <1>1, <1>2, FS_Subset
<1> QED
  BY <1>1, <1>3 DEF X, Z

LEMMA BelowOnto ==
    ASSUME NEW S \in SUBSET Nat, IsFiniteSet(S), NEW k \in 1 .. Cardinality(S)
    PROVE  \E x \in S : Cardinality({y \in S : y <= x}) = k
<1> DEFINE n == Cardinality(S)
           rank == [x \in S |-> Cardinality({y \in S : y <= x})]
<1>1. n \in Nat
  BY FS_CardinalityType
<1>2. ASSUME NEW x \in S
      PROVE  Cardinality({y \in S : y <= x}) \in 1 .. n
  <2>1. Cardinality({y \in S : y <= x}) # 0
    <3>1. x \in {y \in S : y <= x}
      OBVIOUS
    <3> QED
      BY <3>1, BelowFinite, FS_EmptySet
  <2> QED
    BY <2>1, BelowFinite
<1>3. rank \in Injection(S, 1 .. n)
  <2>1. rank \in [S -> 1 .. n]
    BY <1>2
  <2>2. ASSUME NEW x \in S, NEW z \in S, rank[x] = rank[z]
        PROVE  x = z
    <3>1. x \in Nat /\ z \in Nat
      OBVIOUS
    <3>2. ~ (x < z)
      <4> SUFFICES ASSUME x < z PROVE FALSE
        OBVIOUS
      <4>1. Cardinality({y \in S : y <= x}) < Cardinality({y \in S : y <= z})
        BY BelowGrows
      <4> QED
        BY <1>2, <2>2, <4>1
    <3>3. ~ (z < x)
      <4> SUFFICES ASSUME z < x PROVE FALSE
        OBVIOUS
      <4>1. Cardinality({y \in S : y <= z}) < Cardinality({y \in S : y <= x})
        BY BelowGrows
      <4> QED
        BY <1>2, <2>2, <4>1
    <3> QED
      BY <3>1, <3>2, <3>3
  <2> HIDE DEF rank
  <2> QED
    BY <2>1, <2>2 DEF Injection, IsInjective
<1>4. IsFiniteSet(1 .. n) /\ Cardinality(1 .. n) = n
  BY <1>1, FS_Interval
<1>5. rank \in Surjection(S, 1 .. n)
  <2> HIDE DEF rank
  <2> QED
    BY <1>3, <1>4, FS_Injection
<1>6. \E x \in S : rank[x] = k
  <2> HIDE DEF rank
  <2> QED
    BY <1>5 DEF Surjection
<1> QED
  BY <1>6

LEMMA InOrderMembers ==
    ASSUME NEW S \in SUBSET Nat, IsFiniteSet(S)
    PROVE  /\ Cardinality(S) \in Nat
           /\ DOMAIN InOrder(S) = 1 .. Cardinality(S)
           /\ Len(InOrder(S)) = Cardinality(S)
           /\ \A k \in 1 .. Cardinality(S) :
                 /\ InOrder(S)[k] \in S
                 /\ Cardinality({y \in S : y <= InOrder(S)[k]}) = k
<1>1. Cardinality(S) \in Nat
  BY FS_CardinalityType
<1>2. DOMAIN InOrder(S) = 1 .. Cardinality(S)
  BY DEF InOrder
<1>3. InOrder(S) \in Seq(S) /\ Len(InOrder(S)) = Cardinality(S)
  <2>1. ASSUME NEW k \in 1 .. Cardinality(S)
        PROVE  (CHOOSE x \in S : Cardinality({y \in S : y <= x}) = k) \in S
    BY BelowOnto
  <2>2. InOrder(S) \in [1 .. Cardinality(S) -> S]
    BY <2>1 DEF InOrder
  <2> QED
    BY <1>1, <2>2
<1>4. ASSUME NEW k \in 1 .. Cardinality(S)
      PROVE  /\ InOrder(S)[k] \in S
             /\ Cardinality({y \in S : y <= InOrder(S)[k]}) = k
  <2>1. InOrder(S)[k] = CHOOSE x \in S : Cardinality({y \in S : y <= x}) = k
    BY DEF InOrder
  <2>2. \E x \in S : Cardinality({y \in S : y <= x}) = k
    BY BelowOnto
  <2> QED
    BY <2>1, <2>2
<1> QED
  BY <1>1, <1>2, <1>3, <1>4

(***************************************************************************)
(* The place of a member is fixed by how many members it is not below.     *)
(***************************************************************************)
LEMMA InOrderUnique ==
    ASSUME NEW S \in SUBSET Nat, IsFiniteSet(S), NEW x \in S, NEW k \in Nat,
           Cardinality({y \in S : y <= x}) = k
    PROVE  k \in 1 .. Cardinality(S) /\ InOrder(S)[k] = x
<1>1. k \in 1 .. Cardinality(S)
  <2>1. x \in {y \in S : y <= x}
    OBVIOUS
  <2>2. k # 0 /\ k <= Cardinality(S)
    BY <2>1, BelowFinite, FS_EmptySet
  <2> QED
    BY <2>2, BelowFinite
<1>2. PICK z \in S : z = InOrder(S)[k] /\ Cardinality({y \in S : y <= z}) = k
  BY <1>1, InOrderMembers
<1>3. x \in Nat /\ z \in Nat
  OBVIOUS
<1>4. ~ (x < z) /\ ~ (z < x)
  BY <1>2, BelowGrows
<1> QED
  BY <1>1, <1>2, <1>3, <1>4

(***************************************************************************)
(* A new largest member comes last and moves no other.                     *)
(***************************************************************************)
LEMMA InOrderAppend ==
    ASSUME NEW S \in SUBSET Nat, IsFiniteSet(S), NEW m \in Nat, \A y \in S : y < m
    PROVE  /\ Cardinality(S \union {m}) = Cardinality(S) + 1
           /\ InOrder(S \union {m})[Cardinality(S) + 1] = m
           /\ \A k \in 1 .. Cardinality(S) : InOrder(S \union {m})[k] = InOrder(S)[k]
<1> DEFINE T == S \union {m}
<1>1. /\ IsFiniteSet(T) /\ Cardinality(T) = Cardinality(S) + 1
      /\ Cardinality(S) \in Nat
  <2>1. m \notin S
    OBVIOUS
  <2> QED
    BY <2>1, FS_AddElement, FS_CardinalityType
<1>2. T \in SUBSET Nat
  OBVIOUS
<1>3. InOrder(T)[Cardinality(S) + 1] = m
  <2>1. {y \in T : y <= m} = T
    <3>1. \A y \in T : y <= m
      OBVIOUS
    <3> QED
      BY <3>1
  <2> HIDE DEF T
  <2>2. m \in T
    BY DEF T
  <2> QED
    BY <1>1, <1>2, <2>1, <2>2, InOrderUnique
<1>4. ASSUME NEW k \in 1 .. Cardinality(S)
      PROVE  InOrder(T)[k] = InOrder(S)[k]
  <2>1. PICK x \in S : x = InOrder(S)[k] /\ Cardinality({y \in S : y <= x}) = k
    BY InOrderMembers
  <2>2. {y \in T : y <= x} = {y \in S : y <= x}
    <3>1. x < m /\ x \in Nat /\ ~ (m <= x)
      OBVIOUS
    <3> QED
      BY <3>1
  <2>3. x \in T /\ k \in Nat
    BY <1>1
  <2> HIDE DEF T
  <2> QED
    BY <1>1, <1>2, <2>1, <2>2, <2>3, InOrderUnique
<1> QED
  BY <1>1, <1>3, <1>4
-----------------------------------------------------------------------------
(***************************************************************************)
(* Sequences at their ends, and channels.                                  *)
(***************************************************************************)
LEMMA Appended ==
    ASSUME NEW T, NEW s \in Seq(T), NEW m \in T
    PROVE  /\ Append(s, m) \in Seq(T)
           /\ Len(Append(s, m)) = Len(s) + 1
           /\ DOMAIN Append(s, m) = 1 .. Len(s) + 1
           /\ \A k \in 1 .. Len(s) : Append(s, m)[k] = s[k]
           /\ Append(s, m)[Len(s) + 1] = m
OBVIOUS

LEMMA Taken ==
    ASSUME NEW T, NEW s \in Seq(T), s # <<>>
    PROVE  /\ Head(s) \in T /\ Head(s) = s[1] /\ Len(s) > 0 /\ Len(s) \in Nat
           /\ Tail(s) \in Seq(T)
           /\ Len(Tail(s)) = Len(s) - 1
           /\ DOMAIN Tail(s) = 1 .. Len(s) - 1
           /\ \A k \in 1 .. Len(s) - 1 : Tail(s)[k] = s[k + 1]
OBVIOUS

LEMMA RankFacts ==
    /\ DealerRank \in Ranks /\ FarmerRank \in Ranks /\ OutputRank \in Ranks
    /\ DealerRank # FarmerRank /\ DealerRank # OutputRank /\ FarmerRank # OutputRank
    /\ Workers \subseteq Ranks
    /\ DealerRank \notin Workers /\ FarmerRank \notin Workers /\ OutputRank \notin Workers
    /\ \A r \in Ranks : r \in {DealerRank, FarmerRank, OutputRank} \/ r \in Workers
    /\ Sources = Ranks \ {OutputRank}
BY MPIAssumption DEF Ranks, Workers, DealerRank, FarmerRank, OutputRank, Sources

Channels == DOMAIN chan = Ranks /\ \A r \in Ranks : DOMAIN chan[r] = Ranks

\* What a send does to the channels, and what a receive does.
Sends(from, to, tag, body) ==
    /\ Channels'
    /\ \A a, b \in Ranks : a # from \/ b # to => chan'[a][b] = chan[a][b]
    /\ \E m \in Message(tag, {body}) :
          /\ chan'[from][to] = Append(chan[from][to], m)
          /\ m.tag = tag /\ m.body = body

Takes(from, to) ==
    /\ chan[from][to] # <<>>
    /\ Channels'
    /\ \A a, b \in Ranks : a # from \/ b # to => chan'[a][b] = chan[a][b]
    /\ chan'[from][to] = Tail(chan[from][to])

LEMMA SendEffect ==
    ASSUME Channels, NEW from \in Ranks, NEW to \in Ranks, NEW tag, NEW body,
           Send(from, to, tag, body)
    PROVE  Sends(from, to, tag, body)
<1>1. PICK wait \in WaitChoices :
         chan' = [chan EXCEPT ![from][to] =
                    Append(@, [tag |-> tag, body |-> body, wait |-> wait])]
  BY DEF Send
<1> DEFINE m == [tag |-> tag, body |-> body, wait |-> wait]
<1>2. m \in Message(tag, {body}) /\ m.tag = tag /\ m.body = body
  BY MPIAssumption DEF Message
<1>3. chan'[from][to] = Append(chan[from][to], m)
  BY <1>1 DEF Channels
<1>4. Channels'
  BY <1>1 DEF Channels
<1>5. \A a, b \in Ranks : a # from \/ b # to => chan'[a][b] = chan[a][b]
  BY <1>1 DEF Channels
<1> HIDE DEF m
<1> QED
  BY <1>2, <1>3, <1>4, <1>5 DEF Sends

LEMMA ReceiveEffect ==
    ASSUME Channels, NEW from \in Ranks, NEW to \in Ranks, NEW tags, Arrived(from, to, tags),
           chan' = Received(from, to)
    PROVE  Takes(from, to)
<1>1. chan' = [chan EXCEPT ![from][to] = Tail(@)]
  BY DEF Received
<1> QED
  BY <1>1 DEF Channels, Takes, Arrived
-----------------------------------------------------------------------------
(***************************************************************************)
(* What a send and a receive do to the messages of a run.                  *)
(***************************************************************************)
Longer(from, to, tag, body) ==
    /\ Len(chan[from][to]) \in Nat
    /\ DOMAIN chan[from][to] = 1 .. Len(chan[from][to])
    /\ Len(chan'[from][to]) = Len(chan[from][to]) + 1
    /\ DOMAIN chan'[from][to] = 1 .. Len(chan[from][to]) + 1
    /\ \A k \in 1 .. Len(chan[from][to]) : chan'[from][to][k] = chan[from][to][k]
    /\ chan'[from][to][Len(chan[from][to]) + 1].tag = tag
    /\ chan'[from][to][Len(chan[from][to]) + 1].body = body

Shorter(from, to) ==
    /\ Len(chan[from][to]) \in Nat
    /\ DOMAIN chan[from][to] = 1 .. Len(chan[from][to])
    /\ Len(chan[from][to]) > 0
    /\ Head(chan[from][to]) = chan[from][to][1]
    /\ Len(chan'[from][to]) = Len(chan[from][to]) - 1
    /\ DOMAIN chan'[from][to] = 1 .. Len(chan[from][to]) - 1
    /\ \A k \in 1 .. Len(chan[from][to]) - 1 : chan'[from][to][k] = chan[from][to][k + 1]

\* The other pairs of ranks.
OthersKept(from, to) ==
    \A a, b \in Ranks : a # from \/ b # to => chan'[a][b] = chan[a][b]

LEMMA SentTo ==
    ASSUME NEW T, NEW from \in Ranks, NEW to \in Ranks, chan[from][to] \in Seq(T),
           NEW tag, NEW body,
           Sends(from, to, tag, body), Message(tag, {body}) \subseteq T
    PROVE  /\ chan'[from][to] \in Seq(T) /\ Longer(from, to, tag, body)
           /\ OthersKept(from, to) /\ Channels'
<1>1. PICK m \in T : /\ chan'[from][to] = Append(chan[from][to], m)
                     /\ m.tag = tag /\ m.body = body
  BY DEF Sends
<1> QED
  BY <1>1, Appended DEF Sends, Longer, OthersKept

LEMMA TakenFrom ==
    ASSUME NEW T, NEW from \in Ranks, NEW to \in Ranks, chan[from][to] \in Seq(T), Takes(from, to)
    PROVE  /\ chan'[from][to] \in Seq(T) /\ Shorter(from, to)
           /\ chan[from][to][1] \in T
           /\ OthersKept(from, to) /\ Channels'
BY Taken DEF Takes, Shorter, OthersKept

(***************************************************************************)
(* Every message is of the kind K that its sender sends to its receiver;   *)
(* ranks with no kind of message do not talk.                              *)
(***************************************************************************)
TypedBy(K) == Channels /\ \A a, b \in Ranks : chan[a][b] \in Seq(K[a][b])

LEMMA TypedSent ==
    ASSUME NEW K, TypedBy(K), NEW from \in Ranks, NEW to \in Ranks, NEW tag, NEW body,
           Send(from, to, tag, body), Message(tag, {body}) \subseteq K[from][to]
    PROVE  TypedBy(K)' /\ Longer(from, to, tag, body) /\ OthersKept(from, to)
<1>1. Sends(from, to, tag, body) /\ chan[from][to] \in Seq(K[from][to])
  BY SendEffect DEF TypedBy
<1>2. /\ chan'[from][to] \in Seq(K[from][to]) /\ Longer(from, to, tag, body)
      /\ OthersKept(from, to) /\ Channels'
  BY <1>1, SentTo
<1>3. ASSUME NEW a \in Ranks, NEW b \in Ranks PROVE chan'[a][b] \in Seq(K[a][b])
  BY <1>2 DEF TypedBy, OthersKept
<1> QED
  BY <1>2, <1>3 DEF TypedBy

LEMMA TypedTaken ==
    ASSUME NEW K, TypedBy(K), NEW from \in Ranks, NEW to \in Ranks, Takes(from, to)
    PROVE  /\ TypedBy(K)' /\ Shorter(from, to) /\ OthersKept(from, to)
           /\ chan[from][to][1] \in K[from][to]
<1>1. /\ chan'[from][to] \in Seq(K[from][to]) /\ Shorter(from, to)
      /\ chan[from][to][1] \in K[from][to]
      /\ OthersKept(from, to) /\ Channels'
  BY TakenFrom DEF TypedBy
<1>2. ASSUME NEW a \in Ranks, NEW b \in Ranks PROVE chan'[a][b] \in Seq(K[a][b])
  BY <1>1 DEF TypedBy, OthersKept
<1> QED
  BY <1>1, <1>2 DEF TypedBy
-----------------------------------------------------------------------------
(***************************************************************************)
(* What a new record does to the events in the file.                       *)
(***************************************************************************)
FileRecord == [kind : {"event", "item"}, trigger : Triggers, data : Events]

EventRecord == [trigger : Triggers, data : Events]

EventsAreRecords ==
    /\ EventPlaces \in SUBSET Nat /\ IsFiniteSet(EventPlaces)
    /\ \A k \in EventPlaces : k \in DOMAIN written /\ k < Len(written) + 1
    /\ Cardinality(EventPlaces) \in Nat
    /\ WrittenEvents \in Seq(EventRecord)
    /\ Len(WrittenEvents) = Cardinality(EventPlaces)
    /\ \A n \in 1 .. Cardinality(EventPlaces) :
          /\ InOrder(EventPlaces)[n] \in EventPlaces
          /\ WrittenEvents[n] = [trigger |-> written[InOrder(EventPlaces)[n]].trigger,
                                 data |-> written[InOrder(EventPlaces)[n]].data]

LEMMA EventsWritten == written \in Seq(FileRecord) => EventsAreRecords
<1> HAVE written \in Seq(FileRecord)
<1>1. EventPlaces \in SUBSET (1 .. Len(written)) /\ Len(written) \in Nat
  BY DEF EventPlaces
<1>2. IsFiniteSet(EventPlaces)
  <2>1. IsFiniteSet(1 .. Len(written))
    BY <1>1, FS_Interval
  <2> QED
    BY <1>1, <2>1, FS_Subset
<1>3. EventPlaces \in SUBSET Nat
  BY <1>1
<1>4. \A k \in EventPlaces : k \in DOMAIN written /\ k < Len(written) + 1
  BY <1>1
<1>5. Cardinality(EventPlaces) \in Nat
  BY <1>2, FS_CardinalityType
<1>6. /\ DOMAIN InOrder(EventPlaces) = 1 .. Cardinality(EventPlaces)
      /\ \A n \in 1 .. Cardinality(EventPlaces) : InOrder(EventPlaces)[n] \in EventPlaces
  BY <1>2, <1>3, InOrderMembers
<1>7. ASSUME NEW n \in 1 .. Cardinality(EventPlaces)
      PROVE  /\ WrittenEvents[n] = [trigger |-> written[InOrder(EventPlaces)[n]].trigger,
                                    data |-> written[InOrder(EventPlaces)[n]].data]
             /\ WrittenEvents[n] \in EventRecord
  <2>1. WrittenEvents[n] = [trigger |-> written[InOrder(EventPlaces)[n]].trigger,
                            data |-> written[InOrder(EventPlaces)[n]].data]
    BY <1>6 DEF WrittenEvents
  <2>2. written[InOrder(EventPlaces)[n]] \in FileRecord
    BY <1>4, <1>6
  <2> QED
    BY <2>1, <2>2 DEF FileRecord, EventRecord
<1>8. WrittenEvents \in Seq(EventRecord) /\ Len(WrittenEvents) = Cardinality(EventPlaces)
  <2>1. DOMAIN WrittenEvents = 1 .. Cardinality(EventPlaces)
    BY <1>6 DEF WrittenEvents
  <2>2. WrittenEvents = [n \in 1 .. Cardinality(EventPlaces) |-> WrittenEvents[n]]
    BY <1>6 DEF WrittenEvents
  <2>3. WrittenEvents \in [1 .. Cardinality(EventPlaces) -> EventRecord]
    BY <1>7, <2>2
  <2> QED
    BY <1>5, <2>3
<1> QED
  BY <1>2, <1>3, <1>4, <1>5, <1>6, <1>7, <1>8 DEF EventsAreRecords

LEMMA ItemWritten ==
    ASSUME written \in Seq(FileRecord), NEW r \in FileRecord, r.kind = "item",
           written' = Append(written, r)
    PROVE  /\ EventPlaces' = EventPlaces
           /\ WrittenEvents' = WrittenEvents
<1>1. /\ DOMAIN written' = 1 .. Len(written) + 1 /\ DOMAIN written = 1 .. Len(written)
      /\ \A k \in 1 .. Len(written) : written'[k] = written[k]
      /\ written'[Len(written) + 1] = r
      /\ Len(written) \in Nat
  BY Appended
<1>2. EventPlaces' = EventPlaces
  BY <1>1 DEF EventPlaces
<1>3. ASSUME NEW n \in DOMAIN InOrder(EventPlaces)
      PROVE  written'[InOrder(EventPlaces)[n]] = written[InOrder(EventPlaces)[n]]
  <2>1. InOrder(EventPlaces)[n] \in DOMAIN written
    BY EventsWritten, InOrderMembers DEF EventsAreRecords
  <2> QED
    BY <1>1, <2>1
<1> QED
  BY <1>2, <1>3 DEF WrittenEvents

LEMMA EventWritten ==
    ASSUME written \in Seq(FileRecord), NEW r \in FileRecord, r.kind = "event",
           written' = Append(written, r)
    PROVE  /\ Cardinality(EventPlaces') = Cardinality(EventPlaces) + 1
           /\ WrittenEvents' = Append(WrittenEvents, [trigger |-> r.trigger, data |-> r.data])
<1> DEFINE N == Cardinality(EventPlaces)
<1>1. /\ DOMAIN written' = 1 .. Len(written) + 1 /\ DOMAIN written = 1 .. Len(written)
      /\ \A k \in 1 .. Len(written) : written'[k] = written[k]
      /\ written'[Len(written) + 1] = r
      /\ Len(written) \in Nat
      /\ written' \in Seq(FileRecord)
  BY Appended
<1>2. EventPlaces' = EventPlaces \union {Len(written) + 1}
  BY <1>1 DEF EventPlaces
<1>3. /\ Cardinality(EventPlaces') = N + 1 /\ N \in Nat
      /\ InOrder(EventPlaces')[N + 1] = Len(written) + 1
      /\ \A n \in 1 .. N : InOrder(EventPlaces')[n] = InOrder(EventPlaces)[n]
  <2>1. /\ EventPlaces \in SUBSET Nat /\ IsFiniteSet(EventPlaces) /\ N \in Nat
        /\ \A k \in EventPlaces : k < Len(written) + 1
    BY EventsWritten DEF EventsAreRecords
  <2>2. Len(written) + 1 \in Nat
    BY <1>1
  <2> QED
    BY <1>2, <2>1, <2>2, InOrderAppend
<1>4. /\ WrittenEvents' \in Seq(EventRecord) /\ Len(WrittenEvents') = N + 1
      /\ \A n \in 1 .. N + 1 :
            WrittenEvents'[n] = [trigger |-> written'[InOrder(EventPlaces')[n]].trigger,
                                 data |-> written'[InOrder(EventPlaces')[n]].data]
  <2>1. (written \in Seq(FileRecord))'
    BY <1>1
  <2>2. EventsAreRecords'
    BY <2>1, EventsWritten, PTL
  <2> QED
    BY <1>3, <2>2 DEF EventsAreRecords
<1> DEFINE e == [trigger |-> r.trigger, data |-> r.data]
<1>5. /\ Append(WrittenEvents, e) \in Seq(EventRecord)
      /\ Len(Append(WrittenEvents, e)) = N + 1
      /\ \A n \in 1 .. N : Append(WrittenEvents, e)[n] = WrittenEvents[n]
      /\ Append(WrittenEvents, e)[N + 1] = e
  <2>1. e \in EventRecord
    BY DEF FileRecord, EventRecord
  <2>2. WrittenEvents \in Seq(EventRecord) /\ Len(WrittenEvents) = N
    BY EventsWritten DEF EventsAreRecords
  <2> HIDE DEF e, N
  <2> QED
    BY <2>1, <2>2, Appended
<1>6. \A n \in 1 .. N + 1 : WrittenEvents'[n] = Append(WrittenEvents, e)[n]
  <2>1. ASSUME NEW n \in 1 .. N PROVE WrittenEvents'[n] = WrittenEvents[n]
    <3>1. InOrder(EventPlaces)[n] \in 1 .. Len(written)
      BY <1>1, EventsWritten DEF EventsAreRecords
    <3>2. n \in 1 .. N + 1
      BY <1>3
    <3> QED
      BY <1>1, <1>3, <1>4, <3>1, <3>2, EventsWritten DEF EventsAreRecords
  <2>2. WrittenEvents'[N + 1] = e
    BY <1>1, <1>3, <1>4
  <2> HIDE DEF e, N
  <2> QED
    BY <1>3, <1>5, <2>1, <2>2
<1>7. WrittenEvents' = Append(WrittenEvents, e)
  <2> HIDE DEF e, N
  <2> QED
    BY <1>4, <1>5, <1>6
<1> QED
  BY <1>3, <1>7
-----------------------------------------------------------------------------
(***************************************************************************)
(* The sorter keeps its types and only adds to what it has emitted, even   *)
(* if trigger numbers repeat.                                              *)
(***************************************************************************)
EmittedGrows ==
    /\ Len(emitted) <= Len(emitted')
    /\ \A e \in 1 .. Len(emitted) : emitted'[e] = emitted[e]

LEMMA RunGrows ==
    ASSUME SorterTypeOK, NEW item \in Item, given' = Holding(given, item), UNCHANGED flushed,
           NEW n \in 0 .. MaxTrigger, EmitRun(item, n)
    PROVE  SorterTypeOK' /\ EmittedGrows
<1> DEFINE run == [k \in 1 .. n |-> HeldItem(m_items, item.trigger + k)]
           front == Append(emitted, item)
<1>1. \A k \in 1 .. n : item.trigger + k \in DOMAIN m_items
  BY DEF EmitRun, Drains
<1>2. run \in [1 .. n -> Item] /\ n \in Nat
  BY <1>1, HeldItemType, MaxTriggerAssumption DEF SorterTypeOK
<1>3. /\ front \in Seq(Item) /\ Len(front) = Len(emitted) + 1
      /\ \A i \in 1 .. Len(emitted) : front[i] = emitted[i]
  BY AppendItem DEF SorterTypeOK
<1>4. emitted' = front \o run
  BY DEF EmitRun
<1>5. item.trigger \in Triggers /\ item.trigger \in Nat
  BY DEF Item, Triggers
<1>6. item.trigger + n \in Triggers
  <2>1. CASE n = 0
    BY <1>5, <2>1
  <2>2. CASE n # 0
    <3>1. item.trigger + n \in DOMAIN m_items
      BY <1>1, <1>2, <2>2
    <3> QED
      BY <3>1, HeldItemType DEF SorterTypeOK
  <2> QED
    BY <2>1, <2>2
<1>7. m_items' \in Holdings
  BY WithoutType DEF EmitRun, SorterTypeOK
<1>8. given' \in Holdings
  BY HoldingType DEF SorterTypeOK
<1>9. m_lastEmittedTrigger' = item.trigger + n
  BY DEF EmitRun
<1> HIDE DEF run, front
<1>10. emitted' \in Seq(Item) /\ EmittedGrows
  <2>1. /\ front \o run \in Seq(Item)
        /\ Len(front \o run) = Len(front) + n
        /\ \A i \in 1 .. Len(front) : (front \o run)[i] = front[i]
    BY <1>2, <1>3, ConcatItems
  <2>2. Len(emitted) \in Nat
    BY DEF SorterTypeOK
  <2>3. \A i \in 1 .. Len(emitted) : i \in 1 .. Len(front)
    BY <1>3, <2>2
  <2> QED
    BY <1>2, <1>3, <1>4, <2>1, <2>2, <2>3 DEF EmittedGrows
<1> QED
  BY <1>6, <1>7, <1>8, <1>9, <1>10 DEF SorterTypeOK

LEMMA AddItemGrows ==
    ASSUME SorterTypeOK, NEW item \in Item, AddItem(item)
    PROVE  SorterTypeOK' /\ EmittedGrows
<1>1. given' = Holding(given, item) /\ UNCHANGED flushed
  BY DEF AddItem
<1>2. CASE HoldBack(item)
  <2>1. UNCHANGED <<m_lastEmittedTrigger, emitted>> /\ m_items' = Holding(m_items, item)
    BY <1>2 DEF HoldBack
  <2>2. m_items' \in Holdings /\ given' \in Holdings
    BY <1>1, <2>1, HoldingType DEF SorterTypeOK
  <2> QED
    BY <1>1, <2>1, <2>2 DEF SorterTypeOK, EmittedGrows
<1>3. CASE \E n \in 0 .. MaxTrigger : EmitRun(item, n)
  BY <1>1, <1>3, RunGrows
<1> QED
  BY <1>2, <1>3 DEF AddItem

LEMMA FlushGrows ==
    ASSUME SorterTypeOK, Flush
    PROVE  SorterTypeOK' /\ EmittedGrows
<1> DEFINE n == Cardinality(DOMAIN m_items)
<1>1. /\ m_items' = [t \in {} |-> {}] /\ flushed' = TRUE
      /\ UNCHANGED <<m_lastEmittedTrigger, given>>
  BY DEF Flush
<1>2. PICK keys \in InMapOrder(DOMAIN m_items) :
         emitted' = emitted \o [k \in 1 .. n |-> HeldItem(m_items, keys[k])]
  BY DEF Flush
<1> DEFINE rest == [k \in 1 .. n |-> HeldItem(m_items, keys[k])]
<1>3. n \in Nat
  <2>1. DOMAIN m_items \subseteq Triggers
    BY DEF SorterTypeOK, Holdings
  <2>2. IsFiniteSet(Triggers)
    BY FS_Interval, MaxTriggerAssumption DEF Triggers
  <2> QED
    BY <2>1, <2>2, FS_Subset, FS_CardinalityType
<1>4. rest \in [1 .. n -> Item]
  <2>1. keys \in [1 .. n -> DOMAIN m_items]
    BY <1>2 DEF InMapOrder
  <2> QED
    BY <2>1, HeldItemType DEF SorterTypeOK
<1> HIDE DEF rest
<1>5. emitted' \in Seq(Item) /\ EmittedGrows
  <2>1. emitted' = emitted \o rest
    BY <1>2 DEF rest
  <2>2. /\ emitted \o rest \in Seq(Item)
        /\ Len(emitted \o rest) = Len(emitted) + n
        /\ \A e \in 1 .. Len(emitted) : (emitted \o rest)[e] = emitted[e]
    BY <1>3, <1>4, ConcatItems DEF SorterTypeOK
  <2>3. Len(emitted) \in Nat
    BY DEF SorterTypeOK
  <2> QED
    BY <1>3, <2>1, <2>2, <2>3 DEF EmittedGrows
<1> QED
  BY <1>1, <1>5, EmptyHolding DEF SorterTypeOK
-----------------------------------------------------------------------------
(***************************************************************************)
(* The types of farmer and outputter, and of what they are sent.           *)
(***************************************************************************)
EndsTypeOK == Channels /\ StreamsOK /\ FarmerTypeOK /\ OutputTypeOK

LEMMA OutputTypeRecord == OutputTypeOK <=> /\ opc \in {"header", "event", "item", "finalize"}
                                          /\ oheader \in [source : Sources, trigger : Triggers]
                                          /\ written \in Seq(FileRecord)
BY DEF OutputTypeOK, FileRecord

\* A message of one of the streams.
LEMMA EventMessage ==
    ASSUME NEW m \in EventMessages
    PROVE  /\ m.tag \in {"HEADER", "DATA", "END"}
           /\ m.tag = "HEADER" => m.body \in Triggers
           /\ m.tag = "DATA" => m.body \in Events
BY DEF EventMessages, Message

LEMMA PassedOnMessage ==
    ASSUME NEW m \in PassedOn
    PROVE  /\ m.tag \in {"PASSTHROUGH", "DATA"}
           /\ m.tag = "PASSTHROUGH" => m.body \in Triggers
           /\ m.tag = "DATA" => m.body \in Events
BY MaxTriggerAssumption DEF PassedOn, Message, Triggers

(***************************************************************************)
(* The farmer keeps the types as long as it gets no end too many.          *)
(***************************************************************************)
LEMMA FarmerStreams ==
    ASSUME EndsTypeOK, NEW w \in Workers, Takes(w, FarmerRank)
    PROVE  /\ StreamsOK' /\ Channels'
           /\ chan'[FarmerRank][OutputRank] = chan[FarmerRank][OutputRank]
           /\ Head(chan[w][FarmerRank]) = chan[w][FarmerRank][1]
           /\ chan[w][FarmerRank][1] \in EventMessages
<1>1. /\ Head(chan[w][FarmerRank]) = chan[w][FarmerRank][1]
      /\ chan[w][FarmerRank][1] \in EventMessages
      /\ chan'[w][FarmerRank] \in Seq(EventMessages)
  BY Taken DEF EndsTypeOK, StreamsOK, Takes
<1>2. \A r \in Sources : chan'[r][OutputRank] = chan[r][OutputRank]
  BY RankFacts DEF Takes
<1>3. \A v \in Workers : chan'[v][FarmerRank] \in Seq(EventMessages)
  BY <1>1, RankFacts DEF EndsTypeOK, StreamsOK, Takes
<1> QED
  BY <1>1, <1>2, <1>3, RankFacts DEF EndsTypeOK, StreamsOK, Takes

LEMMA EmittedStream ==
    ASSUME EndsTypeOK, NEW tag, NEW body, Sends(FarmerRank, OutputRank, tag, body),
           Message(tag, {body}) \subseteq EventMessages
    PROVE  /\ StreamsOK' /\ Channels'
           /\ Len(chan'[FarmerRank][OutputRank]) = Len(chan[FarmerRank][OutputRank]) + 1
           /\ \A k \in 1 .. Len(chan[FarmerRank][OutputRank]) :
                 chan'[FarmerRank][OutputRank][k] = chan[FarmerRank][OutputRank][k]
           /\ chan'[FarmerRank][OutputRank][Len(chan[FarmerRank][OutputRank]) + 1].tag = tag
           /\ chan'[FarmerRank][OutputRank][Len(chan[FarmerRank][OutputRank]) + 1].body = body
           /\ \A w \in Workers : chan'[w][FarmerRank] = chan[w][FarmerRank]
<1>1. PICK m \in EventMessages :
         /\ chan'[FarmerRank][OutputRank] = Append(chan[FarmerRank][OutputRank], m)
         /\ m.tag = tag /\ m.body = body
  BY DEF Sends
<1>2. chan[FarmerRank][OutputRank] \in Seq(EventMessages)
  BY DEF EndsTypeOK, StreamsOK
<1>3. \A w \in Workers : chan'[w][FarmerRank] = chan[w][FarmerRank]
  BY RankFacts DEF Sends
<1>4. \A r \in Sources \ {FarmerRank} : chan'[r][OutputRank] = chan[r][OutputRank]
  BY RankFacts DEF Sends
<1>5. chan'[FarmerRank][OutputRank] \in Seq(EventMessages)
  BY <1>1, <1>2, Appended
<1> QED
  BY <1>1, <1>2, <1>3, <1>4, <1>5, Appended DEF Sends, EndsTypeOK, StreamsOK
-----------------------------------------------------------------------------
(***************************************************************************)
(* The farmer keeps types and control.                                     *)
(***************************************************************************)
FarmerOK == EndsTypeOK /\ FarmerControl

LEMMA FarmerGetHeaderOK ==
    ASSUME FarmerOK, FarmerGetHeader, UNCHANGED outputVars
    PROVE  FarmerOK' /\ EmittedGrows
<1> USE DEF FarmerOK
<1>1. PICK w \in Workers : /\ Arrived(w, FarmerRank, {"HEADER"})
                           /\ fheader' = [source |-> w, trigger |-> FirstBody(w, FarmerRank)]
                           /\ chan' = Received(w, FarmerRank)
  BY DEF FarmerGetHeader
<1>2. Takes(w, FarmerRank)
  BY <1>1, RankFacts, ReceiveEffect DEF EndsTypeOK
<1>3. StreamsOK' /\ Channels' /\ fheader' \in [source : Workers, trigger : Triggers]
  BY <1>1, <1>2, FarmerStreams, EventMessage DEF Arrived, FirstBody
<1>4. FarmerTypeOK'
  BY <1>3 DEF FarmerGetHeader, EndsTypeOK, FarmerTypeOK, sorterVars, SorterTypeOK
<1>5. OutputTypeOK'
  BY DEF outputVars, EndsTypeOK, OutputTypeOK
<1>6. FarmerControl' /\ EmittedGrows
  BY DEF FarmerGetHeader, FarmerControl, sorterVars, EndsTypeOK, FarmerTypeOK, SorterTypeOK,
         EmittedGrows
<1> QED
  BY <1>3, <1>4, <1>5, <1>6 DEF EndsTypeOK

LEMMA FarmerGetDataOK ==
    ASSUME FarmerOK, FarmerGetData, UNCHANGED outputVars
    PROVE  /\ FarmerOK' /\ EmittedGrows
           /\ Takes(fheader.source, FarmerRank)
           /\ chan[fheader.source][FarmerRank][1].tag = "DATA"
           /\ [trigger |-> fheader.trigger,
               event |-> chan[fheader.source][FarmerRank][1].body] \in Item
           /\ AddItem([trigger |-> fheader.trigger,
                       event |-> chan[fheader.source][FarmerRank][1].body])
<1> USE DEF FarmerOK
<1> DEFINE w == fheader.source
           item == [trigger |-> fheader.trigger, event |-> chan[w][FarmerRank][1].body]
<1>1. w \in Workers /\ fheader.trigger \in Triggers
  BY DEF EndsTypeOK, FarmerTypeOK
<1>2. Takes(w, FarmerRank)
  BY <1>1, RankFacts, ReceiveEffect DEF EndsTypeOK, FarmerGetData
<1>3. /\ StreamsOK' /\ Channels'
      /\ Head(chan[w][FarmerRank]) = chan[w][FarmerRank][1]
      /\ chan[w][FarmerRank][1] \in EventMessages
  BY <1>1, <1>2, FarmerStreams
<1>4. chan[w][FarmerRank][1].tag = "DATA"
  BY <1>3 DEF FarmerGetData, Arrived
<1>5. AddItem(item) /\ item \in Item
  <2>1. FirstBody(w, FarmerRank) = chan[w][FarmerRank][1].body
    BY <1>3 DEF FirstBody
  <2>2. AddItem(item)
    BY <2>1 DEF FarmerGetData
  <2>3. chan[w][FarmerRank][1].body \in Events
    BY <1>3, <1>4, EventMessage
  <2> QED
    BY <1>1, <2>2, <2>3 DEF Item
<1>6. SorterTypeOK' /\ EmittedGrows
  BY <1>5, AddItemGrows DEF EndsTypeOK, FarmerTypeOK
<1>7. flushed' = flushed
  BY <1>5 DEF AddItem
<1>8. OutputTypeOK'
  BY DEF outputVars, EndsTypeOK, OutputTypeOK
<1>9. FarmerTypeOK'
  BY <1>6 DEF FarmerGetData, EndsTypeOK, FarmerTypeOK, AfterEmitting
<1>10. FarmerControl'
  <2>1. /\ fsent \in Nat /\ Len(emitted) \in Nat /\ Len(emitted') \in Nat
        /\ Len(emitted) <= Len(emitted')
    BY <1>6 DEF EndsTypeOK, FarmerTypeOK, SorterTypeOK, EmittedGrows
  <2>2. /\ fpc = "data" /\ UNCHANGED <<m_nEndsLeft, fheader, fsent>>
        /\ fpc' = AfterEmitting(fsent)
    BY DEF FarmerGetData
  <2> QED
    BY <1>7, <2>1, <2>2 DEF FarmerControl, AfterEmitting
<1> QED
  BY <1>2, <1>3, <1>4, <1>5, <1>6, <1>8, <1>9, <1>10 DEF EndsTypeOK

LEMMA FarmerGetEndOK ==
    ASSUME FarmerOK, FarmerGetEnd, UNCHANGED outputVars
    PROVE  FarmerOK' /\ EmittedGrows /\ m_nEndsLeft > 0
<1> USE DEF FarmerOK
<1>1. PICK w \in Workers : Arrived(w, FarmerRank, {"END"}) /\ chan' = Received(w, FarmerRank)
  BY DEF FarmerGetEnd
<1>2. Takes(w, FarmerRank)
  BY <1>1, RankFacts, ReceiveEffect DEF EndsTypeOK
<1>3. StreamsOK' /\ Channels'
  BY <1>2, FarmerStreams
<1>4. /\ ~ flushed /\ m_nEndsLeft > 0 /\ m_nEndsLeft' = m_nEndsLeft - 1
      /\ m_nEndsLeft \in 0 .. Size - 3 /\ m_nEndsLeft' \in 0 .. Size - 3
  BY MPIAssumption DEF FarmerGetEnd, FarmerControl, EndsTypeOK, FarmerTypeOK
<1>5. SorterTypeOK' /\ EmittedGrows /\ (flushed' <=> m_nEndsLeft' = 0)
  <2>1. CASE m_nEndsLeft' = 0
    <3>1. Flush
      BY <2>1 DEF FarmerGetEnd
    <3> QED
      BY <2>1, <3>1, FlushGrows DEF EndsTypeOK, FarmerTypeOK, Flush
  <2>2. CASE m_nEndsLeft' # 0
    <3>1. UNCHANGED sorterVars
      BY <2>2 DEF FarmerGetEnd
    <3> QED
      BY <1>4, <2>2, <3>1
      DEF sorterVars, EndsTypeOK, FarmerTypeOK, SorterTypeOK, EmittedGrows
  <2> QED
    BY <2>1, <2>2
<1>6. OutputTypeOK'
  BY DEF outputVars, EndsTypeOK, OutputTypeOK
<1>7. FarmerTypeOK'
  BY <1>4, <1>5 DEF FarmerGetEnd, EndsTypeOK, FarmerTypeOK, AfterEmitting
<1>8. FarmerControl'
  <2>1. /\ fsent \in Nat /\ Len(emitted) \in Nat /\ Len(emitted') \in Nat
        /\ Len(emitted) <= Len(emitted')
    BY <1>5 DEF EndsTypeOK, FarmerTypeOK, SorterTypeOK, EmittedGrows
  <2>2. fpc = "header" /\ UNCHANGED <<fheader, fsent>> /\ fpc' = AfterEmitting(fsent)
    BY DEF FarmerGetEnd
  <2> QED
    BY <1>5, <2>1, <2>2 DEF FarmerControl, AfterEmitting
<1> QED
  BY <1>3, <1>4, <1>5, <1>6, <1>7, <1>8 DEF EndsTypeOK

\* The item the farmer sends next.
LEMMA NextUnsent ==
    ASSUME FarmerOK, fpc \in {"emitHeader", "emitData"}
    PROVE  /\ fsent + 1 \in DOMAIN emitted
           /\ emitted[fsent + 1].trigger \in Triggers
           /\ emitted[fsent + 1].event \in Events
<1>1. fsent \in Nat /\ fsent < Len(emitted) /\ emitted \in Seq(Item)
  BY DEF FarmerOK, FarmerControl, EndsTypeOK, FarmerTypeOK, SorterTypeOK
<1>2. fsent + 1 \in DOMAIN emitted
  BY <1>1
<1>3. emitted[fsent + 1] \in Item
  BY <1>1, <1>2
<1> QED
  BY <1>2, <1>3 DEF Item

LEMMA FarmerEmitHeaderOK ==
    ASSUME FarmerOK, FarmerEmitHeader, UNCHANGED outputVars
    PROVE  /\ FarmerOK' /\ EmittedGrows
           /\ fsent + 1 \in DOMAIN emitted
           /\ Sends(FarmerRank, OutputRank, "HEADER", emitted[fsent + 1].trigger)
           /\ Message("HEADER", {emitted[fsent + 1].trigger}) \subseteq EventMessages
<1> USE DEF FarmerOK
<1>1. fsent + 1 \in DOMAIN emitted /\ emitted[fsent + 1].trigger \in Triggers
  BY NextUnsent DEF FarmerEmitHeader
<1>2. Sends(FarmerRank, OutputRank, "HEADER", emitted[fsent + 1].trigger)
  BY RankFacts, SendEffect DEF FarmerEmitHeader, EndsTypeOK
<1>3. Message("HEADER", {emitted[fsent + 1].trigger}) \subseteq EventMessages
  BY <1>1 DEF Message, EventMessages
<1>4. StreamsOK' /\ Channels'
  BY <1>2, <1>3, EmittedStream
<1>5. OutputTypeOK'
  BY DEF outputVars, EndsTypeOK, OutputTypeOK
<1>6. FarmerTypeOK' /\ FarmerControl' /\ EmittedGrows
  BY DEF FarmerEmitHeader, FarmerControl, EndsTypeOK, FarmerTypeOK, SorterTypeOK, sorterVars,
         EmittedGrows
<1> QED
  BY <1>1, <1>2, <1>3, <1>4, <1>5, <1>6 DEF EndsTypeOK

LEMMA FarmerEmitDataOK ==
    ASSUME FarmerOK, FarmerEmitData, UNCHANGED outputVars
    PROVE  /\ FarmerOK' /\ EmittedGrows
           /\ fsent + 1 \in DOMAIN emitted
           /\ Sends(FarmerRank, OutputRank, "DATA", emitted[fsent + 1].event)
           /\ Message("DATA", {emitted[fsent + 1].event}) \subseteq EventMessages
<1> USE DEF FarmerOK
<1>1. fsent + 1 \in DOMAIN emitted /\ emitted[fsent + 1].event \in Events
  BY NextUnsent DEF FarmerEmitData
<1>2. Sends(FarmerRank, OutputRank, "DATA", emitted[fsent + 1].event)
  BY RankFacts, SendEffect DEF FarmerEmitData, EndsTypeOK
<1>3. Message("DATA", {emitted[fsent + 1].event}) \subseteq EventMessages
  BY <1>1 DEF Message, EventMessages
<1>4. StreamsOK' /\ Channels'
  BY <1>2, <1>3, EmittedStream
<1>5. OutputTypeOK'
  BY DEF outputVars, EndsTypeOK, OutputTypeOK
<1>6. UNCHANGED <<m_nEndsLeft, fheader>> /\ UNCHANGED sorterVars /\ fsent' = fsent + 1
      /\ fpc' = AfterEmitting(fsent + 1) /\ fpc = "emitData"
  BY DEF FarmerEmitData
<1>7. FarmerTypeOK'
  BY <1>6 DEF EndsTypeOK, FarmerTypeOK, SorterTypeOK, sorterVars, AfterEmitting
<1>8. FarmerControl' /\ EmittedGrows
  BY <1>6 DEF FarmerControl, EndsTypeOK, FarmerTypeOK, SorterTypeOK, sorterVars, AfterEmitting,
              EmittedGrows
<1> QED
  BY <1>1, <1>2, <1>3, <1>4, <1>5, <1>7, <1>8 DEF EndsTypeOK

LEMMA FarmerSendEndOK ==
    ASSUME FarmerOK, FarmerSendEnd, UNCHANGED outputVars
    PROVE  /\ FarmerOK' /\ EmittedGrows
           /\ Sends(FarmerRank, OutputRank, "END", 0)
           /\ Message("END", {0}) \subseteq EventMessages
<1> USE DEF FarmerOK
<1>1. Sends(FarmerRank, OutputRank, "END", 0)
  BY RankFacts, SendEffect DEF FarmerSendEnd, EndsTypeOK
<1>2. Message("END", {0}) \subseteq EventMessages
  BY DEF EventMessages
<1>3. StreamsOK' /\ Channels'
  BY <1>1, <1>2, EmittedStream
<1>4. OutputTypeOK'
  BY DEF outputVars, EndsTypeOK, OutputTypeOK
<1>5. FarmerTypeOK' /\ FarmerControl' /\ EmittedGrows
  BY DEF FarmerSendEnd, FarmerControl, EndsTypeOK, FarmerTypeOK, SorterTypeOK, sorterVars,
         EmittedGrows
<1> QED
  BY <1>1, <1>2, <1>3, <1>4, <1>5 DEF EndsTypeOK
-----------------------------------------------------------------------------
(***************************************************************************)
(* Delivery under the steps of the farmer.                                 *)
(***************************************************************************)
LEMMA SorterNumbers ==
    ASSUME FarmerOK
    PROVE  /\ fsent \in Nat /\ Len(emitted) \in Nat /\ DOMAIN emitted = 1 .. Len(emitted)
           /\ Cardinality(EventPlaces) \in Nat
           /\ Len(chan[FarmerRank][OutputRank]) \in Nat
           /\ DOMAIN chan[FarmerRank][OutputRank] = 1 .. Len(chan[FarmerRank][OutputRank])
           /\ fpc \in {"header", "data", "emitHeader", "emitData", "end", "finalize"}
           /\ opc \in {"header", "event", "item", "finalize"}
           /\ SentOut \in Nat /\ TakenIn \in Nat
<1>1. /\ fsent \in Nat /\ Len(emitted) \in Nat /\ DOMAIN emitted = 1 .. Len(emitted)
      /\ fpc \in {"header", "data", "emitHeader", "emitData", "end", "finalize"}
  BY DEF FarmerOK, EndsTypeOK, FarmerTypeOK, SorterTypeOK
<1>2. /\ Cardinality(EventPlaces) \in Nat
      /\ opc \in {"header", "event", "item", "finalize"}
  BY OutputTypeRecord, EventsWritten DEF FarmerOK, EndsTypeOK, EventsAreRecords
<1>3. /\ Len(chan[FarmerRank][OutputRank]) \in Nat
      /\ DOMAIN chan[FarmerRank][OutputRank] = 1 .. Len(chan[FarmerRank][OutputRank])
  BY DEF FarmerOK, EndsTypeOK, StreamsOK
<1> QED
  BY <1>1, <1>2, <1>3 DEF SentOut, TakenIn

LEMMA CarriesOn ==
    ASSUME FarmerOK, FarmerOK', EmittedGrows, fpc # "finalize", NEW m, NEW number,
           Carries(m, number)
    PROVE  Carries(m, number)'
<1>1. /\ Len(emitted) \in Nat /\ DOMAIN emitted = 1 .. Len(emitted)
      /\ Len(emitted') \in Nat /\ DOMAIN emitted' = 1 .. Len(emitted')
  BY DEF FarmerOK, EndsTypeOK, FarmerTypeOK, SorterTypeOK
<1>2. \A e \in DOMAIN emitted : e \in DOMAIN emitted' /\ emitted'[e] = emitted[e]
  BY <1>1 DEF EmittedGrows
<1> QED
  BY <1>2 DEF Carries

LEMMA OutputUndisturbed ==
    ASSUME FarmerOK, FarmerOK', Delivery, EmittedGrows, fpc # "finalize", UNCHANGED outputVars
    PROVE  OutputControl' /\ WrittenAsEmitted' /\ TakenIn' = TakenIn
<1>1. EventPlaces' = EventPlaces /\ WrittenEvents' = WrittenEvents
  BY DEF outputVars, EventPlaces, WrittenEvents
<1>2. /\ Len(emitted) \in Nat /\ DOMAIN emitted = 1 .. Len(emitted)
      /\ Len(emitted') \in Nat /\ DOMAIN emitted' = 1 .. Len(emitted')
  BY DEF FarmerOK, EndsTypeOK, FarmerTypeOK, SorterTypeOK
<1>3. \A e \in DOMAIN emitted : e \in DOMAIN emitted' /\ emitted'[e] = emitted[e]
  BY <1>2 DEF EmittedGrows
<1>4. UNCHANGED <<opc, oheader, written>>
  BY DEF outputVars
<1>5. OutputControl /\ WrittenAsEmitted
  BY DEF Delivery
<1>6. OutputControl'
  BY <1>1, <1>3, <1>4, <1>5 DEF OutputControl
<1>7. WrittenAsEmitted'
  BY <1>1, <1>3, <1>5 DEF WrittenAsEmitted
<1> QED
  BY <1>1, <1>4, <1>6, <1>7 DEF TakenIn

\* The farmer sends nothing.
LEMMA FarmerQuiet ==
    ASSUME FarmerOK, FarmerOK', Delivery, EmittedGrows, fpc # "finalize", UNCHANGED outputVars,
           chan'[FarmerRank][OutputRank] = chan[FarmerRank][OutputRank], SentOut' = SentOut
    PROVE  Delivery'
<1>1. OutputControl' /\ WrittenAsEmitted' /\ TakenIn' = TakenIn
  BY OutputUndisturbed
<1>2. ASSUME NEW k \in DOMAIN chan'[FarmerRank][OutputRank]
      PROVE  Carries(chan[FarmerRank][OutputRank][k], TakenIn + k)'
  <2>1. PICK m, number : m = chan[FarmerRank][OutputRank][k] /\ number = TakenIn + k
    OBVIOUS
  <2>2. Carries(m, number)
    BY <2>1 DEF Delivery
  <2>3. Carries(m, number)'
    BY <2>2, CarriesOn
  <2>4. m = chan'[FarmerRank][OutputRank][k] /\ number = TakenIn' + k
    BY <1>1, <2>1
  <2> QED
    BY <2>3, <2>4
<1> QED
  BY <1>1, <1>2 DEF Delivery

\* The farmer sends its next message.
LEMMA FarmerSpeaks ==
    ASSUME FarmerOK, FarmerOK', Delivery, EmittedGrows, fpc # "finalize", UNCHANGED outputVars,
           NEW tag, NEW body, Sends(FarmerRank, OutputRank, tag, body),
           Message(tag, {body}) \subseteq EventMessages,
           SentOut' = SentOut + 1,
           \A m, number : m.tag = tag /\ m.body = body /\ number = SentOut + 1
                             => Carries(m, number)'
    PROVE  Delivery'
<1> DEFINE queue == chan[FarmerRank][OutputRank]
<1>1. OutputControl' /\ WrittenAsEmitted' /\ TakenIn' = TakenIn
  BY OutputUndisturbed
<1>2. SentOut = TakenIn + Len(queue) /\ SentOut \in Nat /\ TakenIn \in Nat /\ Len(queue) \in Nat
  BY SorterNumbers DEF Delivery
<1>3. /\ Len(queue') = Len(queue) + 1
      /\ \A k \in 1 .. Len(queue) : queue'[k] = queue[k]
      /\ queue'[Len(queue) + 1].tag = tag
      /\ queue'[Len(queue) + 1].body = body
  BY EmittedStream DEF FarmerOK
<1>4. DOMAIN queue' = 1 .. Len(queue) + 1 /\ DOMAIN queue = 1 .. Len(queue)
  <2>1. queue' \in Seq(EventMessages) /\ queue \in Seq(EventMessages)
    BY DEF FarmerOK, EndsTypeOK, StreamsOK
  <2> QED
    BY <1>3, <2>1
<1>5. ASSUME NEW k \in DOMAIN queue'
      PROVE  Carries(chan[FarmerRank][OutputRank][k], TakenIn + k)'
  <2>1. PICK m, number : m = chan'[FarmerRank][OutputRank][k] /\ number = TakenIn' + k
    OBVIOUS
  <2>2. CASE k \in 1 .. Len(queue)
    <3>1. Carries(m, number)
      BY <1>1, <1>3, <1>4, <2>1, <2>2 DEF Delivery
    <3>2. Carries(m, number)'
      BY <3>1, CarriesOn
    <3> QED
      BY <2>1, <3>2
  <2>3. CASE k = Len(queue) + 1
    <3>1. m.tag = tag /\ m.body = body /\ number = SentOut + 1
      BY <1>1, <1>2, <1>3, <2>1, <2>3
    <3>2. Carries(m, number)'
      BY <3>1
    <3> QED
      BY <2>1, <3>2
  <2> QED
    BY <1>2, <1>4, <2>2, <2>3
<1> QED
  BY <1>1, <1>2, <1>3, <1>5 DEF Delivery

LEMMA FarmerDelivers ==
    ASSUME FarmerOK, Delivery, FarmerNext, UNCHANGED outputVars
    PROVE  FarmerOK' /\ Delivery' /\ EmittedGrows
<1>1. CASE FarmerGetHeader
  <2>1. FarmerOK' /\ EmittedGrows
    BY <1>1, FarmerGetHeaderOK
  <2>2. PICK w \in Workers : Arrived(w, FarmerRank, {"HEADER"}) /\ chan' = Received(w, FarmerRank)
    BY <1>1 DEF FarmerGetHeader
  <2>3. chan'[FarmerRank][OutputRank] = chan[FarmerRank][OutputRank]
    BY <2>2, RankFacts, ReceiveEffect, FarmerStreams DEF FarmerOK, EndsTypeOK
  <2>4. fpc # "finalize" /\ SentOut' = SentOut
    BY <1>1 DEF FarmerGetHeader, SentOut
  <2> QED
    BY <2>1, <2>3, <2>4, FarmerQuiet
<1>2. CASE FarmerGetData
  <2>1. FarmerOK' /\ EmittedGrows /\ Takes(fheader.source, FarmerRank)
    BY <1>2, FarmerGetDataOK
  <2>2. chan'[FarmerRank][OutputRank] = chan[FarmerRank][OutputRank]
    <3>1. fheader.source \in Workers
      BY DEF FarmerOK, EndsTypeOK, FarmerTypeOK
    <3> QED
      BY <2>1, <3>1, FarmerStreams DEF FarmerOK
  <2>3. fpc # "finalize" /\ SentOut' = SentOut
    BY <1>2 DEF FarmerGetData, SentOut, AfterEmitting
  <2> QED
    BY <2>1, <2>2, <2>3, FarmerQuiet
<1>3. CASE FarmerGetEnd
  <2>1. FarmerOK' /\ EmittedGrows
    BY <1>3, FarmerGetEndOK
  <2>2. PICK w \in Workers : Arrived(w, FarmerRank, {"END"}) /\ chan' = Received(w, FarmerRank)
    BY <1>3 DEF FarmerGetEnd
  <2>3. chan'[FarmerRank][OutputRank] = chan[FarmerRank][OutputRank]
    BY <2>2, RankFacts, ReceiveEffect, FarmerStreams DEF FarmerOK, EndsTypeOK
  <2>4. fpc # "finalize" /\ SentOut' = SentOut
    BY <1>3 DEF FarmerGetEnd, SentOut, AfterEmitting
  <2> QED
    BY <2>1, <2>3, <2>4, FarmerQuiet
<1>4. CASE FarmerEmitHeader
  <2>1. /\ FarmerOK' /\ EmittedGrows /\ fsent + 1 \in DOMAIN emitted
        /\ Sends(FarmerRank, OutputRank, "HEADER", emitted[fsent + 1].trigger)
        /\ Message("HEADER", {emitted[fsent + 1].trigger}) \subseteq EventMessages
    BY <1>4, FarmerEmitHeaderOK
  <2>2. PICK body : body = emitted[fsent + 1].trigger
    OBVIOUS
  <2>3. fpc # "finalize" /\ SentOut = 2 * fsent /\ SentOut' = SentOut + 1
    BY <1>4, SorterNumbers DEF FarmerEmitHeader, SentOut
  <2>4. ASSUME NEW m, NEW number, m.tag = "HEADER", m.body = body, number = SentOut + 1
        PROVE  Carries(m, number)'
    <3>1. emitted' = emitted /\ number = 2 * (fsent + 1) - 1
      BY <1>4, <2>3, <2>4, SorterNumbers DEF FarmerEmitHeader, sorterVars
    <3> QED
      BY <2>1, <2>2, <2>4, <3>1 DEF Carries
  <2> QED
    BY <2>1, <2>2, <2>3, <2>4, FarmerSpeaks
<1>5. CASE FarmerEmitData
  <2>1. /\ FarmerOK' /\ EmittedGrows /\ fsent + 1 \in DOMAIN emitted
        /\ Sends(FarmerRank, OutputRank, "DATA", emitted[fsent + 1].event)
        /\ Message("DATA", {emitted[fsent + 1].event}) \subseteq EventMessages
    BY <1>5, FarmerEmitDataOK
  <2>2. PICK body : body = emitted[fsent + 1].event
    OBVIOUS
  <2>3. fpc # "finalize" /\ SentOut = 2 * fsent + 1 /\ SentOut' = SentOut + 1
    <3>1. fpc' = AfterEmitting(fsent + 1) /\ fsent' = fsent + 1 /\ fpc = "emitData"
      BY <1>5 DEF FarmerEmitData
    <3>2. fpc' \notin {"emitData", "finalize"}
      BY <3>1 DEF AfterEmitting
    <3> QED
      BY <3>1, <3>2, SorterNumbers DEF SentOut
  <2>4. ASSUME NEW m, NEW number, m.tag = "DATA", m.body = body, number = SentOut + 1
        PROVE  Carries(m, number)'
    <3>1. emitted' = emitted /\ number = 2 * (fsent + 1)
      BY <1>5, <2>3, <2>4, SorterNumbers DEF FarmerEmitData, sorterVars
    <3> QED
      BY <2>1, <2>2, <2>4, <3>1 DEF Carries
  <2> QED
    BY <2>1, <2>2, <2>3, <2>4, FarmerSpeaks
<1>6. CASE FarmerSendEnd
  <2>1. /\ FarmerOK' /\ EmittedGrows /\ Sends(FarmerRank, OutputRank, "END", 0)
        /\ Message("END", {0}) \subseteq EventMessages
    BY <1>6, FarmerSendEndOK
  <2>2. fpc = "end" /\ fpc' = "finalize" /\ fsent' = fsent /\ emitted' = emitted
    BY <1>6 DEF FarmerSendEnd, sorterVars
  <2>3. SentOut = 2 * fsent /\ SentOut' = SentOut + 1 /\ fsent = Len(emitted)
    BY <2>2, SorterNumbers DEF SentOut, FarmerOK, FarmerControl
  <2>4. ASSUME NEW m, NEW number, m.tag = "END", m.body = 0, number = SentOut + 1
        PROVE  Carries(m, number)'
    BY <2>2, <2>3, <2>4 DEF Carries
  <2> QED
    BY <2>1, <2>2, <2>3, <2>4, FarmerSpeaks
<1> QED
  BY <1>1, <1>2, <1>3, <1>4, <1>5, <1>6 DEF FarmerNext
-----------------------------------------------------------------------------
(***************************************************************************)
(* The streams of the workers under the steps of the farmer: one message   *)
(* is taken from the front, and pairs stay pairs.                          *)
(***************************************************************************)
StreamTaken(w, tag) ==
    /\ w \in Workers /\ Takes(w, FarmerRank)
    /\ chan[w][FarmerRank][1].tag = tag
    /\ \A v \in Workers \ {w} : \A k \in Nat \ {0} : Before(v, k)' = Before(v, k)
    /\ \A k \in 1 .. Len(chan[w][FarmerRank]) :
          \/ Before(w, k)' = Before(w, k + 1)
          \/ k = 1 /\ tag # "HEADER" /\ Before(w, k)'.tag = "none" /\ Before(w, k + 1).tag = tag

LEMMA TakenInPairs ==
    ASSUME FarmerOK, InPairs, NEW w, NEW tag \in {"HEADER", "DATA", "END"}, StreamTaken(w, tag)
    PROVE  InPairs'
<1>1. ASSUME NEW v \in Workers \ {w}, NEW k \in DOMAIN chan'[v][FarmerRank]
      PROVE  /\ chan'[v][FarmerRank][k].tag = "DATA" <=> Before(v, k)'.tag = "HEADER"
             /\ Before(v, k)'.tag # "END"
  <2>1. chan'[v][FarmerRank] = chan[v][FarmerRank]
    BY RankFacts DEF StreamTaken, Takes
  <2>2. chan[v][FarmerRank] \in Seq(EventMessages)
    BY DEF FarmerOK, EndsTypeOK, StreamsOK
  <2>3. k \in Nat \ {0} /\ k \in DOMAIN chan[v][FarmerRank]
    BY <1>1, <2>1, <2>2
  <2>4. Before(v, k)' = Before(v, k)
    BY <2>3 DEF StreamTaken
  <2> QED
    BY <2>1, <2>3, <2>4 DEF InPairs
<1>2. ASSUME NEW k \in DOMAIN chan'[w][FarmerRank]
      PROVE  /\ chan'[w][FarmerRank][k].tag = "DATA" <=> Before(w, k)'.tag = "HEADER"
             /\ Before(w, k)'.tag # "END"
  <2>1. /\ chan[w][FarmerRank] \in Seq(EventMessages) /\ chan[w][FarmerRank] # <<>>
        /\ chan'[w][FarmerRank] = Tail(chan[w][FarmerRank])
    BY DEF FarmerOK, EndsTypeOK, StreamsOK, StreamTaken, Takes
  <2>2. /\ k \in 1 .. Len(chan[w][FarmerRank]) - 1 /\ Len(chan[w][FarmerRank]) \in Nat
        /\ chan'[w][FarmerRank][k] = chan[w][FarmerRank][k + 1]
    BY <1>2, <2>1, Taken
  <2>3. k + 1 \in DOMAIN chan[w][FarmerRank] /\ k \in 1 .. Len(chan[w][FarmerRank])
    BY <2>1, <2>2
  <2>4. /\ chan[w][FarmerRank][k + 1].tag = "DATA" <=> Before(w, k + 1).tag = "HEADER"
        /\ Before(w, k + 1).tag # "END"
    BY <2>3 DEF InPairs, StreamTaken
  <2>5. \/ Before(w, k)' = Before(w, k + 1)
        \/ Before(w, k)'.tag = "none" /\ Before(w, k + 1).tag # "HEADER"
    BY <2>3 DEF StreamTaken
  <2> QED
    BY <2>2, <2>4, <2>5
<1> QED
  BY <1>1, <1>2 DEF InPairs

LEMMA FarmerTakesHeader ==
    ASSUME FarmerOK, FarmerGetHeader
    PROVE  \E w \in Workers : StreamTaken(w, "HEADER")
<1>1. PICK w \in Workers : /\ Arrived(w, FarmerRank, {"HEADER"})
                           /\ fheader' = [source |-> w, trigger |-> FirstBody(w, FarmerRank)]
                           /\ chan' = Received(w, FarmerRank)
  BY DEF FarmerGetHeader
<1>2. Takes(w, FarmerRank)
  BY <1>1, RankFacts, ReceiveEffect DEF FarmerOK, EndsTypeOK
<1>3. /\ chan[w][FarmerRank] \in Seq(EventMessages) /\ chan[w][FarmerRank] # <<>>
      /\ chan'[w][FarmerRank] = Tail(chan[w][FarmerRank])
      /\ \A v \in Workers \ {w} : chan'[v][FarmerRank] = chan[v][FarmerRank]
  BY <1>2, RankFacts DEF FarmerOK, EndsTypeOK, StreamsOK, Takes
<1>4. /\ chan[w][FarmerRank][1].tag = "HEADER"
      /\ fheader'.source = w /\ fheader'.trigger = chan[w][FarmerRank][1].body
      /\ fpc = "header" /\ fpc' = "data"
  BY <1>1, <1>3, Taken DEF Arrived, FirstBody, FarmerGetHeader
<1>5. ASSUME NEW v \in Workers \ {w}, NEW k \in Nat \ {0} PROVE Before(v, k)' = Before(v, k)
  BY <1>3, <1>4 DEF Before
<1>6. ASSUME NEW k \in 1 .. Len(chan[w][FarmerRank])
      PROVE  Before(w, k)' = Before(w, k + 1)
  <2>1. k + 1 > 1 /\ (k + 1) - 1 = k
    OBVIOUS
  <2>2. CASE k = 1
    BY <1>4, <2>1, <2>2 DEF Before
  <2>3. CASE k > 1
    <3>1. chan'[w][FarmerRank][k - 1] = chan[w][FarmerRank][k]
      BY <1>3, <1>6, <2>3, Taken
    <3> QED
      BY <2>1, <2>3, <3>1 DEF Before
  <2> QED
    BY <2>2, <2>3
<1> QED
  BY <1>2, <1>4, <1>5, <1>6 DEF StreamTaken

LEMMA FarmerTakesData ==
    ASSUME FarmerOK, FarmerGetData, UNCHANGED outputVars
    PROVE  \E w \in Workers : w = fheader.source /\ StreamTaken(w, "DATA")
<1>0. PICK w \in Workers : w = fheader.source
  BY DEF FarmerOK, EndsTypeOK, FarmerTypeOK
<1>1. Takes(w, FarmerRank) /\ chan[w][FarmerRank][1].tag = "DATA"
  <2>1. /\ Takes(fheader.source, FarmerRank)
        /\ chan[fheader.source][FarmerRank][1].tag = "DATA"
    BY FarmerGetDataOK
  <2> QED
    BY <1>0, <2>1 DEF Takes
<1>2. /\ chan[w][FarmerRank] \in Seq(EventMessages) /\ chan[w][FarmerRank] # <<>>
      /\ chan'[w][FarmerRank] = Tail(chan[w][FarmerRank])
      /\ \A v \in Workers \ {w} : chan'[v][FarmerRank] = chan[v][FarmerRank]
  BY <1>1, RankFacts DEF FarmerOK, EndsTypeOK, StreamsOK, Takes
<1>3. fheader' = fheader /\ fpc = "data" /\ fpc' # "data"
  BY DEF FarmerGetData, AfterEmitting
<1>4. ASSUME NEW v \in Workers \ {w}, NEW k \in Nat \ {0} PROVE Before(v, k)' = Before(v, k)
  BY <1>0, <1>2, <1>3 DEF Before
<1>5. ASSUME NEW k \in 1 .. Len(chan[w][FarmerRank])
      PROVE  \/ Before(w, k)' = Before(w, k + 1)
             \/ k = 1 /\ Before(w, k)'.tag = "none" /\ Before(w, k + 1).tag = "DATA"
  <2>1. k + 1 > 1 /\ (k + 1) - 1 = k
    OBVIOUS
  <2>2. CASE k = 1
    BY <1>0, <1>1, <1>3, <2>1, <2>2 DEF Before
  <2>3. CASE k > 1
    <3>1. chan'[w][FarmerRank][k - 1] = chan[w][FarmerRank][k]
      BY <1>2, <1>5, <2>3, Taken
    <3> QED
      BY <2>1, <2>3, <3>1 DEF Before
  <2> QED
    BY <2>2, <2>3
<1> QED
  BY <1>0, <1>1, <1>4, <1>5 DEF StreamTaken

LEMMA FarmerTakesEnd ==
    ASSUME FarmerOK, FarmerGetEnd
    PROVE  \E w \in Workers : StreamTaken(w, "END")
<1>1. PICK w \in Workers : Arrived(w, FarmerRank, {"END"}) /\ chan' = Received(w, FarmerRank)
  BY DEF FarmerGetEnd
<1>2. Takes(w, FarmerRank)
  BY <1>1, RankFacts, ReceiveEffect DEF FarmerOK, EndsTypeOK
<1>3. /\ chan[w][FarmerRank] \in Seq(EventMessages) /\ chan[w][FarmerRank] # <<>>
      /\ chan'[w][FarmerRank] = Tail(chan[w][FarmerRank])
      /\ \A v \in Workers \ {w} : chan'[v][FarmerRank] = chan[v][FarmerRank]
  BY <1>2, RankFacts DEF FarmerOK, EndsTypeOK, StreamsOK, Takes
<1>4. /\ chan[w][FarmerRank][1].tag = "END"
      /\ fheader' = fheader /\ fpc = "header" /\ fpc' # "data"
  BY <1>1, <1>3, Taken DEF Arrived, FarmerGetEnd, AfterEmitting
<1>5. ASSUME NEW v \in Workers \ {w}, NEW k \in Nat \ {0} PROVE Before(v, k)' = Before(v, k)
  BY <1>3, <1>4 DEF Before
<1>6. ASSUME NEW k \in 1 .. Len(chan[w][FarmerRank])
      PROVE  \/ Before(w, k)' = Before(w, k + 1)
             \/ k = 1 /\ Before(w, k)'.tag = "none" /\ Before(w, k + 1).tag = "END"
  <2>1. k + 1 > 1 /\ (k + 1) - 1 = k
    OBVIOUS
  <2>2. CASE k = 1
    BY <1>4, <2>1, <2>2 DEF Before
  <2>3. CASE k > 1
    <3>1. chan'[w][FarmerRank][k - 1] = chan[w][FarmerRank][k]
      BY <1>3, <1>6, <2>3, Taken
    <3> QED
      BY <2>1, <2>3, <3>1 DEF Before
  <2> QED
    BY <2>2, <2>3
<1> QED
  BY <1>2, <1>4, <1>5, <1>6 DEF StreamTaken

\* What the farmer takes nothing from stays as it is.
LEMMA StreamsKept ==
    ASSUME InPairs, \A w \in Workers : chan'[w][FarmerRank] = chan[w][FarmerRank],
           fpc' = "data" <=> fpc = "data", fheader' = fheader
    PROVE  InPairs' /\ \A w \in Workers : \A k \in Nat : Before(w, k)' = Before(w, k)
<1>1. ASSUME NEW w \in Workers, NEW k PROVE Before(w, k)' = Before(w, k)
  BY DEF Before
<1> QED
  BY <1>1 DEF InPairs
-----------------------------------------------------------------------------
(***************************************************************************)
(* What a worker's stream ends with when a message is added to it, and     *)
(* when the farmer takes one from it.                                      *)
(***************************************************************************)
LEMMA LastKept ==
    ASSUME NEW w \in Workers, chan'[w][FarmerRank] = chan[w][FarmerRank],
           chan[w][FarmerRank] \in Seq(EventMessages),
           \A k \in Nat \ {0} : Before(w, k)' = Before(w, k)
    PROVE  LastSent(w)' = LastSent(w)
<1>1. Len(chan[w][FarmerRank]) + 1 \in Nat \ {0}
  OBVIOUS
<1>2. PICK k \in Nat \ {0} : k = Len(chan[w][FarmerRank]) + 1
  BY <1>1
<1>3. LastSent(w) = Before(w, k) /\ LastSent(w)' = Before(w, k)'
  BY <1>2 DEF LastSent, Before
<1> QED
  BY <1>3

LEMMA StreamSent ==
    ASSUME InPairs, NEW w \in Workers, NEW tag, NEW body, Longer(w, FarmerRank, tag, body),
           OthersKept(w, FarmerRank), UNCHANGED <<fpc, fheader>>,
           tag = "DATA" <=> LastSent(w).tag = "HEADER", LastSent(w).tag # "END"
    PROVE  /\ InPairs' /\ chan'[w][FarmerRank] # <<>>
           /\ LastSent(w)' = [tag |-> tag, body |-> body]
           /\ \A k \in 1 .. Len(chan[w][FarmerRank]) + 1 : Before(w, k)' = Before(w, k)
<1>0. PICK n \in Nat : n = Len(chan[w][FarmerRank])
  BY DEF Longer
<1>1. /\ n \in Nat /\ DOMAIN chan[w][FarmerRank] = 1 .. n
      /\ Len(chan'[w][FarmerRank]) = n + 1 /\ DOMAIN chan'[w][FarmerRank] = 1 .. n + 1
      /\ \A k \in 1 .. n : chan'[w][FarmerRank][k] = chan[w][FarmerRank][k]
      /\ chan'[w][FarmerRank][n + 1].tag = tag /\ chan'[w][FarmerRank][n + 1].body = body
  BY <1>0 DEF Longer
<1>2. ASSUME NEW k \in 1 .. n + 1 PROVE Before(w, k)' = Before(w, k)
  <2>1. k > 1 => k - 1 \in 1 .. n
    BY <1>1
  <2> QED
    BY <1>1, <2>1 DEF Before
<1>3. LastSent(w) = Before(w, n + 1)
  BY <1>0 DEF LastSent
<1>4. LastSent(w)' = [tag |-> tag, body |-> body]
  <2>1. n + 1 + 1 > 1 /\ n + 1 + 1 - 1 = n + 1
    BY <1>1
  <2>2. LastSent(w)' = [tag |-> chan'[w][FarmerRank][n + 1].tag,
                        body |-> chan'[w][FarmerRank][n + 1].body]
    BY <1>1, <2>1 DEF LastSent, Before
  <2> QED
    BY <1>1, <2>2
<1>5. InPairs'
  <2>1. SUFFICES ASSUME NEW v \in Workers, NEW k \in DOMAIN chan'[v][FarmerRank]
                 PROVE  /\ chan'[v][FarmerRank][k].tag = "DATA" <=> Before(v, k)'.tag = "HEADER"
                        /\ Before(v, k)'.tag # "END"
    BY DEF InPairs
  <2>2. CASE v # w
    <3>1. chan'[v][FarmerRank] = chan[v][FarmerRank]
      BY <2>2, RankFacts DEF OthersKept
    <3>2. Before(v, k)' = Before(v, k)
      BY <3>1 DEF Before
    <3> QED
      BY <3>1, <3>2 DEF InPairs
  <2>3. CASE v = w /\ k \in 1 .. n
    <3>1. /\ k \in DOMAIN chan[w][FarmerRank] /\ Before(w, k)' = Before(w, k)
          /\ chan'[w][FarmerRank][k] = chan[w][FarmerRank][k]
      BY <1>1, <1>2, <2>3
    <3> QED
      BY <2>3, <3>1 DEF InPairs
  <2>4. CASE v = w /\ k = n + 1
    <3>1. Before(w, n + 1)' = LastSent(w)
      BY <1>1, <1>2, <1>3
    <3> QED
      BY <1>1, <2>4, <3>1
  <2> QED
    BY <1>1, <2>2, <2>3, <2>4
<1>6. chan'[w][FarmerRank] # <<>>
  BY <1>1
<1> QED
  BY <1>0, <1>2, <1>4, <1>5, <1>6

LEMMA StreamReceived ==
    ASSUME FarmerOK, InPairs, NEW w \in Workers, NEW tag \in {"HEADER", "DATA", "END"},
           StreamTaken(w, tag)
    PROVE  /\ chan[w][FarmerRank] # <<>>
           /\ \/ LastSent(w)' = LastSent(w)
              \/ /\ chan'[w][FarmerRank] = <<>> /\ tag # "HEADER"
                 /\ LastSent(w)'.tag = "none" /\ LastSent(w).tag = tag
           /\ chan'[w][FarmerRank] = <<>> => LastSent(w).tag = tag
           /\ tag = "END" => chan'[w][FarmerRank] = <<>>
           /\ \A v \in Workers \ {w} : /\ chan'[v][FarmerRank] = chan[v][FarmerRank]
                                       /\ LastSent(v)' = LastSent(v)
<1>1. /\ Takes(w, FarmerRank) /\ chan[w][FarmerRank] # <<>>
      /\ chan[w][FarmerRank] \in Seq(EventMessages)
  BY DEF StreamTaken, Takes, FarmerOK, EndsTypeOK, StreamsOK
<1>2. /\ chan'[w][FarmerRank] \in Seq(EventMessages) /\ Shorter(w, FarmerRank)
      /\ OthersKept(w, FarmerRank)
  BY <1>1, RankFacts, TakenFrom
<1>3. PICK n \in Nat \ {0} : n = Len(chan[w][FarmerRank])
  BY <1>2 DEF Shorter
<1>4. /\ DOMAIN chan[w][FarmerRank] = 1 .. n
      /\ Len(chan'[w][FarmerRank]) = n - 1
      /\ chan[w][FarmerRank][1].tag = tag
  BY <1>2, <1>3 DEF Shorter, StreamTaken
<1>5. \A k \in 1 .. n :
          \/ Before(w, k)' = Before(w, k + 1)
          \/ k = 1 /\ tag # "HEADER" /\ Before(w, k)'.tag = "none" /\ Before(w, k + 1).tag = tag
  BY <1>3 DEF StreamTaken
<1>6. LastSent(w) = Before(w, n + 1) /\ LastSent(w)' = Before(w, n)'
  <2>1. n - 1 + 1 = n
    BY <1>3
  <2>2. LastSent(w) = Before(w, n + 1)
    BY <1>3 DEF LastSent
  <2>3. LastSent(w)' = Before(w, n)'
    BY <1>4, <2>1 DEF LastSent, Before
  <2> QED
    BY <2>2, <2>3
<1>7. n = 1 <=> chan'[w][FarmerRank] = <<>>
  <2>1. chan'[w][FarmerRank] = <<>> <=> Len(chan'[w][FarmerRank]) = 0
    BY <1>2
  <2>2. n - 1 = 0 <=> n = 1
    OBVIOUS
  <2> QED
    BY <1>4, <2>1, <2>2
<1>8. \/ LastSent(w)' = LastSent(w)
      \/ n = 1 /\ LastSent(w)'.tag = "none" /\ LastSent(w).tag = tag /\ tag # "HEADER"
  <2>1. n \in 1 .. n
    BY <1>3
  <2> QED
    BY <1>5, <1>6, <2>1
<1>9. n = 1 => LastSent(w).tag = tag
  BY <1>4, <1>6 DEF Before
<1>10. tag = "END" => n = 1
  <2>1. SUFFICES ASSUME tag = "END", n # 1 PROVE FALSE
    OBVIOUS
  <2>2. 2 \in DOMAIN chan[w][FarmerRank]
    <3>1. 2 \in 1 .. n
      BY <2>1
    <3> QED
      BY <1>4, <3>1
  <2>3. Before(w, 2).tag = "END"
    BY <1>4, <2>1 DEF Before
  <2> QED
    BY <2>2, <2>3 DEF InPairs
<1>11. ASSUME NEW v \in Workers \ {w}
       PROVE  chan'[v][FarmerRank] = chan[v][FarmerRank] /\ LastSent(v)' = LastSent(v)
  <2>1. /\ chan'[v][FarmerRank] = chan[v][FarmerRank]
        /\ chan[v][FarmerRank] \in Seq(EventMessages)
    BY <1>2, RankFacts DEF OthersKept, FarmerOK, EndsTypeOK, StreamsOK
  <2>2. \A k \in Nat \ {0} : Before(v, k)' = Before(v, k)
    BY DEF StreamTaken
  <2> QED
    BY <2>1, <2>2, LastKept
<1> QED
  BY <1>1, <1>7, <1>8, <1>9, <1>10, <1>11
-----------------------------------------------------------------------------
(***************************************************************************)
(* The outputter.                                                          *)
(***************************************************************************)
LEMMA OutputTakes ==
    ASSUME EndsTypeOK, NEW r \in Sources, Takes(r, OutputRank)
    PROVE  /\ StreamsOK' /\ Channels'
           /\ \A w \in Workers : chan'[w][FarmerRank] = chan[w][FarmerRank]
           /\ Head(chan[r][OutputRank]) = chan[r][OutputRank][1]
           /\ r = FarmerRank => chan[r][OutputRank][1] \in EventMessages
           /\ r # FarmerRank => /\ chan[r][OutputRank][1] \in PassedOn
                                /\ chan'[FarmerRank][OutputRank] = chan[FarmerRank][OutputRank]
<1>1. CASE r = FarmerRank
  <2>1. chan[r][OutputRank] \in Seq(EventMessages) /\ chan[r][OutputRank] # <<>>
    BY <1>1 DEF EndsTypeOK, StreamsOK, Takes
  <2>2. /\ Head(chan[r][OutputRank]) = chan[r][OutputRank][1]
        /\ chan[r][OutputRank][1] \in EventMessages
        /\ chan'[r][OutputRank] \in Seq(EventMessages)
    BY <2>1, Taken DEF Takes
  <2>3. /\ \A w \in Workers : chan'[w][FarmerRank] = chan[w][FarmerRank]
        /\ \A s \in Sources \ {FarmerRank} : chan'[s][OutputRank] = chan[s][OutputRank]
    BY <1>1, RankFacts DEF Takes
  <2> QED
    BY <1>1, <2>2, <2>3 DEF EndsTypeOK, StreamsOK, Takes
<1>2. CASE r # FarmerRank
  <2>1. chan[r][OutputRank] \in Seq(PassedOn) /\ chan[r][OutputRank] # <<>>
    BY <1>2 DEF EndsTypeOK, StreamsOK, Takes
  <2>2. /\ Head(chan[r][OutputRank]) = chan[r][OutputRank][1]
        /\ chan[r][OutputRank][1] \in PassedOn
        /\ chan'[r][OutputRank] \in Seq(PassedOn)
    BY <2>1, Taken DEF Takes
  <2>3. /\ \A w \in Workers : chan'[w][FarmerRank] = chan[w][FarmerRank]
        /\ \A s \in Sources \ {r} : chan'[s][OutputRank] = chan[s][OutputRank]
    BY RankFacts DEF Takes
  <2> QED
    BY <1>2, <2>2, <2>3, RankFacts DEF EndsTypeOK, StreamsOK, Takes
<1> QED
  BY <1>1, <1>2

(***************************************************************************)
(* The first message from the farmer carries the next number.              *)
(***************************************************************************)
LEMMA NextDelivered ==
    ASSUME FarmerOK, Delivery, Takes(FarmerRank, OutputRank)
    PROVE  /\ Carries(chan[FarmerRank][OutputRank][1], TakenIn + 1)
           /\ Len(chan'[FarmerRank][OutputRank]) = Len(chan[FarmerRank][OutputRank]) - 1
           /\ \A k \in DOMAIN chan'[FarmerRank][OutputRank] :
                 Carries(chan'[FarmerRank][OutputRank][k], TakenIn + 1 + k)
<1> DEFINE queue == chan[FarmerRank][OutputRank]
<1>1. queue \in Seq(EventMessages) /\ queue # <<>> /\ queue' = Tail(queue)
  BY DEF FarmerOK, EndsTypeOK, StreamsOK, Takes
<1>2. /\ Len(queue) \in Nat /\ Len(queue) > 0 /\ DOMAIN queue = 1 .. Len(queue)
      /\ Len(queue') = Len(queue) - 1 /\ DOMAIN queue' = 1 .. Len(queue) - 1
      /\ \A k \in 1 .. Len(queue) - 1 : queue'[k] = queue[k + 1]
  BY <1>1, Taken
<1>3. ASSUME NEW k \in DOMAIN queue
      PROVE  Carries(queue[k], TakenIn + k)
  BY DEF Delivery
<1>4. ASSUME NEW k \in DOMAIN queue'
      PROVE  Carries(queue'[k], TakenIn + 1 + k)
  <2>1. k + 1 \in DOMAIN queue /\ queue'[k] = queue[k + 1]
    BY <1>2
  <2>2. Carries(queue[k + 1], TakenIn + (k + 1))
    BY <1>3, <2>1
  <2>3. TakenIn + (k + 1) = TakenIn + 1 + k
    BY <1>2, SorterNumbers
  <2> QED
    BY <2>1, <2>2, <2>3
<1>5. Carries(queue[1], TakenIn + 1)
  BY <1>2, <1>3
<1> QED
  BY <1>2, <1>4, <1>5

LEMMA OutputGetHeaderOK ==
    ASSUME FarmerOK, Delivery, OutputGetHeader, UNCHANGED farmerVars
    PROVE  FarmerOK' /\ Delivery'
<1>1. PICK r \in Sources :
         /\ Arrived(r, OutputRank, {"HEADER", "PASSTHROUGH"})
         /\ opc' = IF Head(chan[r][OutputRank]).tag = "HEADER" THEN "event" ELSE "item"
         /\ oheader' = [source |-> r, trigger |-> FirstBody(r, OutputRank)]
         /\ chan' = Received(r, OutputRank)
  BY DEF OutputGetHeader, OutputRank
<1>2. Takes(r, OutputRank)
  BY <1>1, RankFacts, ReceiveEffect DEF FarmerOK, EndsTypeOK
<1> DEFINE m == chan[r][OutputRank][1]
<1>3. /\ StreamsOK' /\ Channels'
      /\ Head(chan[r][OutputRank]) = m
      /\ r = FarmerRank => m \in EventMessages
      /\ r # FarmerRank => /\ m \in PassedOn
                           /\ chan'[FarmerRank][OutputRank] = chan[FarmerRank][OutputRank]
  BY <1>2, OutputTakes DEF FarmerOK
<1>4. /\ m.tag \in {"HEADER", "PASSTHROUGH"}
      /\ opc' = IF m.tag = "HEADER" THEN "event" ELSE "item"
      /\ oheader' = [source |-> r, trigger |-> m.body]
      /\ UNCHANGED written /\ opc = "header"
  BY <1>1, <1>3 DEF Arrived, FirstBody, OutputGetHeader
<1>5. UNCHANGED <<fpc, m_nEndsLeft, fheader, fsent>> /\ UNCHANGED sorterVars
      /\ UNCHANGED <<emitted, flushed>>
  BY DEF farmerVars, sorterVars
<1>6. /\ r = FarmerRank => m.tag = "HEADER"
      /\ r # FarmerRank => m.tag = "PASSTHROUGH"
      /\ m.body \in Triggers
  BY <1>3, <1>4, EventMessage, PassedOnMessage
<1>7. FarmerOK'
  <2>1. OutputTypeOK'
    BY <1>4, <1>6 DEF FarmerOK, EndsTypeOK, OutputTypeOK
  <2>2. FarmerTypeOK' /\ FarmerControl'
    BY <1>5 DEF FarmerOK, EndsTypeOK, FarmerTypeOK, SorterTypeOK, sorterVars, FarmerControl
  <2> QED
    BY <1>3, <2>1, <2>2 DEF FarmerOK, EndsTypeOK
<1>8. EventPlaces' = EventPlaces /\ WrittenEvents' = WrittenEvents
  BY <1>4 DEF EventPlaces, WrittenEvents
<1>9. WrittenAsEmitted' /\ SentOut' = SentOut
  BY <1>5, <1>8 DEF Delivery, WrittenAsEmitted, SentOut
<1>10. \A a, number : Carries(a, number) => Carries(a, number)'
  BY <1>5 DEF Carries
<1>11. CASE r = FarmerRank
  <2>1. /\ Carries(m, TakenIn + 1)
        /\ Len(chan'[FarmerRank][OutputRank]) = Len(chan[FarmerRank][OutputRank]) - 1
        /\ \A k \in DOMAIN chan'[FarmerRank][OutputRank] :
              Carries(chan'[FarmerRank][OutputRank][k], TakenIn + 1 + k)
    BY <1>2, <1>11, NextDelivered
  <2>2. /\ TakenIn' = TakenIn + 1 /\ TakenIn = 2 * Cardinality(EventPlaces)
        /\ Cardinality(EventPlaces) \in Nat
    BY <1>4, <1>6, <1>8, <1>11, SorterNumbers DEF TakenIn
  <2>3. /\ Cardinality(EventPlaces) + 1 \in DOMAIN emitted
        /\ m.body = emitted[Cardinality(EventPlaces) + 1].trigger
    <3>1. PICK e \in DOMAIN emitted : TakenIn + 1 = 2 * e - 1 /\ m.body = emitted[e].trigger
      BY <1>6, <1>11, <2>1 DEF Carries
    <3>2. e = Cardinality(EventPlaces) + 1
      BY <2>2, <3>1, SorterNumbers
    <3> QED
      BY <3>1, <3>2
  <2>4. OutputControl'
    BY <1>4, <1>5, <1>6, <1>8, <1>11, <2>3 DEF OutputControl
  <2>5. ASSUME NEW k \in DOMAIN chan'[FarmerRank][OutputRank]
        PROVE  Carries(chan[FarmerRank][OutputRank][k], TakenIn + k)'
    <3>1. PICK a, number : /\ a = chan'[FarmerRank][OutputRank][k]
                           /\ number = TakenIn + 1 + k
      OBVIOUS
    <3>2. Carries(a, number)'
      BY <1>10, <2>1, <3>1
    <3>3. number = TakenIn' + k
      BY <2>2, <3>1
    <3> QED
      BY <3>1, <3>2, <3>3
  <2>6. SentOut' = TakenIn' + Len(chan'[FarmerRank][OutputRank])
    BY <1>9, <2>1, <2>2, SorterNumbers DEF Delivery
  <2> QED
    BY <1>7, <1>9, <2>4, <2>5, <2>6 DEF Delivery
<1>12. CASE r # FarmerRank
  <2>1. TakenIn' = TakenIn
    BY <1>4, <1>6, <1>8, <1>12 DEF TakenIn
  <2>2. OutputControl'
    BY <1>4, <1>6, <1>12 DEF OutputControl
  <2>3. ASSUME NEW k \in DOMAIN chan'[FarmerRank][OutputRank]
        PROVE  Carries(chan[FarmerRank][OutputRank][k], TakenIn + k)'
    <3>1. PICK a, number : a = chan[FarmerRank][OutputRank][k] /\ number = TakenIn + k
      OBVIOUS
    <3>2. Carries(a, number)
      BY <1>3, <1>12, <2>3, <3>1 DEF Delivery
    <3>3. Carries(a, number)'
      BY <1>10, <3>2
    <3>4. a = chan'[FarmerRank][OutputRank][k] /\ number = TakenIn' + k
      BY <1>3, <1>12, <2>1, <3>1
    <3> QED
      BY <3>3, <3>4
  <2>4. SentOut' = TakenIn' + Len(chan'[FarmerRank][OutputRank])
    BY <1>3, <1>9, <1>12, <2>1 DEF Delivery
  <2> QED
    BY <1>7, <1>9, <2>2, <2>3, <2>4 DEF Delivery
<1> QED
  BY <1>7, <1>11, <1>12

LEMMA OutputEventOK ==
    ASSUME FarmerOK, Delivery, OutputEvent, UNCHANGED farmerVars
    PROVE  /\ FarmerOK' /\ Delivery'
           /\ Takes(FarmerRank, OutputRank)
           /\ chan[FarmerRank][OutputRank][1].tag = "DATA"
           /\ Cardinality(EventPlaces') = Cardinality(EventPlaces) + 1
           /\ Cardinality(EventPlaces) + 1 \in DOMAIN emitted
           /\ WrittenEvents' =
                 Append(WrittenEvents,
                        [trigger |-> emitted[Cardinality(EventPlaces) + 1].trigger,
                         data |-> emitted[Cardinality(EventPlaces) + 1].event])
<1> DEFINE n == Cardinality(EventPlaces) + 1
           m == chan[FarmerRank][OutputRank][1]
           record == [kind |-> "event", trigger |-> oheader.trigger, data |-> m.body]
<1>1. /\ oheader.source = FarmerRank /\ opc = "event" /\ opc' = "header"
      /\ n \in DOMAIN emitted /\ oheader.trigger = emitted[n].trigger
      /\ oheader' = oheader
  BY DEF OutputEvent, Delivery, OutputControl
<1>2. Takes(FarmerRank, OutputRank)
  BY <1>1, RankFacts, ReceiveEffect DEF FarmerOK, EndsTypeOK, OutputEvent, OutputRank
<1>3. /\ StreamsOK' /\ Channels'
      /\ Head(chan[FarmerRank][OutputRank]) = m
      /\ m \in EventMessages
  BY <1>2, RankFacts, OutputTakes DEF FarmerOK
<1>4. m.tag = "DATA" /\ m.body \in Events
  <2>1. m.tag = "DATA"
    BY <1>1, <1>3 DEF OutputEvent, Arrived, OutputRank
  <2> QED
    BY <1>3, <2>1, EventMessage
<1>5. written' = Append(written, record)
  BY <1>1, <1>3 DEF OutputEvent, FirstBody, OutputRank
<1>6. record \in FileRecord /\ written \in Seq(FileRecord)
  BY <1>4, OutputTypeRecord DEF FarmerOK, EndsTypeOK, OutputTypeOK, FileRecord
<1>7. UNCHANGED <<fpc, m_nEndsLeft, fheader, fsent>> /\ UNCHANGED sorterVars
      /\ UNCHANGED <<emitted, flushed>>
  BY DEF farmerVars, sorterVars
<1>8. FarmerOK'
  <2>1. written' \in Seq(FileRecord)
    <3> HIDE DEF record
    <3> QED
      BY <1>5, <1>6, Appended
  <2>2. OutputTypeOK'
    BY <1>1, <2>1 DEF FarmerOK, EndsTypeOK, OutputTypeOK, FileRecord
  <2>3. FarmerTypeOK' /\ FarmerControl'
    BY <1>7 DEF FarmerOK, EndsTypeOK, FarmerTypeOK, SorterTypeOK, sorterVars, FarmerControl
  <2> QED
    BY <1>3, <2>2, <2>3 DEF FarmerOK, EndsTypeOK
<1>9. /\ Cardinality(EventPlaces') = n
      /\ WrittenEvents' = Append(WrittenEvents, [trigger |-> oheader.trigger, data |-> m.body])
  <2>1. /\ Cardinality(EventPlaces') = n
        /\ WrittenEvents' =
              Append(WrittenEvents, [trigger |-> record.trigger, data |-> record.data])
    <3>1. record.kind = "event"
      OBVIOUS
    <3> HIDE DEF record
    <3> QED
      BY <1>5, <1>6, <3>1, EventWritten
  <2> QED
    BY <2>1
<1>10. /\ Carries(m, TakenIn + 1)
       /\ Len(chan'[FarmerRank][OutputRank]) = Len(chan[FarmerRank][OutputRank]) - 1
       /\ \A k \in DOMAIN chan'[FarmerRank][OutputRank] :
             Carries(chan'[FarmerRank][OutputRank][k], TakenIn + 1 + k)
  BY <1>2, NextDelivered
<1>11. /\ TakenIn' = TakenIn + 1 /\ TakenIn = 2 * (n - 1) + 1 /\ n \in Nat
  <2>1. n - 1 = Cardinality(EventPlaces) /\ n \in Nat
    BY SorterNumbers
  <2> HIDE DEF n
  <2> QED
    BY <1>1, <1>9, <2>1 DEF TakenIn
<1>12. m.body = emitted[n].event
  <2>1. PICK e \in DOMAIN emitted : TakenIn + 1 = 2 * e /\ m.body = emitted[e].event
    BY <1>4, <1>10 DEF Carries
  <2>2. e = n
    BY <1>11, <2>1, SorterNumbers
  <2> QED
    BY <2>1, <2>2
<1>13. WrittenAsEmitted'
  <2>1. /\ WrittenEvents \in Seq(EventRecord) /\ Len(WrittenEvents) = n - 1
        /\ WrittenEvents' \in Seq(EventRecord)
    <3>1. written' \in Seq(FileRecord)
      <4> HIDE DEF record
      <4> QED
        BY <1>5, <1>6, Appended
    <3>2. (written \in Seq(FileRecord))'
      BY <3>1
    <3>3. EventsAreRecords'
      BY <3>2, EventsWritten, PTL
    <3> QED
      BY <1>6, <1>11, <3>3, EventsWritten DEF EventsAreRecords
  <2> DEFINE e == [trigger |-> oheader.trigger, data |-> m.body]
  <2>2. e \in EventRecord /\ e.trigger = emitted[n].trigger /\ e.data = emitted[n].event
    BY <1>1, <1>6, <1>12 DEF FileRecord, EventRecord
  <2>3. /\ \A k \in 1 .. n - 1 : WrittenEvents'[k] = WrittenEvents[k]
        /\ WrittenEvents'[n] = e
    <3> HIDE DEF e, n
    <3> QED
      BY <1>9, <1>11, <2>1, <2>2, Appended DEF e
  <2>4. \A k \in 1 .. n - 1 : /\ k \in DOMAIN emitted
                              /\ WrittenEvents[k].trigger = emitted[k].trigger
                              /\ WrittenEvents[k].data = emitted[k].event
    BY SorterNumbers DEF Delivery, WrittenAsEmitted
  <2> HIDE DEF e, n
  <2> QED
    <3>1. ASSUME NEW k \in 1 .. n
          PROVE  /\ k \in DOMAIN emitted
                 /\ WrittenEvents'[k].trigger = emitted[k].trigger
                 /\ WrittenEvents'[k].data = emitted[k].event
      <4>1. CASE k \in 1 .. n - 1
        BY <2>3, <2>4, <4>1
      <4>2. CASE k = n
        BY <1>1, <2>2, <2>3, <4>2
      <4> QED
        BY <1>11, <4>1, <4>2
    <3>2. Cardinality(EventPlaces') = n /\ emitted' = emitted
      BY <1>7, <1>9
    <3> QED
      BY <3>1, <3>2 DEF WrittenAsEmitted
<1>14. OutputControl'
  BY <1>1 DEF OutputControl
<1>15. SentOut' = SentOut
  BY <1>7 DEF SentOut
<1>16. ASSUME NEW k \in DOMAIN chan'[FarmerRank][OutputRank]
       PROVE  Carries(chan[FarmerRank][OutputRank][k], TakenIn + k)'
  <2>1. PICK a, number : a = chan'[FarmerRank][OutputRank][k] /\ number = TakenIn + 1 + k
    OBVIOUS
  <2>2. Carries(a, number)'
    BY <1>7, <1>10, <2>1 DEF Carries
  <2>3. number = TakenIn' + k
    BY <1>11, <2>1
  <2> QED
    BY <2>1, <2>2, <2>3
<1>17. SentOut' = TakenIn' + Len(chan'[FarmerRank][OutputRank])
  BY <1>10, <1>11, <1>15, SorterNumbers DEF Delivery
<1> QED
  BY <1>1, <1>2, <1>4, <1>8, <1>9, <1>12, <1>13, <1>14, <1>16, <1>17 DEF Delivery

\* A passed on item is written, or the outputter leaves: no event is touched.
LEMMA DeliveryUntouched ==
    ASSUME FarmerOK, Delivery, UNCHANGED farmerVars, opc' # "event", opc # "event",
           chan'[FarmerRank][OutputRank] = chan[FarmerRank][OutputRank],
           EventPlaces' = EventPlaces, WrittenEvents' = WrittenEvents,
           TakenIn' = TakenIn, OutputControl'
    PROVE  Delivery'
<1>1. UNCHANGED <<fpc, fsent, emitted>>
  BY DEF farmerVars, sorterVars
<1>2. WrittenAsEmitted' /\ SentOut' = SentOut
  BY <1>1 DEF Delivery, WrittenAsEmitted, SentOut
<1>3. ASSUME NEW k \in DOMAIN chan'[FarmerRank][OutputRank]
      PROVE  Carries(chan[FarmerRank][OutputRank][k], TakenIn + k)'
  <2>1. PICK a, number : a = chan[FarmerRank][OutputRank][k] /\ number = TakenIn + k
    OBVIOUS
  <2>2. Carries(a, number)
    BY <2>1, <1>3 DEF Delivery
  <2>3. Carries(a, number)'
    BY <1>1, <2>2 DEF Carries
  <2> QED
    BY <2>1, <2>3
<1> QED
  BY <1>2, <1>3 DEF Delivery

LEMMA OutputItemOK ==
    ASSUME FarmerOK, Delivery, OutputItem, UNCHANGED farmerVars
    PROVE  /\ FarmerOK' /\ Delivery' /\ WrittenEvents' = WrittenEvents
           /\ oheader.source \in Sources \ {FarmerRank}
           /\ Takes(oheader.source, OutputRank)
           /\ chan[oheader.source][OutputRank][1].tag = "DATA"
           /\ chan[oheader.source][OutputRank][1].body \in Events
           /\ written' = Append(written,
                 [kind |-> "item", trigger |-> 0,
                  data |-> chan[oheader.source][OutputRank][1].body])
<1>1. /\ oheader.source \in Sources /\ oheader.source # FarmerRank
      /\ opc = "item" /\ opc' = "header" /\ oheader' = oheader
  BY DEF OutputItem, Delivery, OutputControl, FarmerOK, EndsTypeOK, OutputTypeOK
<1>2. PICK r \in Sources \ {FarmerRank} : r = oheader.source
  BY <1>1
<1> DEFINE m == chan[r][OutputRank][1]
           record == [kind |-> "item", trigger |-> 0, data |-> m.body]
<1>3. Takes(r, OutputRank)
  BY <1>2, RankFacts, ReceiveEffect DEF FarmerOK, EndsTypeOK, OutputItem, OutputRank
<1>4. /\ StreamsOK' /\ Channels'
      /\ Head(chan[r][OutputRank]) = m
      /\ m \in PassedOn
      /\ chan'[FarmerRank][OutputRank] = chan[FarmerRank][OutputRank]
  BY <1>3, OutputTakes DEF FarmerOK
<1>5. m.tag = "DATA" /\ m.body \in Events
  <2>1. m.tag = "DATA"
    BY <1>2, <1>4 DEF OutputItem, Arrived, OutputRank
  <2> QED
    BY <1>4, <2>1, PassedOnMessage
<1>6. written' = Append(written, record)
  BY <1>2, <1>4 DEF OutputItem, FirstBody, OutputRank
<1>7. record \in FileRecord /\ written \in Seq(FileRecord) /\ record.kind = "item"
  BY <1>5, OutputTypeRecord, MaxTriggerAssumption
  DEF FarmerOK, EndsTypeOK, FileRecord, Triggers
<1>8. EventPlaces' = EventPlaces /\ WrittenEvents' = WrittenEvents
                                 /\ written' \in Seq(FileRecord)
  <2> HIDE DEF record
  <2> QED
    BY <1>6, <1>7, ItemWritten, Appended
<1>9. FarmerOK'
  <2>1. OutputTypeOK'
    BY <1>1, <1>8 DEF FarmerOK, EndsTypeOK, OutputTypeOK, FileRecord
  <2>2. FarmerTypeOK' /\ FarmerControl'
    BY DEF FarmerOK, EndsTypeOK, FarmerTypeOK, SorterTypeOK, sorterVars, farmerVars,
           FarmerControl
  <2> QED
    BY <1>4, <2>1, <2>2 DEF FarmerOK, EndsTypeOK
<1>10. OutputControl' /\ TakenIn' = TakenIn
  BY <1>1, <1>8 DEF OutputControl, TakenIn
<1>11. Delivery'
  BY <1>1, <1>4, <1>8, <1>10, DeliveryUntouched
<1> QED
  BY <1>2, <1>3, <1>5, <1>6, <1>8, <1>9, <1>11 DEF Takes

LEMMA OutputGetEndOK ==
    ASSUME FarmerOK, Delivery, OutputGetEnd, UNCHANGED farmerVars
    PROVE  FarmerOK' /\ Delivery' /\ Takes(FarmerRank, OutputRank)
<1>1. PICK r \in Sources : Arrived(r, OutputRank, {"END"}) /\ chan' = Received(r, OutputRank)
  BY DEF OutputGetEnd, OutputRank
<1>2. Takes(r, OutputRank)
  BY <1>1, RankFacts, ReceiveEffect DEF FarmerOK, EndsTypeOK
<1>3. /\ StreamsOK' /\ Channels'
      /\ Head(chan[r][OutputRank]) = chan[r][OutputRank][1]
      /\ r # FarmerRank => chan[r][OutputRank][1] \in PassedOn
  BY <1>2, OutputTakes DEF FarmerOK
<1>4. chan[r][OutputRank][1].tag = "END"
  BY <1>1, <1>3 DEF Arrived
<1>5. r = FarmerRank
  BY <1>3, <1>4, PassedOnMessage
<1>6. opc = "header" /\ opc' = "finalize" /\ UNCHANGED <<oheader, written>>
  BY DEF OutputGetEnd
<1>7. UNCHANGED <<fpc, fsent, emitted>>
  BY DEF farmerVars, sorterVars
<1>8. FarmerOK'
  <2>1. OutputTypeOK'
    BY <1>6 DEF FarmerOK, EndsTypeOK, OutputTypeOK
  <2>2. FarmerTypeOK' /\ FarmerControl'
    BY DEF FarmerOK, EndsTypeOK, FarmerTypeOK, SorterTypeOK, sorterVars, farmerVars,
           FarmerControl
  <2> QED
    BY <1>3, <2>1, <2>2 DEF FarmerOK, EndsTypeOK
<1>9. EventPlaces' = EventPlaces /\ WrittenEvents' = WrittenEvents
  BY <1>6 DEF EventPlaces, WrittenEvents
<1>10. /\ Carries(chan[FarmerRank][OutputRank][1], TakenIn + 1)
       /\ Len(chan'[FarmerRank][OutputRank]) = Len(chan[FarmerRank][OutputRank]) - 1
       /\ \A k \in DOMAIN chan'[FarmerRank][OutputRank] :
             Carries(chan'[FarmerRank][OutputRank][k], TakenIn + 1 + k)
  BY <1>2, <1>5, NextDelivered
<1>11. TakenIn' = TakenIn + 1 /\ TakenIn = 2 * Cardinality(EventPlaces)
  BY <1>6, <1>9, SorterNumbers DEF TakenIn
<1>12. fpc = "finalize" /\ Cardinality(EventPlaces) = Len(emitted)
  <2>1. TakenIn + 1 = 2 * Len(emitted) + 1 /\ fpc = "finalize"
    BY <1>4, <1>5, <1>10 DEF Carries
  <2> QED
    BY <1>11, <2>1, SorterNumbers
<1>13. OutputControl' /\ WrittenAsEmitted' /\ SentOut' = SentOut
  BY <1>6, <1>7, <1>9, <1>12 DEF Delivery, OutputControl, WrittenAsEmitted, SentOut
<1>14. ASSUME NEW k \in DOMAIN chan'[FarmerRank][OutputRank]
       PROVE  Carries(chan[FarmerRank][OutputRank][k], TakenIn + k)'
  <2>1. PICK a, number : a = chan'[FarmerRank][OutputRank][k] /\ number = TakenIn + 1 + k
    OBVIOUS
  <2>2. Carries(a, number)'
    BY <1>7, <1>10, <2>1 DEF Carries
  <2>3. number = TakenIn' + k
    BY <1>11, <2>1
  <2> QED
    BY <2>1, <2>2, <2>3
<1>15. SentOut' = TakenIn' + Len(chan'[FarmerRank][OutputRank])
  BY <1>10, <1>11, <1>13, SorterNumbers DEF Delivery
<1> QED
  BY <1>2, <1>5, <1>8, <1>13, <1>14, <1>15 DEF Delivery

LEMMA OutputDelivers ==
    ASSUME FarmerOK, Delivery, OutputNext, UNCHANGED farmerVars
    PROVE  FarmerOK' /\ Delivery'
BY OutputGetHeaderOK, OutputEventOK, OutputItemOK, OutputGetEndOK DEF OutputNext

\* The steps of the other ranks.
LEMMA OthersDeliver ==
    ASSUME FarmerOK, Delivery, StreamsOK', Channels', UNCHANGED farmerVars, UNCHANGED outputVars,
           chan'[FarmerRank][OutputRank] = chan[FarmerRank][OutputRank]
    PROVE  FarmerOK' /\ Delivery'
<1>1. UNCHANGED <<fpc, fsent, emitted>> /\ UNCHANGED <<opc, oheader, written>>
  BY DEF farmerVars, sorterVars, outputVars
<1>2. OutputTypeOK' /\ FarmerTypeOK' /\ FarmerControl'
  BY DEF FarmerOK, EndsTypeOK, FarmerTypeOK, SorterTypeOK, sorterVars, farmerVars,
         FarmerControl, outputVars, OutputTypeOK
<1>3. EventPlaces' = EventPlaces /\ WrittenEvents' = WrittenEvents
  BY <1>1 DEF EventPlaces, WrittenEvents
<1>4. OutputControl' /\ WrittenAsEmitted' /\ SentOut' = SentOut /\ TakenIn' = TakenIn
  BY <1>1, <1>3 DEF Delivery, OutputControl, WrittenAsEmitted, SentOut, TakenIn
<1>5. ASSUME NEW k \in DOMAIN chan'[FarmerRank][OutputRank]
      PROVE  Carries(chan[FarmerRank][OutputRank][k], TakenIn + k)'
  <2>1. PICK a, number : a = chan[FarmerRank][OutputRank][k] /\ number = TakenIn + k
    OBVIOUS
  <2>2. Carries(a, number)'
    BY <1>1, <1>5, <2>1 DEF Delivery, Carries
  <2> QED
    BY <1>4, <2>1, <2>2
<1> QED
  BY <1>2, <1>4, <1>5 DEF Delivery, FarmerOK, EndsTypeOK
=============================================================================
