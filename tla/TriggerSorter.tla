--------------------------- MODULE TriggerSorter ---------------------------
(***************************************************************************)
(* CTriggerSorter (base/TriggerSorter.cpp): parameter items arrive in any  *)
(* order of their trigger numbers and are handed to emitItem in ascending  *)
(* order.  The farmer is its only client: it calls addItem once for every  *)
(* event of the run and flush once, after the last worker has ended.       *)
(***************************************************************************)
EXTENDS Naturals, Sequences, FiniteSets

CONSTANTS MaxTrigger,   \* the largest std::uint64_t, scaled down for TLC
          Events        \* what an item carries besides its trigger number

ASSUME MaxTriggerAssumption == MaxTrigger \in Nat

Triggers == 0 .. MaxTrigger
Item == [trigger : Triggers, event : Events]
Holdings == UNION {[S -> Events] : S \in SUBSET Triggers}

VARIABLES m_items,              \* the std::map of the items that must wait
          m_lastEmittedTrigger, \* starts at 0-1, the largest unsigned number
          emitted,              \* every item given to emitItem, in order
          given,                \* history: the event addItem got per trigger
          flushed               \* whether the client has called flush

sorterVars == <<m_items, m_lastEmittedTrigger, emitted, given, flushed>>

SorterTypeOK ==
    /\ m_items \in Holdings
    /\ m_lastEmittedTrigger \in Triggers
    /\ emitted \in Seq(Item)
    /\ given \in Holdings
    /\ flushed \in BOOLEAN

SorterInit ==
    /\ m_items = [t \in {} |-> {}]
    /\ m_lastEmittedTrigger = MaxTrigger
    /\ emitted = <<>>
    /\ given = [t \in {} |-> {}]
    /\ flushed = FALSE
-----------------------------------------------------------------------------
\* Unsigned increment.
NextTrigger(t) == IF t = MaxTrigger THEN 0 ELSE t + 1

Holding(items, item) ==
    [t \in DOMAIN items \union {item.trigger} |->
        IF t = item.trigger THEN item.event ELSE items[t]]

Without(items, S) == [t \in DOMAIN items \ S |-> items[t]]

HeldItem(items, t) == [trigger |-> t, event |-> items[t]]

(***************************************************************************)
(* The loop of addItem looks at the first key of the map only.  It emits   *)
(* the n keys after t when they are all present and nothing in the map     *)
(* sorts before them; a key at or below t, left there by a trigger number  *)
(* that came a second time, stops the loop at once.                        *)
(***************************************************************************)
DrainsNothing(items, t, n) == n = 0  \* mutant: no loop after the emission

Drains(items, t, n) ==
    \A k \in 1 .. n : /\ t + k \in DOMAIN items
                      /\ \A u \in DOMAIN items : t < u

\* The item is not the next one: it waits in the map.
HoldBack(item) ==
    /\ item.trigger # NextTrigger(m_lastEmittedTrigger)
    /\ m_items' = Holding(m_items, item)
    /\ UNCHANGED <<m_lastEmittedTrigger, emitted>>

\* Mutant: the number of emitted triggers is off by one.
EmitRunMiscounted(item, n) ==
    /\ item.trigger = NextTrigger(m_lastEmittedTrigger)
    /\ Drains(m_items, item.trigger, n)
    /\ ~ Drains(m_items, item.trigger, n + 1)
    /\ m_items' = Without(m_items, item.trigger + 1 .. item.trigger + n)
    /\ m_lastEmittedTrigger' = item.trigger + n + 1
    /\ emitted' = Append(emitted, item) \o
                     [k \in 1 .. n |-> HeldItem(m_items, item.trigger + k)]

\* The item is the next one: it is emitted, and the n items it unblocks.
EmitRun(item, n) ==
    /\ item.trigger = NextTrigger(m_lastEmittedTrigger)
    /\ Drains(m_items, item.trigger, n)
    /\ ~ Drains(m_items, item.trigger, n + 1)
    /\ m_items' = Without(m_items, item.trigger + 1 .. item.trigger + n)
    /\ m_lastEmittedTrigger' = item.trigger + n
    /\ emitted' = Append(emitted, item) \o
                     [k \in 1 .. n |-> HeldItem(m_items, item.trigger + k)]

\* Mutant: whatever comes is emitted at once.
AddItemUnsorted(item) ==
    /\ given' = Holding(given, item)
    /\ emitted' = Append(emitted, item)
    /\ m_lastEmittedTrigger' = item.trigger
    /\ UNCHANGED <<m_items, flushed>>

\* The whole of addItem.
AddItem(item) ==
    /\ given' = Holding(given, item)
    /\ UNCHANGED flushed
    /\ HoldBack(item) \/ \E n \in 0 .. MaxTrigger : EmitRun(item, n)

\* Mutant: a container without an order, such as a hash map.
InAnyOrder(S) ==
    {s \in [1 .. Cardinality(S) -> S] :
        \A i, j \in 1 .. Cardinality(S) : i # j => s[i] # s[j]}

\* The keys of the map in the order in which an iterator visits them.
InMapOrder(S) ==
    {s \in [1 .. Cardinality(S) -> S] :
        \A i, j \in 1 .. Cardinality(S) : i < j => s[i] < s[j]}

\* Mutant: the map is cleared without being emitted.
FlushDiscards ==
    /\ m_items' = [t \in {} |-> {}]
    /\ flushed' = TRUE
    /\ UNCHANGED <<m_lastEmittedTrigger, given, emitted>>

\* The whole of flush, which leaves m_lastEmittedTrigger alone.
Flush ==
    /\ \E keys \in InMapOrder(DOMAIN m_items) :
          emitted' = emitted \o
             [k \in 1 .. Cardinality(DOMAIN m_items) |-> HeldItem(m_items, keys[k])]
    /\ m_items' = [t \in {} |-> {}]
    /\ flushed' = TRUE
    /\ UNCHANGED <<m_lastEmittedTrigger, given>>
-----------------------------------------------------------------------------
(***************************************************************************)
(* The client: the dealer numbers every event differently, so no trigger   *)
(* comes twice.  Any trigger may be missing, as when a worker has died.    *)
(***************************************************************************)
SorterNext ==
    /\ ~ flushed
    /\ \/ \E item \in Item : item.trigger \notin DOMAIN given /\ AddItem(item)
       \/ Flush

SorterSpec == SorterInit /\ [][SorterNext]_sorterVars /\ WF_sorterVars(SorterNext)
-----------------------------------------------------------------------------
EmittedTriggers == {emitted[i].trigger : i \in DOMAIN emitted}

(***************************************************************************)
(* Until flush the output is the unbroken run of triggers 0, 1, 2, ...     *)
(***************************************************************************)
ContiguousUntilFlush ==
    ~ flushed => \A i \in DOMAIN emitted : emitted[i].trigger = i - 1

(***************************************************************************)
(* Flushing what is left behind a missing trigger keeps the output in      *)
(* strictly ascending order: nothing is emitted twice or out of order.     *)
(***************************************************************************)
Ascending ==
    \A i, j \in DOMAIN emitted : i < j => emitted[i].trigger < emitted[j].trigger

(***************************************************************************)
(* Every item given to addItem is waiting or was emitted, never both, and  *)
(* with the event it came with; once flushed, every one was emitted.       *)
(***************************************************************************)
NothingLost ==
    /\ DOMAIN given = EmittedTriggers \union DOMAIN m_items
    /\ EmittedTriggers \intersect DOMAIN m_items = {}
    /\ \A i \in DOMAIN emitted : emitted[i].event = given[emitted[i].trigger]
    /\ \A t \in DOMAIN m_items : m_items[t] = given[t]
    /\ flushed => DOMAIN m_items = {}

(***************************************************************************)
(* An item that can go out is never kept: when the triggers given so far   *)
(* are exactly 0 .. n-1 nothing waits, whatever the order they came in, so *)
(* "if the application operates properly" flush "should not really do      *)
(* anything" (TriggerSorter.cpp:94).                                       *)
(***************************************************************************)
NoNeedToFlush ==
    \A n \in 0 .. MaxTrigger + 1 :
        DOMAIN given = {t \in Triggers : t < n} => DOMAIN m_items = {}
=============================================================================
