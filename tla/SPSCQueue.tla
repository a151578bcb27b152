------------------------------ MODULE SPSCQueue ------------------------------
(***************************************************************************)
(* The lock-free ring between two engine threads (transport/spsc_queue.h). *)
(* try_push and try_pop are cut at every access the other thread can see:  *)
(* the acquire load of the other side's index, the copy of the slot (which *)
(* is not atomic: it starts in one step and ends in another) and the       *)
(* release store of the thread's own index.                                *)
(*                                                                         *)
(* An acquire load is not required to return the latest value.  It returns *)
(* any value the writer stored between the one this thread last saw and    *)
(* the current one (coherence), which is the set Visible.  The release     *)
(* store orders the slot copy before the index, so whoever sees the index  *)
(* sees the copy: slots are read and written in place.                     *)
(***************************************************************************)
EXTENDS Integers, Sequences

CONSTANTS Capacity,   \* template parameter: number of slots
          Items,      \* values pushed
          NoItem,     \* a default-constructed T
          Torn        \* a slot whose copy is under way

ASSUME CapacityAssumption ==   \* the two static_asserts
  /\ Capacity \in Nat /\ Capacity > 1
  /\ \E k \in 1..Capacity : Capacity = 2^k

ASSUME ItemsAssumption == NoItem \notin Items /\ Torn \notin Items

VARIABLES
  head_, tail_cache_,   \* producer's line: its index, its view of tail_
  tail_, head_cache_,   \* consumer's line: its index, its view of head_
  buffer_,              \* the slots
  ppc, in_item,         \* producer: where it is in try_push, its argument
  cpc, out_item         \* consumer: where it is in try_pop, its argument

producerVars == <<head_, tail_cache_, ppc, in_item>>
consumerVars == <<tail_, head_cache_, cpc, out_item>>
vars == <<head_, tail_cache_, tail_, head_cache_, buffer_, ppc, in_item, cpc, out_item>>

Index == 0..(Capacity - 1)

\* (i + 1) & kIndexMask, for a Capacity that is a power of two
Wrap(i) == (i + 1) % Capacity

\* (b - a) & kIndexMask: how far b is ahead of a on the ring
Ahead(a, b) == IF a <= b THEN b - a ELSE b - a + Capacity

\* what an acquire load of an index may return to a thread that last saw `seen`
Visible(seen, current) == {i \in Index : Ahead(seen, i) <= Ahead(seen, current)}

Init ==
  /\ head_ = 0 /\ tail_cache_ = 0
  /\ tail_ = 0 /\ head_cache_ = 0
  /\ buffer_ = [i \in Index |-> NoItem]
  /\ ppc = "idle" /\ in_item = NoItem
  /\ cpc = "idle" /\ out_item = NoItem

(***************************************************************************)
(* Producer thread: try_push                                               *)
(***************************************************************************)

\* the copy into the slot starts: until it ends the slot holds no value
StartWrite ==
  /\ ppc' = "copy"
  /\ buffer_' = [buffer_ EXCEPT ![head_] = Torn]

PushCall(x) ==
  /\ ppc = "idle"
  /\ in_item' = x
  /\ IF Wrap(head_) = tail_cache_
     THEN ppc' = "reload" /\ UNCHANGED buffer_
     ELSE StartWrite
  /\ UNCHANGED <<head_, tail_cache_, consumerVars>>

\* mutant: the reloaded index is not tested again before writing
PushReloadUnchecked(t) ==
  /\ ppc = "reload"
  /\ t \in Visible(tail_cache_, tail_)
  /\ tail_cache_' = t
  /\ StartWrite
  /\ UNCHANGED <<head_, in_item, consumerVars>>

\* mutant: refuses while one slot is still free
PushReloadEarly(t) ==
  /\ ppc = "reload"
  /\ t \in Visible(tail_cache_, tail_)
  /\ tail_cache_' = t
  /\ IF Wrap(head_) = t \/ Wrap(Wrap(head_)) = t
     THEN ppc' = "idle" /\ UNCHANGED buffer_
     ELSE StartWrite
  /\ UNCHANGED <<head_, in_item, consumerVars>>

\* mutant: decides on the cached index without refreshing it
PushReloadStale(t) ==
  /\ ppc = "reload"
  /\ t \in Visible(tail_cache_, tail_)
  /\ ppc' = "idle"
  /\ UNCHANGED <<head_, tail_cache_, in_item, buffer_, consumerVars>>

PushReload(t) ==
  /\ ppc = "reload"
  /\ t \in Visible(tail_cache_, tail_)
  /\ tail_cache_' = t
  /\ IF Wrap(head_) = t
     THEN ppc' = "idle" /\ UNCHANGED buffer_     \* return false
     ELSE StartWrite
  /\ UNCHANGED <<head_, in_item, consumerVars>>

PushWrite ==
  /\ ppc = "copy"
  /\ buffer_' = [buffer_ EXCEPT ![head_] = in_item]
  /\ ppc' = "publish"
  /\ UNCHANGED <<head_, tail_cache_, in_item, consumerVars>>

PushPublish ==
  /\ ppc = "publish"
  /\ head_' = Wrap(head_)
  /\ ppc' = "idle"
  /\ UNCHANGED <<tail_cache_, in_item, buffer_, consumerVars>>

(***************************************************************************)
(* Consumer thread: try_pop                                                *)
(***************************************************************************)

PopCall ==
  /\ cpc = "idle"
  /\ cpc' = IF tail_ = head_cache_ THEN "reload" ELSE "copy"
  /\ UNCHANGED <<tail_, head_cache_, out_item, buffer_, producerVars>>

PopReload(h) ==
  /\ cpc = "reload"
  /\ h \in Visible(head_cache_, head_)
  /\ head_cache_' = h
  /\ cpc' = IF tail_ = h THEN "idle" ELSE "copy"     \* idle: return false
  /\ UNCHANGED <<tail_, out_item, buffer_, producerVars>>

\* mutant: reads the slot after the one it releases
PopReadNext ==
  /\ cpc = "copy"
  /\ out_item' = buffer_[Wrap(tail_)]
  /\ cpc' = "release"
  /\ UNCHANGED <<tail_, head_cache_, buffer_, producerVars>>

PopRead ==
  /\ cpc = "copy"
  /\ out_item' = buffer_[tail_]
  /\ cpc' = "release"
  /\ UNCHANGED <<tail_, head_cache_, buffer_, producerVars>>

PopRelease ==
  /\ cpc = "release"
  /\ tail_' = Wrap(tail_)
  /\ cpc' = "idle"
  /\ UNCHANGED <<head_cache_, out_item, buffer_, producerVars>>

Producer ==
  \/ \E x \in Items : PushCall(x)
  \/ \E t \in Index : PushReload(t)
  \/ PushWrite
  \/ PushPublish

Consumer ==
  \/ PopCall
  \/ \E h \in Index : PopReload(h)
  \/ PopRead
  \/ PopRelease

Next == Producer \/ Consumer

Spec == Init /\ [][Next]_vars

(***************************************************************************)
(* Fairness: both callers retry in a loop (main.cpp run_synthetic_ingest   *)
(* and run_engine), a running thread finishes its call, and a store        *)
(* becomes visible to the other core in finite time, so an index that is   *)
(* reloaded again and again is eventually read up to date.                 *)
(***************************************************************************)
FairSpec ==
  /\ Spec
  /\ WF_vars(Producer) /\ WF_vars(Consumer)
  /\ SF_vars(PushReload(tail_)) /\ SF_vars(PopReload(head_))

(***************************************************************************)
(* Properties                                                              *)
(***************************************************************************)

\* Indices stay inside the buffer and the two threads at points of their own code.
TypeOK ==
  /\ head_ \in Index /\ tail_cache_ \in Index
  /\ tail_ \in Index /\ head_cache_ \in Index
  /\ buffer_ \in [Index -> Items \cup {NoItem, Torn}]
  /\ ppc \in {"idle", "reload", "copy", "publish"}
  /\ cpc \in {"idle", "reload", "copy", "release"}
  /\ in_item \in Items \cup {NoItem}
  /\ out_item \in Items \cup {NoItem, Torn}

Size == Ahead(tail_, head_)

\* The items between tail_ and head_, oldest first.  An item counts as popped
\* once the consumer has copied it out, before tail_ gives the slot back.
First == IF cpc = "release" THEN Wrap(tail_) ELSE tail_
Contents == [i \in 1..Ahead(First, head_) |-> buffer_[(First + i - 1) % Capacity]]

\* The slot the producer overwrites is never the slot the consumer is copying
\* out of: try_push and try_pop need no synchronisation on the element itself.
NoSlotRace == ~(ppc \in {"copy", "publish"} /\ cpc \in {"copy", "release"} /\ head_ = tail_)

\* Every slot from tail_ up to head_ holds a completely written item, and both
\* cached indices lie where an older value of the index can lie: tail_cache_
\* behind tail_, head_cache_ between tail_ and head_, on the unwrapped ring.
RingOrder ==
  /\ Ahead(tail_cache_, tail_) + Ahead(tail_, head_) = Ahead(tail_cache_, head_)
  /\ Ahead(tail_, head_cache_) + Ahead(head_cache_, head_) = Ahead(tail_, head_)
  /\ \A i \in Index : Ahead(tail_, i) < Size => buffer_[i] \in Items

\* try_push refuses on an up-to-date view of tail_ only when Capacity - 1 items
\* are in the ring, and try_pop on an up-to-date view of head_ only when none is.
RefusalsAreGenuine ==
  [][/\ ppc = "reload" /\ ppc' = "idle" /\ tail_cache_' = tail_ => Size = Capacity - 1
     /\ cpc = "reload" /\ cpc' = "idle" /\ head_cache_' = head_ => Size = 0]_vars

\* The ring is a bounded FIFO channel: nothing is lost, duplicated, reordered or
\* torn between try_push and try_pop, and at most Capacity - 1 items are held.
Fifo == INSTANCE BoundedFifo WITH Bound <- Capacity - 1, q <- Contents, out <- out_item
ImplementsFifo == Fifo!Spec

\* Stale cached indices block nobody for good: try_pop takes every published item,
\* and a push that found the ring full gets in.
Progress ==
  /\ \A i \in Index : (tail_ = i /\ head_ # i) ~> tail_ # i
  /\ \A i \in Index : (head_ = i /\ ppc = "reload") ~> head_ # i
=============================================================================
