----------------------------- MODULE OrderStorage -----------------------------
(***************************************************************************)
(* The life of an Order: MemoryPool and PriceLevel together, driven by the *)
(* matching engine.  The orders a level links are slots of the pool, so    *)
(* the list's pointers and the free list's link lie in the same bytes.     *)
(*                                                                         *)
(* The engine takes one step at a time (step, at): process_new_order gets  *)
(* a slot, constructs the order and links it; process_cancel unlinks it    *)
(* and gives the slot back; fill_level reduces the front order and does    *)
(* the same once it is filled.                                             *)
(***************************************************************************)
EXTENDS MemoryPool

CONSTANTS QuantityModulus, CountModulus   \* 2^32: the counters of a level are uint32_t

ASSUME CountAssumption == CountModulus \in Nat \ {0}

VARIABLES head_, tail_, total_quantity_, order_count_, prev, next, queue,   \* PriceLevel
          left,        \* remaining_quantity() of the orders
          step, at     \* what the engine does next, and to which order

Level == INSTANCE PriceLevel WITH Orders <- Slots

levelVars == <<head_, tail_, total_quantity_, order_count_, prev, next, queue>>
poolVars == <<storage_, free_head_, available_, unlinked, live, chain>>
storageVars == <<poolVars, levelVars, left, step, at>>

StorageInit ==
  /\ Init /\ Level!Init
  /\ left = [s \in Slots |-> 0]
  /\ step = "idle" /\ at = nullptr

\* what follows concerns order o
Then(name, o) == step' = name /\ at' = o

\* process_new_order: a remainder is to rest
Obtain ==
  /\ step = "idle" /\ allocate
  /\ Then("construct", free_head_)
  /\ UNCHANGED <<levelVars, left>>

\* placement new and the assignments after it
Place ==
  /\ step = "construct" /\ Construct(at)
  /\ \E q \in 1..(QuantityModulus - 1) : left' = [left EXCEPT ![at] = q]
  /\ prev' = [prev EXCEPT ![at] = nullptr] /\ next' = [next EXCEPT ![at] = nullptr]
  /\ Then("add", at)
  /\ UNCHANGED <<head_, tail_, total_quantity_, order_count_, queue>>

\* add_order links the order, or finds its id taken
Add ==
  /\ step = "add"
  /\ \/ Level!push_back(at) /\ Then("idle", nullptr)
     \/ UNCHANGED levelVars /\ Then("release", at)
  /\ UNCHANGED <<poolVars, left>>

\* mutant: the slot is given back and the level not told
CancelUnlinkForgotten(o) ==
  /\ step = "idle" /\ o \in Range(queue)
  /\ Then("release", o)
  /\ UNCHANGED <<poolVars, levelVars, left>>

\* process_cancel: the id map has found o
Cancel(o) ==
  /\ step = "idle" /\ Level!remove(o)
  /\ Then("release", o)
  /\ UNCHANGED <<poolVars, left>>

\* fill_level: the front order trades qty; the order is changed, then the level
Fill(qty) ==
  /\ step = "idle" /\ head_ # nullptr /\ qty <= left[head_]
  /\ left' = [left EXCEPT ![head_] = @ - qty]
  /\ Level!reduce_quantity(qty)
  /\ IF qty = left[head_] THEN Then("unlink", head_) ELSE Then("idle", nullptr)
  /\ UNCHANGED poolVars

\* fill_level: the filled order leaves the book
Unlink ==
  /\ step = "unlink" /\ Level!remove(at)
  /\ Then("release", at)
  /\ UNCHANGED <<poolVars, left>>

\* pop_front() as an owner of a level would use it; the engine does not
PopFront ==
  /\ step = "idle" /\ Level!pop_front
  /\ Then("release", head_)
  /\ UNCHANGED <<poolVars, left>>

\* destructor and deallocate
Release ==
  /\ step = "release" /\ deallocate(at)
  /\ left' = [left EXCEPT ![at] = 0]
  /\ Then("idle", nullptr)
  /\ UNCHANGED levelVars

StorageNext ==
  \/ LinkSlot /\ UNCHANGED <<levelVars, left, step, at>>
  \/ Obtain \/ Place \/ Add \/ Unlink \/ PopFront \/ Release
  \/ \E o \in Slots : Cancel(o)
  \/ \E qty \in 1..(QuantityModulus - 1) : Fill(qty)

StorageSpec == StorageInit /\ [][StorageNext]_storageVars

\* While the engine recycles its orders, the level's list and its aggregates stay
\* intact (module PriceLevel).
ListIntact == Level!ListIntact

\* Pool and list agree on every slot's bytes: a linked order is an object the engine
\* owns, so that no pointer of the level is read out of a free list link, and a slot
\* that is owned but not linked is the one order the engine has in its hands.
LinkedAreLive ==
  /\ \A o \in Range(queue) : o \in live /\ storage_[o] = Object
  /\ live \ Range(queue) \subseteq {at}
===============================================================================
