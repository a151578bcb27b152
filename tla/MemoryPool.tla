------------------------------ MODULE MemoryPool ------------------------------
(***************************************************************************)
(* The fixed-size pool of core/memory_pool.h: a free list threaded through *)
(* the unused slots themselves.  A slot's bytes hold either the link of a  *)
(* FreeNode or an object, which the caller constructs over the link.       *)
(*                                                                         *)
(* chain is an auxiliary variable: the free list the pointers should form. *)
(* No action reads it; FreeListIntact relates it to the pointers.          *)
(***************************************************************************)
EXTENDS Integers, Sequences, Functions

CONSTANTS PoolSize,   \* number of slots
          nullptr,
          Object      \* the bytes of a constructed T

Slots == 0..(PoolSize - 1)

ASSUME PoolAssumption ==
  /\ PoolSize \in Nat \ {0}
  /\ nullptr \notin Slots /\ Object \notin Slots /\ Object # nullptr

VARIABLES storage_,      \* storage_[s]: what the bytes of slot s hold
          free_head_, available_,
          unlinked,      \* constructor: slots not yet linked
          live,          \* slots the caller owns
          chain          \* auxiliary

vars == <<storage_, free_head_, available_, unlinked, live, chain>>

Init ==
  /\ storage_ = [s \in Slots |-> nullptr]
  /\ free_head_ = nullptr /\ available_ = PoolSize
  /\ unlinked = PoolSize
  /\ live = {} /\ chain = << >>

\* one iteration of the constructor's loop, from the highest slot down
LinkSlot ==
  /\ unlinked > 0
  /\ unlinked' = unlinked - 1
  /\ storage_' = [storage_ EXCEPT ![unlinked - 1] = free_head_]
  /\ free_head_' = unlinked - 1
  /\ chain' = <<unlinked - 1>> \o chain
  /\ UNCHANGED <<available_, live>>

\* mutant: the head is not moved on
allocate_stuck ==
  /\ unlinked = 0 /\ free_head_ # nullptr
  /\ available_' = available_ - 1
  /\ live' = live \cup {free_head_}
  /\ chain' = Tail(chain)
  /\ UNCHANGED <<storage_, free_head_, unlinked>>

\* an exhausted pool returns nullptr and changes nothing
allocate ==
  /\ unlinked = 0 /\ free_head_ # nullptr
  /\ free_head_' = storage_[free_head_]
  /\ available_' = available_ - 1
  /\ live' = live \cup {free_head_}
  /\ chain' = Tail(chain)
  /\ UNCHANGED <<storage_, unlinked>>

\* the caller's placement new overwrites the link
Construct(s) ==
  /\ s \in live
  /\ storage_' = [storage_ EXCEPT ![s] = Object]
  /\ UNCHANGED <<free_head_, available_, unlinked, live, chain>>

\* mutant: the old head is not linked behind the returned slot
deallocate_unlinked(s) ==
  /\ s \in live
  /\ free_head_' = s
  /\ available_' = available_ + 1
  /\ live' = live \ {s}
  /\ chain' = <<s>> \o chain
  /\ UNCHANGED <<storage_, unlinked>>

deallocate(s) ==
  /\ s \in live
  /\ storage_' = [storage_ EXCEPT ![s] = free_head_]
  /\ free_head_' = s
  /\ available_' = available_ + 1
  /\ live' = live \ {s}
  /\ chain' = <<s>> \o chain
  /\ UNCHANGED unlinked

Next ==
  \/ LinkSlot
  \/ allocate
  \/ \E s \in Slots : Construct(s) \/ deallocate(s)

Spec == Init /\ [][Next]_vars

\* A slot's bytes are a link or an object, and available_, a size_t, never goes
\* below zero.
TypeOK ==
  /\ storage_ \in [Slots -> Slots \cup {nullptr, Object}]
  /\ free_head_ \in Slots \cup {nullptr}
  /\ available_ \in Nat /\ unlinked \in 0..PoolSize
  /\ live \subseteq Slots
  /\ chain \in Seq(Slots)

\* Following the links from free_head_ visits exactly the linked slots nobody
\* owns, each once, and ends in nullptr: no object written into an owned slot
\* can be mistaken for a link, whatever the order of returns.  available() is
\* their number, so it is zero exactly when allocate() returns nullptr.
FreeListIntact ==
  /\ free_head_ = IF chain = << >> THEN nullptr ELSE chain[1]
  /\ \A i \in 1..Len(chain) :
       storage_[chain[i]] = IF i = Len(chain) THEN nullptr ELSE chain[i + 1]
  /\ IsInjective(chain)
  /\ Range(chain) = (unlinked..(PoolSize - 1)) \ live
  /\ available_ = unlinked + Len(chain)

\* The pool keeps the promise the matching engine relies on.
Promise == INSTANCE SlotPool WITH free <- IF unlinked > 0 THEN Slots ELSE Range(chain)
KeepsPromise == Promise!Spec
===============================================================================
