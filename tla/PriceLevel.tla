------------------------------ MODULE PriceLevel ------------------------------
(***************************************************************************)
(* The FIFO queue of orders at one price (core/price_level.h): a doubly    *)
(* linked list through the orders' own prev and next pointers, with its    *)
(* aggregate quantity and its count kept on the side.  OrderStorage drives *)
(* it the way the matching engine does.                                    *)
(*                                                                         *)
(* queue is an auxiliary variable: the sequence of orders the list should  *)
(* be, which is how MatchingEngine sees a level.  Only the obligations of  *)
(* the caller read it: an order is pushed while it is not linked and       *)
(* removed while it is.                                                    *)
(***************************************************************************)
EXTENDS LevelQueue, Functions

CONSTANTS Orders,            \* addresses of orders
          nullptr,
          QuantityModulus,   \* 2^32: Quantity is a uint32_t
          CountModulus       \* 2^32: order_count_ is a uint32_t

VARIABLES head_, tail_, total_quantity_, order_count_,
          prev, next,        \* the orders' pointers
          left,              \* left[o]: remaining_quantity() of the order; the caller's
          queue              \* auxiliary

Init ==
  /\ head_ = nullptr /\ tail_ = nullptr
  /\ total_quantity_ = 0 /\ order_count_ = 0
  /\ prev = [o \in Orders |-> nullptr] /\ next = [o \in Orders |-> nullptr]
  /\ queue = << >>

\* pointer p is written unless it is nullptr
Set(f, p, value) == IF p = nullptr THEN f ELSE [f EXCEPT ![p] = value]

push_back(o) ==
  /\ o \notin Range(queue)
  /\ prev' = [prev EXCEPT ![o] = tail_]
  /\ next' = Set([next EXCEPT ![o] = nullptr], tail_, o)
  /\ head_' = IF tail_ = nullptr THEN o ELSE head_
  /\ tail_' = o
  /\ total_quantity_' = (total_quantity_ + left[o]) % QuantityModulus
  /\ order_count_' = (order_count_ + 1) % CountModulus
  /\ queue' = Append(queue, o)

\* mutant: the predecessor keeps pointing at the removed order
UnlinkForwardMissed(o) == [next EXCEPT ![o] = nullptr]

\* the next pointers once o is skipped
UnlinkForward(o) == [Set(next, prev[o], next[o]) EXCEPT ![o] = nullptr]

\* an order is unlinked wherever it stands
remove(o) ==
  /\ o \in Range(queue)
  /\ head_' = IF prev[o] = nullptr THEN next[o] ELSE head_
  /\ tail_' = IF next[o] = nullptr THEN prev[o] ELSE tail_
  /\ next' = UnlinkForward(o)
  /\ prev' = [Set(prev, next[o], prev[o]) EXCEPT ![o] = nullptr]
  /\ total_quantity_' = (total_quantity_ - left[o]) % QuantityModulus
  /\ order_count_' = (order_count_ - 1) % CountModulus
  /\ queue' = Unlinked(queue, o)

pop_front ==
  /\ head_ # nullptr
  /\ LET o == head_
     IN  /\ head_' = next[o]
         /\ tail_' = IF next[o] = nullptr THEN nullptr ELSE tail_
         /\ prev' = [Set(prev, next[o], nullptr) EXCEPT ![o] = nullptr]
         /\ next' = [next EXCEPT ![o] = nullptr]
         /\ total_quantity_' = (total_quantity_ - left[o]) % QuantityModulus
  /\ order_count_' = (order_count_ - 1) % CountModulus
  /\ queue' = Tail(queue)

reduce_quantity(qty) ==
  /\ total_quantity_' = (total_quantity_ - qty) % QuantityModulus
  /\ UNCHANGED <<head_, tail_, order_count_, prev, next, queue>>

\* The pointers form exactly the queue, read forwards and backwards, with null
\* at both ends; an order that is not linked points nowhere.  order_count_ counts
\* the linked orders, in the arithmetic of uint32_t.
ListLinked ==
  /\ head_ = IF queue = << >> THEN nullptr ELSE queue[1]
  /\ tail_ = IF queue = << >> THEN nullptr ELSE queue[Len(queue)]
  /\ IsInjective(queue)
  /\ \A i \in 1..Len(queue) :
       /\ next[queue[i]] = IF i = Len(queue) THEN nullptr ELSE queue[i + 1]
       /\ prev[queue[i]] = IF i = 1 THEN nullptr ELSE queue[i - 1]
  /\ \A o \in Orders \ Range(queue) : prev[o] = nullptr /\ next[o] = nullptr
  /\ order_count_ = Len(queue) % CountModulus

\* Beside the links and the count, total_quantity_ sums what the linked orders have
\* left, in the arithmetic of uint32_t too (price_level.h states both without the wrap).
ListIntact ==
  /\ ListLinked
  /\ total_quantity_ = FoldFunctionOnSet(+, 0, left, Range(queue)) % QuantityModulus
===============================================================================
