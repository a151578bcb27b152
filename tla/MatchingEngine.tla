---------------------------- MODULE MatchingEngine ----------------------------
(***************************************************************************)
(* The single-threaded core: MatchingEngine::process over the OrderBook    *)
(* and the MemoryPool of orders (core/matching_engine.cpp, order_book.cpp).*)
(*                                                                         *)
(* A call of process() is a run of steps from pc = "idle" back to "idle":  *)
(* one step per test of the level walk and one per iteration of fill_level *)
(* (the whole iteration: fill, aggregate, fill message, removal, best      *)
(* price repair, slot release).  Nothing else runs between the steps, and  *)
(* every state between two of them is a state of the program.              *)
(*                                                                         *)
(* A PriceLevel is the sequence of its orders (module PriceLevel shows the *)
(* linked list to be that sequence) and the pool is the set of its free    *)
(* slots with the counter kept next to it (module MemoryPool shows the     *)
(* free list to be that set).                                              *)
(***************************************************************************)
EXTENDS LevelQueue, FiniteSets, FiniteSetsExt, Functions

CONSTANTS MAX_PRICE_TICKS,   \* number of price levels
          QuantityModulus,   \* 2^32: Quantity is a uint32_t
          Ids,               \* order ids
          Slots,             \* addresses of the pool's slots
          Quantities,        \* quantities of incoming orders
          NoOrder            \* content of a slot that holds no Order object

ASSUME PricesAssumption == MAX_PRICE_TICKS \in Nat \ {0}
ASSUME SlotsAssumption == IsFiniteSet(Slots)
ASSUME QuantityAssumption ==
  /\ QuantityModulus \in Nat \ {0}
  /\ Quantities \subseteq 0..(QuantityModulus - 1)

Prices == 0..(MAX_PRICE_TICKS - 1)
Sides == {"Bid", "Ask"}

\* A limit price may lie just outside the array; a market order's price is ignored.
NewOrderMessage ==
  [id : Ids, side : Sides, type : {"Limit"}, price : -1..MAX_PRICE_TICKS, quantity : Quantities]
  \cup [id : Ids, side : Sides, type : {"Market"}, price : {0}, quantity : Quantities]

Order ==
  [id : Ids, side : Sides, price : Prices,
   quantity : 1..(QuantityModulus - 1), filled_quantity : 0..(QuantityModulus - 1)]

ASSUME NoOrderAssumption == NoOrder \notin Order

VARIABLES
  slot,                   \* slot[s]: the Order object in s, or NoOrder
  free, available_,       \* MemoryPool: free slots and their number
  levels_,                \* levels_[p]: slots of the orders resting at p, oldest first
  total_quantity_,        \* total_quantity_[p]: the level's aggregate
  order_map_,             \* id -> slot of the resting orders
  bid_count_, ask_count_,
  best_bid_, best_ask_,
  pc, call, remaining, level_price,   \* process_new_order in progress and its locals
  fills_

poolVars == <<slot, free, available_>>
bookVars == <<levels_, total_quantity_, order_map_, bid_count_, ask_count_, best_bid_, best_ask_>>
callVars == <<pc, call, remaining, level_price>>
vars == <<poolVars, bookVars, callVars, fills_>>

remaining_quantity(o) == o.quantity - o.filled_quantity

is_filled(o) == o.filled_quantity >= o.quantity

has_bids == bid_count_ > 0
has_asks == ask_count_ > 0

Init ==
  /\ slot = [s \in Slots |-> NoOrder]
  /\ free = Slots /\ available_ = Cardinality(Slots)
  /\ levels_ = [p \in Prices |-> << >>]
  /\ total_quantity_ = [p \in Prices |-> 0]
  /\ order_map_ = << >>
  /\ bid_count_ = 0 /\ ask_count_ = 0
  /\ best_bid_ = 0 /\ best_ask_ = MAX_PRICE_TICKS - 1
  /\ pc = "idle" /\ call = << >> /\ remaining = 0 /\ level_price = 0
  /\ fills_ = << >>

(***************************************************************************)
(* OrderBook                                                               *)
(***************************************************************************)

\* mutant: the sentinel is not restored when the side becomes empty
update_best_bid_no_reset(removed_price, levels, bid_count) ==
  LET below == {p \in Prices : p < removed_price /\ levels[p] # << >>}
  IN  IF below # {} THEN Max(below) ELSE best_bid_

\* mutant: best_bid_ is left on the emptied level
update_best_bid_skipped(removed_price, levels, bid_count) == best_bid_

\* scan down from the emptied level; if the side still counts orders but no
\* level below holds any, best_bid_ keeps its old value
update_best_bid_after_remove(removed_price, levels, bid_count) ==
  LET below == {p \in Prices : p < removed_price /\ levels[p] # << >>}
  IN  IF bid_count = 0 THEN 0 ELSE IF below # {} THEN Max(below) ELSE best_bid_

update_best_ask_after_remove(removed_price, levels, ask_count) ==
  LET above == {p \in Prices : p > removed_price /\ levels[p] # << >>}
  IN  IF ask_count = 0 THEN MAX_PRICE_TICKS - 1 ELSE IF above # {} THEN Min(above) ELSE best_ask_

\* order o, in slot s, is linked at the back of its level
add_order(s, o) ==
  LET bids == bid_count_ + (IF o.side = "Bid" THEN 1 ELSE 0)
      asks == ask_count_ + (IF o.side = "Ask" THEN 1 ELSE 0)
  IN  /\ order_map_' = [id \in DOMAIN order_map_ \cup {o.id} |->
                          IF id = o.id THEN s ELSE order_map_[id]]
      /\ levels_' = [levels_ EXCEPT ![o.price] = Append(@, s)]
      /\ total_quantity_' = [total_quantity_ EXCEPT
                               ![o.price] = (@ + remaining_quantity(o)) % QuantityModulus]
      /\ bid_count_' = bids /\ ask_count_' = asks
      /\ best_bid_' = IF o.side = "Bid" /\ (bids = 1 \/ o.price > best_bid_) THEN o.price ELSE best_bid_
      /\ best_ask_' = IF o.side = "Ask" /\ (asks = 1 \/ o.price < best_ask_) THEN o.price ELSE best_ask_

\* order id is unlinked.  The caller may have changed the orders (mem) and the
\* aggregates (total) already in the same step.
cancel_order(id, mem, total) ==
  LET s      == order_map_[id]
      o      == mem[s]
      levels == [levels_ EXCEPT ![o.price] = Unlinked(@, s)]
      bids   == bid_count_ - (IF o.side = "Bid" THEN 1 ELSE 0)
      asks   == ask_count_ - (IF o.side = "Ask" THEN 1 ELSE 0)
      empty  == levels[o.price] = << >>
  IN  /\ order_map_' = [i \in DOMAIN order_map_ \ {id} |-> order_map_[i]]
      /\ levels_' = levels
      /\ total_quantity_' = [total EXCEPT ![o.price] = (@ - remaining_quantity(o)) % QuantityModulus]
      /\ bid_count_' = bids /\ ask_count_' = asks
      /\ best_bid_' = IF empty /\ o.side = "Bid" /\ o.price = best_bid_
                      THEN update_best_bid_after_remove(o.price, levels, bids) ELSE best_bid_
      /\ best_ask_' = IF empty /\ o.side = "Ask" /\ o.price = best_ask_
                      THEN update_best_ask_after_remove(o.price, levels, asks) ELSE best_ask_

(***************************************************************************)
(* MemoryPool: placement new after allocate, destructor before deallocate  *)
(***************************************************************************)

allocate(s, o) ==
  /\ s \in free
  /\ free' = free \ {s}
  /\ available_' = available_ - 1
  /\ slot' = [slot EXCEPT ![s] = o]

\* mutant: the slot is not pushed back on the free list
deallocate_leak(s, mem) ==
  /\ available_' = available_ + 1
  /\ slot' = [mem EXCEPT ![s] = NoOrder]
  /\ UNCHANGED free

deallocate(s, mem) ==
  /\ free' = free \cup {s}
  /\ available_' = available_ + 1
  /\ slot' = [mem EXCEPT ![s] = NoOrder]

(***************************************************************************)
(* MatchingEngine                                                          *)
(***************************************************************************)

process_new_order(m) ==
  /\ pc = "idle"
  /\ fills_' = << >>
  /\ IF m.quantity = 0 \/ (m.type = "Limit" /\ (m.price < 0 \/ m.price >= MAX_PRICE_TICKS))
     THEN UNCHANGED callVars
     ELSE /\ pc' = "walk" /\ call' = <<m>>
          /\ remaining' = m.quantity
          /\ UNCHANGED level_price
  /\ UNCHANGED <<poolVars, bookVars>>

\* mutant: an order at exactly the limit is not taken
CrossesStrictly ==
  LET m == call[1]
  IN  /\ remaining > 0
      /\ IF m.side = "Bid"
         THEN has_asks /\ ~(m.type = "Limit" /\ best_ask_ >= m.price)
         ELSE has_bids /\ ~(m.type = "Limit" /\ best_bid_ <= m.price)

\* the condition of the level walk: quantity left, liquidity left, limit not passed
Crosses ==
  LET m == call[1]
  IN  /\ remaining > 0
      /\ IF m.side = "Bid"
         THEN has_asks /\ ~(m.type = "Limit" /\ best_ask_ > m.price)
         ELSE has_bids /\ ~(m.type = "Limit" /\ best_bid_ < m.price)

\* mutant: the walk enters the levels at the taker's own price
EnterLevelAtLimit ==
  /\ pc = "walk" /\ Crosses
  /\ pc' = "fill"
  /\ level_price' = IF call[1].type = "Limit" THEN call[1].price
                    ELSE IF call[1].side = "Bid" THEN best_ask_ ELSE best_bid_
  /\ UNCHANGED <<call, remaining, poolVars, bookVars, fills_>>

EnterLevel ==
  /\ pc = "walk" /\ Crosses
  /\ pc' = "fill"
  /\ level_price' = IF call[1].side = "Bid" THEN best_ask_ ELSE best_bid_
  /\ UNCHANGED <<call, remaining, poolVars, bookVars, fills_>>

\* one iteration of fill_level
fill_level ==
  /\ pc = "fill" /\ remaining > 0 /\ levels_[level_price] # << >>
  /\ LET s     == Head(levels_[level_price])
         qty   == Min({remaining, remaining_quantity(slot[s])})
         mem   == [slot EXCEPT ![s].filled_quantity = @ + qty]
         total == [total_quantity_ EXCEPT ![level_price] = (@ - qty) % QuantityModulus]
     IN  /\ remaining' = remaining - qty
         /\ fills_' = Append(fills_, [aggressive_id |-> call[1].id, passive_id |-> slot[s].id,
                                      price |-> level_price, quantity |-> qty,
                                      aggressor_side |-> call[1].side])
         /\ IF is_filled(mem[s])
            THEN cancel_order(slot[s].id, mem, total) /\ deallocate(s, mem)
            ELSE /\ slot' = mem /\ total_quantity_' = total
                 /\ UNCHANGED <<free, available_, levels_, order_map_,
                                bid_count_, ask_count_, best_bid_, best_ask_>>
  /\ UNCHANGED <<pc, call, level_price>>

LeaveLevel ==
  /\ pc = "fill" /\ (remaining = 0 \/ levels_[level_price] = << >>)
  /\ pc' = "walk"
  /\ UNCHANGED <<call, remaining, level_price, poolVars, bookVars, fills_>>

\* process_new_order returns: its locals go out of scope
Return == pc' = "idle" /\ call' = << >> /\ remaining' = 0 /\ level_price' = 0

\* the walk is over.  A limit remainder rests in a fresh slot; if the pool is
\* exhausted it is dropped; if its id is already resting the slot goes back.
RestRemainder ==
  /\ pc = "walk" /\ ~Crosses
  /\ LET m == call[1]
         o == [id |-> m.id, side |-> m.side, price |-> m.price,
               quantity |-> m.quantity, filled_quantity |-> m.quantity - remaining]
     IN  /\ remaining > 0 /\ m.type = "Limit"
         /\ \E s \in free : m.id \notin DOMAIN order_map_ /\ allocate(s, o) /\ add_order(s, o)
  /\ Return
  /\ UNCHANGED fills_

DropRemainder ==
  /\ pc = "walk" /\ ~Crosses
  /\ LET m == call[1]
     IN  ~(remaining > 0 /\ m.type = "Limit" /\ free # {} /\ m.id \notin DOMAIN order_map_)
  /\ Return
  /\ UNCHANGED <<poolVars, bookVars, fills_>>

process_cancel(id) ==
  /\ pc = "idle"
  /\ fills_' = << >>
  /\ IF id \in DOMAIN order_map_
     THEN cancel_order(id, slot, total_quantity_) /\ deallocate(order_map_[id], slot)
     ELSE UNCHANGED <<poolVars, bookVars>>
  /\ UNCHANGED callVars

Next ==
  \/ \E m \in NewOrderMessage : process_new_order(m)
  \/ EnterLevel
  \/ fill_level
  \/ LeaveLevel
  \/ RestRemainder
  \/ DropRemainder
  \/ \E id \in Ids : process_cancel(id)

Spec == Init /\ [][Next]_vars

\* a call that has started runs to its end: the engine thread does nothing else
FairSpec == Spec /\ WF_vars(EnterLevel \/ fill_level \/ LeaveLevel \/ RestRemainder \/ DropRemainder)

(***************************************************************************)
(* Properties                                                              *)
(***************************************************************************)

Fill == [aggressive_id : Ids, passive_id : Ids, price : Prices,
         quantity : 1..(QuantityModulus - 1), aggressor_side : Sides]

\* Every variable holds a value its C++ type and its role allow.
TypeOK ==
  /\ slot \in [Slots -> Order \cup {NoOrder}]
  /\ free \subseteq Slots /\ available_ \in Nat
  /\ levels_ \in [Prices -> Seq(Slots)]
  /\ total_quantity_ \in [Prices -> 0..(QuantityModulus - 1)]
  /\ DOMAIN order_map_ \subseteq Ids
  /\ \A id \in DOMAIN order_map_ : order_map_[id] \in Slots
  /\ bid_count_ \in Nat /\ ask_count_ \in Nat
  /\ best_bid_ \in Prices /\ best_ask_ \in Prices
  /\ pc \in {"idle", "walk", "fill"}
  /\ pc = "idle" <=> call = << >>
  /\ pc # "idle" => \E m \in NewOrderMessage : call = <<m>>
  /\ remaining \in 0..(QuantityModulus - 1) /\ level_price \in Prices
  /\ fills_ \in Seq(Fill)

Resting == Slots \ free
RestingOn(side) == {s \in Resting : slot[s].side = side}
Linked(p) == Range(levels_[p])

\* Pool, id map and levels agree at every step: a slot is either free and empty
\* or holds exactly one order, which is linked exactly once, at its own price,
\* and is found in the map under its own id; available_ counts the free slots.
\* So no slot leaks, none is handed out twice and none is freed while linked.
SlotsAccounted ==
  /\ available_ = Cardinality(free)
  /\ \A s \in Slots : s \in free <=> slot[s] = NoOrder
  /\ \A p \in Prices : IsInjective(levels_[p]) /\ Linked(p) = {s \in Resting : slot[s].price = p}
  /\ Range(order_map_) = Resting
  /\ \A id \in DOMAIN order_map_ : slot[order_map_[id]].id = id

\* Bids and asks share the array of levels; that is safe because no resting bid
\* is at or above a resting ask, not even while an order is being matched.
Uncrossed ==
  \A b \in RestingOn("Bid"), a \in RestingOn("Ask") : slot[b].price < slot[a].price

\* The lazily repaired best prices and the side counters are exact after every
\* step, and an empty side shows its sentinel.
BestPricesExact ==
  /\ bid_count_ = Cardinality(RestingOn("Bid"))
  /\ ask_count_ = Cardinality(RestingOn("Ask"))
  /\ best_bid_ = IF has_bids THEN Max({slot[s].price : s \in RestingOn("Bid")}) ELSE 0
  /\ best_ask_ = IF has_asks THEN Min({slot[s].price : s \in RestingOn("Ask")})
                 ELSE MAX_PRICE_TICKS - 1

\* A resting order always has something left: fill_level removes an order in the
\* iteration that fills it, and a completely filled taker never rests.
RestingUnfilled == \A s \in Resting : remaining_quantity(slot[s]) > 0

\* A call of process() returns: the walk never spins on an empty best level.
CallsReturn == pc # "idle" ~> pc = "idle"
=============================================================================
