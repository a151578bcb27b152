------------------------ MODULE MatchingEngineProofs ------------------------
(***************************************************************************)
(* Proof that the engine's book stays consistent inside every call: adding *)
(* an order and filling a part of one preserve the invariant of pool and   *)
(* book, as removing one does (module BookInvariant), and the actions of   *)
(* process() are put together from these operations.                       *)
(***************************************************************************)
EXTENDS BookInvariant

(***************************************************************************)
(* Operations on the book                                                  *)
(***************************************************************************)

\* Resting an order that crosses nothing keeps the book consistent.
LEMMA AddPreserves ==
  ASSUME IInv, NEW s \in free, NEW o \in Order,
         remaining_quantity(o) > 0, o.id \notin DOMAIN order_map_,
         o.side = "Bid" => \A a \in RestingOn("Ask") : o.price < slot[a].price,
         o.side = "Ask" => \A b \in RestingOn("Bid") : slot[b].price < o.price,
         allocate(s, o), add_order(s, o)
  PROVE  BookInv'
<1>t. /\ slot \in [Slots -> Order \cup {NoOrder}] /\ levels_ \in [Prices -> Seq(Slots)]
      /\ free \subseteq Slots /\ best_bid_ \in Prices /\ best_ask_ \in Prices
  BY DEF IInv, TypeOK
<1>o. s \in Slots /\ o.price \in Prices /\ o.side \in Sides /\ o # NoOrder
  BY <1>t, NoOrderAssumption DEF Order
<1>1. /\ free' = free \ {s} /\ available_' = available_ - 1
      /\ \A t \in Slots : slot'[t] = IF t = s THEN o ELSE slot[t]
  BY <1>t DEF allocate
<1>2. Resting' = Resting \cup {s} /\ s \notin Resting
  BY <1>1, <1>o DEF Resting
<1>3. /\ RestingOn("Bid")' = IF o.side = "Bid" THEN RestingOn("Bid") \cup {s} ELSE RestingOn("Bid")
      /\ RestingOn("Ask")' = IF o.side = "Ask" THEN RestingOn("Ask") \cup {s} ELSE RestingOn("Ask")
      /\ s \notin RestingOn("Bid") /\ s \notin RestingOn("Ask")
  BY <1>1, <1>2, <1>o DEF RestingOn, Resting
<1>4. /\ DOMAIN order_map_' = DOMAIN order_map_ \cup {o.id}
      /\ order_map_'[o.id] = s
      /\ \A i \in DOMAIN order_map_ : order_map_'[i] = order_map_[i]
  BY DEF add_order
<1>5. s \notin Range(levels_[o.price])
  BY <1>o, <1>2 DEF IInv, BookInv, SlotsAccounted, Linked
<1>6. /\ levels_'[o.price] \in Seq(Slots) /\ IsInjective(levels_'[o.price])
      /\ Range(levels_'[o.price]) = Range(levels_[o.price]) \cup {s}
      /\ \A x \in Prices \ {o.price} : levels_'[x] = levels_[x]
  <2>1. levels_' = [levels_ EXCEPT ![o.price] = Append(@, s)]
    BY DEF add_order
  <2>2. levels_[o.price] \in Seq(Slots) /\ IsInjective(levels_[o.price])
    BY <1>t, <1>o DEF IInv, BookInv, SlotsAccounted
  <2> QED  BY <2>1, <2>2, <1>5, <1>t, <1>o, AppendElements
<1>7. SlotsAccounted'
  <2>a. /\ available_ = Cardinality(free) /\ Range(order_map_) = Resting
        /\ \A i \in DOMAIN order_map_ : slot[order_map_[i]].id = i
    BY Zenon DEF IInv, BookInv, SlotsAccounted
  <2>b. \A t \in Slots : t \in free <=> slot[t] = NoOrder
    BY Zenon DEF IInv, BookInv, SlotsAccounted
  <2>c. \A x \in Prices : IsInjective(levels_[x]) /\ Linked(x) = {t \in Resting : slot[t].price = x}
    BY Zenon DEF IInv, BookInv, SlotsAccounted
  <2>1. available_' = Cardinality(free')
    <3>1. IsFiniteSet(free)
      BY <1>t, SlotsAssumption, FS_Subset
    <3>2. Cardinality(free \ {s}) = Cardinality(free) - 1
      BY <3>1, FS_RemoveElement, ZenonT(20)
    <3>3. free' = free \ {s} /\ available_' = available_ - 1
      BY <1>1
    <3> QED  BY <3>2, <3>3, <2>a
  <2>2. \A t \in Slots : t \in free' <=> slot'[t] = NoOrder
    BY <1>1, <1>o, <2>b
  <2>3. ASSUME NEW x \in Prices
        PROVE  IsInjective(levels_'[x]) /\ Linked(x)' = {t \in Resting' : slot'[t].price = x}
    <3>1. CASE x = o.price
      BY <3>1, <2>c, <1>1, <1>2, <1>6, <1>o DEF Linked, Resting
    <3>2. CASE x # o.price
      BY <3>2, <2>c, <1>1, <1>2, <1>6, <1>o DEF Linked, Resting
    <3> QED  BY <3>1, <3>2, SMTT(40)
  <2>4. Range(order_map_') = Resting'
    <3>2. ASSUME NEW t \in Resting \cup {s} PROVE t \in Range(order_map_')
      BY <2>a, <1>4 DEF Range
    <3>3. ASSUME NEW t \in Range(order_map_') PROVE t \in Resting \cup {s}
      BY <2>a, <1>4 DEF Range
    <3> QED  BY <3>2, <3>3, <1>2
  <2>5. \A i \in DOMAIN order_map_' : slot'[order_map_'[i]].id = i
    <3>1. \A i \in DOMAIN order_map_ : order_map_[i] \in Resting /\ order_map_[i] \in Slots
      BY <2>a DEF Range, Resting
    <3> QED  BY <3>1, <2>a, <1>1, <1>2, <1>4, <1>o
  <2> QED  BY <2>1, <2>2, <2>3, <2>4, <2>5 DEF SlotsAccounted
<1>8. \A t \in Resting : slot'[t] = slot[t] /\ t \in Slots
  BY <1>1, <1>2 DEF Resting
<1>9. slot'[s] = o
  BY <1>1, <1>o
<1>10. Uncrossed'
  BY <1>3, <1>8, <1>9 DEF IInv, BookInv, Uncrossed, RestingOn, Sides
<1>11. RestingUnfilled'
  BY <1>2, <1>8, <1>9 DEF IInv, BookInv, RestingUnfilled, remaining_quantity
<1>12. /\ bid_count_' = bid_count_ + (IF o.side = "Bid" THEN 1 ELSE 0)
       /\ ask_count_' = ask_count_ + (IF o.side = "Ask" THEN 1 ELSE 0)
  BY DEF add_order
<1>13. /\ bid_count_ \in Nat /\ (bid_count_ = 0 <=> RestingOn("Bid") = {})
       /\ ask_count_ \in Nat /\ (ask_count_ = 0 <=> RestingOn("Ask") = {})
  BY SidesFinite DEF IInv, BookInv, SidesCounted
<1>14. SidesCounted'
  <2>1. /\ Cardinality(RestingOn("Bid") \cup {s}) = Cardinality(RestingOn("Bid")) + 1
        /\ Cardinality(RestingOn("Ask") \cup {s}) = Cardinality(RestingOn("Ask")) + 1
    BY <1>3, SidesFinite, FS_AddElement, ZenonT(40)
  <2>2. CASE o.side = "Bid"
    <3>1. RestingOn("Bid")' = RestingOn("Bid") \cup {s} /\ RestingOn("Ask")' = RestingOn("Ask")
      BY <2>2, <1>3
    <3>2. /\ Cardinality(RestingOn("Bid")') = Cardinality(RestingOn("Bid")) + 1
          /\ Cardinality(RestingOn("Ask")') = Cardinality(RestingOn("Ask"))
      BY <2>1, <3>1, Zenon
    <3> QED  BY <2>2, <3>2, <1>12, <1>13 DEF SidesCounted, IInv, BookInv
  <2>3. CASE o.side = "Ask"
    <3>1. RestingOn("Ask")' = RestingOn("Ask") \cup {s} /\ RestingOn("Bid")' = RestingOn("Bid")
      BY <2>3, <1>3
    <3>2. /\ Cardinality(RestingOn("Ask")') = Cardinality(RestingOn("Ask")) + 1
          /\ Cardinality(RestingOn("Bid")') = Cardinality(RestingOn("Bid"))
      BY <2>1, <3>1, Zenon
    <3> QED  BY <2>3, <3>2, <1>12, <1>13 DEF SidesCounted, IInv, BookInv
  <2> QED  BY <2>2, <2>3, <1>o DEF Sides
<1>15. /\ best_bid_' = IF o.side = "Bid" /\ (bid_count_' = 1 \/ o.price > best_bid_) THEN o.price ELSE best_bid_
       /\ best_ask_' = IF o.side = "Ask" /\ (ask_count_' = 1 \/ o.price < best_ask_) THEN o.price ELSE best_ask_
  BY DEF add_order
<1>16. \A t \in Resting : slot[t].price \in Int
  BY RestingFacts, PricesType
<1>17. o.price \in Int /\ best_bid_ \in Int /\ best_ask_ \in Int
  BY <1>o, <1>t, PricesType
<1>18. BidTop'
  <2>1. CASE o.side = "Bid"
    BY <2>1, <1>3, <1>8, <1>9, <1>12, <1>13, <1>15, <1>16, <1>17 DEF IInv, BookInv, BidTop, RestingOn
  <2>2. CASE o.side # "Bid"
    BY <2>2, <1>3, <1>8, <1>12, <1>13, <1>15, SMTT(40) DEF IInv, BookInv, BidTop, RestingOn
  <2> QED  BY <2>1, <2>2
<1>19. AskTop'
  <2>1. CASE o.side = "Ask"
    BY <2>1, <1>3, <1>8, <1>9, <1>12, <1>13, <1>15, <1>16, <1>17 DEF IInv, BookInv, AskTop, RestingOn
  <2>2. CASE o.side # "Ask"
    BY <2>2, <1>3, <1>8, <1>12, <1>13, <1>15 DEF IInv, BookInv, AskTop, RestingOn
  <2> QED  BY <2>1, <2>2, SMTT(40)
<1> QED  BY <1>7, <1>10, <1>11, <1>14, <1>18, <1>19 DEF BookInv

\* The part of TypeOK about pool and book.
BookType ==
  /\ slot \in [Slots -> Order \cup {NoOrder}]
  /\ free \subseteq Slots /\ available_ \in Nat
  /\ levels_ \in [Prices -> Seq(Slots)]
  /\ total_quantity_ \in [Prices -> 0..(QuantityModulus - 1)]
  /\ DOMAIN order_map_ \subseteq Ids
  /\ \A id \in DOMAIN order_map_ : order_map_[id] \in Slots
  /\ bid_count_ \in Nat /\ ask_count_ \in Nat
  /\ best_bid_ \in Prices /\ best_ask_ \in Prices

\* The part of TypeOK about the call in progress.
CallType ==
  /\ pc \in {"idle", "walk", "fill"}
  /\ pc = "idle" <=> call = << >>
  /\ pc # "idle" => \E m \in NewOrderMessage : call = <<m>>
  /\ remaining \in 0..(QuantityModulus - 1) /\ level_price \in Prices
  /\ fills_ \in Seq(Fill)

\* What the validation at the start of process_new_order established still holds.
CallValid ==
  pc # "idle" => /\ call[1].quantity > 0 /\ remaining <= call[1].quantity
                 /\ call[1].type = "Limit" => call[1].price \in Prices

\* uint32_t arithmetic stays in its range.
LEMMA Modulo == \A x \in Int : x % QuantityModulus \in 0..(QuantityModulus - 1)
  BY QuantityAssumption

\* The types that follow from the book's consistency.
CountsInRange ==
  /\ available_ \in Nat /\ bid_count_ \in Nat /\ ask_count_ \in Nat
  /\ best_bid_ \in Prices /\ best_ask_ \in Prices

\* Counters and best prices cannot leave their ranges while the book is consistent:
\* none of the decrements underflows.
LEMMA CountsAndBests ==
  free \subseteq Slots /\ slot \in [Slots -> Order \cup {NoOrder}] /\ BookInv => CountsInRange
<1> SUFFICES ASSUME free \subseteq Slots, slot \in [Slots -> Order \cup {NoOrder}], BookInv
             PROVE  CountsInRange
  OBVIOUS
<1>1. available_ \in Nat /\ bid_count_ \in Nat /\ ask_count_ \in Nat
  BY SidesFinite, SlotsAssumption, FS_Subset, FS_CardinalityType DEF BookInv, SlotsAccounted, SidesCounted
<1>2. \A s \in Resting : slot[s].price \in Prices
  BY DEF BookInv, SlotsAccounted, Resting, Order
<1>3. 0 \in Prices /\ MAX_PRICE_TICKS - 1 \in Prices
  BY PricesType
<1> QED  BY <1>1, <1>2, <1>3 DEF CountsInRange, BookInv, BidTop, AskTop, RestingOn

\* The same of the next state.
LEMMA CountsAndBestsNext ==
  (free \subseteq Slots /\ slot \in [Slots -> Order \cup {NoOrder}] /\ BookInv => CountsInRange)'
BY CountsAndBests, PTL

\* A step that leaves pool and book alone preserves what is said about them.
LEMMA BookUnchanged ==
  ASSUME IInv, UNCHANGED <<poolVars, bookVars>>
  PROVE  BookType' /\ BookInv'
<1> USE DEF poolVars, bookVars
<1>1. BookType'
  BY DEF IInv, TypeOK, BookType
<1>2. SlotsAccounted' /\ Uncrossed' /\ RestingUnfilled'
  BY DEF IInv, BookInv, SlotsAccounted, Uncrossed, RestingUnfilled, Resting, RestingOn, Linked
<1>3. SidesCounted' /\ BidTop' /\ AskTop'
  BY DEF IInv, BookInv, SidesCounted, BidTop, AskTop, Resting, RestingOn
<1> QED  BY <1>1, <1>2, <1>3 DEF BookInv

\* Removing an order preserves the types.
LEMMA RemoveTypes ==
  ASSUME IInv, BookInv', NEW s \in Resting, NEW mem \in [Slots -> Order \cup {NoOrder}],
         NEW total \in [Prices -> 0..(QuantityModulus - 1)],
         mem[s] \in Order, mem[s].price = slot[s].price,
         cancel_order(slot[s].id, mem, total), deallocate(s, mem)
  PROVE  BookType'
<1>1. /\ s \in Slots /\ order_map_[slot[s].id] = s /\ slot[s].price \in Prices
      /\ levels_[slot[s].price] \in Seq(Slots) /\ IsInjective(levels_[slot[s].price])
      /\ s \in Range(levels_[slot[s].price])
  BY RestingFacts
<1>2. slot' \in [Slots -> Order \cup {NoOrder}] /\ free' \subseteq Slots
  <2>1. slot \in [Slots -> Order \cup {NoOrder}] /\ free \subseteq Slots
    BY Zenon DEF IInv, TypeOK
  <2> QED  BY <2>1, <1>1 DEF deallocate
<1>3. levels_' \in [Prices -> Seq(Slots)]
  <2>1. Unlinked(levels_[slot[s].price], s) \in Seq(Slots)
    BY <1>1, UnlinkedElements, SMTT(40)
  <2>2. levels_' = [levels_ EXCEPT ![slot[s].price] = Unlinked(@, s)]
    BY <1>1, ZenonT(40) DEF cancel_order
  <2>3. levels_ \in [Prices -> Seq(Slots)]
    BY Zenon DEF IInv, TypeOK
  <2> QED  BY <2>1, <2>2, <2>3, <1>1
<1>4. total_quantity_' \in [Prices -> 0..(QuantityModulus - 1)]
  <2>1. total_quantity_' = [total EXCEPT ![slot[s].price] = (@ - remaining_quantity(mem[s])) % QuantityModulus]
    BY <1>1, Zenon DEF cancel_order
  <2>2. total[slot[s].price] - remaining_quantity(mem[s]) \in Int
    BY <1>1, QuantityAssumption, SMTT(40) DEF remaining_quantity, Order
  <2> QED  BY <2>1, <2>2, Modulo, ZenonT(40)
<1>5. DOMAIN order_map_' \subseteq Ids /\ \A id \in DOMAIN order_map_' : order_map_'[id] \in Slots
  BY ZenonT(40) DEF cancel_order, IInv, TypeOK
<1> QED  BY <1>2, <1>3, <1>4, <1>5, CountsAndBestsNext DEF BookType, CountsInRange

\* Adding an order preserves the types.
LEMMA AddTypes ==
  ASSUME IInv, BookInv', NEW s \in free, NEW o \in Order, allocate(s, o), add_order(s, o)
  PROVE  BookType'
<1>1. o.price \in Prices /\ s \in Slots /\ o.id \in Ids
  BY DEF Order, IInv, TypeOK
<1>2. slot' \in [Slots -> Order \cup {NoOrder}] /\ free' \subseteq Slots
  BY <1>1 DEF allocate, IInv, TypeOK
<1>3. levels_' \in [Prices -> Seq(Slots)]
  <2>1. Append(levels_[o.price], s) \in Seq(Slots)
    BY <1>1, AppendProperties DEF IInv, TypeOK
  <2>2. levels_' = [levels_ EXCEPT ![o.price] = Append(@, s)]
    BY DEF add_order
  <2>3. levels_ \in [Prices -> Seq(Slots)]
    BY Zenon DEF IInv, TypeOK
  <2> QED  BY <2>1, <2>2, <2>3, <1>1
<1>4. total_quantity_' \in [Prices -> 0..(QuantityModulus - 1)]
  <2>1. total_quantity_' = [total_quantity_ EXCEPT ![o.price] = (@ + remaining_quantity(o)) % QuantityModulus]
    BY DEF add_order
  <2>2. total_quantity_[o.price] + remaining_quantity(o) \in Int
    BY <1>1, QuantityAssumption, SMTT(40) DEF remaining_quantity, Order, IInv, TypeOK
  <2> QED  BY <2>1, <2>2, Modulo, Zenon DEF IInv, TypeOK
<1>5. DOMAIN order_map_' \subseteq Ids /\ \A id \in DOMAIN order_map_' : order_map_'[id] \in Slots
  BY <1>1 DEF add_order, IInv, TypeOK
<1> QED  BY <1>2, <1>3, <1>4, <1>5, CountsAndBestsNext DEF BookType, CountsInRange

\* A fill that leaves something of the maker keeps the book consistent.
LEMMA PartialFillPreserves ==
  ASSUME IInv, NEW s \in Resting, NEW o \in Order, remaining_quantity(o) > 0,
         o.id = slot[s].id, o.side = slot[s].side, o.price = slot[s].price,
         slot' = [slot EXCEPT ![s] = o],
         UNCHANGED <<free, available_, levels_, order_map_, bid_count_, ask_count_, best_bid_, best_ask_>>
  PROVE  BookInv'
<1>1. s \in Slots /\ slot \in [Slots -> Order \cup {NoOrder}] /\ o # NoOrder /\ s \notin free
  BY NoOrderAssumption DEF IInv, TypeOK, Resting
<1>2. \A t \in Slots : slot'[t] = IF t = s THEN o ELSE slot[t]
  BY <1>1
<1>3. Resting' = Resting /\ \A t \in Resting : t \in Slots
  BY DEF Resting
<1>4. /\ \A t \in Resting : slot'[t].id = slot[t].id /\ slot'[t].side = slot[t].side
                            /\ slot'[t].price = slot[t].price
  BY <1>2, <1>3
<1>5. RestingOn("Bid")' = RestingOn("Bid") /\ RestingOn("Ask")' = RestingOn("Ask")
  BY <1>3, <1>4, SMTT(40) DEF RestingOn
<1>6. SlotsAccounted'
  <2>a. /\ available_ = Cardinality(free) /\ Range(order_map_) = Resting
        /\ \A i \in DOMAIN order_map_ : slot[order_map_[i]].id = i
    BY Zenon DEF IInv, BookInv, SlotsAccounted
  <2>b. \A t \in Slots : t \in free <=> slot[t] = NoOrder
    BY Zenon DEF IInv, BookInv, SlotsAccounted
  <2>c. \A x \in Prices : IsInjective(levels_[x]) /\ Linked(x) = {t \in Resting : slot[t].price = x}
    BY Zenon DEF IInv, BookInv, SlotsAccounted
  <2>1. \A t \in Slots : t \in free' <=> slot'[t] = NoOrder
    BY <1>1, <1>2, <2>b
  <2>2. \A x \in Prices : IsInjective(levels_'[x]) /\ Linked(x)' = {t \in Resting' : slot'[t].price = x}
    BY <1>3, <1>4, <2>c DEF Linked
  <2>3. Range(order_map_') = Resting' /\ available_' = Cardinality(free')
    BY <2>a, <1>3
  <2>4. \A i \in DOMAIN order_map_ : order_map_[i] \in Resting
    BY <2>a DEF Range
  <2>5. \A i \in DOMAIN order_map_' : slot'[order_map_'[i]].id = i
    BY <2>4, <2>a, <1>4
  <2> QED  BY <2>1, <2>2, <2>3, <2>5, Zenon DEF SlotsAccounted
<1>7. Uncrossed' /\ BidTop' /\ AskTop'
  BY <1>4, <1>5 DEF IInv, BookInv, Uncrossed, BidTop, AskTop, RestingOn
<1>8. SidesCounted'
  BY <1>5, Zenon DEF IInv, BookInv, SidesCounted
<1>9. RestingUnfilled'
  BY <1>2, <1>3 DEF IInv, BookInv, RestingUnfilled, remaining_quantity
<1> QED  BY <1>6, <1>7, <1>8, <1>9, SMTT(40) DEF BookInv

(***************************************************************************)
(* Steps of process()                                                      *)
(***************************************************************************)

\* One turn of fill_level's loop, whether the maker is used up or not.
LEMMA FillStep ==
  ASSUME IInv, CallValid, fill_level
  PROVE  BookType' /\ BookInv' /\ CallType' /\ CallValid'
<1> DEFINE s     == Head(levels_[level_price])
           qty   == Min({remaining, remaining_quantity(slot[s])})
           mem   == [slot EXCEPT ![s].filled_quantity = @ + qty]
           total == [total_quantity_ EXCEPT ![level_price] = (@ - qty) % QuantityModulus]
           Q     == 0..(QuantityModulus - 1)
<1>1. /\ pc = "fill" /\ remaining > 0 /\ levels_[level_price] # << >>
      /\ UNCHANGED <<pc, call, level_price>>
      /\ remaining' = remaining - qty
      /\ fills_' = Append(fills_, [aggressive_id |-> call[1].id, passive_id |-> slot[s].id,
                                   price |-> level_price, quantity |-> qty,
                                   aggressor_side |-> call[1].side])
      /\ IF is_filled(mem[s])
         THEN cancel_order(slot[s].id, mem, total) /\ deallocate(s, mem)
         ELSE /\ slot' = mem /\ total_quantity_' = total
              /\ UNCHANGED <<free, available_, levels_, order_map_,
                             bid_count_, ask_count_, best_bid_, best_ask_>>
  BY DEF fill_level
<1>2. /\ slot \in [Slots -> Order \cup {NoOrder}] /\ levels_ \in [Prices -> Seq(Slots)]
      /\ total_quantity_ \in [Prices -> Q] /\ remaining \in Q /\ level_price \in Prices
  BY DEF IInv, TypeOK
<1>3. s \in Resting /\ slot[s].price = level_price /\ slot[s] \in Order /\ s \in Slots
  <2>1. s \in Range(levels_[level_price])
    <3>1. levels_[level_price] \in Seq(Slots)
      BY <1>2
    <3>2. Len(levels_[level_price]) \in Nat /\ DOMAIN levels_[level_price] = 1..Len(levels_[level_price])
      BY <3>1, LenProperties
    <3>3. Len(levels_[level_price]) # 0
      BY <3>1, <1>1, EmptySeq, Zenon
    <3>4. 1 \in DOMAIN levels_[level_price] /\ s = levels_[level_price][1]
      BY <3>1, <3>2, <3>3
    <3> QED  BY <3>4 DEF Range
  <2>2. s \in Resting /\ slot[s].price = level_price
    BY <2>1, <1>2 DEF IInv, BookInv, SlotsAccounted, Linked
  <2> QED  BY <2>2, RestingFacts
<1> HIDE DEF s
<1>4. /\ slot[s].quantity \in Q /\ slot[s].filled_quantity \in Q
      /\ slot[s].filled_quantity < slot[s].quantity
  BY <1>3, QuantityAssumption DEF Order, IInv, BookInv, RestingUnfilled, remaining_quantity
<1>5. qty \in Nat /\ 1 <= qty /\ qty <= remaining /\ qty <= remaining_quantity(slot[s])
  <2>1. remaining \in Nat /\ remaining_quantity(slot[s]) \in Nat /\ remaining_quantity(slot[s]) > 0
    BY <1>2, <1>4, QuantityAssumption DEF remaining_quantity
  <2>2. {remaining, remaining_quantity(slot[s])} \in SUBSET Nat
    BY <2>1
  <2>3. qty \in {remaining, remaining_quantity(slot[s])}
        /\ \A y \in {remaining, remaining_quantity(slot[s])} : qty <= y
    BY <2>2, LeastNatural
  <2> HIDE DEF qty
  <2> QED  BY <2>1, <2>3, <1>1
<1> HIDE DEF qty
<1>6. /\ mem \in [Slots -> Order \cup {NoOrder}]
      /\ \A t \in Slots \ {s} : mem[t] = slot[t]
      /\ mem[s] \in Order /\ mem[s].id = slot[s].id
      /\ mem[s].side = slot[s].side /\ mem[s].price = slot[s].price
      /\ mem[s].quantity = slot[s].quantity
      /\ mem[s].filled_quantity = slot[s].filled_quantity + qty
      /\ mem = [slot EXCEPT ![s] = mem[s]]
  <2>1. slot[s].filled_quantity + qty \in Q
    BY <1>4, <1>5, QuantityAssumption DEF remaining_quantity
  <2>2. [slot[s] EXCEPT !.filled_quantity = @ + qty] \in Order
    BY <2>1, <1>3 DEF Order
  <2> QED  BY <2>2, <1>2, <1>3 DEF Order
<1>7. total \in [Prices -> Q]
  <2>1. total_quantity_[level_price] - qty \in Int
    BY <1>2, <1>5, QuantityAssumption
  <2> QED  BY <2>1, <1>2, Modulo
<1> HIDE DEF mem, total
<1>8. BookInv' /\ BookType'
  <2>1. CASE is_filled(mem[s])
    <3>1. BookInv'
      <4>1. cancel_order(slot[s].id, mem, total) /\ deallocate(s, mem)
        BY <2>1, <1>1
      <4>2. s \in Resting
        BY <1>1, <1>3
      <4> QED  BY <4>1, <4>2, <1>6, RemovePreserves, Zenon
    <3> QED  BY <2>1, <3>1, <1>1, <1>3, <1>6, <1>7, RemoveTypes, Zenon
  <2>2. CASE ~is_filled(mem[s])
    <3>1. remaining_quantity(mem[s]) > 0
      BY <2>2, <1>4, <1>5, <1>6, QuantityAssumption DEF is_filled, remaining_quantity
    <3>2. BookInv'
      <4>1. /\ slot' = [slot EXCEPT ![s] = mem[s]]
            /\ UNCHANGED <<free, available_, levels_, order_map_, bid_count_, ask_count_, best_bid_, best_ask_>>
        BY <2>2, <1>1, <1>6
      <4>2. s \in Resting /\ mem[s] \in Order /\ mem[s].id = slot[s].id
            /\ mem[s].side = slot[s].side /\ mem[s].price = slot[s].price
        BY <1>1, <1>3, <1>6
      <4> QED  BY <4>1, <4>2, <3>1, PartialFillPreserves, Zenon
    <3>3. /\ slot' = mem /\ total_quantity_' = total
          /\ UNCHANGED <<free, available_, levels_, order_map_, bid_count_, ask_count_, best_bid_, best_ask_>>
      BY <2>2, <1>1
    <3>4. BookType'
      BY <3>3, <1>6, <1>7, ZenonT(40) DEF BookType, IInv, TypeOK
    <3> QED  BY <3>2, <3>4
  <2> QED  BY <2>1, <2>2, SMTT(40)
<1>9. PICK m \in NewOrderMessage : call = <<m>>
  BY <1>1 DEF IInv, TypeOK
<1>10. m.id \in Ids /\ m.side \in Sides /\ m.quantity \in Int /\ call[1] = m
  BY <1>9, MessageTypes, QuantityAssumption, SMTT(40)
<1>11. remaining' \in Q
  BY <1>1, <1>2, <1>5, QuantityAssumption
<1>12. fills_' \in Seq(Fill)
  <2>1. slot[s].id \in Ids /\ qty \in 1..(QuantityModulus - 1)
    BY <1>2, <1>3, <1>5, QuantityAssumption, SMTT(40) DEF Order
  <2>2. [aggressive_id |-> call[1].id, passive_id |-> slot[s].id, price |-> level_price,
         quantity |-> qty, aggressor_side |-> call[1].side] \in Fill
    BY <2>1, <1>2, <1>10 DEF Fill
  <2>3. fills_ \in Seq(Fill)
    BY SMTT(40) DEF IInv, TypeOK
  <2> QED  BY <2>2, <2>3, <1>1, AppendProperties, Zenon
<1>13. CallType'
  BY <1>1, <1>11, <1>12, ZenonT(40) DEF CallType, IInv, TypeOK
<1>14. CallValid'
  <2>1. remaining' <= remaining
    BY <1>1, <1>2, <1>5, QuantityAssumption, SMTT(40)
  <2>2. remaining \in Int /\ remaining' \in Int /\ call[1].quantity \in Int
    BY <1>2, <1>10, <1>11, QuantityAssumption, SMTT(40)
  <2> QED  BY <2>1, <2>2, <1>1, SMTT(40) DEF CallValid
<1> QED  BY <1>8, <1>13, <1>14

\* Resting the remainder: by the end of the walk nothing on the other side crosses.
LEMMA RestStep ==
  ASSUME IInv, CallValid, RestRemainder
  PROVE  BookType' /\ BookInv'
<1>1. PICK m \in NewOrderMessage : call = <<m>>
  BY SMTT(40) DEF RestRemainder, IInv, TypeOK
<1> DEFINE o == [id |-> m.id, side |-> m.side, price |-> m.price,
                 quantity |-> m.quantity, filled_quantity |-> m.quantity - remaining]
<1>2. /\ pc = "walk" /\ ~Crosses /\ remaining > 0 /\ m.type = "Limit"
      /\ \E s \in free : m.id \notin DOMAIN order_map_ /\ allocate(s, o) /\ add_order(s, o)
  BY <1>1, SMTT(40) DEF RestRemainder
<1>3. PICK s \in free : m.id \notin DOMAIN order_map_ /\ allocate(s, o) /\ add_order(s, o)
  BY <1>2, SMTT(40)
<1>4. /\ m.price \in Prices /\ m.id \in Ids /\ m.side \in Sides
      /\ m.quantity \in 1..(QuantityModulus - 1) /\ remaining \in 1..m.quantity
  <2>1. call[1] = m /\ m.id \in Ids /\ m.side \in Sides /\ m.quantity \in 0..(QuantityModulus - 1)
    BY <1>1, MessageTypes, SMTT(40)
  <2>2. m.price \in Prices /\ m.quantity > 0 /\ remaining <= m.quantity
    BY <2>1, <1>2 DEF CallValid
  <2>3. remaining \in Int
    BY QuantityAssumption DEF IInv, TypeOK
  <2> QED  BY <2>1, <2>2, <2>3, <1>2, QuantityAssumption
<1>5. o \in Order /\ remaining_quantity(o) > 0
  BY <1>4, QuantityAssumption DEF Order, remaining_quantity
<1>6. \A t \in Resting : slot[t].price \in Int
  BY RestingFacts, PricesType
<1>7. m.price \in Int /\ best_bid_ \in Int /\ best_ask_ \in Int /\ bid_count_ \in Nat /\ ask_count_ \in Nat
  BY <1>4, PricesType DEF IInv, TypeOK
<1>8. o.side = "Bid" => \A a \in RestingOn("Ask") : o.price < slot[a].price
  <2> SUFFICES ASSUME m.side = "Bid", NEW a \in RestingOn("Ask") PROVE m.price < slot[a].price
    OBVIOUS
  <2>1. ask_count_ # 0
    BY SidesFinite DEF IInv, BookInv, SidesCounted
  <2>2. best_ask_ > m.price
    BY <2>1, <1>1, <1>2, <1>7 DEF Crosses, has_asks
  <2>3. slot[a].price >= best_ask_
    BY <2>1 DEF IInv, BookInv, AskTop
  <2>4. slot[a].price \in Int
    BY <1>6 DEF RestingOn
  <2> QED  BY <2>2, <2>3, <2>4, <1>7, SMTT(40)
<1>9. o.side = "Ask" => \A b \in RestingOn("Bid") : slot[b].price < o.price
  <2> SUFFICES ASSUME m.side = "Ask", NEW b \in RestingOn("Bid") PROVE slot[b].price < m.price
    OBVIOUS
  <2>1. bid_count_ # 0
    BY SidesFinite DEF IInv, BookInv, SidesCounted
  <2>2. best_bid_ < m.price
    BY <2>1, <1>1, <1>2, <1>7 DEF Crosses, has_bids
  <2>3. slot[b].price <= best_bid_
    BY <2>1 DEF IInv, BookInv, BidTop
  <2>4. slot[b].price \in Int
    BY <1>6 DEF RestingOn
  <2> QED  BY <2>2, <2>3, <2>4, <1>7, SMTT(40)
<1>10. o.id \notin DOMAIN order_map_
  <2>1. m.id \notin DOMAIN order_map_
    BY <1>3, Zenon
  <2> QED  BY <2>1
<1> HIDE DEF o
<1>11. BookInv'
  BY <1>3, <1>5, <1>8, <1>9, <1>10, AddPreserves
<1> QED  BY <1>3, <1>5, <1>11, AddTypes, Zenon

\* process_cancel, of a known and of an unknown id.
LEMMA CancelStep ==
  ASSUME IInv, NEW id \in Ids, process_cancel(id)
  PROVE  BookType' /\ BookInv'
<1>1. CASE id \in DOMAIN order_map_
  <2> DEFINE s == order_map_[id]
  <2>1. s \in Resting /\ slot[s].id = id
    BY <1>1 DEF IInv, BookInv, SlotsAccounted, Range
  <2>2. cancel_order(slot[s].id, slot, total_quantity_) /\ deallocate(s, slot)
    BY <1>1, <2>1, Zenon DEF process_cancel
  <2>3. /\ slot \in [Slots -> Order \cup {NoOrder}] /\ slot[s] \in Order
        /\ total_quantity_ \in [Prices -> 0..(QuantityModulus - 1)]
    BY <2>1, RestingFacts DEF IInv, TypeOK
  <2> HIDE DEF s
  <2>4. BookInv'
    BY <2>1, <2>2, <2>3, RemovePreserves
  <2> QED  BY <2>1, <2>2, <2>3, <2>4, RemoveTypes
<1>2. CASE id \notin DOMAIN order_map_
  BY <1>2, BookUnchanged DEF process_cancel
<1> QED  BY <1>1, <1>2

\* The inductive invariant of the engine.
Inductive == IInv /\ CallValid

\* An empty book satisfies it.
LEMMA InitInductive == Init => Inductive
<1> SUFFICES ASSUME Init PROVE Inductive
  OBVIOUS
<1> USE DEF Init
<1>1. 0 \in Prices /\ MAX_PRICE_TICKS - 1 \in Prices
  BY PricesType
<1>2. Cardinality(Slots) \in Nat
  BY SlotsAssumption, FS_CardinalityType
<1>3. DOMAIN order_map_ = {}
  OBVIOUS
<1>4. TypeOK
  BY <1>1, <1>2, <1>3, QuantityAssumption, EmptySeq DEF TypeOK
<1>5. Resting = {} /\ RestingOn("Bid") = {} /\ RestingOn("Ask") = {}
  BY DEF Resting, RestingOn
<1>6. SlotsAccounted
  <2>1. \A p \in Prices : IsInjective(levels_[p]) /\ Linked(p) = {}
    BY DEF IsInjective, Linked, Range
  <2> QED  BY <2>1, <1>3, <1>5 DEF SlotsAccounted, Range
<1>7. Uncrossed /\ RestingUnfilled
  BY <1>5 DEF Uncrossed, RestingUnfilled
<1>8. SidesCounted
  BY <1>5, FS_EmptySet, ZenonT(40) DEF SidesCounted
<1>9. BidTop /\ AskTop /\ CallValid
  BY DEF BidTop, AskTop, CallValid
<1> QED  BY <1>4, <1>6, <1>7, <1>8, <1>9 DEF Inductive, IInv, BookInv

\* process_new_order's return leaves no call behind.
LEMMA ReturnKeeps ==
  ASSUME Return, fills_' = fills_, fills_ \in Seq(Fill), 0 \in Prices, 0 \in 0..(QuantityModulus - 1)
  PROVE  CallType' /\ CallValid'
  BY DEF Return, CallType, CallValid

\* Every step of process() preserves it.
LEMMA NextInductive == Inductive /\ [Next]_vars => Inductive'
<1> SUFFICES ASSUME Inductive, [Next]_vars PROVE BookType' /\ BookInv' /\ CallType' /\ CallValid'
  BY ZenonT(40) DEF Inductive, IInv, TypeOK, BookType, CallType
<1> USE DEF Inductive
<1>t. /\ level_price \in Prices /\ fills_ \in Seq(Fill) /\ remaining \in 0..(QuantityModulus - 1)
      /\ << >> \in Seq(Fill) /\ best_bid_ \in Prices /\ best_ask_ \in Prices
      /\ 0 \in Prices /\ 0 \in 0..(QuantityModulus - 1)
  BY EmptySeq, PricesType, QuantityAssumption DEF IInv, TypeOK
<1>1. ASSUME NEW m \in NewOrderMessage, process_new_order(m)
      PROVE  BookType' /\ BookInv' /\ CallType' /\ CallValid'
  <2>1. UNCHANGED <<poolVars, bookVars>> /\ pc = "idle" /\ fills_' = << >>
    BY <1>1 DEF process_new_order
  <2>2. m.quantity \in 0..(QuantityModulus - 1) /\ m.price \in Int
    BY MessageTypes
  <2>3. CASE UNCHANGED callVars
    <3>1. CallType' /\ CallValid'
      BY <2>1, <2>3, <1>t, ZenonT(40) DEF callVars, CallType, CallValid, IInv, TypeOK
    <3> QED  BY <3>1, <2>1, BookUnchanged, SMTT(40)
  <2>4. CASE ~(UNCHANGED callVars)
    <3>1. /\ pc' = "walk" /\ call' = <<m>> /\ remaining' = m.quantity /\ level_price' = level_price
          /\ m.quantity # 0 /\ (m.type = "Limit" => ~(m.price < 0) /\ ~(m.price >= MAX_PRICE_TICKS))
      BY <1>1, <2>4 DEF process_new_order
    <3>2. call'[1] = m /\ call' # << >>
      BY <3>1
    <3>3. m.type = "Limit" => m.price \in Prices
      BY <3>1, <2>2, PricesAssumption DEF Prices
    <3>4. CallType'
      BY <3>1, <3>2, <2>1, <2>2, <1>t DEF CallType
    <3>5. CallValid'
      BY <3>1, <3>2, <3>3, <2>2, QuantityAssumption, SMTT(40) DEF CallValid
    <3> QED  BY <3>4, <3>5, <2>1, BookUnchanged
  <2> QED  BY <2>1, <2>3, <2>4, BookUnchanged
<1>2. CASE EnterLevel
  BY <1>2, <1>t, BookUnchanged DEF EnterLevel, CallType, CallValid, IInv, TypeOK
<1>3. CASE fill_level
  BY <1>3, FillStep
<1>4. CASE LeaveLevel
  <2>1. /\ pc = "fill" /\ pc' = "walk" /\ fills_' = fills_ /\ remaining' = remaining /\ call' = call
        /\ level_price' \in {0, level_price}
    BY <1>4 DEF LeaveLevel
  <2>2. UNCHANGED <<poolVars, bookVars>>
    BY <1>4 DEF LeaveLevel
  <2>3. CallType' /\ CallValid'
    BY <2>1, <1>t DEF CallType, CallValid, IInv, TypeOK
  <2> QED  BY <2>2, <2>3, BookUnchanged
<1>5. CASE RestRemainder
  <2>1. Return /\ fills_' = fills_
    BY <1>5, Zenon DEF RestRemainder
  <2> QED  BY <2>1, <1>5, <1>t, ReturnKeeps, RestStep, Zenon
<1>6. CASE DropRemainder
  <2>1. Return /\ fills_' = fills_ /\ UNCHANGED <<poolVars, bookVars>>
    BY <1>6 DEF DropRemainder
  <2> QED  BY <2>1, <1>t, ReturnKeeps, BookUnchanged
<1>7. ASSUME NEW id \in Ids, process_cancel(id)
      PROVE  BookType' /\ BookInv' /\ CallType' /\ CallValid'
  <2>1. fills_' = << >> /\ UNCHANGED callVars
    BY <1>7, Zenon DEF process_cancel
  <2>2. CallType' /\ CallValid'
    BY <2>1, <1>t, ZenonT(40) DEF callVars, CallType, CallValid, IInv, TypeOK
  <2> QED  BY <1>7, <2>2, CancelStep, Zenon
<1>8. CASE UNCHANGED vars
  BY <1>8, BookUnchanged, ZenonT(40) DEF vars, callVars, CallType, CallValid, IInv, TypeOK
<1> QED  BY <1>1, <1>2, <1>3, <1>4, <1>5, <1>6, <1>7, <1>8 DEF Next

\* The best prices as bounds are the best prices as maximum and minimum.
LEMMA TopsAreBest == Inductive => BestPricesExact
<1> SUFFICES ASSUME Inductive PROVE BestPricesExact
  OBVIOUS
<1> DEFINE bids == {slot[s].price : s \in RestingOn("Bid")}
           asks == {slot[s].price : s \in RestingOn("Ask")}
<1>1. IInv /\ SidesCounted /\ BidTop /\ AskTop /\ bid_count_ \in Nat /\ ask_count_ \in Nat
  BY DEF Inductive, IInv, TypeOK, BookInv
<1>2. bids \in SUBSET (0..(MAX_PRICE_TICKS - 1)) /\ asks \in SUBSET (0..(MAX_PRICE_TICKS - 1))
  BY <1>1, RestingFacts, PricesType DEF RestingOn
<1>3. bid_count_ # 0 => best_bid_ \in bids /\ \A x \in bids : x <= best_bid_
  BY <1>1 DEF BidTop
<1>4. ask_count_ # 0 => best_ask_ \in asks /\ \A x \in asks : x >= best_ask_
  BY <1>1 DEF AskTop
<1> HIDE DEF bids, asks
<1>5. bid_count_ # 0 => best_bid_ = Max(bids)
  <2> SUFFICES ASSUME bid_count_ # 0 PROVE best_bid_ = Max(bids)
    OBVIOUS
  <2>1. /\ MAX_PRICE_TICKS - 1 \in Nat
        /\ best_bid_ \in bids /\ bids # {}
        /\ \A x \in bids : x <= best_bid_ /\ x \in Int
    BY <1>2, <1>3, PricesType
  <2>2. Max(bids) \in bids /\ \A y \in bids : Max(bids) >= y
    BY <2>1, <1>2, GreatestBounded
  <2>3. Max(bids) \in Int /\ best_bid_ \in Int /\ Max(bids) <= best_bid_ /\ Max(bids) >= best_bid_
    BY <2>1, <2>2
  <2> QED  BY <2>3
<1>6. ask_count_ # 0 => best_ask_ = Min(asks)
  <2> SUFFICES ASSUME ask_count_ # 0 PROVE best_ask_ = Min(asks)
    OBVIOUS
  <2>0. asks \in SUBSET Nat
    BY <1>2
  <2>1. /\ best_ask_ \in asks /\ asks # {}
        /\ \A x \in asks : x >= best_ask_ /\ x \in Int
    BY <1>2, <1>4
  <2>2. Min(asks) \in asks /\ \A y \in asks : Min(asks) <= y
    BY <2>0, <2>1, LeastNatural
  <2>3. Min(asks) \in Int /\ best_ask_ \in Int /\ Min(asks) <= best_ask_ /\ Min(asks) >= best_ask_
    BY <2>1, <2>2
  <2> QED  BY <2>3
<1>7. best_bid_ = IF has_bids THEN Max(bids) ELSE 0
  BY <1>1, <1>5 DEF has_bids, BidTop
<1>8. best_ask_ = IF has_asks THEN Min(asks) ELSE MAX_PRICE_TICKS - 1
  BY <1>1, <1>6 DEF has_asks, AskTop
<1> QED  BY <1>1, <1>7, <1>8 DEF BestPricesExact, SidesCounted, bids, asks

\* The invariant holds at every step inside every call of process().
LEMMA Invariance == Spec => []Inductive
  BY InitInductive, NextInductive, PTL DEF Spec

\* MatchingEngine::process keeps the side counters and the lazily repaired best prices
\* exact, for any number of prices, slots and ids; no filled order is left resting.
THEOREM Safety == Spec => [](TypeOK /\ BestPricesExact /\ RestingUnfilled)
<1>1. Inductive => TypeOK /\ RestingUnfilled
  BY DEF Inductive, IInv, BookInv
<1> QED  BY <1>1, Invariance, TopsAreBest, PTL

\* Pool, id map and levels agree on every slot: none leaks, none is handed out twice and
\* none is given back while it is linked.
THEOREM NoSlotLeaks == Spec => []SlotsAccounted
<1>1. Inductive => SlotsAccounted
  BY DEF Inductive, IInv, BookInv
<1> QED  BY <1>1, Invariance, PTL

\* Bids and asks share one array of levels, and never meet in it.
THEOREM BookUncrossed == Spec => []Uncrossed
<1>1. Inductive => Uncrossed
  BY DEF Inductive, IInv, BookInv
<1> QED  BY <1>1, Invariance, PTL
=============================================================================
