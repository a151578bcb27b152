------------------------------ MODULE BookLadder ------------------------------
(***************************************************************************)
(* The ladder DashboardHub::publish_book copies out of the engine's book   *)
(* between two calls of process(): a walk over the shared level array from *)
(* each best price outwards, which does not look at the side of what it    *)
(* finds.  The depth and the scan limit are parameters.                    *)
(***************************************************************************)
EXTENDS MatchingEngineRefinement, SequencesExt

\* mutant: the walk stops one tick short of the floor
BidTicksShort(SCAN_LIMIT) ==
  IF has_bids THEN (Max({0, best_bid_ - SCAN_LIMIT}) + 1)..best_bid_ ELSE {}

BidTicks(SCAN_LIMIT) == IF has_bids THEN Max({0, best_bid_ - SCAN_LIMIT})..best_bid_ ELSE {}

AskTicks(SCAN_LIMIT) ==
  IF has_asks
  THEN best_ask_..(IF best_ask_ < MAX_PRICE_TICKS - SCAN_LIMIT THEN best_ask_ + SCAN_LIMIT
                   ELSE MAX_PRICE_TICKS - 1)
  ELSE {}

\* the first BOOK_DEPTH levels that are not empty, bids downwards and asks upwards
Rows(side, ticks, BOOK_DEPTH) ==
  LET Nearer(p, q) == IF side = "Bid" THEN p > q ELSE p < q
      found == SetToSortSeq({p \in ticks : levels_[p] # << >>}, Nearer)
  IN  [i \in 1..Min({BOOK_DEPTH, Len(found)}) |->
         [price |-> found[i], quantity |-> total_quantity_[found[i]], orders |-> Len(levels_[found[i]])]]

publish_book(BOOK_DEPTH, SCAN_LIMIT) ==
  [Bid |-> Rows("Bid", BidTicks(SCAN_LIMIT), BOOK_DEPTH),
   Ask |-> Rows("Ask", AskTicks(SCAN_LIMIT), BOOK_DEPTH)]

(***************************************************************************)
(* The same ladder, from the resting orders alone                          *)
(***************************************************************************)

OrdersAt(side, p) == {s \in RestingOn(side) : slot[s].price = p}
PricesOf(side) == {slot[s].price : s \in RestingOn(side)}
Ahead(side, p) == {q \in PricesOf(side) : IF side = "Bid" THEN q > p ELSE q < p}

\* the distance of p from the side's best price
Away(side, p) == IF side = "Bid" THEN Max(PricesOf(side)) - p ELSE p - Min(PricesOf(side))

\* Whatever its depth and its scan limit, the published ladder shows of each side the
\* nearest levels within the limit, best first, each with the orders of that side only,
\* their number and what they have left in the arithmetic of uint32_t.
LadderExact ==
  pc = "idle" =>
    \A depth \in 1..2, limit \in {0, 1, MAX_PRICE_TICKS}, side \in Sides :
      LET rows  == publish_book(depth, limit)[side]
          shown == {p \in PricesOf(side) : Cardinality(Ahead(side, p)) < depth /\ Away(side, p) <= limit}
      IN  /\ Len(rows) = Cardinality(shown)
          /\ \A p \in shown :
               rows[Cardinality(Ahead(side, p)) + 1] =
                 [price |-> p, orders |-> Cardinality(OrdersAt(side, p)),
                  quantity |-> MapThenSumSet(LAMBDA s : remaining_quantity(slot[s]), OrdersAt(side, p))
                               % QuantityModulus]
===============================================================================
