----------------------- MODULE MatchingEngineRefinement -----------------------
(***************************************************************************)
(* MatchingEngine implements PriceTimeBook.                                *)
(***************************************************************************)
EXTENDS MatchingEngine

\* The shared level array, split by side, with what an order has left.
SideQueue(side, p) ==
  LET mine == SelectSeq(levels_[p], LAMBDA s : slot[s].side = side)
  IN  [i \in DOMAIN mine |-> [id |-> slot[mine[i]].id, remaining |-> remaining_quantity(slot[mine[i]])]]

Abstract == INSTANCE PriceTimeBook WITH
  Messages <- NewOrderMessage, MaxResting <- Cardinality(Slots),
  queue <- [side \in Sides |-> [p \in Prices |-> SideQueue(side, p)]],
  taker <- IF pc = "idle" THEN << >> ELSE <<[order |-> call[1], remaining |-> remaining]>>,
  fills <- fills_

\* The engine implements price-time priority: every fill takes the oldest order
\* at the best opposite price within the taker's limit, at that order's price,
\* remainders join the back of the queue, and a cancel removes one order only.
ImplementsPriceTime == Abstract!Spec
=============================================================================
