---------------------------- MODULE PriceTimeBook ----------------------------
(***************************************************************************)
(* What the matching engine promises (core/matching_engine.h, header       *)
(* comment): price-time priority.  The two sides of the book are separate, *)
(* every side keeps a queue per price in arrival order, and an order in    *)
(* flight (the taker) trades with the front of the best opposite queue for *)
(* as long as its limit allows.  There is no pool of slots, no id map, no  *)
(* cached best price and no counter here: only how many orders may rest.   *)
(***************************************************************************)
EXTENDS Integers, Sequences, FiniteSetsExt

CONSTANTS Prices,     \* the ticks an order may rest at
          Messages,   \* new orders that may arrive
          Ids,        \* order ids
          MaxResting  \* how many orders may rest at once

VARIABLES queue,      \* queue[side][price]: resting orders, oldest first
          taker,      \* the order being matched, << >> if there is none
          fills       \* what the current order traded so far

vars == <<queue, taker, fills>>

Sides == {"Bid", "Ask"}
Opposite(side) == IF side = "Bid" THEN "Ask" ELSE "Bid"

NonEmpty(side) == {p \in Prices : queue[side][p] # << >>}
BestOf(side) == IF side = "Bid" THEN Max(NonEmpty(side)) ELSE Min(NonEmpty(side))
Resting == {r \in Sides \X Prices \X (1..MaxResting) : r[3] <= Len(queue[r[1]][r[2]])}
RestingIds == {queue[r[1]][r[2]][r[3]].id : r \in Resting}

\* a limit order trades at its own price or better, a market order at any price
Accepts(m, p) == m.type = "Market" \/ (IF m.side = "Bid" THEN p <= m.price ELSE p >= m.price)

Init ==
  /\ queue = [side \in Sides |-> [p \in Prices |-> << >>]]
  /\ taker = << >>
  /\ fills = << >>

Valid(m) == m.quantity > 0 /\ (m.type = "Market" \/ m.price \in Prices)

Arrive(m) ==
  /\ taker = << >>
  /\ fills' = << >>
  /\ taker' = IF Valid(m) THEN <<[order |-> m, remaining |-> m.quantity]>> ELSE << >>
  /\ UNCHANGED queue

CanTrade(t) ==
  LET opp == Opposite(t.order.side)
  IN  t.remaining > 0 /\ NonEmpty(opp) # {} /\ Accepts(t.order, BestOf(opp))

\* one execution: the taker against the oldest order of the best opposite price
Trade ==
  /\ taker # << >>
  /\ LET t   == taker[1]
         opp == Opposite(t.order.side)
         p   == BestOf(opp)
         o   == Head(queue[opp][p])
         n   == Min({t.remaining, o.remaining})
     IN  /\ CanTrade(t)
         /\ fills' = Append(fills, [aggressive_id |-> t.order.id, passive_id |-> o.id, price |-> p,
                                    quantity |-> n, aggressor_side |-> t.order.side])
         /\ taker' = <<[t EXCEPT !.remaining = @ - n]>>
         /\ queue' = [queue EXCEPT ![opp][p] =
                        IF o.remaining = n THEN Tail(@)
                        ELSE <<[o EXCEPT !.remaining = @ - n]>> \o Tail(@)]

\* no more trades: a limit remainder joins the end of its price's queue if its
\* id is not resting already and there is room; everything else is discarded
Settle ==
  /\ taker # << >>
  /\ LET t == taker[1]
         m == t.order
     IN  /\ ~CanTrade(t)
         /\ queue' = IF /\ t.remaining > 0 /\ m.type = "Limit"
                        /\ m.id \notin RestingIds
                        /\ Cardinality(Resting) < MaxResting
                     THEN [queue EXCEPT ![m.side][m.price] =
                             Append(@, [id |-> m.id, remaining |-> t.remaining])]
                     ELSE queue
  /\ taker' = << >>
  /\ UNCHANGED fills

Cancel(id) ==
  /\ taker = << >>
  /\ fills' = << >>
  /\ queue' = [side \in Sides |-> [p \in Prices |->
                 SelectSeq(queue[side][p], LAMBDA o : o.id # id)]]
  /\ UNCHANGED taker

Next ==
  \/ \E m \in Messages : Arrive(m)
  \/ Trade
  \/ Settle
  \/ \E id \in Ids : Cancel(id)

Spec == Init /\ [][Next]_vars
=============================================================================
