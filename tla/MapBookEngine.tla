---------------------------- MODULE MapBookEngine ----------------------------
(***************************************************************************)
(* The baseline engine of bench/matching_bench.cpp, fed by the generator:  *)
(* price levels in ordered maps, orders in lists, an index from ids to     *)
(* places.  The benchmark compares it with MatchingEngine on one stream,   *)
(* which is fair only if both match alike; so it is held to the same       *)
(* PriceTimeBook.                                                          *)
(*                                                                         *)
(* The code counts the fills of a call; fills holds what it counts.        *)
(***************************************************************************)
EXTENDS Workload, FiniteSets, FiniteSetsExt, SequencesExt, Functions

Sides == {"Bid", "Ask"}
Prices == 1..(MAX_PRICE_TICKS - 1)

VARIABLES book,                  \* bids_ and asks_: from the prices with orders to their lists
          index_,                \* from ids to side and price
          pc, call, remaining,   \* handle() in progress and its locals
          fills

callVars == <<pc, call, remaining>>
vars == <<next_id_, live_ids_, book, index_, callVars, fills>>

Init ==
  /\ WorkloadInit
  /\ book = [side \in Sides |-> << >>] /\ index_ = << >>
  /\ pc = "idle" /\ call = << >> /\ remaining = 0 /\ fills = << >>

Opposite(side) == IF side = "Bid" THEN "Ask" ELSE "Bid"

\* begin() of a map
begin(side) == IF side = "Bid" THEN Max(DOMAIN book[side]) ELSE Min(DOMAIN book[side])

\* one entry of a map is set, or taken out
Assign(f, k, v) == [i \in DOMAIN f \cup {k} |-> IF i = k THEN v ELSE f[i]]
Erase(f, k) == Restrict(f, DOMAIN f \ {k})

\* the list at a price is replaced; a level without orders leaves the map
WithLevel(side, p, level) ==
  [book EXCEPT ![side] = IF level = << >> THEN Erase(@, p) ELSE Assign(@, p, level)]

handle_new_order(m) ==
  /\ pc = "idle" /\ make_new_order(m)
  /\ pc' = "match" /\ call' = <<m>> /\ remaining' = m.quantity
  /\ fills' = << >>
  /\ UNCHANGED <<book, index_>>

\* mutant: an order at the limit itself does not trade
CrossesStrictly(m, p) == m.type = "Market" \/ (IF m.side = "Bid" THEN p < m.price ELSE p > m.price)

Crosses(m, p) == m.type = "Market" \/ (IF m.side = "Bid" THEN p <= m.price ELSE p >= m.price)

CanMatch ==
  LET opp == Opposite(call[1].side)
  IN  remaining > 0 /\ DOMAIN book[opp] # {} /\ Crosses(call[1], begin(opp))

\* one iteration of the inner loop, and the level's end with its last order
match ==
  /\ pc = "match" /\ CanMatch
  /\ LET opp      == Opposite(call[1].side)
         p        == begin(opp)
         top      == Head(book[opp][p])
         executed == Min({remaining, top.remaining})
     IN  /\ remaining' = remaining - executed
         /\ fills' = Append(fills, [aggressive_id |-> call[1].id, passive_id |-> top.id, price |-> p,
                                    quantity |-> executed, aggressor_side |-> call[1].side])
         /\ IF executed = top.remaining
            THEN /\ index_' = Erase(index_, top.id)
                 /\ book' = WithLevel(opp, p, Tail(book[opp][p]))
            ELSE /\ book' = [book EXCEPT ![opp][p][1].remaining = @ - executed]
                 /\ UNCHANGED index_
  /\ UNCHANGED <<next_id_, live_ids_, pc, call>>

\* handle() ends: a limit remainder rests
Rest ==
  /\ pc = "match" /\ ~CanMatch
  /\ LET m     == call[1]
         level == IF m.price \in DOMAIN book[m.side] THEN book[m.side][m.price] ELSE << >>
     IN  IF remaining > 0 /\ m.type = "Limit"
         THEN /\ book' = [book EXCEPT ![m.side] =
                            Assign(@, m.price, Append(level, [id |-> m.id, remaining |-> remaining]))]
              /\ index_' = Assign(index_, m.id, [side |-> m.side, price |-> m.price])
         ELSE UNCHANGED <<book, index_>>
  /\ pc' = "idle" /\ call' = << >> /\ remaining' = 0
  /\ UNCHANGED <<next_id_, live_ids_, fills>>

\* a cancel of the live id at idx; the order may be filled already
handle_cancel(idx) ==
  /\ pc = "idle" /\ make_cancel(idx)
  /\ fills' = << >>
  /\ LET id == live_ids_[idx]
     IN  IF id \in DOMAIN index_
         THEN LET at == index_[id]
              IN  /\ book' = WithLevel(at.side, at.price,
                                       SelectSeq(book[at.side][at.price], LAMBDA o : o.id # id))
                  /\ index_' = Erase(index_, id)
         ELSE UNCHANGED <<book, index_>>
  /\ UNCHANGED callVars

Next ==
  \/ \E m \in GeneratedOrder : handle_new_order(m)
  \/ match
  \/ Rest
  \/ \E idx \in DOMAIN live_ids_ : handle_cancel(idx)

Spec == Init /\ [][Next]_vars

(***************************************************************************)
(* Properties                                                              *)
(***************************************************************************)

Abstract == INSTANCE PriceTimeBook WITH
  Messages <- GeneratedOrder, Ids <- 1..MaxOrders, MaxResting <- MaxOrders,
  queue <- [side \in Sides |-> [p \in Prices |->
              IF p \in DOMAIN book[side] THEN book[side][p] ELSE << >>]],
  taker <- IF pc = "idle" THEN << >> ELSE <<[order |-> call[1], remaining |-> remaining]>>

\* "Matching semantics mirror MatchingEngine": on what the generator produces the baseline
\* implements the same price-time book, so both engines make the same fills.
MirrorsPriceTime == Abstract!Spec

\* Between messages the index knows exactly the resting orders and where they are, and
\* every one of them is a cancel candidate of the generator, once: whatever it cancels
\* and the engine fills, no order becomes impossible to cancel and none is cancelled twice.
CancelsReachOrders ==
  pc = "idle" =>
    /\ \A side \in Sides, p \in Prices :
         {id \in DOMAIN index_ : index_[id] = [side |-> side, price |-> p]}
           = IF p \in DOMAIN book[side] THEN {o.id : o \in ToSet(book[side][p])} ELSE {}
    /\ DOMAIN index_ \subseteq ToSet(live_ids_)
    /\ IsInjective(live_ids_)
===============================================================================
