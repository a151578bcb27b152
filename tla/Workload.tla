------------------------------- MODULE Workload -------------------------------
(***************************************************************************)
(* The generator of synthetic order flow (tools/synthetic_workload.h).     *)
(* The random numbers are the environment: any side, type, price and       *)
(* quantity its distributions can give, and a cancel whenever an id is     *)
(* believed to be live.                                                    *)
(***************************************************************************)
EXTENDS Integers, Sequences

CONSTANTS MAX_PRICE_TICKS,
          MaxQuantity,    \* WorkloadConfig::max_quantity
          MaxOrders       \* bound: new orders generated

VARIABLES next_id_, live_ids_

WorkloadInit == next_id_ = 1 /\ live_ids_ = << >>

\* dollars are rounded to ticks and clamped: tick 0 is never drawn
GeneratedOrder ==
  [id : 1..MaxOrders, side : {"Bid", "Ask"}, type : {"Limit", "Market"},
   price : 1..(MAX_PRICE_TICKS - 1), quantity : 1..MaxQuantity]

\* m is the next message: only limit orders can rest, so only they are candidates
make_new_order(m) ==
  /\ m.id = next_id_
  /\ next_id_' = next_id_ + 1
  /\ live_ids_' = IF m.type = "Limit" THEN Append(live_ids_, m.id) ELSE live_ids_

\* mutant: popped without the swap
make_cancel_unswapped(idx) ==
  /\ live_ids_' = SubSeq(live_ids_, 1, Len(live_ids_) - 1)
  /\ UNCHANGED next_id_

\* the id at idx is cancelled: swap-and-pop
make_cancel(idx) ==
  /\ live_ids_' = SubSeq([live_ids_ EXCEPT ![idx] = live_ids_[Len(live_ids_)]],
                         1, Len(live_ids_) - 1)
  /\ UNCHANGED next_id_
===============================================================================
