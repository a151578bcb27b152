------------------------------ MODULE LevelQueue ------------------------------
(***************************************************************************)
(* A price level as the queue of its orders, oldest first: what PriceLevel *)
(* shows its linked list to be and what MatchingEngine works on.           *)
(***************************************************************************)
EXTENDS Integers, Sequences

\* PriceLevel::remove: queue q without order o, wherever it stands
Unlinked(q, o) ==
  LET k == CHOOSE k \in 1..Len(q) : q[k] = o
  IN  [i \in 1..(Len(q) - 1) |-> IF i < k THEN q[i] ELSE q[i + 1]]
===============================================================================
