------------------------------- MODULE SlotPool -------------------------------
(***************************************************************************)
(* What a pool of slots promises its user: a slot is handed out only while *)
(* it is free, and a slot given back can be handed out again.  This is the *)
(* pool MatchingEngine works with.                                         *)
(***************************************************************************)
CONSTANT Slots

VARIABLES free, live

vars == <<free, live>>

Init == free = Slots /\ live = {}

Take(s) ==
  /\ s \in free
  /\ free' = free \ {s}
  /\ live' = live \cup {s}

Give(s) ==
  /\ s \in live
  /\ free' = free \cup {s}
  /\ live' = live \ {s}

Next == \E s \in Slots : Take(s) \/ Give(s)

Spec == Init /\ [][Next]_vars
===============================================================================
