----------------------------- MODULE BoundedFifo -----------------------------
(***************************************************************************)
(* What SPSCQueue promises its two threads: a first-in first-out channel   *)
(* that never holds more than Bound items.  A refused try_push or try_pop  *)
(* changes nothing, so it is a stuttering step here.                       *)
(***************************************************************************)
EXTENDS Naturals, Sequences

CONSTANTS Items,    \* the trivially copyable values a queue carries
          Bound,    \* usable capacity
          NoItem    \* content of the consumer's variable before any pop

VARIABLES q,        \* items pushed and not yet popped, oldest first
          out       \* the consumer's last popped item

Init == q = << >> /\ out = NoItem

Push(x) ==
  /\ Len(q) < Bound
  /\ q' = Append(q, x)
  /\ UNCHANGED out

Pop ==
  /\ q # << >>
  /\ out' = Head(q)
  /\ q' = Tail(q)

Next == Pop \/ \E x \in Items : Push(x)

Spec == Init /\ [][Next]_<<q, out>>
=============================================================================
