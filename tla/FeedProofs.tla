------------------------------ MODULE FeedProofs ------------------------------
(***************************************************************************)
(* Proofs about the live depth on its way to the engine's book, for any    *)
(* prices, any capacity of SPSC #1 and any frames: no ghost orders, and no *)
(* gap in the sequence numbers that is not counted.                        *)
(***************************************************************************)
EXTENDS Feed, SequenceTheorems, TLAPS

(***************************************************************************)
(* NoGhosts                                                                *)
(*                                                                         *)
(* The argument is about the messages under way, those in the ring and     *)
(* those of the frame being pushed, as one sequence: nothing but the end   *)
(* of it grows and nothing but its front goes.  An order under way is the  *)
(* one the feed keeps for its level, or its cancel is further back; so     *)
(* when the engine takes the order the cancel is still to come.            *)
(***************************************************************************)

Message == CancelMessage \cup NewOrderMessage

CancelOf(id) == [kind |-> "Cancel", id |-> id]

\* a cancel of id is in P, behind position i
Behind(P, i, id) == \E j \in 1..Len(P) : j > i /\ P[j] = CancelOf(id)

\* every new order in P is the feed's own or is cancelled further back
Covered(P, feed) ==
  \A i \in 1..Len(P) : P[i].kind = "New" => feed[P[i].key] = P[i].id \/ Behind(P, i, P[i].id)

\* the same of every order in the engine's book
Held(P, feed, book) == \A o \in book : feed[o.key] = o.id \/ Behind(P, 0, o.id)

DepthTypes ==
  /\ NoOrder \notin Nat
  /\ live \in [LevelKey -> Nat \cup {NoOrder}] /\ next_id \in Nat
  /\ batch_ \in Seq(Message) /\ queue \in Seq(Message)
  /\ resting \subseteq [id : Nat, key : LevelKey]
  /\ dropped_ \in Nat
  /\ pc = "idle" => batch_ = << >>

OnTheWay == queue \o batch_

DepthInv ==
  /\ DepthTypes
  /\ dropped_ = 0 => Covered(OnTheWay, live) /\ Held(OnTheWay, live, resting)

(***************************************************************************)
(* What messages under way and levels of the feed do to the invariant      *)
(***************************************************************************)

\* Messages put behind others, in one go or two.
LEMMA Associative ==
  ASSUME NEW a \in Seq(Message), NEW b \in Seq(Message), NEW c \in Seq(Message)
  PROVE  (a \o b) \o c = a \o (b \o c)
  BY ConcatAssociative

\* At the end of apply_level's first half the level's old order has its cancel behind it,
\* whatever the level holds from then on.
LEMMA CancelsCover ==
  ASSUME DepthTypes, NEW P \in Seq(Message), NEW k \in LevelKey, NEW v, NEW book,
         book \subseteq [id : Nat, key : LevelKey],
         Covered(P, live), Held(P, live, book)
  PROVE  /\ P \o Cancels(k) \in Seq(Message)
         /\ Covered(P \o Cancels(k), [live EXCEPT ![k] = v])
         /\ Held(P \o Cancels(k), [live EXCEPT ![k] = v], book)
<1> DEFINE feed == [live EXCEPT ![k] = v]
           Q    == P \o Cancels(k)
<1>1. \A m \in LevelKey : feed[m] = IF m = k THEN v ELSE live[m]
  BY DEF DepthTypes
<1>2. NoOrder \notin Nat
  BY DEF DepthTypes
<1>3. Cancels(k) \in Seq(Message)
  <2>1. CASE live[k] = NoOrder
    BY <2>1 DEF Cancels
  <2>2. CASE live[k] # NoOrder
    <3>1. CancelOf(live[k]) \in Message
      BY <2>2 DEF DepthTypes, Message, CancelMessage, CancelOf
    <3> QED
      BY <2>2, <3>1 DEF Cancels, CancelOf
  <2> QED
    BY <2>1, <2>2
<1>4. /\ Q \in Seq(Message) /\ Len(Q) = Len(P) + Len(Cancels(k))
      /\ \A i \in 1..Len(P) : Q[i] = P[i]
      /\ Len(P) \in Nat /\ Len(Cancels(k)) \in Nat
  BY <1>3, ConcatProperties, LenProperties
<1>5. \A i \in Int, id \in Nat : Behind(P, i, id) => Behind(Q, i, id)
  BY <1>4 DEF Behind
<1>6. ASSUME live[k] # NoOrder
      PROVE  Len(Q) = Len(P) + 1 /\ Q[Len(P) + 1] = CancelOf(live[k])
  <2>1. Cancels(k) = <<CancelOf(live[k])>>
    BY <1>6 DEF Cancels, CancelOf
  <2> QED
    BY <1>3, <2>1, ConcatProperties
<1>7. \A i \in 1..Len(Q) : Q[i].kind = "New" => i \in 1..Len(P)
  <2> SUFFICES ASSUME NEW i \in 1..Len(Q), i \notin 1..Len(P) PROVE Q[i].kind # "New"
    OBVIOUS
  <2>1. live[k] # NoOrder
    BY <1>4 DEF Cancels
  <2>2. i = Len(P) + 1
    BY <1>4, <1>6, <2>1
  <2> QED
    BY <1>6, <2>1, <2>2 DEF CancelOf
<1>8. ASSUME NEW i \in 0..Len(P), NEW id \in Nat, NEW m \in LevelKey, live[m] = id \/ Behind(P, i, id)
      PROVE  feed[m] = id \/ Behind(Q, i, id)
  <2>1. CASE live[m] = id /\ m = k
    <3>1. live[k] # NoOrder
      BY <1>2, <2>1
    <3> HIDE DEF Q
    <3> QED
      BY <1>4, <1>6, <2>1, <3>1 DEF Behind
  <2>2. CASE live[m] = id /\ m # k
    BY <1>1, <2>2
  <2>3. CASE Behind(P, i, id)
    BY <1>5, <2>3
  <2> QED
    BY <1>8, <2>1, <2>2, <2>3
<1> HIDE DEF feed, Q
<1>9. Covered(Q, feed)
  <2> SUFFICES ASSUME NEW i \in 1..Len(Q), Q[i].kind = "New"
               PROVE  feed[Q[i].key] = Q[i].id \/ Behind(Q, i, Q[i].id)
    BY DEF Covered
  <2>1. i \in 1..Len(P) /\ Q[i] = P[i] /\ i \in 0..Len(P)
    BY <1>4, <1>7
  <2>2. P[i] \in Message /\ P[i].kind = "New"
    BY <2>1
  <2>3. P[i].id \in Nat /\ P[i].key \in LevelKey
    BY <2>2 DEF Message, CancelMessage, NewOrderMessage
  <2> QED
    BY <1>8, <2>1, <2>2, <2>3 DEF Covered
<1>10. Held(Q, feed, book)
  BY <1>4, <1>8 DEF Held
<1> QED
  BY <1>4, <1>9, <1>10 DEF Q, feed

\* A new order of the level the feed has just given it, put at the end, is covered.
LEMMA NewCovers ==
  ASSUME NEW P \in Seq(Message), NEW m \in NewOrderMessage, NEW feed, NEW book,
         feed[m.key] = m.id, Covered(P, feed), Held(P, feed, book)
  PROVE  /\ P \o <<m>> \in Seq(Message)
         /\ Covered(P \o <<m>>, feed) /\ Held(P \o <<m>>, feed, book)
<1> DEFINE Q == P \o <<m>>
<1>1. m \in Message /\ <<m>> \in Seq(Message)
  BY DEF Message
<1>2. /\ Q \in Seq(Message) /\ Len(Q) = Len(P) + 1 /\ Len(P) \in Nat
      /\ \A i \in 1..Len(P) : Q[i] = P[i]
      /\ Q[Len(P) + 1] = m
  BY <1>1, ConcatProperties, LenProperties
<1> HIDE DEF Q
<1>3. \A i, id : Behind(P, i, id) => Behind(Q, i, id)
  BY <1>2 DEF Behind
<1>4. Covered(Q, feed)
  BY <1>2, <1>3 DEF Covered
<1> QED
  BY <1>2, <1>3, <1>4 DEF Held, Q

\* What the engine has popped is no longer under way; all that was behind it still is.
LEMMA PopCovers ==
  ASSUME NEW P \in Seq(Message), P # << >>, NEW feed, NEW next,
         Covered(P, feed),
         \A o \in next : feed[o.key] = o.id \/ Behind(P, 1, o.id)
  PROVE  Covered(Tail(P), feed) /\ Held(Tail(P), feed, next)
<1>1. /\ Tail(P) \in Seq(Message) /\ Len(Tail(P)) = Len(P) - 1 /\ Len(P) \in Nat
      /\ \A i \in 1..Len(Tail(P)) : Tail(P)[i] = P[i + 1]
  BY HeadTailProperties, LenProperties
<1> DEFINE T == Tail(P)
<1> HIDE DEF T
<1>2. ASSUME NEW i \in Nat, NEW id, Behind(P, i + 1, id)
      PROVE  Behind(T, i, id)
  <2>1. PICK j \in 1..Len(P) : j > i + 1 /\ P[j] = CancelOf(id)
    BY <1>2 DEF Behind
  <2>2. j - 1 \in 1..Len(T) /\ j - 1 > i /\ T[j - 1] = P[j]
    BY <1>1, <2>1 DEF T
  <2> QED
    BY <2>1, <2>2 DEF Behind
<1>3. Covered(T, feed)
  <2> SUFFICES ASSUME NEW i \in 1..Len(T), T[i].kind = "New"
               PROVE  feed[T[i].key] = T[i].id \/ Behind(T, i, T[i].id)
    BY DEF Covered
  <2>1. i \in Nat /\ i + 1 \in 1..Len(P) /\ T[i] = P[i + 1]
    BY <1>1 DEF T
  <2> QED
    BY <1>2, <2>1 DEF Covered
<1>4. Held(T, feed, next)
  BY <1>2 DEF Held
<1> QED
  BY <1>3, <1>4 DEF T

(***************************************************************************)
(* The actions                                                             *)
(***************************************************************************)

\* apply_level, for a row of an update or of a snapshot.
LEMMA ApplyLevelKeeps ==
  ASSUME DepthInv, NEW k \in LevelKey, NEW positive \in BOOLEAN, apply_level(k, positive),
         UNCHANGED <<queue, resting, dropped_>>, pc' # "idle"
  PROVE  DepthInv'
<1>1. DepthTypes /\ k \in LevelKey /\ OnTheWay \in Seq(Message) /\ Cancels(k) \in Seq(Message)
  <2>1. CASE live[k] = NoOrder
    BY <2>1, ConcatProperties DEF DepthInv, DepthTypes, OnTheWay, Cancels
  <2>2. CASE live[k] # NoOrder
    <3>1. CancelOf(live[k]) \in Message
      BY <2>2 DEF DepthInv, DepthTypes, Message, CancelMessage, CancelOf
    <3> QED
      BY <2>2, <3>1, ConcatProperties DEF DepthInv, DepthTypes, OnTheWay, Cancels, CancelOf
  <2> QED
    BY <2>1, <2>2
<1>2. CASE ~positive
  <2>1. live' = [live EXCEPT ![k] = NoOrder] /\ batch_' = batch_ \o Cancels(k) /\ next_id' = next_id
    BY <1>2 DEF apply_level
  <2>2. DepthTypes'
    BY <1>1, <2>1, ConcatProperties DEF DepthTypes
  <2>3. OnTheWay' = OnTheWay \o Cancels(k)
    <3>1. OnTheWay' = queue \o (batch_ \o Cancels(k))
      BY <2>1 DEF OnTheWay
    <3>2. queue \in Seq(Message) /\ batch_ \in Seq(Message) /\ Cancels(k) \in Seq(Message)
      BY <1>1 DEF DepthTypes
    <3>3. (queue \o batch_) \o Cancels(k) = queue \o (batch_ \o Cancels(k))
      BY <3>2, Associative, Zenon
    <3> QED
      BY <3>1, <3>3 DEF OnTheWay
  <2> QED
    BY <1>1, <2>1, <2>2, <2>3, CancelsCover DEF DepthInv, DepthTypes
<1>3. CASE positive
  <2> DEFINE m == [kind |-> "New", id |-> next_id, key |-> k]
  <2>1. live' = [live EXCEPT ![k] = next_id] /\ batch_' = batch_ \o Cancels(k) \o <<m>>
        /\ next_id' = next_id + 1
    BY <1>3 DEF apply_level
  <2>2. m \in NewOrderMessage /\ m.key = k /\ m.id = next_id
    BY <1>1 DEF DepthTypes, NewOrderMessage
  <2> HIDE DEF m
  <2>3. <<m>> \in Seq(Message)
    BY <2>2 DEF Message
  <2>4. batch_ \o Cancels(k) \in Seq(Message)
    BY <1>1, ConcatProperties DEF DepthTypes
  <2>5. batch_' \in Seq(Message)
    BY <2>1, <2>3, <2>4, ConcatProperties
  <2>6. DepthTypes'
    BY <1>1, <2>1, <2>5 DEF DepthTypes
  <2>7. OnTheWay' = (OnTheWay \o Cancels(k)) \o <<m>>
    <3>1. queue \in Seq(Message) /\ batch_ \in Seq(Message) /\ Cancels(k) \in Seq(Message)
      BY <1>1 DEF DepthTypes
    <3>2. (queue \o batch_) \o Cancels(k) = queue \o (batch_ \o Cancels(k))
      BY <3>1, Associative, Zenon
    <3>3. (queue \o (batch_ \o Cancels(k))) \o <<m>> = queue \o ((batch_ \o Cancels(k)) \o <<m>>)
      <4> DEFINE b == batch_ \o Cancels(k)
                 c == <<m>>
      <4>1. queue \in Seq(Message) /\ b \in Seq(Message) /\ c \in Seq(Message)
        BY <3>1, <2>3, <2>4
      <4> HIDE DEF b, c
      <4>2. (queue \o b) \o c = queue \o (b \o c)
        BY <4>1, Associative, Zenon
      <4> QED  BY <4>2 DEF b, c
    <3> QED  BY <2>1, <3>2, <3>3 DEF OnTheWay
  <2>8. live'[m.key] = m.id
    BY <1>1, <2>1, <2>2 DEF DepthTypes
  <2>9. ASSUME dropped_ = 0
        PROVE  /\ OnTheWay \o Cancels(k) \in Seq(Message)
               /\ Covered(OnTheWay \o Cancels(k), live') /\ Held(OnTheWay \o Cancels(k), live', resting)
    BY <1>1, <2>1, <2>9, CancelsCover DEF DepthInv, DepthTypes
  <2> QED
    BY <2>2, <2>6, <2>7, <2>8, <2>9, NewCovers DEF DepthInv
<1> QED
  BY <1>2, <1>3

\* The engine pops the front message: what it keeps in its book is covered.
LEMMA PopKeeps ==
  ASSUME DepthInv, queue # << >>, queue' = Tail(queue), UNCHANGED <<live, next_id, pc, batch_, dropped_>>,
         resting' \subseteq [id : Nat, key : LevelKey],
         dropped_ = 0 => \A o \in resting' : live[o.key] = o.id \/ Behind(OnTheWay, 1, o.id)
  PROVE  DepthInv'
<1>1. queue \in Seq(Message) /\ batch_ \in Seq(Message) /\ Tail(queue) \in Seq(Message)
  BY HeadTailProperties DEF DepthInv, DepthTypes
<1>2. DepthTypes'
  BY <1>1 DEF DepthInv, DepthTypes
<1>3. OnTheWay \in Seq(Message) /\ OnTheWay # << >>
  BY <1>1, ConcatProperties, ConcatEqualIffEmpty DEF OnTheWay
<1>4. OnTheWay' = Tail(OnTheWay)
  <2>1. Tail(queue) \o batch_ \in Seq(Message) /\ Tail(queue \o batch_) \in Seq(Message)
    BY <1>1, <1>3, ConcatProperties, HeadTailProperties DEF OnTheWay
  <2>2. Len(Tail(queue) \o batch_) = Len(Tail(queue \o batch_))
    BY <1>1
  <2>3. \A i \in 1..Len(Tail(queue) \o batch_) : (Tail(queue) \o batch_)[i] = Tail(queue \o batch_)[i]
    BY <1>1
  <2> QED
    BY <2>1, <2>2, <2>3, SeqEqual DEF OnTheWay
<1> QED
  BY <1>2, <1>3, <1>4, PopCovers DEF DepthInv

\* Every step of feed and engine preserves the invariant.
LEMMA NextDepthInv == DepthInv /\ [Next]_(vars) => DepthInv'
<1> SUFFICES ASSUME DepthInv, [Next]_(vars) PROVE DepthInv'
  OBVIOUS
<1>1. ASSUME UNCHANGED <<live, next_id, batch_, queue, resting, dropped_>>, pc' = "idle" => batch_ = << >>
      PROVE  DepthInv'
  BY <1>1 DEF DepthInv, DepthTypes, OnTheWay
<1>2. CASE UNCHANGED vars
  BY <1>1, <1>2 DEF vars, DepthInv, DepthTypes
<1>3. CASE StartFrame
  BY <1>1, <1>3 DEF StartFrame, DepthInv, DepthTypes
<1>4. CASE NextPart
  BY <1>1, <1>4 DEF NextPart
<1>5. CASE EndFrame
  BY <1>1, <1>5 DEF EndFrame
<1>6. ASSUME NEW seq, match(seq)
      PROVE  DepthInv'
  BY <1>1, <1>6 DEF match, DepthInv, DepthTypes
<1>7. ASSUME NEW k \in LevelKey, NEW positive \in BOOLEAN, l2update(k, positive)
      PROVE  DepthInv'
  BY <1>7, ApplyLevelKeeps DEF l2update
<1>8. ASSUME NEW k \in LevelKey, consume_price_size_array(k)
      PROVE  DepthInv'
  BY <1>8, ApplyLevelKeeps DEF consume_price_size_array
<1>9. ASSUME NEW k \in LevelKey, reset_book(k)
      PROVE  DepthInv'
  <2>1. live' = [live EXCEPT ![k] = NoOrder] /\ batch_' = batch_ \o Cancels(k) /\ pc' # "idle"
        /\ UNCHANGED <<next_id, queue, resting, dropped_>>
    BY <1>9 DEF reset_book
  <2>2. CancelOf(live[k]) \in Message /\ Cancels(k) = <<CancelOf(live[k])>>
    BY <1>9 DEF reset_book, DepthInv, DepthTypes, Message, CancelMessage, CancelOf, Cancels
  <2>3. DepthTypes /\ OnTheWay \in Seq(Message) /\ Cancels(k) \in Seq(Message)
    BY <2>2, ConcatProperties DEF DepthInv, DepthTypes, OnTheWay
  <2>4. DepthTypes'
    BY <2>1, <2>3, ConcatProperties DEF DepthTypes
  <2>5. OnTheWay' = OnTheWay \o Cancels(k)
    <3>1. OnTheWay' = queue \o (batch_ \o Cancels(k))
      BY <2>1 DEF OnTheWay
    <3>2. queue \in Seq(Message) /\ batch_ \in Seq(Message) /\ Cancels(k) \in Seq(Message)
      BY <2>3 DEF DepthTypes
    <3>3. (queue \o batch_) \o Cancels(k) = queue \o (batch_ \o Cancels(k))
      BY <3>2, Associative, Zenon
    <3> QED
      BY <3>1, <3>3 DEF OnTheWay
  <2> QED
    BY <2>1, <2>3, <2>4, <2>5, CancelsCover DEF DepthInv, DepthTypes
<1>10. CASE PushMessage
  <2>1. /\ batch_ \in Seq(Message) /\ batch_ # << >> /\ queue \in Seq(Message)
        /\ Head(batch_) \in Message /\ Tail(batch_) \in Seq(Message) /\ batch_' = Tail(batch_)
        /\ pc' # "idle" /\ UNCHANGED <<live, next_id, resting>>
    BY <1>10, HeadTailProperties DEF PushMessage, DepthInv, DepthTypes
  <2>2. CASE Len(queue) < QueueCapacity
    <3>1. queue' = Append(queue, Head(batch_)) /\ dropped_' = dropped_
      BY <1>10, <2>2 DEF PushMessage
    <3>2. queue' \in Seq(Message)
      BY <2>1, <3>1, AppendProperties
    <3>3. DepthTypes'
      BY <2>1, <3>1, <3>2 DEF DepthInv, DepthTypes
    <3>4. OnTheWay' = OnTheWay
      <4>1. queue' \o batch_' \in Seq(Message) /\ queue \o batch_ \in Seq(Message)
        BY <2>1, <3>2, ConcatProperties
      <4>2. Len(queue' \o batch_') = Len(queue \o batch_)
        BY <2>1, <3>1
      <4>3. \A i \in 1..Len(queue' \o batch_') : (queue' \o batch_')[i] = (queue \o batch_)[i]
        BY <2>1, <3>1
      <4> QED
        BY <4>1, <4>2, <4>3, SeqEqual DEF OnTheWay
    <3> QED
      BY <2>1, <3>1, <3>3, <3>4 DEF DepthInv
  <2>3. CASE ~(Len(queue) < QueueCapacity)
    <3>1. queue' = queue /\ dropped_' = dropped_ + 1
      BY <1>10, <2>3 DEF PushMessage
    <3>2. DepthTypes'
      BY <2>1, <3>1 DEF DepthInv, DepthTypes
    <3>3. dropped_' # 0
      BY <3>1 DEF DepthInv, DepthTypes
    <3> QED
      BY <2>1, <3>2, <3>3 DEF DepthInv
  <2> QED
    BY <2>2, <2>3
<1>11. ASSUME queue # << >>
       PROVE  Len(OnTheWay) >= 1 /\ OnTheWay[1] = Head(queue) /\ Head(queue) \in Message
  BY <1>11 DEF DepthInv, DepthTypes, OnTheWay
<1>12. CASE ProcessCancel
  <2>1. ASSUME dropped_ = 0, NEW o \in resting'
        PROVE  live[o.key] = o.id \/ Behind(OnTheWay, 1, o.id)
    <3>1. o \in resting /\ o.id # OnTheWay[1].id
      BY <1>11, <1>12 DEF ProcessCancel
    <3> QED
      BY <2>1, <3>1 DEF DepthInv, Held, Behind, CancelOf
  <2>2. resting' \subseteq [id : Nat, key : LevelKey]
    BY <1>12 DEF ProcessCancel, DepthInv, DepthTypes
  <2> QED
    BY <1>12, <2>1, <2>2, PopKeeps DEF ProcessCancel
<1>13. CASE ProcessNew
  <2> DEFINE m == Head(queue)
  <2>1. m \in NewOrderMessage /\ m = OnTheWay[1] /\ m.kind = "New" /\ Len(OnTheWay) >= 1
    BY <1>11, <1>13 DEF ProcessNew, Message, CancelMessage, NewOrderMessage
  <2>2. resting' \subseteq resting \cup {[id |-> m.id, key |-> m.key]}
    BY <1>13 DEF ProcessNew
  <2> HIDE DEF m
  <2>3. resting' \subseteq [id : Nat, key : LevelKey]
    BY <2>1, <2>2 DEF DepthInv, DepthTypes, NewOrderMessage
  <2>4. ASSUME dropped_ = 0, NEW o \in resting'
        PROVE  live[o.key] = o.id \/ Behind(OnTheWay, 1, o.id)
    <3>1. CASE o \in resting
      BY <2>1, <2>4, <3>1 DEF DepthInv, Held, Behind, CancelOf
    <3>2. CASE o = [id |-> m.id, key |-> m.key]
      <4>1. Len(OnTheWay) \in Nat
        BY ConcatProperties, LenProperties DEF DepthInv, DepthTypes, OnTheWay
      <4> QED
        BY <2>1, <2>4, <3>2, <4>1 DEF DepthInv, Covered
    <3> QED
      BY <2>2, <3>1, <3>2
  <2> QED
    BY <1>13, <2>3, <2>4, PopKeeps DEF ProcessNew
<1> QED
  BY <1>2, <1>3, <1>4, <1>5, <1>6, <1>7, <1>8, <1>9, <1>10, <1>12, <1>13 DEF Next, Parse, Engine

\* As long as CoinbaseFeed has dropped nothing, the engine's book holds only orders the
\* FeedHandler keeps or has a cancel under way for, for any prices and any ring.
THEOREM NoGhostOrders == Spec => []NoGhosts
<1>1. Init => DepthInv
  BY FeedAssumption DEF Init, DepthInv, DepthTypes, Covered, Held, OnTheWay
<1>2. DepthInv => NoGhosts
  <2>1. ASSUME DepthInv, NEW id, Behind(OnTheWay, 0, id)
        PROVE  Cancelling(id)
    <3>1. OnTheWay \in Seq(Message) /\ DOMAIN OnTheWay = 1..Len(OnTheWay)
      BY <2>1, ConcatProperties, LenProperties DEF DepthInv, DepthTypes, OnTheWay
    <3> QED
      BY <2>1, <3>1 DEF Behind, Cancelling, CancelOf, OnTheWay, Range
  <2> QED
    BY <2>1 DEF DepthInv, Held, NoGhosts
<1> QED
  BY <1>1, <1>2, NextDepthInv, PTL DEF Spec

(***************************************************************************)
(* Sequence numbers                                                        *)
(***************************************************************************)

\* While no gap was counted the numbers received form an interval that ends in the last
\* one; before the first there is none.
SequenceInv ==
  /\ seen \subseteq Int /\ last_sequence \in Int /\ sequence_gaps \in Nat
  /\ have_sequence \in BOOLEAN /\ (have_sequence <=> seen # {})
  /\ sequence_gaps = 0 /\ have_sequence =>
       last_sequence \in seen /\ \A n \in seen : n <= last_sequence
  /\ QuietMeansComplete

\* A number received continues the interval, starts it or counts as a gap.
LEMMA MatchKeeps ==
  ASSUME SequenceInv, NEW seq \in Int, match(seq)
  PROVE  SequenceInv'
<1>1. /\ seen' = seen \cup {seq} /\ have_sequence' = TRUE /\ last_sequence' = seq
      /\ sequence_gaps' = IF have_sequence /\ seq # last_sequence + 1 THEN sequence_gaps + 1
                          ELSE sequence_gaps
  BY DEF match, note_sequence
<1>2. seen' \subseteq Int /\ seen' # {} /\ sequence_gaps' \in Nat
  BY <1>1 DEF SequenceInv
<1>3. ASSUME sequence_gaps' = 0
      PROVE  /\ \A n \in seen' : n <= seq
             /\ \A a, b \in seen' : \A n \in a..b : n \in seen'
  <2>1. sequence_gaps = 0 /\ (~have_sequence \/ seq = last_sequence + 1)
    BY <1>1, <1>3 DEF SequenceInv
  <2>2. CASE ~have_sequence
    <3>1. seen' = {seq}
      BY <1>1, <2>2 DEF SequenceInv
    <3> QED
      BY <3>1
  <2>3. CASE have_sequence /\ seq = last_sequence + 1
    <3>1. /\ last_sequence \in seen /\ \A n \in seen : n <= last_sequence
          /\ \A a, b \in seen : \A n \in a..b : n \in seen
      BY <2>1, <2>3 DEF SequenceInv, QuietMeansComplete
    <3>2. seen \subseteq Int /\ last_sequence \in Int
      BY DEF SequenceInv
    <3>3. \A n \in seen' : n <= seq
      BY <1>1, <2>3, <3>1, <3>2
    <3>4. ASSUME NEW a \in seen', NEW b \in seen', NEW n \in a..b
          PROVE  n \in seen'
      <4>1. a \in Int /\ b \in Int /\ b <= seq /\ n \in Int /\ a <= n /\ n <= seq
        BY <1>2, <3>3, <3>4
      <4>2. CASE n = seq
        BY <1>1, <4>2
      <4>3. CASE n # seq
        <5>1. a \in seen /\ n \in a..last_sequence
          BY <1>1, <2>3, <3>2, <4>1, <4>3
        <5> QED
          BY <1>1, <3>1, <5>1
      <4> QED
        BY <4>2, <4>3
    <3> QED
      BY <3>3, <3>4
  <2> QED
    BY <2>1, <2>2, <2>3
<1>4. QuietMeansComplete'
  BY <1>3 DEF QuietMeansComplete
<1>5. last_sequence' \in Int /\ last_sequence' \in seen'
  BY <1>1
<1>6. sequence_gaps' = 0 => \A n \in seen' : n <= last_sequence'
  BY <1>1, <1>3
<1>7. have_sequence' \in BOOLEAN /\ (have_sequence' <=> seen' # {})
  BY <1>1, <1>2
<1> QED
  BY <1>2, <1>4, <1>5, <1>6, <1>7 DEF SequenceInv

\* FeedHandler's sequence_gaps() is a sound witness: when it is 0, no match between the
\* first and the last one received is missing, for any sequence numbers in any order.
THEOREM SilenceIsComplete == Spec => []QuietMeansComplete
<1>1. Init => SequenceInv
  <2> SUFFICES ASSUME Init PROVE SequenceInv
    OBVIOUS
  <2>1. have_sequence = FALSE /\ last_sequence \in Int /\ sequence_gaps \in Nat /\ seen = {}
    BY DEF Init
  <2>2. have_sequence \in BOOLEAN /\ ~have_sequence
    BY <2>1, Zenon
  <2> QED
    BY <2>1, <2>2, Zenon DEF SequenceInv, QuietMeansComplete
<1>2. SequenceInv /\ [Next]_(vars) => SequenceInv'
  <2> SUFFICES ASSUME SequenceInv, [Next]_(vars) PROVE SequenceInv'
    OBVIOUS
  <2>1. CASE UNCHANGED sequenceVars
    BY <2>1 DEF SequenceInv, QuietMeansComplete, sequenceVars
  <2>2. ASSUME NEW seq \in 1..MaxSequence, match(seq) PROVE SequenceInv'
    <3>1. seq \in Int
      BY <2>2
    <3> QED
      BY <2>2, <3>1, MatchKeeps
  <2>3. UNCHANGED sequenceVars \/ \E seq \in 1..MaxSequence : match(seq)
    BY DEF Next, vars, StartFrame, consume_price_size_array, l2update, Parse, reset_book, NextPart,
           PushMessage, EndFrame, Engine, ProcessCancel, ProcessNew
  <2> QED
    BY <2>1, <2>2, <2>3
<1>3. SequenceInv => QuietMeansComplete
  BY DEF SequenceInv
<1> QED
  BY <1>1, <1>2, <1>3, PTL DEF Spec
===============================================================================
