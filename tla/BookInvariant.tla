--------------------------- MODULE BookInvariant ----------------------------
(***************************************************************************)
(* The invariant of pool and book, and that removing an order preserves    *)
(* it, for every number of prices, ids and slots and every width of the    *)
(* quantities.                                                             *)
(***************************************************************************)
EXTENDS MatchingEngine, SequenceTheorems, WellFoundedInduction, FiniteSetTheorems, TLAPS

(***************************************************************************)
(* The operators the book is built from: extrema of sets of prices, and    *)
(* what appending to or removing from a level's queue does to the set of   *)
(* its elements                                                            *)
(***************************************************************************)

\* A non-empty set of naturals has a least element, and Min is it.
LEMMA LeastNatural ==
  ASSUME NEW T \in SUBSET Nat, T # {}
  PROVE  Min(T) \in T /\ \A y \in T : Min(T) <= y
<1>1. \E x \in T : \A y \in T : ~(<<y, x>> \in OpToRel(<, Nat))
  BY NatLessThanWellFounded, WFMin, Zenon
<1>2. PICK x \in T : \A y \in T : ~(<<y, x>> \in OpToRel(<, Nat))
  BY <1>1, Zenon
<1>3. ASSUME NEW y \in T PROVE x <= y
  <2>1. <<y, x>> \in Nat \X Nat /\ ~(<<y, x>> \in {ss \in Nat \X Nat : ss[1] < ss[2]})
    BY <1>2 DEF OpToRel
  <2>2. ~(y < x)
    BY <2>1
  <2> QED  BY <2>2
<1> QED  BY <1>3, Zenon DEF Min

\* A non-empty set of bounded naturals has a greatest element, and Max is it.
LEMMA GreatestBounded ==
  ASSUME NEW n \in Nat, NEW T \in SUBSET (0..n), T # {}
  PROVE  Max(T) \in T /\ \A y \in T : Max(T) >= y
<1> DEFINE U == {n - y : y \in T}
<1>1. U \in SUBSET Nat /\ U # {}
  <2>1. \A y \in T : n - y \in Nat
    OBVIOUS
  <2>2. PICK y \in T : TRUE
    BY Zenon
  <2>3. n - y \in U
    OBVIOUS
  <2> QED  BY <2>1, <2>3
<1>2. Min(U) \in U /\ \A z \in U : Min(U) <= z
  BY <1>1, LeastNatural, Zenon
<1>3. PICK x \in T : Min(U) = n - x
  BY <1>2
<1>4. ASSUME NEW y \in T PROVE x >= y
  <2>1. n - y \in U
    OBVIOUS
  <2>2. n - x <= n - y
    BY <2>1, <1>2, <1>3
  <2>3. x \in 0..n /\ y \in 0..n
    OBVIOUS
  <2> HIDE DEF U
  <2> QED  BY <2>2, <2>3
<1> QED  BY <1>4, Zenon DEF Max

\* A level's queue is empty exactly when no order is in it.
LEMMA EmptyElements ==
  ASSUME NEW S, NEW q \in Seq(S)
  PROVE  q = << >> <=> Range(q) = {}
<1>1. DOMAIN q = 1..Len(q) /\ Len(q) \in Nat
  BY LenProperties
<1>3. Len(<< >>) = 0
  OBVIOUS
<1>4. q # << >> => Len(q) \in Nat \ {0}
  BY EmptySeq, Zenon
<1>2. (Len(q) = 0 => \A i \in 1..Len(q) : FALSE) /\ (Len(q) # 0 => 1 \in 1..Len(q))
  BY <1>1
<1>5. Len(q) # 0 <=> q # << >>
  BY <1>3, <1>4, Zenon
<1>6. Len(q) = 0 => Range(q) = {}
  BY <1>1, <1>2 DEF Range
<1>7. Len(q) # 0 => q[1] \in Range(q)
  BY <1>1, <1>2 DEF Range
<1> QED  BY <1>5, <1>6, <1>7, Zenon

\* PriceLevel::push_back: a new order joins the queue once.
LEMMA AppendElements ==
  ASSUME NEW S, NEW q \in Seq(S), NEW s \in S, s \notin Range(q), IsInjective(q)
  PROVE  /\ Append(q, s) \in Seq(S)
         /\ IsInjective(Append(q, s))
         /\ Range(Append(q, s)) = Range(q) \cup {s}
         /\ Append(q, s) # << >>
<1>1. /\ Append(q, s) \in Seq(S)
      /\ Append(q, s) # << >>
      /\ Len(Append(q, s)) = Len(q) + 1
      /\ \A i \in 1..Len(q) : Append(q, s)[i] = q[i]
      /\ Append(q, s)[Len(q) + 1] = s
  BY AppendProperties, Zenon
<1> DEFINE r == Append(q, s)
<1> HIDE DEF r
<1>2. DOMAIN r = 1..(Len(q) + 1) /\ DOMAIN q = 1..Len(q) /\ Len(q) \in Nat
  BY <1>1, LenProperties DEF r
<1>3. \A i \in 1..Len(q) : r[i] = q[i]
  BY <1>1 DEF r
<1>4. r[Len(q) + 1] = s
  BY <1>1 DEF r
<1>5. IsInjective(r)
  BY <1>2, <1>3, <1>4 DEF IsInjective, Range
<1>6. Range(r) = Range(q) \cup {s}
  BY <1>2, <1>3, <1>4 DEF Range
<1> QED  BY <1>1, <1>5, <1>6 DEF r

\* PriceLevel::remove: the order leaves the queue, the others stay, each once.
LEMMA UnlinkedElements ==
  ASSUME NEW S, NEW q \in Seq(S), NEW s \in Range(q), IsInjective(q)
  PROVE  /\ Unlinked(q, s) \in Seq(S)
         /\ IsInjective(Unlinked(q, s))
         /\ Range(Unlinked(q, s)) = Range(q) \ {s}
<1>1. DOMAIN q = 1..Len(q) /\ Len(q) \in Nat /\ q \in [1..Len(q) -> S]
  BY LenProperties
<1>2. PICK k \in 1..Len(q) : q[k] = s
  BY <1>1 DEF Range
<1>3. \A i \in 1..Len(q) : q[i] = s => i = k
  BY <1>1, <1>2 DEF IsInjective
<1>4. (CHOOSE i \in 1..Len(q) : q[i] = s) = k
  BY <1>2, <1>3, Zenon
<1> DEFINE r == Unlinked(q, s)
<1>5. r = [i \in 1..(Len(q) - 1) |-> IF i < k THEN q[i] ELSE q[i + 1]]
  BY <1>4, Zenon DEF Unlinked
<1> HIDE DEF r
<1>6. \A i \in 1..(Len(q) - 1) : (i < k => q[i] \in S) /\ q[i + 1] \in S
  BY <1>1
<1>7. Len(q) - 1 \in Nat /\ r \in [1..(Len(q) - 1) -> S]
  BY <1>1, <1>2, <1>5, <1>6
<1>8. r \in Seq(S)
  BY <1>7, IsASeq
<1>9. /\ Len(r) = Len(q) - 1
      /\ \A i \in 1..(Len(q) - 1) : r[i] = IF i < k THEN q[i] ELSE q[i + 1]
  BY <1>5, <1>7, <1>8, LenProperties
<1>10. DOMAIN r = 1..(Len(q) - 1)
  BY <1>7
<1>11. IsInjective(r)
  <2> SUFFICES ASSUME NEW i \in 1..(Len(q) - 1), NEW j \in 1..(Len(q) - 1), r[i] = r[j]
               PROVE  i = j
    BY <1>10 DEF IsInjective
  <2> DEFINE at(n) == IF n < k THEN n ELSE n + 1
  <2>1. at(i) \in DOMAIN q /\ at(j) \in DOMAIN q
    BY <1>1
  <2>2. r[i] = q[at(i)] /\ r[j] = q[at(j)]
    BY <1>9
  <2>3. at(i) = at(j)
    <3> HIDE DEF at
    <3> QED  BY <2>1, <2>2, ZenonT(40) DEF IsInjective
  <2> QED  BY <2>3
<1>12. Range(r) = Range(q) \ {s}
  <2>1. ASSUME NEW x \in Range(r) PROVE x \in Range(q) \ {s}
    BY <1>1, <1>2, <1>9, <1>10 DEF IsInjective, Range
  <2>2. ASSUME NEW x \in Range(q) \ {s} PROVE x \in Range(r)
    <3>1. PICK i \in 1..Len(q) : q[i] = x /\ i # k
      BY <1>1, <1>2 DEF Range
    <3>2. CASE i < k
      BY <3>1, <3>2, <1>1, <1>9, <1>10, SMTT(40) DEF Range
    <3>3. CASE i > k
      <4>1. i - 1 \in 1..(Len(q) - 1) /\ r[i - 1] = x
        BY <3>1, <3>3, <1>1, <1>9, SMTT(40)
      <4> QED  BY <4>1, <1>10 DEF Range
    <3> QED  BY <3>1, <3>2, <3>3
  <2> QED  BY <2>1, <2>2
<1> QED  BY <1>8, <1>11, <1>12 DEF r

(***************************************************************************)
(* The invariant                                                           *)
(***************************************************************************)

\* best_bid_ is attained and an upper bound; unlike BestPricesExact, without Max.
BidTop ==
  IF bid_count_ = 0 THEN best_bid_ = 0
  ELSE /\ \E s \in RestingOn("Bid") : slot[s].price = best_bid_
       /\ \A s \in RestingOn("Bid") : slot[s].price <= best_bid_

\* best_ask_ is attained and a lower bound.
AskTop ==
  IF ask_count_ = 0 THEN best_ask_ = MAX_PRICE_TICKS - 1
  ELSE /\ \E s \in RestingOn("Ask") : slot[s].price = best_ask_
       /\ \A s \in RestingOn("Ask") : slot[s].price >= best_ask_

\* The two counters say how many orders rest on each side: has_bids() and has_asks()
\* are only as good as these.
SidesCounted ==
  /\ bid_count_ = Cardinality(RestingOn("Bid"))
  /\ ask_count_ = Cardinality(RestingOn("Ask"))

\* The inductive invariant: what every call keeps, from step to step.
BookInv == SlotsAccounted /\ Uncrossed /\ RestingUnfilled /\ SidesCounted /\ BidTop /\ AskTop

\* With the types.
IInv == TypeOK /\ BookInv

\* Prices as an interval of integers.
LEMMA PricesType ==
  /\ MAX_PRICE_TICKS - 1 \in Nat
  /\ Prices = 0..(MAX_PRICE_TICKS - 1)
  /\ \A p \in Prices : p \in Int /\ 0 <= p /\ p <= MAX_PRICE_TICKS - 1
  BY PricesAssumption DEF Prices

\* The fields of a message.
LEMMA MessageTypes ==
  ASSUME NEW m \in NewOrderMessage
  PROVE  /\ m.id \in Ids /\ m.side \in Sides
         /\ m.quantity \in 0..(QuantityModulus - 1) /\ m.price \in Int
<1>1. m.id \in Ids /\ m.side \in Sides /\ m.quantity \in Quantities
  BY DEF NewOrderMessage
<1>2. m.price \in -1..MAX_PRICE_TICKS \/ m.price = 0
  BY DEF NewOrderMessage
<1>3. m.quantity \in 0..(QuantityModulus - 1)
  BY <1>1, QuantityAssumption, Zenon
<1> QED  BY <1>1, <1>2, <1>3

\* The orders of a side can be counted.
LEMMA SidesFinite ==
  ASSUME NEW side
  PROVE  /\ IsFiniteSet(RestingOn(side))
         /\ Cardinality(RestingOn(side)) \in Nat
         /\ Cardinality(RestingOn(side)) = 0 <=> RestingOn(side) = {}
<1>1. RestingOn(side) \in SUBSET Slots
  BY DEF RestingOn, Resting
<1>2. IsFiniteSet(RestingOn(side))
  BY <1>1, SlotsAssumption, FS_Subset
<1> QED  BY <1>2, FS_CardinalityType, FS_EmptySet

\* A resting order is mapped, linked at its own price and nowhere else.
LEMMA RestingFacts ==
  ASSUME IInv, NEW s \in Resting
  PROVE  /\ s \in Slots /\ slot[s] \in Order
         /\ slot[s].id \in DOMAIN order_map_ /\ order_map_[slot[s].id] = s
         /\ slot[s].price \in Prices /\ slot[s].side \in Sides
         /\ levels_[slot[s].price] \in Seq(Slots)
         /\ IsInjective(levels_[slot[s].price])
         /\ s \in Range(levels_[slot[s].price])
<1>1. s \in Slots /\ slot[s] # NoOrder /\ slot[s] \in Order
  BY DEF IInv, BookInv, TypeOK, SlotsAccounted, Resting
<1>2. PICK id \in DOMAIN order_map_ : order_map_[id] = s
  BY DEF IInv, BookInv, SlotsAccounted, Range
<1>3. slot[s].id = id
  BY <1>2 DEF IInv, BookInv, SlotsAccounted
<1>4. slot[s].price \in Prices /\ slot[s].side \in Sides
  BY <1>1 DEF Order
<1> QED  BY <1>1, <1>2, <1>3, <1>4 DEF IInv, BookInv, TypeOK, SlotsAccounted, Linked

\* What the removal of s from its level and from the pool leaves for the search
\* of the next best price to find.
Removed(s) ==
  /\ RestingOn("Bid")' = RestingOn("Bid") \ {s} /\ RestingOn("Ask")' = RestingOn("Ask") \ {s}
  /\ \A x \in Prices : levels_'[x] = << >> <=> {t \in Resting \ {s} : slot[t].price = x} = {}
  /\ \A t \in Resting \ {s} : slot'[t] = slot[t]
  /\ bid_count_' = 0 <=> RestingOn("Bid") \ {s} = {}
  /\ ask_count_' = 0 <=> RestingOn("Ask") \ {s} = {}

\* The search downwards ends at the next best bid.
LEMMA BidTopAfterRemove ==
  ASSUME IInv, NEW s \in Resting, Removed(s),
         best_bid_' = IF levels_'[slot[s].price] = << >> /\ slot[s].side = "Bid" /\ slot[s].price = best_bid_
                      THEN update_best_bid_after_remove(slot[s].price, levels_', bid_count_') ELSE best_bid_
  PROVE  BidTop'
<1> DEFINE p == slot[s].price
           side == slot[s].side
<1>s. p \in Prices /\ side \in Sides
  BY RestingFacts
<1>a. RestingOn("Bid")' = RestingOn("Bid") \ {s}
  BY DEF Removed
<1>b. /\ \A x \in Prices : levels_'[x] = << >> <=> {t \in Resting \ {s} : slot[t].price = x} = {}
      /\ \A t \in Resting : slot[t].price \in Prices /\ slot[t].side \in Sides
      /\ \A t \in Resting \ {s} : slot'[t] = slot[t]
  BY RestingFacts DEF Removed
<1>c. best_bid_' = IF levels_'[p] = << >> /\ side = "Bid" /\ p = best_bid_
                  THEN update_best_bid_after_remove(p, levels_', bid_count_') ELSE best_bid_
  OBVIOUS
<1>d. bid_count_ \in Nat /\ (bid_count_ = 0 <=> RestingOn("Bid") = {})
  BY SidesFinite DEF IInv, BookInv, SidesCounted
<1>e. bid_count_' = 0 <=> RestingOn("Bid") \ {s} = {}
  BY DEF Removed
<1>1. side = "Bid" => \A t \in Resting : slot[t].price <= p => slot[t].side = "Bid"
  BY <1>b, PricesType DEF IInv, BookInv, Uncrossed, RestingOn, Sides
<1>2. CASE levels_'[p] = << >> /\ side = "Bid" /\ p = best_bid_
  <2> DEFINE below == {x \in Prices : x < p /\ levels_'[x] # << >>}
  <2>1. best_bid_' = IF bid_count_' = 0 THEN 0 ELSE IF below # {} THEN Max(below) ELSE best_bid_
    BY <1>2, <1>c DEF update_best_bid_after_remove
  <2>2. CASE bid_count_' = 0
    BY <2>1, <2>2 DEF BidTop
  <2>3. CASE bid_count_' # 0
    <3>1. ASSUME NEW b \in RestingOn("Bid") \ {s} PROVE slot[b].price \in below
      <4>1. b \in Resting \ {s} /\ slot[b].price \in Prices
        BY <1>b DEF RestingOn
      <4>2. slot[b].price <= p
        BY <1>2, <1>d, <3>1, SMTT(40) DEF IInv, BookInv, BidTop
      <4>3. levels_'[slot[b].price] # << >>
        BY <4>1, <1>b
      <4>4. slot[b].price # p
        BY <4>3, <1>2
      <4> QED  BY <4>1, <4>2, <4>3, <4>4, <1>s, PricesType
    <3>2. below # {}
      BY <3>1, <2>3, <1>e
    <3>3. Max(below) \in below /\ \A y \in below : Max(below) >= y
      <4>1. below \in SUBSET (0..(MAX_PRICE_TICKS - 1)) /\ MAX_PRICE_TICKS - 1 \in Nat
        BY PricesType
      <4> HIDE DEF below
      <4> QED  BY <4>1, <3>2, GreatestBounded, ZenonT(40)
    <3>4. best_bid_' = Max(below)
      BY <2>1, <2>3, <3>2
    <3> HIDE DEF below
    <3>5. best_bid_' \in below /\ \A b \in RestingOn("Bid") \ {s} : slot[b].price <= best_bid_'
      <4>1. \A y \in below : y \in Int
        BY PricesType DEF below
      <4> QED  BY <3>1, <3>3, <3>4, <4>1, SMTT(40)
    <3>6. PICK t \in Resting \ {s} : slot[t].price = best_bid_'
      BY <3>5, <1>b, SMTT(40) DEF below
    <3>7. t \in RestingOn("Bid") \ {s}
      BY <3>5, <3>6, <1>1, <1>2, <1>s, PricesType DEF RestingOn, below
    <3> QED  BY <3>5, <3>6, <3>7, <1>a, <1>b, <2>3 DEF BidTop, RestingOn
  <2> QED  BY <2>2, <2>3
<1>3. CASE ~(levels_'[p] = << >> /\ side = "Bid" /\ p = best_bid_)
  <2>1. best_bid_' = best_bid_
    BY <1>3, <1>c
  <2>2. ASSUME bid_count_ # 0
        PROVE  \E t \in RestingOn("Bid") \ {s} : slot[t].price = best_bid_
    <3>1. PICK w \in RestingOn("Bid") : slot[w].price = best_bid_
      BY <2>2 DEF IInv, BookInv, BidTop
    <3>2. CASE w = s
      <4>1. side = "Bid" /\ p = best_bid_ /\ levels_'[p] # << >>
        BY <3>1, <3>2, <1>3, SMTT(40) DEF RestingOn
      <4>2. PICK t \in Resting \ {s} : slot[t].price = p
        BY <4>1, <1>s, <1>b, SMTT(40)
      <4> QED  BY <4>1, <4>2, <1>1, <1>b, PricesType DEF RestingOn
    <3> QED  BY <3>1, <3>2
  <2>3. CASE bid_count_ = 0
    BY <2>1, <2>3, <1>d, <1>e DEF IInv, BookInv, BidTop
  <2>4. CASE bid_count_ # 0
    BY <2>1, <2>2, <2>4, <1>a, <1>b, <1>e DEF IInv, BookInv, BidTop, RestingOn
  <2> QED  BY <2>3, <2>4
<1> QED  BY <1>2, <1>3

\* The search upwards ends at the next best ask.
LEMMA AskTopAfterRemove ==
  ASSUME IInv, NEW s \in Resting, Removed(s),
         best_ask_' = IF levels_'[slot[s].price] = << >> /\ slot[s].side = "Ask" /\ slot[s].price = best_ask_
                      THEN update_best_ask_after_remove(slot[s].price, levels_', ask_count_') ELSE best_ask_
  PROVE  AskTop'
<1> DEFINE p == slot[s].price
           side == slot[s].side
<1>s. p \in Prices /\ side \in Sides
  BY RestingFacts
<1>a. RestingOn("Ask")' = RestingOn("Ask") \ {s}
  BY DEF Removed
<1>b. /\ \A x \in Prices : levels_'[x] = << >> <=> {t \in Resting \ {s} : slot[t].price = x} = {}
      /\ \A t \in Resting : slot[t].price \in Prices /\ slot[t].side \in Sides
      /\ \A t \in Resting \ {s} : slot'[t] = slot[t]
  BY RestingFacts DEF Removed
<1>c. best_ask_' = IF levels_'[p] = << >> /\ side = "Ask" /\ p = best_ask_
                  THEN update_best_ask_after_remove(p, levels_', ask_count_') ELSE best_ask_
  OBVIOUS
<1>d. ask_count_ \in Nat /\ (ask_count_ = 0 <=> RestingOn("Ask") = {})
  BY SidesFinite DEF IInv, BookInv, SidesCounted
<1>e. ask_count_' = 0 <=> RestingOn("Ask") \ {s} = {}
  BY DEF Removed
<1>1. side = "Ask" => \A t \in Resting : slot[t].price >= p => slot[t].side = "Ask"
  BY <1>b, PricesType, SMTT(40) DEF IInv, BookInv, Uncrossed, RestingOn, Sides
<1>2. CASE levels_'[p] = << >> /\ side = "Ask" /\ p = best_ask_
  <2> DEFINE above == {x \in Prices : x > p /\ levels_'[x] # << >>}
  <2>1. best_ask_' = IF ask_count_' = 0 THEN MAX_PRICE_TICKS - 1 ELSE IF above # {} THEN Min(above) ELSE best_ask_
    BY <1>2, <1>c DEF update_best_ask_after_remove
  <2>2. CASE ask_count_' = 0
    BY <2>1, <2>2 DEF AskTop
  <2>3. CASE ask_count_' # 0
    <3>1. ASSUME NEW b \in RestingOn("Ask") \ {s} PROVE slot[b].price \in above
      <4>1. b \in Resting \ {s} /\ slot[b].price \in Prices
        BY <1>b DEF RestingOn
      <4>2. slot[b].price >= p
        BY <1>2, <1>d, <3>1 DEF IInv, BookInv, AskTop
      <4>3. levels_'[slot[b].price] # << >>
        BY <4>1, <1>b
      <4>4. slot[b].price # p
        BY <4>3, <1>2
      <4> QED  BY <4>1, <4>2, <4>3, <4>4, <1>s, PricesType
    <3>2. above # {}
      BY <3>1, <2>3, <1>e
    <3>3. Min(above) \in above /\ \A y \in above : Min(above) <= y
      <4>1. above \in SUBSET Nat
        BY PricesType
      <4> HIDE DEF above
      <4> QED  BY <4>1, <3>2, LeastNatural
    <3>4. best_ask_' = Min(above)
      BY <2>1, <2>3, <3>2
    <3> HIDE DEF above
    <3>5. best_ask_' \in above /\ \A b \in RestingOn("Ask") \ {s} : slot[b].price >= best_ask_'
      <4>1. \A y \in above : y \in Int
        BY PricesType DEF above
      <4> QED  BY <3>1, <3>3, <3>4, <4>1
    <3>6. PICK t \in Resting \ {s} : slot[t].price = best_ask_'
      BY <3>5, <1>b DEF above
    <3>7. t \in RestingOn("Ask") \ {s}
      BY <3>5, <3>6, <1>1, <1>2, <1>s, PricesType DEF RestingOn, above
    <3> QED  BY <3>5, <3>6, <3>7, <1>a, <1>b, <2>3 DEF AskTop, RestingOn
  <2> QED  BY <2>2, <2>3
<1>3. CASE ~(levels_'[p] = << >> /\ side = "Ask" /\ p = best_ask_)
  <2>1. best_ask_' = best_ask_
    BY <1>3, <1>c
  <2>2. ASSUME ask_count_ # 0
        PROVE  \E t \in RestingOn("Ask") \ {s} : slot[t].price = best_ask_
    <3>1. PICK w \in RestingOn("Ask") : slot[w].price = best_ask_
      BY <2>2 DEF IInv, BookInv, AskTop
    <3>2. CASE w = s
      <4>1. side = "Ask" /\ p = best_ask_ /\ levels_'[p] # << >>
        BY <3>1, <3>2, <1>3, SMTT(40) DEF RestingOn
      <4>2. PICK t \in Resting \ {s} : slot[t].price = p
        BY <4>1, <1>s, <1>b
      <4> QED  BY <4>1, <4>2, <1>1, <1>b, PricesType, SMTT(40) DEF RestingOn
    <3> QED  BY <3>1, <3>2
  <2>3. CASE ask_count_ = 0
    BY <2>1, <2>3, <1>d, <1>e, SMTT(40) DEF IInv, BookInv, AskTop
  <2>4. CASE ask_count_ # 0
    BY <2>1, <2>2, <2>4, <1>a, <1>b, <1>e DEF IInv, BookInv, AskTop, RestingOn
  <2> QED  BY <2>3, <2>4
<1> QED  BY <1>2, <1>3

\* Cancelling or filling an order completely keeps the book consistent: it leaves map,
\* level, counter and pool together, and the best price is searched again if needed.
LEMMA RemovePreserves ==
  ASSUME IInv, NEW s \in Resting, NEW mem \in [Slots -> Order \cup {NoOrder}], NEW total,
         \A t \in Slots \ {s} : mem[t] = slot[t],
         mem[s].side = slot[s].side, mem[s].price = slot[s].price,
         cancel_order(slot[s].id, mem, total), deallocate(s, mem)
  PROVE  BookInv'
<1> DEFINE p == slot[s].price
           side == slot[s].side
<1>s. /\ s \in Slots /\ slot[s] \in Order
      /\ slot[s].id \in DOMAIN order_map_ /\ order_map_[slot[s].id] = s
      /\ p \in Prices /\ side \in Sides
      /\ levels_[p] \in Seq(Slots) /\ IsInjective(levels_[p]) /\ s \in Range(levels_[p])
  BY RestingFacts
<1>t. /\ slot \in [Slots -> Order \cup {NoOrder}] /\ levels_ \in [Prices -> Seq(Slots)]
      /\ free \subseteq Slots /\ best_bid_ \in Prices /\ best_ask_ \in Prices
  BY DEF IInv, TypeOK
<1>1. /\ free' = free \cup {s} /\ available_' = available_ + 1
      /\ \A t \in Slots : slot'[t] = IF t = s THEN NoOrder ELSE slot[t]
  BY <1>s DEF deallocate
<1>2. Resting' = Resting \ {s}
  BY <1>1 DEF Resting
<1>3. RestingOn("Bid")' = RestingOn("Bid") \ {s} /\ RestingOn("Ask")' = RestingOn("Ask") \ {s}
  BY <1>1, <1>2, SMTT(40) DEF RestingOn, Resting
<1>4. order_map_' = [i \in DOMAIN order_map_ \ {slot[s].id} |-> order_map_[i]]
  BY ZenonT(40) DEF cancel_order
<1>5. levels_' = [levels_ EXCEPT ![p] = Unlinked(@, s)]
  BY <1>s, ZenonT(40) DEF cancel_order
<1>6. /\ levels_'[p] \in Seq(Slots) /\ IsInjective(levels_'[p])
      /\ Range(levels_'[p]) = Range(levels_[p]) \ {s}
      /\ \A x \in Prices \ {p} : levels_'[x] = levels_[x]
  <2> DEFINE q == levels_[p]
  <2>0. q \in Seq(Slots) /\ IsInjective(q) /\ s \in Range(q)
    BY <1>s
  <2>1. /\ Unlinked(q, s) \in Seq(Slots) /\ IsInjective(Unlinked(q, s))
        /\ Range(Unlinked(q, s)) = Range(q) \ {s}
    <3> HIDE DEF q
    <3> QED  BY <2>0, UnlinkedElements
  <2>2. levels_'[p] = Unlinked(levels_[p], s) /\ \A x \in Prices \ {p} : levels_'[x] = levels_[x]
    BY <1>s, <1>t, <1>5
  <2> QED  BY <2>1, <2>2, Zenon
<1>7. SlotsAccounted'
  <2>1. available_' = Cardinality(free')
    BY <1>1, <1>t, SlotsAssumption, FS_Subset, FS_AddElement, SMTT(40) DEF IInv, BookInv, SlotsAccounted, Resting
  <2>2. \A t \in Slots : t \in free' <=> slot'[t] = NoOrder
    BY <1>1 DEF IInv, BookInv, SlotsAccounted
  <2>3. ASSUME NEW x \in Prices
        PROVE  IsInjective(levels_'[x]) /\ Linked(x)' = {t \in Resting' : slot'[t].price = x}
    <3>0. /\ IsInjective(levels_[x])
          /\ Range(levels_[x]) = {t \in Resting : slot[t].price = x}
      BY DEF IInv, BookInv, SlotsAccounted, Linked
    <3>t. \A t \in Resting \ {s} : slot'[t] = slot[t]
      BY <1>1 DEF Resting
    <3>1. CASE x = p
      <4>1. IsInjective(levels_'[x]) /\ Range(levels_'[x]) = {t \in Resting : slot[t].price = x} \ {s}
        BY <3>0, <3>1, <1>6
      <4> QED  BY <4>1, <3>t, <1>2 DEF Linked
    <3>2. CASE x # p
      <4>1. IsInjective(levels_'[x]) /\ Range(levels_'[x]) = {t \in Resting : slot[t].price = x}
        BY <3>0, <3>2, <1>6
      <4> QED  BY <4>1, <3>2, <3>t, <1>2 DEF Linked
    <3> QED  BY <3>1, <3>2
  <2>4. Range(order_map_') = Resting'
    <3>1. \A i \in DOMAIN order_map_ : order_map_[i] = s => i = slot[s].id
      BY DEF IInv, BookInv, SlotsAccounted
    <3>2. Range(order_map_) = Resting
      BY DEF IInv, BookInv, SlotsAccounted
    <3>3. DOMAIN order_map_' = DOMAIN order_map_ \ {slot[s].id}
          /\ \A i \in DOMAIN order_map_' : order_map_'[i] = order_map_[i]
      BY <1>4
    <3>4. ASSUME NEW t \in Resting \ {s} PROVE t \in Range(order_map_')
      BY <3>2, <3>3, <1>s DEF Range
    <3>5. ASSUME NEW t \in Range(order_map_') PROVE t \in Resting \ {s}
      BY <3>1, <3>2, <3>3 DEF Range
    <3> QED  BY <3>4, <3>5, <1>2
  <2>5. \A i \in DOMAIN order_map_' : slot'[order_map_'[i]].id = i
    <3>1. \A i \in DOMAIN order_map_ : order_map_[i] \in Slots /\ (order_map_[i] = s => i = slot[s].id)
      BY DEF IInv, BookInv, SlotsAccounted, TypeOK
    <3> QED  BY <3>1, <1>1, <1>4 DEF IInv, BookInv, SlotsAccounted
  <2> QED  BY <2>1, <2>2, <2>3, <2>4, <2>5 DEF SlotsAccounted
<1>8. Uncrossed'
  BY <1>1, <1>3 DEF IInv, BookInv, Uncrossed, RestingOn, Resting
<1>9. RestingUnfilled'
  BY <1>1, <1>2 DEF IInv, BookInv, RestingUnfilled, remaining_quantity, Resting
<1>10. /\ bid_count_' = bid_count_ - (IF side = "Bid" THEN 1 ELSE 0)
       /\ ask_count_' = ask_count_ - (IF side = "Ask" THEN 1 ELSE 0)
  BY <1>s DEF cancel_order
<1>11. SidesCounted'
  <2>1. ASSUME NEW d \in Sides
        PROVE Cardinality(RestingOn(d) \ {s}) = Cardinality(RestingOn(d)) - (IF side = d THEN 1 ELSE 0)
    <3>1. IsFiniteSet(RestingOn(d)) /\ Cardinality(RestingOn(d)) \in Nat
      BY SidesFinite
    <3>2. Cardinality(RestingOn(d) \ {s}) = IF s \in RestingOn(d) THEN Cardinality(RestingOn(d)) - 1 ELSE Cardinality(RestingOn(d))
      BY <3>1, FS_RemoveElement, Zenon
    <3>3. s \in RestingOn(d) <=> side = d
      BY DEF RestingOn
    <3> QED  BY <3>1, <3>2, <3>3
  <2> QED  BY <2>1, <1>3, <1>10 DEF SidesCounted, IInv, BookInv, Sides
<1>c. /\ best_bid_' = IF levels_'[p] = << >> /\ side = "Bid" /\ p = best_bid_
                      THEN update_best_bid_after_remove(p, levels_', bid_count_') ELSE best_bid_
      /\ best_ask_' = IF levels_'[p] = << >> /\ side = "Ask" /\ p = best_ask_
                      THEN update_best_ask_after_remove(p, levels_', ask_count_') ELSE best_ask_
  BY <1>s DEF cancel_order
<1>12. /\ \A x \in Prices : levels_'[x] = << >> <=> {t \in Resting \ {s} : slot[t].price = x} = {}
       /\ \A t \in Resting : slot[t].price \in Prices /\ slot[t].side \in Sides
       /\ \A t \in Resting \ {s} : slot'[t] = slot[t]
  <2>1. \A x \in Prices : levels_'[x] \in Seq(Slots)
    BY <1>6, <1>t
  <2>2. \A x \in Prices : Range(levels_'[x]) = {t \in Resting \ {s} : slot'[t].price = x}
    BY <1>2, <1>7 DEF SlotsAccounted, Linked
  <2>3. \A t \in Resting \ {s} : slot'[t] = slot[t]
    BY <1>1 DEF Resting
  <2>4. ASSUME NEW x \in Prices
        PROVE  levels_'[x] = << >> <=> {t \in Resting \ {s} : slot[t].price = x} = {}
    <3>1. levels_'[x] = << >> <=> Range(levels_'[x]) = {}
      BY <2>1, EmptyElements
    <3> QED  BY <2>2, <2>3, <3>1
  <2> QED  BY <2>3, <2>4, RestingFacts
<1>13. /\ bid_count_' = 0 <=> RestingOn("Bid") \ {s} = {}
       /\ ask_count_' = 0 <=> RestingOn("Ask") \ {s} = {}
  <2>1. /\ IsFiniteSet(RestingOn("Bid") \ {s}) /\ IsFiniteSet(RestingOn("Ask") \ {s})
    BY SidesFinite, FS_Subset
  <2> QED  BY <2>1, <1>3, <1>11, FS_EmptySet, SMTT(40) DEF SidesCounted
<1>14. Removed(s)
  BY <1>3, <1>12, <1>13, Zenon DEF Removed
<1>15. BidTop' /\ AskTop'
  BY <1>14, <1>c, BidTopAfterRemove, AskTopAfterRemove, Zenon
<1> QED  BY <1>7, <1>8, <1>9, <1>11, <1>15 DEF BookInv
=============================================================================
