-------------------------- MODULE OrderStorageProofs --------------------------
(***************************************************************************)
(* Proofs about the storage of orders, for every number of slots: the free *)
(* list of the pool is intact and the pool implements SlotPool; the list   *)
(* of a price level stays linked while its orders are recycled, and pool   *)
(* and level agree on whose bytes a slot holds.                            *)
(***************************************************************************)
EXTENDS OrderStorage, SequenceTheorems, TLAPS

(***************************************************************************)
(* The pool                                                                *)
(***************************************************************************)

\* A slot put in front of the free list: the others move up by one.
LEMMA PushedFront ==
  ASSUME NEW S, NEW q \in Seq(S), NEW s \in S
  PROVE  /\ <<s>> \o q \in Seq(S)
         /\ Len(<<s>> \o q) = Len(q) + 1
         /\ (<<s>> \o q)[1] = s
         /\ \A i \in 2..(Len(q) + 1) : (<<s>> \o q)[i] = q[i - 1]
         /\ Range(<<s>> \o q) = Range(q) \cup {s}
         /\ IsInjective(q) /\ s \notin Range(q) => IsInjective(<<s>> \o q)
<1> DEFINE r == <<s>> \o q
<1>1. <<s>> \in Seq(S) /\ Len(<<s>>) = 1 /\ <<s>>[1] = s
  OBVIOUS
<1>2. r \in Seq(S) /\ Len(r) = Len(q) + 1 /\ Len(q) \in Nat
  BY <1>1, ConcatProperties, LenProperties
<1>3. r[1] = s
  BY <1>1, ConcatProperties
<1>4. \A i \in 2..(Len(q) + 1) : r[i] = q[i - 1]
  BY <1>1, <1>2, ConcatProperties
<1>5. DOMAIN r = 1..(Len(q) + 1) /\ DOMAIN q = 1..Len(q)
  BY <1>2, LenProperties
<1> HIDE DEF r
<1>6. Range(r) = Range(q) \cup {s}
  <2>1. ASSUME NEW x \in Range(r) PROVE x \in Range(q) \cup {s}
    <3>1. PICK i \in 1..(Len(q) + 1) : x = r[i]
      BY <1>5 DEF Range
    <3>2. CASE i = 1
      BY <3>1, <3>2, <1>3
    <3>3. CASE i # 1
      <4>1. i - 1 \in 1..Len(q) /\ x = q[i - 1]
        BY <3>1, <3>3, <1>2, <1>4
      <4> QED  BY <4>1, <1>5 DEF Range
    <3> QED  BY <3>2, <3>3
  <2>2. ASSUME NEW x \in Range(q) PROVE x \in Range(r)
    <3>1. PICK i \in 1..Len(q) : x = q[i]
      BY <1>5 DEF Range
    <3>2. i + 1 \in 1..(Len(q) + 1) /\ r[i + 1] = x
      BY <3>1, <1>2, <1>4
    <3> QED  BY <3>2, <1>5 DEF Range
  <2>3. s \in Range(r)
    <3>1. 1 \in DOMAIN r
      BY <1>2, <1>5
    <3> QED  BY <3>1, <1>3 DEF Range
  <2> QED  BY <2>1, <2>2, <2>3
<1>7. ASSUME IsInjective(q), s \notin Range(q) PROVE IsInjective(r)
  <2> SUFFICES ASSUME NEW i \in 1..(Len(q) + 1), NEW j \in 1..(Len(q) + 1), r[i] = r[j]
               PROVE  i = j
    BY <1>5 DEF IsInjective
  <2>1. \A k \in 1..Len(q) : q[k] # s
    BY <1>5, <1>7 DEF Range
  <2>2. CASE i = 1 /\ j # 1
    <3>1. j - 1 \in 1..Len(q) /\ r[j] = q[j - 1]
      BY <2>2, <1>2, <1>4
    <3> QED  BY <3>1, <2>1, <2>2, <1>3
  <2>3. CASE i # 1 /\ j = 1
    <3>1. i - 1 \in 1..Len(q) /\ r[i] = q[i - 1]
      BY <2>3, <1>2, <1>4
    <3> QED  BY <3>1, <2>1, <2>3, <1>3, ZenonT(40)
  <2>4. CASE i # 1 /\ j # 1
    <3>1. /\ i - 1 \in 1..Len(q) /\ r[i] = q[i - 1]
          /\ j - 1 \in 1..Len(q) /\ r[j] = q[j - 1]
      BY <2>4, <1>2, <1>4
    <3>2. i - 1 = j - 1
      BY <3>1, <1>5, <1>7, Zenon DEF IsInjective
    <3> QED  BY <3>2
  <2> QED  BY <2>2, <2>3, <2>4
<1> QED  BY <1>2, <1>3, <1>4, <1>6, <1>7 DEF r

\* A slot taken from the front of the free list: the others move down by one.
LEMMA PoppedFront ==
  ASSUME NEW S, NEW q \in Seq(S), q # << >>, IsInjective(q)
  PROVE  /\ Tail(q) \in Seq(S)
         /\ Len(Tail(q)) = Len(q) - 1
         /\ Len(q) \in Nat \ {0}
         /\ \A i \in 1..(Len(q) - 1) : Tail(q)[i] = q[i + 1]
         /\ q[1] \in Range(q)
         /\ Range(Tail(q)) = Range(q) \ {q[1]}
         /\ IsInjective(Tail(q))
<1>1. /\ Tail(q) \in Seq(S) /\ Len(Tail(q)) = Len(q) - 1 /\ Len(q) \in Nat \ {0}
      /\ \A i \in 1..(Len(q) - 1) : Tail(q)[i] = q[i + 1]
  BY HeadTailProperties, EmptySeq, LenProperties
<1>2. DOMAIN Tail(q) = 1..(Len(q) - 1) /\ DOMAIN q = 1..Len(q)
  BY <1>1, LenProperties
<1>3. q[1] \in Range(q)
  <2>1. 1 \in DOMAIN q
    BY <1>1, <1>2
  <2> QED  BY <2>1 DEF Range
<1>4. Range(Tail(q)) = Range(q) \ {q[1]}
  <2>1. ASSUME NEW x \in Range(Tail(q)) PROVE x \in Range(q) /\ x # q[1]
    <3>1. PICK i \in 1..(Len(q) - 1) : x = Tail(q)[i]
      BY <1>2 DEF Range
    <3>2. i + 1 \in 1..Len(q) /\ 1 \in 1..Len(q) /\ i + 1 # 1 /\ x = q[i + 1]
      BY <3>1, <1>1
    <3> QED  BY <3>2, <1>2 DEF Range, IsInjective
  <2>2. ASSUME NEW x \in Range(q), x # q[1] PROVE x \in Range(Tail(q))
    <3>1. PICK i \in 1..Len(q) : x = q[i]
      BY <1>2 DEF Range
    <3>2. i - 1 \in 1..(Len(q) - 1) /\ Tail(q)[i - 1] = x
      BY <3>1, <2>2, <1>1
    <3> QED  BY <3>2, <1>2, Zenon DEF Range
  <2> QED  BY <2>1, <2>2
<1>5. IsInjective(Tail(q))
  <2> SUFFICES ASSUME NEW i \in 1..(Len(q) - 1), NEW j \in 1..(Len(q) - 1), Tail(q)[i] = Tail(q)[j]
               PROVE  i = j
    BY <1>2 DEF IsInjective
  <2>1. i + 1 \in 1..Len(q) /\ j + 1 \in 1..Len(q) /\ q[i + 1] = q[j + 1]
    BY <1>1
  <2>2. i + 1 = j + 1
    BY <2>1, <1>2 DEF IsInjective
  <2> QED  BY <2>2
<1> QED  BY <1>1, <1>3, <1>4, <1>5

\* The inductive invariant: the free list is intact, and the constructor has
\* finished before anything is handed out.
IInv == TypeOK /\ FreeListIntact /\ (unlinked > 0 => live = {})

\* The constructor starts with an empty list.
LEMMA InitIInv == Init => IInv
<1> SUFFICES ASSUME Init PROVE IInv
  OBVIOUS
<1>1. PoolSize \in Nat
  BY PoolAssumption
<1>2. << >> \in Seq(Slots) /\ Len(<< >>) = 0
  BY EmptySeq
<1>3. Range(<< >>) = {} /\ IsInjective(<< >>)
  BY DEF Range, IsInjective
<1>4. TypeOK
  BY <1>1, <1>2 DEF Init, TypeOK, Slots
<1>5. FreeListIntact
  <2>1. (unlinked..(PoolSize - 1)) \ live = {}
    BY <1>1 DEF Init
  <2>2. chain = << >> /\ free_head_ = nullptr /\ available_ = PoolSize /\ unlinked = PoolSize
    BY DEF Init
  <2>3. available_ = unlinked + Len(chain) /\ Len(chain) = 0
    BY <1>1, <1>2, <2>2
  <2>4. Range(chain) = (unlinked..(PoolSize - 1)) \ live /\ IsInjective(chain)
    BY <1>3, <2>1, <2>2
  <2> QED  BY <2>2, <2>3, <2>4 DEF FreeListIntact
<1> QED  BY <1>4, <1>5 DEF IInv, Init

\* A slot that is not on the free list goes in front of it: the constructor's loop
\* and deallocate() both do this.
LEMMA PushKeepsList ==
  ASSUME IInv, NEW s \in Slots, s \notin Range(chain),
         storage_' = [storage_ EXCEPT ![s] = free_head_],
         free_head_' = s, chain' = <<s>> \o chain
  PROVE  /\ free_head_' = IF chain' = << >> THEN nullptr ELSE chain'[1]
         /\ \A i \in 1..Len(chain') :
              storage_'[chain'[i]] = IF i = Len(chain') THEN nullptr ELSE chain'[i + 1]
         /\ IsInjective(chain')
         /\ Range(chain') = Range(chain) \cup {s}
         /\ Len(chain') = Len(chain) + 1
         /\ storage_' \in [Slots -> Slots \cup {nullptr, Object}]
         /\ chain' \in Seq(Slots)
<1>1. chain \in Seq(Slots) /\ IsInjective(chain)
  BY DEF IInv, TypeOK, FreeListIntact
<1>2. /\ chain' \in Seq(Slots)
      /\ Len(chain') = Len(chain) + 1
      /\ chain'[1] = s
      /\ \A i \in 2..(Len(chain) + 1) : chain'[i] = chain[i - 1]
      /\ Range(chain') = Range(chain) \cup {s}
      /\ IsInjective(chain')
  BY <1>1, PushedFront
<1>3. Len(chain) \in Nat /\ DOMAIN chain = 1..Len(chain) /\ \A i \in 1..Len(chain) : chain[i] \in Slots
  BY <1>1, LenProperties
<1>8. Len(chain') = Len(chain) + 1 /\ Len(chain) \in Nat
  BY <1>2, <1>3
<1>4. chain' # << >>
  BY <1>2, <1>3, EmptySeq
<1>5. storage_ \in [Slots -> Slots \cup {nullptr, Object}] /\ free_head_ \in Slots \cup {nullptr}
  BY DEF IInv, TypeOK
<1>6. storage_' \in [Slots -> Slots \cup {nullptr, Object}]
  BY <1>5
<1>7. ASSUME NEW i \in 1..Len(chain')
      PROVE  storage_'[chain'[i]] = IF i = Len(chain') THEN nullptr ELSE chain'[i + 1]
  <2>1. CASE i = 1
    <3>1. storage_'[chain'[i]] = free_head_
      BY <2>1, <1>2, <1>5
    <3>2. CASE chain = << >>
      <4>1. Len(chain) = 0
        BY <3>2, EmptySeq
      <4> QED  BY <3>1, <3>2, <4>1, <2>1, <1>2 DEF IInv, FreeListIntact
    <3>3. CASE chain # << >>
      <4>1. Len(chain) \in Nat \ {0}
        BY <3>3, <1>1, EmptySeq
      <4>2. 2 \in 2..(Len(chain) + 1) /\ chain'[2] = chain[1] /\ i # Len(chain')
        BY <4>1, <1>2, <2>1
      <4> QED  BY <3>1, <3>3, <4>2, <2>1 DEF IInv, FreeListIntact
    <3> QED  BY <3>2, <3>3
  <2>2. CASE i # 1
    <3>1. i \in 2..(Len(chain) + 1) /\ i - 1 \in 1..Len(chain) /\ chain'[i] = chain[i - 1]
      BY <2>2, <1>2, <1>3
    <3>2. chain[i - 1] # s /\ chain[i - 1] \in Slots
      BY <3>1, <1>3 DEF Range
    <3>3. storage_'[chain'[i]] = storage_[chain[i - 1]]
      BY <3>1, <3>2, <1>5
    <3>4. storage_[chain[i - 1]] = IF i - 1 = Len(chain) THEN nullptr ELSE chain[(i - 1) + 1]
      BY <3>1, Zenon DEF IInv, FreeListIntact
    <3>5. CASE i - 1 = Len(chain)
      BY <3>3, <3>4, <3>5, <1>2, <1>3
    <3>6. CASE i - 1 # Len(chain)
      <4>1. i + 1 \in 2..(Len(chain) + 1) /\ (i + 1) - 1 = i /\ (i - 1) + 1 = i /\ i # Len(chain')
        BY <3>1, <3>6, <1>8
      <4>2. chain'[i + 1] = chain[i]
        BY <4>1, <1>2
      <4> QED  BY <3>3, <3>4, <3>6, <4>1, <4>2
    <3> QED  BY <3>5, <3>6
  <2> QED  BY <2>1, <2>2
<1> QED  BY <1>2, <1>4, <1>6, <1>7

\* Every operation of the pool and of its user preserves the invariant.
LEMMA NextIInv == IInv /\ [Next]_vars => IInv'
<1> SUFFICES ASSUME IInv, [Next]_vars PROVE IInv'
  OBVIOUS
<1>p. PoolSize \in Nat \ {0} /\ nullptr \notin Slots
  BY PoolAssumption
<1>q. /\ chain \in Seq(Slots) /\ Len(chain) \in Nat /\ DOMAIN chain = 1..Len(chain)
      /\ \A i \in 1..Len(chain) : chain[i] \in Slots /\ chain[i] \in Range(chain)
  BY LenProperties DEF IInv, TypeOK, Range
<1>1. CASE LinkSlot
  <2> DEFINE s == unlinked - 1
  <2>1. s \in Slots /\ s \notin Range(chain) /\ live = {} /\ unlinked \in 1..PoolSize
    BY <1>1, <1>p DEF LinkSlot, IInv, TypeOK, FreeListIntact, Slots
  <2>2. /\ storage_' = [storage_ EXCEPT ![s] = free_head_]
        /\ free_head_' = s /\ chain' = <<s>> \o chain /\ unlinked' = s
        /\ available_' = available_ /\ live' = live
    BY <1>1 DEF LinkSlot
  <2> HIDE DEF s
  <2>3. /\ free_head_' = IF chain' = << >> THEN nullptr ELSE chain'[1]
        /\ \A i \in 1..Len(chain') :
             storage_'[chain'[i]] = IF i = Len(chain') THEN nullptr ELSE chain'[i + 1]
        /\ IsInjective(chain')
        /\ Range(chain') = Range(chain) \cup {s}
        /\ Len(chain') = Len(chain) + 1
        /\ storage_' \in [Slots -> Slots \cup {nullptr, Object}]
        /\ chain' \in Seq(Slots)
    BY <2>1, <2>2, PushKeepsList, Zenon
  <2>4. (s..(PoolSize - 1)) \ live = ((unlinked..(PoolSize - 1)) \ live) \cup {s}
    BY <2>1, <1>p DEF s
  <2>5. available_ = s + (Len(chain) + 1)
    <3>1. unlinked \in Int /\ Len(chain) \in Nat
      BY <2>1, <1>p, <1>q
    <3>2. available_ = unlinked + Len(chain)
      BY DEF IInv, FreeListIntact
    <3> QED  BY <3>1, <3>2 DEF s
  <2>6. FreeListIntact'
    BY <2>2, <2>3, <2>4, <2>5 DEF FreeListIntact, IInv
  <2>7. unlinked' \in 0..PoolSize
    BY <2>1, <2>2, <1>p DEF s
  <2>8. TypeOK'
    BY <2>1, <2>2, <2>3, <2>7 DEF TypeOK, IInv
  <2> QED  BY <2>1, <2>2, <2>6, <2>8 DEF IInv
<1>2. CASE allocate
  <2>1. chain # << >> /\ free_head_ = chain[1]
    BY <1>2 DEF allocate, IInv, FreeListIntact
  <2>2. /\ chain' = Tail(chain) /\ chain' \in Seq(Slots)
        /\ Len(chain') = Len(chain) - 1 /\ Len(chain) \in Nat \ {0}
        /\ \A i \in 1..(Len(chain) - 1) : chain'[i] = chain[i + 1]
        /\ chain[1] \in Range(chain)
        /\ Range(chain') = Range(chain) \ {chain[1]}
        /\ IsInjective(chain')
    BY <1>2, <2>1, <1>q, PoppedFront DEF allocate, IInv, FreeListIntact
  <2>3. storage_' = storage_ /\ unlinked' = unlinked /\ unlinked = 0
    BY <1>2 DEF allocate
  <2>4. free_head_' = storage_[chain[1]]
    BY <1>2, <2>1 DEF allocate
  <2>5. storage_[chain[1]] = IF 1 = Len(chain) THEN nullptr ELSE chain[1 + 1]
    <3>1. 1 \in 1..Len(chain)
      BY <2>2
    <3> QED  BY <3>1, Zenon DEF IInv, FreeListIntact
  <2>6. free_head_' = IF chain' = << >> THEN nullptr ELSE chain'[1]
    <3>1. CASE Len(chain) = 1
      <4>1. Len(chain') = 0
        BY <3>1, <2>2
      <4>2. chain' = << >>
        BY <4>1, <2>2, EmptySeq
      <4> QED  BY <3>1, <4>2, <2>4, <2>5
    <3>2. CASE Len(chain) # 1
      <4>1. Len(chain') > 0 /\ 1 \in 1..(Len(chain) - 1) /\ chain'[1] = chain[1 + 1]
        BY <3>2, <2>2
      <4>2. chain' # << >>
        BY <4>1, EmptySeq
      <4> QED  BY <3>2, <4>1, <4>2, <2>4, <2>5
    <3> QED  BY <3>1, <3>2
  <2>7. \A i \in 1..Len(chain') :
          storage_'[chain'[i]] = IF i = Len(chain') THEN nullptr ELSE chain'[i + 1]
    <3> SUFFICES ASSUME NEW i \in 1..(Len(chain) - 1)
                 PROVE  storage_[chain[i + 1]]
                          = IF i = Len(chain) - 1 THEN nullptr ELSE chain'[i + 1]
      BY <2>2, <2>3, ZenonT(40)
    <3>0. Len(chain) \in Nat \ {0}
      BY <2>2
    <3>1. i + 1 \in 1..Len(chain)
      BY <3>0
    <3>2. storage_[chain[i + 1]] = IF i + 1 = Len(chain) THEN nullptr ELSE chain[(i + 1) + 1]
      BY <3>1 DEF IInv, FreeListIntact
    <3>3. CASE i + 1 = Len(chain)
      BY <3>2, <3>3
    <3>4. CASE i + 1 # Len(chain)
      <4>1. i + 1 \in 1..(Len(chain) - 1) /\ i # Len(chain) - 1
        BY <3>0, <3>4
      <4> QED  BY <4>1, <3>2, <3>4, <2>2
    <3> QED  BY <3>3, <3>4, SMTT(40)
  <2>8. live' = live \cup {chain[1]} /\ available_' = available_ - 1
    BY <1>2, <2>1 DEF allocate
  <2>9. Range(chain') = (unlinked'..(PoolSize - 1)) \ live'
    BY <2>2, <2>3, <2>8 DEF IInv, FreeListIntact
  <2>10. available_ = unlinked + Len(chain)
    BY DEF IInv, FreeListIntact
  <2>11. available_' = unlinked' + Len(chain') /\ available_' \in Nat
    BY <2>2, <2>3, <2>8, <2>10
  <2>12. chain[1] \in Slots /\ free_head_' \in Slots \cup {nullptr}
    <3>1. 1 \in 1..Len(chain)
      BY <2>2
    <3>2. chain' # << >> => Len(chain') \in Nat \ {0}
      BY <2>2, EmptySeq
    <3>3. chain' # << >> => chain'[1] \in Slots
      BY <3>2, <2>2, LenProperties
    <3> QED  BY <3>1, <3>3, <2>6, <1>q
  <2>13. TypeOK'
    BY <2>2, <2>3, <2>8, <2>11, <2>12, SMTT(40) DEF IInv, TypeOK
  <2>14. FreeListIntact'
    BY <2>2, <2>6, <2>7, <2>9, <2>11, ZenonT(40) DEF FreeListIntact
  <2> QED  BY <2>3, <2>13, <2>14, <1>p DEF IInv
<1>3. ASSUME NEW s \in Slots, Construct(s) PROVE IInv'
  <2>1. s \in live /\ s \notin Range(chain)
    BY <1>3 DEF Construct, IInv, FreeListIntact
  <2>2. /\ UNCHANGED <<free_head_, available_, unlinked, live, chain>>
        /\ storage_' = [storage_ EXCEPT ![s] = Object]
    BY <1>3 DEF Construct
  <2>3. storage_ \in [Slots -> Slots \cup {nullptr, Object}]
    BY DEF IInv, TypeOK
  <2>4. \A i \in 1..Len(chain) : storage_'[chain[i]] = storage_[chain[i]]
    <3> SUFFICES ASSUME NEW i \in 1..Len(chain) PROVE storage_'[chain[i]] = storage_[chain[i]]
      OBVIOUS
    <3>1. chain[i] \in Slots /\ chain[i] # s
      BY <1>q, <2>1
    <3> QED  BY <3>1, <2>2, <2>3
  <2>5. TypeOK'
    BY <2>2, <2>3 DEF IInv, TypeOK
  <2>6. FreeListIntact'
    BY <2>2, <2>4 DEF IInv, FreeListIntact
  <2> QED  BY <2>2, <2>5, <2>6 DEF IInv
<1>4. ASSUME NEW s \in Slots, deallocate(s) PROVE IInv'
  <2>1. s \in live /\ s \notin Range(chain) /\ unlinked = 0
    BY <1>4 DEF deallocate, IInv, TypeOK, FreeListIntact
  <2>2. /\ storage_' = [storage_ EXCEPT ![s] = free_head_]
        /\ free_head_' = s /\ chain' = <<s>> \o chain /\ unlinked' = unlinked
        /\ available_' = available_ + 1 /\ live' = live \ {s}
    BY <1>4 DEF deallocate
  <2>3. /\ free_head_' = IF chain' = << >> THEN nullptr ELSE chain'[1]
        /\ \A i \in 1..Len(chain') :
             storage_'[chain'[i]] = IF i = Len(chain') THEN nullptr ELSE chain'[i + 1]
        /\ IsInjective(chain')
        /\ Range(chain') = Range(chain) \cup {s}
        /\ Len(chain') = Len(chain) + 1
        /\ storage_' \in [Slots -> Slots \cup {nullptr, Object}]
        /\ chain' \in Seq(Slots)
    BY <2>1, <2>2, PushKeepsList, Zenon
  <2>4. Range(chain') = (unlinked'..(PoolSize - 1)) \ live'
    BY <2>1, <2>2, <2>3 DEF IInv, FreeListIntact, Slots
  <2>5. available_' = unlinked' + Len(chain')
    BY <2>1, <2>2, <2>3, <1>q DEF IInv, FreeListIntact
  <2>6. available_' \in Nat
    BY <2>2 DEF IInv, TypeOK
  <2>7. TypeOK'
    BY <2>2, <2>3, <2>6 DEF IInv, TypeOK
  <2> QED  BY <2>1, <2>2, <2>3, <2>4, <2>5, <2>7, <1>p DEF IInv, FreeListIntact
<1>5. CASE UNCHANGED vars
  BY <1>5 DEF vars, IInv, TypeOK, FreeListIntact
<1> QED  BY <1>1, <1>2, <1>3, <1>4, <1>5 DEF Next

\* The links of the free slots survive every sequence of allocate(), construction
\* and deallocate(), for every pool size.
THEOREM Safety == Spec => [](TypeOK /\ FreeListIntact)
<1>1. IInv => TypeOK /\ FreeListIntact
  BY DEF IInv
<1> QED  BY InitIInv, NextIInv, <1>1, PTL DEF Spec

\* The slots the pool can still hand out.
Free == IF unlinked > 0 THEN Slots ELSE Range(chain)

\* A slot can be handed out exactly when no caller owns it.
LEMMA FreeIsNotLive == IInv => Free = Slots \ live
<1> SUFFICES ASSUME IInv PROVE Free = Slots \ live
  OBVIOUS
<1>1. CASE unlinked > 0
  BY <1>1 DEF IInv, Free
<1>2. CASE ~(unlinked > 0)
  <2>1. unlinked = 0
    BY <1>2, PoolAssumption DEF IInv, TypeOK
  <2> QED  BY <2>1 DEF Free, IInv, FreeListIntact, Slots
<1> QED  BY <1>1, <1>2

\* The same of the next state.
LEMMA FreeIsNotLiveNext == IInv' => Free' = Slots \ live'
<1>1. (IInv => Free = Slots \ live)'
  BY FreeIsNotLive, PTL
<1> QED  BY <1>1

\* The pool of core/memory_pool.h implements SlotPool, the pool the matching engine
\* is modelled with: allocate() hands out only slots nobody owns.
THEOREM Refinement == Spec => KeepsPromise
<1>1. Init => Promise!Init
  <2> SUFFICES ASSUME Init PROVE Free = Slots /\ live = {}
    BY DEF Promise!Init, Free
  <2> QED  BY PoolAssumption DEF Init, Free
<1>2. IInv /\ IInv' /\ [Next]_vars => [Promise!Next]_(Promise!vars)
  <2> SUFFICES ASSUME IInv, IInv', [Next]_vars PROVE [Promise!Next]_(Promise!vars)
    OBVIOUS
  <2>0. Free = Slots \ live /\ Free' = Slots \ live' /\ live \subseteq Slots
    BY FreeIsNotLive, FreeIsNotLiveNext DEF IInv, TypeOK
  <2>1. CASE live' = live
    <3>1. Free' = Free
      BY <2>0, <2>1
    <3> QED  BY <2>1, <3>1 DEF Promise!vars, Free
  <2>2. CASE allocate
    <3>1. free_head_ \in Slots /\ free_head_ \notin live
      <4>1. chain # << >> /\ free_head_ = chain[1] /\ unlinked = 0
        BY <2>2 DEF allocate, IInv, FreeListIntact
      <4>2. free_head_ \in Range(chain)
        BY <4>1, PoppedFront, ZenonT(40) DEF IInv, TypeOK, FreeListIntact
      <4> QED  BY <4>1, <4>2 DEF IInv, FreeListIntact, Slots
    <3>2. live' = live \cup {free_head_}
      BY <2>2 DEF allocate
    <3>3. free_head_ \in Free /\ Free' = Free \ {free_head_}
      BY <2>0, <3>1, <3>2
    <3>4. Promise!Take(free_head_)
      BY <3>2, <3>3 DEF Promise!Take, Free
    <3> QED  BY <3>1, <3>4 DEF Promise!Next
  <2>3. ASSUME NEW s \in Slots, deallocate(s) PROVE Promise!Next
    <3>1. s \in live /\ live' = live \ {s}
      BY <2>3 DEF deallocate
    <3>2. Free' = Free \cup {s}
      BY <2>0, <3>1
    <3>3. Promise!Give(s)
      BY <3>1, <3>2 DEF Promise!Give, Free
    <3> QED  BY <3>3 DEF Promise!Next
  <2>4. LinkSlot => live' = live
    BY DEF LinkSlot
  <2>5. \A s \in Slots : Construct(s) => live' = live
    BY DEF Construct
  <2>6. UNCHANGED vars => live' = live
    BY DEF vars
  <2> QED  BY <2>1, <2>2, <2>3, <2>4, <2>5, <2>6 DEF Next
<1> QED  BY <1>1, <1>2, InitIInv, NextIInv, PTL DEF Spec, KeepsPromise, Promise!Spec

(***************************************************************************)
(* The list of a price level.  Links describes it by constants, so that    *)
(* each operation is reduced to what it writes into the pointers.          *)
(***************************************************************************)

Pointers == Slots \cup {nullptr}

\* The list with head h, tail t and pointers nx and pv is the queue q.
Links(q, h, t, nx, pv) ==
  /\ q \in Seq(Slots) /\ IsInjective(q)
  /\ nx \in [Slots -> Pointers] /\ pv \in [Slots -> Pointers]
  /\ h = IF Len(q) = 0 THEN nullptr ELSE q[1]
  /\ t = IF Len(q) = 0 THEN nullptr ELSE q[Len(q)]
  /\ \A i \in 1..Len(q) :
       /\ nx[q[i]] = IF i = Len(q) THEN nullptr ELSE q[i + 1]
       /\ pv[q[i]] = IF i = 1 THEN nullptr ELSE q[i - 1]
  /\ \A o \in Slots \ Range(q) : pv[o] = nullptr /\ nx[o] = nullptr

\* What the provers need to know of a queue of distinct orders.
LEMMA QueueFacts ==
  ASSUME NEW q \in Seq(Slots), IsInjective(q)
  PROVE  /\ Len(q) \in Nat /\ DOMAIN q = 1..Len(q)
         /\ \A i \in 1..Len(q) : q[i] \in Slots /\ q[i] # nullptr /\ q[i] \in Range(q)
         /\ \A i, j \in 1..Len(q) : q[i] = q[j] => i = j
         /\ \A x \in Range(q) : \E i \in 1..Len(q) : q[i] = x
<1>1. Len(q) \in Nat /\ DOMAIN q = 1..Len(q) /\ \A i \in 1..Len(q) : q[i] \in Slots
  BY LenProperties
<1>2. nullptr \notin Slots
  BY PoolAssumption
<1>3. \A x \in Range(q) : \E i \in 1..Len(q) : q[i] = x
  BY <1>1 DEF Range
<1>4. \A i \in 1..Len(q) : q[i] \in Range(q)
  BY <1>1 DEF Range
<1> QED  BY <1>1, <1>2, <1>3, <1>4 DEF IsInjective

\* The pointers once order o is linked behind t.
PushedNext(nx, t, o) == [x \in Slots |-> IF x = t THEN o ELSE IF x = o THEN nullptr ELSE nx[x]]
PushedPrev(pv, t, o) == [x \in Slots |-> IF x = o THEN t ELSE pv[x]]

\* The pointers once the neighbours of order o are joined and its own cleared.
JoinedNext(nx, pv, o) == [x \in Slots |-> IF x = o THEN nullptr ELSE IF x = pv[o] THEN nx[o] ELSE nx[x]]
JoinedPrev(nx, pv, o) == [x \in Slots |-> IF x = o THEN nullptr ELSE IF x = nx[o] THEN pv[o] ELSE pv[x]]

\* PriceLevel::push_back writes the order behind the tail.
LEMMA PushedBackLinks ==
  ASSUME NEW q, NEW h, NEW t, NEW nx, NEW pv, Links(q, h, t, nx, pv),
         NEW o \in Slots, o \notin Range(q)
  PROVE  /\ Links(Append(q, o), IF t = nullptr THEN o ELSE h, o,
                  PushedNext(nx, t, o), PushedPrev(pv, t, o))
         /\ Range(Append(q, o)) = Range(q) \cup {o}
         /\ Len(Append(q, o)) = Len(q) + 1
<1> DEFINE n == Len(q)
           r == Append(q, o)
           nx2 == PushedNext(nx, t, o)
           pv2 == PushedPrev(pv, t, o)
<1>1. /\ n \in Nat /\ DOMAIN q = 1..n
      /\ \A i \in 1..n : q[i] \in Slots /\ q[i] # nullptr /\ q[i] \in Range(q)
      /\ \A i, j \in 1..n : q[i] = q[j] => i = j
      /\ \A x \in Range(q) : \E i \in 1..n : q[i] = x
  BY QueueFacts DEF Links
<1>2. /\ r \in Seq(Slots) /\ Len(r) = n + 1
      /\ \A i \in 1..n : r[i] = q[i]
      /\ r[n + 1] = o
  BY AppendProperties DEF Links
<1>3. /\ t = IF n = 0 THEN nullptr ELSE q[n]
      /\ h = IF n = 0 THEN nullptr ELSE q[1]
      /\ \A i \in 1..n : nx[q[i]] = IF i = n THEN nullptr ELSE q[i + 1]
      /\ \A i \in 1..n : pv[q[i]] = IF i = 1 THEN nullptr ELSE q[i - 1]
      /\ \A x \in Slots \ Range(q) : pv[x] = nullptr /\ nx[x] = nullptr
  BY DEF Links
<1>o. o # nullptr /\ nullptr \notin Slots
  BY PoolAssumption
<1>t. t \in Pointers
  <2>1. n # 0 => n \in 1..n
    BY <1>1
  <2>2. n # 0 => q[n] \in Slots
    BY <2>1, <1>1
  <2> QED  BY <2>2, <1>3 DEF Pointers
<1>a. nx2 \in [Slots -> Pointers] /\ pv2 \in [Slots -> Pointers]
  BY <1>t DEF PushedNext, PushedPrev, Links, Pointers
<1>b. /\ \A x \in Slots : nx2[x] = IF x = t THEN o ELSE IF x = o THEN nullptr ELSE nx[x]
      /\ \A x \in Slots : pv2[x] = IF x = o THEN t ELSE pv[x]
  BY DEF PushedNext, PushedPrev
<1> HIDE DEF n, r, nx2, pv2
<1>n. n \in Nat
  BY <1>1
<1>e. \A i \in 1..n : q[i] \in Slots /\ q[i] # nullptr /\ q[i] \in Range(q)
  BY <1>1
<1>j. \A i, j \in 1..n : q[i] = q[j] => i = j
  BY <1>1
<1>l. /\ \A i \in 1..n : nx[q[i]] = IF i = n THEN nullptr ELSE q[i + 1]
      /\ \A i \in 1..n : pv[q[i]] = IF i = 1 THEN nullptr ELSE q[i - 1]
  BY <1>3
<1>4. DOMAIN r = 1..(n + 1)
  BY <1>2, LenProperties
<1>5. Range(r) = Range(q) \cup {o}
  BY <1>1, <1>2, <1>4 DEF Range
<1>6. IsInjective(r)
  BY <1>e, <1>j, <1>n, <1>2, <1>4 DEF IsInjective
<1>7. t # nullptr => n # 0 /\ t = q[n] /\ n \in 1..n /\ t \in Slots /\ t # o
  BY <1>e, <1>j, <1>n, <1>3
<1>8. t = nullptr => n = 0
  BY <1>e, <1>j, <1>n, <1>3
<1>9. ASSUME NEW i \in 1..(n + 1) PROVE nx2[r[i]] = IF i = n + 1 THEN nullptr ELSE r[i + 1]
  <2>1. CASE i = n + 1
    BY <2>1, <1>2, <1>7, <1>o, <1>b
  <2>2. CASE i = n
    BY <2>2, <1>e, <1>j, <1>n, <1>2, <1>3, <1>b
  <2>3. CASE i < n
    <3>1. i \in 1..n /\ i + 1 \in 1..n /\ n \in 1..n
      BY <2>3, <1>n
    <3>2. r[i] = q[i] /\ r[i + 1] = q[i + 1] /\ nx[q[i]] = q[i + 1] /\ q[i] # t /\ q[i] # o /\ q[i] \in Slots
      BY <3>1, <2>3, <1>e, <1>j, <1>n, <1>2, <1>3
    <3> QED  BY <3>1, <3>2, <2>3, <1>e, <1>j, <1>n, <1>b
  <2> QED  BY <2>1, <2>2, <2>3, <1>n
<1>10. ASSUME NEW i \in 1..(n + 1) PROVE pv2[r[i]] = IF i = 1 THEN nullptr ELSE r[i - 1]
  <2>1. CASE i = n + 1
    <3>1. pv2[r[i]] = t
      BY <2>1, <1>2, <1>b
    <3>2. CASE n = 0
      BY <3>1, <3>2, <2>1, <1>3
    <3>3. CASE n # 0
      BY <3>1, <3>3, <2>1, <1>e, <1>j, <1>n, <1>2, <1>3
    <3> QED  BY <3>2, <3>3
  <2>2. CASE i \in 1..n
    <3>1. r[i] = q[i] /\ q[i] # o /\ q[i] \in Slots
      BY <2>2, <1>e, <1>j, <1>n, <1>2
    <3>2. pv2[r[i]] = IF i = 1 THEN nullptr ELSE q[i - 1]
      BY <3>1, <2>2, <1>3, <1>b
    <3>3. i # 1 => i - 1 \in 1..n
      BY <2>2, <1>n
    <3>4. i # 1 => r[i - 1] = q[i - 1]
      BY <3>3, <1>2
    <3> QED  BY <3>2, <3>4
  <2> QED  BY <2>1, <2>2, <1>n
<1>11. ASSUME NEW x \in Slots \ Range(r) PROVE pv2[x] = nullptr /\ nx2[x] = nullptr
  <2>1. x \notin Range(q) /\ x # o
    BY <1>5
  <2>2. x # t
    BY <2>1, <1>7, <1>e, <1>j, <1>n, <1>o
  <2> QED  BY <2>1, <2>2, <1>3, <1>b
<1>12. (IF t = nullptr THEN o ELSE h) = r[1]
  <2>1. CASE n = 0
    BY <2>1, <1>2, <1>3
  <2>2. CASE n # 0
    BY <2>2, <1>e, <1>j, <1>n, <1>2, <1>3
  <2> QED  BY <2>1, <2>2
<1>13. Len(r) # 0
  BY <1>e, <1>j, <1>n, <1>2
<1>14. /\ r \in Seq(Slots) /\ IsInjective(r)
       /\ nx2 \in [Slots -> Pointers] /\ pv2 \in [Slots -> Pointers]
       /\ (IF t = nullptr THEN o ELSE h) = IF Len(r) = 0 THEN nullptr ELSE r[1]
       /\ o = IF Len(r) = 0 THEN nullptr ELSE r[Len(r)]
       /\ \A i \in 1..Len(r) :
            /\ nx2[r[i]] = IF i = Len(r) THEN nullptr ELSE r[i + 1]
            /\ pv2[r[i]] = IF i = 1 THEN nullptr ELSE r[i - 1]
       /\ \A x \in Slots \ Range(r) : pv2[x] = nullptr /\ nx2[x] = nullptr
  BY <1>a, <1>2, <1>6, <1>9, <1>10, <1>11, <1>12, <1>13
<1>15. Links(r, IF t = nullptr THEN o ELSE h, o, nx2, pv2)
  BY <1>14, Zenon DEF Links
<1> QED  BY <1>2, <1>5, <1>15 DEF n, r, nx2, pv2

\* PriceLevel::remove, as a queue: the orders behind the removed one move up.
LEMMA UnlinkedQueue ==
  ASSUME NEW q \in Seq(Slots), IsInjective(q), NEW o \in Range(q)
  PROVE  \E k \in 1..Len(q) :
           /\ q[k] = o
           /\ Level!Unlinked(q, o) \in Seq(Slots)
           /\ Len(Level!Unlinked(q, o)) = Len(q) - 1
           /\ \A i \in 1..(Len(q) - 1) : Level!Unlinked(q, o)[i] = IF i < k THEN q[i] ELSE q[i + 1]
<1>1. /\ Len(q) \in Nat
      /\ \A i \in 1..Len(q) : q[i] \in Slots
      /\ \A i, j \in 1..Len(q) : q[i] = q[j] => i = j
  BY QueueFacts
<1>2. PICK k \in 1..Len(q) : q[k] = o
  BY QueueFacts
<1>3. (CHOOSE i \in 1..Len(q) : q[i] = o) = k
  <2>1. \A i \in 1..Len(q) : q[i] = o <=> i = k
    BY <1>1, <1>2
  <2> QED  BY <2>1, Zenon
<1> DEFINE r == [i \in 1..(Len(q) - 1) |-> IF i < k THEN q[i] ELSE q[i + 1]]
<1>4. Level!Unlinked(q, o) = r
  BY <1>3, Zenon DEF Level!Unlinked
<1>5. Len(q) - 1 \in Nat /\ r \in [1..(Len(q) - 1) -> Slots]
  <2>1. \A i \in 1..(Len(q) - 1) : q[i] \in Slots /\ q[i + 1] \in Slots
    BY <1>1
  <2> QED  BY <2>1, <1>1
<1>6. \A i \in 1..(Len(q) - 1) : r[i] = IF i < k THEN q[i] ELSE q[i + 1]
  OBVIOUS
<1> HIDE DEF r
<1>7. r \in Seq(Slots) /\ Len(r) = Len(q) - 1
  BY <1>5, IsASeq, LenProperties
<1> QED  BY <1>2, <1>4, <1>6, <1>7

\* PriceLevel::remove joins the neighbours, wherever the order stands.
LEMMA UnlinkedLinks ==
  ASSUME NEW q, NEW h, NEW t, NEW nx, NEW pv, Links(q, h, t, nx, pv),
         NEW o \in Range(q)
  PROVE  /\ Links(Level!Unlinked(q, o), IF pv[o] = nullptr THEN nx[o] ELSE h,
                  IF nx[o] = nullptr THEN pv[o] ELSE t, JoinedNext(nx, pv, o), JoinedPrev(nx, pv, o))
         /\ Range(Level!Unlinked(q, o)) = Range(q) \ {o}
         /\ Len(Level!Unlinked(q, o)) = Len(q) - 1
<1> DEFINE n == Len(q)
           r == Level!Unlinked(q, o)
           nx2 == JoinedNext(nx, pv, o)
           pv2 == JoinedPrev(nx, pv, o)
<1>1. /\ n \in Nat /\ DOMAIN q = 1..n
      /\ \A i \in 1..n : q[i] \in Slots /\ q[i] # nullptr /\ q[i] \in Range(q)
      /\ \A i, j \in 1..n : q[i] = q[j] => i = j
      /\ \A x \in Range(q) : \E i \in 1..n : q[i] = x
  BY QueueFacts DEF Links
<1>2. PICK k \in 1..n : /\ q[k] = o
                        /\ r \in Seq(Slots) /\ Len(r) = n - 1
                        /\ \A i \in 1..(n - 1) : r[i] = IF i < k THEN q[i] ELSE q[i + 1]
  <2>1. q \in Seq(Slots) /\ IsInjective(q)
    BY DEF Links
  <2> QED  BY <2>1, UnlinkedQueue
<1>3. /\ t = IF n = 0 THEN nullptr ELSE q[n]
      /\ h = IF n = 0 THEN nullptr ELSE q[1]
      /\ \A i \in 1..n : nx[q[i]] = IF i = n THEN nullptr ELSE q[i + 1]
      /\ \A i \in 1..n : pv[q[i]] = IF i = 1 THEN nullptr ELSE q[i - 1]
      /\ \A x \in Slots \ Range(q) : pv[x] = nullptr /\ nx[x] = nullptr
  BY DEF Links
<1>o. nullptr \notin Slots /\ o \in Slots
  BY <1>1, <1>2, PoolAssumption
<1>a. nx2 \in [Slots -> Pointers] /\ pv2 \in [Slots -> Pointers]
  BY <1>o DEF JoinedNext, JoinedPrev, Links, Pointers
<1>b. /\ \A x \in Slots : nx2[x] = IF x = o THEN nullptr ELSE IF x = pv[o] THEN nx[o] ELSE nx[x]
      /\ \A x \in Slots : pv2[x] = IF x = o THEN nullptr ELSE IF x = nx[o] THEN pv[o] ELSE pv[x]
  BY DEF JoinedNext, JoinedPrev
<1> HIDE DEF n, r, nx2, pv2
<1>n. n \in Nat
  BY <1>1
<1>e. \A i \in 1..n : q[i] \in Slots /\ q[i] # nullptr /\ q[i] \in Range(q)
  BY <1>1
<1>j. \A i, j \in 1..n : q[i] = q[j] => i = j
  BY <1>1
<1>l. /\ \A i \in 1..n : nx[q[i]] = IF i = n THEN nullptr ELSE q[i + 1]
      /\ \A i \in 1..n : pv[q[i]] = IF i = 1 THEN nullptr ELSE q[i - 1]
  BY <1>3
<1>4. DOMAIN r = 1..(n - 1)
  BY <1>2, LenProperties
<1>5. /\ pv[o] = IF k = 1 THEN nullptr ELSE q[k - 1]
      /\ nx[o] = IF k = n THEN nullptr ELSE q[k + 1]
  BY <1>2, <1>3
<1>6. IsInjective(r)
  <2> SUFFICES ASSUME NEW i \in 1..(n - 1), NEW j \in 1..(n - 1), r[i] = r[j] PROVE i = j
    BY <1>4 DEF IsInjective
  <2> DEFINE from(m) == IF m < k THEN m ELSE m + 1
  <2>1. from(i) \in 1..n /\ from(j) \in 1..n /\ r[i] = q[from(i)] /\ r[j] = q[from(j)]
    BY <1>e, <1>j, <1>n, <1>2
  <2>2. from(i) = from(j)
    <3> HIDE DEF from
    <3> QED  BY <2>1, <1>e, <1>j, <1>n, Zenon
  <2> QED  BY <2>2
<1>7. Range(r) = Range(q) \ {o}
  <2>1. ASSUME NEW i \in 1..(n - 1) PROVE r[i] \in Range(q) /\ r[i] # o
    <3>1. CASE i < k
      <4>1. i \in 1..n /\ r[i] = q[i] /\ i # k
        BY <3>1, <1>n, <1>2
      <4> QED  BY <4>1, <1>e, <1>j, <1>2
    <3>2. CASE i >= k
      <4>1. i + 1 \in 1..n /\ r[i] = q[i + 1] /\ i + 1 # k
        BY <3>2, <1>e, <1>j, <1>n, <1>2
      <4> QED  BY <4>1, <1>e, <1>j, <1>n, <1>2
    <3> QED  BY <3>1, <3>2, <1>e, <1>j, <1>n
  <2>2. ASSUME NEW x \in Range(q), x # o PROVE \E i \in 1..(n - 1) : r[i] = x
    <3>1. PICK j \in 1..n : q[j] = x
      BY <1>1
    <3>2. CASE j < k
      BY <3>1, <3>2, <1>e, <1>j, <1>n, <1>2
    <3>3. CASE j > k
      <4>1. j - 1 \in 1..(n - 1) /\ ~(j - 1 < k) /\ (j - 1) + 1 = j
        BY <3>3, <1>n
      <4>2. r[j - 1] = q[(j - 1) + 1]
        BY <4>1, <1>2
      <4> QED  BY <3>1, <4>1, <4>2
    <3> QED  BY <2>2, <3>1, <3>2, <3>3, <1>e, <1>j, <1>n, <1>2
  <2> QED  BY <2>1, <2>2, <1>4 DEF Range
<1>8. ASSUME NEW i \in 1..(n - 1) PROVE nx2[r[i]] = IF i = n - 1 THEN nullptr ELSE r[i + 1]
  <2>1. CASE i + 1 < k
    <3>1. i \in 1..n /\ i + 1 \in 1..(n - 1) /\ k - 1 \in 1..n /\ i # k - 1 /\ i # n /\ i # k /\ i # n - 1 /\ k # 1 /\ i < k
      BY <2>1, <1>n
    <3>2. r[i] = q[i] /\ r[i + 1] = q[i + 1]
      BY <3>1, <2>1, <1>2
    <3>3. q[i] \in Slots /\ q[i] # o /\ q[i] # pv[o]
      <4>1. q[i] \in Slots /\ q[i] # o /\ q[i] # q[k - 1]
        BY <3>1, <1>e, <1>j, <1>n, <1>2
      <4> QED  BY <3>1, <4>1, <1>5
    <3>4. nx2[q[i]] = q[i + 1]
      <4>1. nx[q[i]] = q[i + 1]
        BY <3>1, <1>l
      <4> QED  BY <3>3, <4>1, <1>b
    <3> QED  BY <3>1, <3>2, <3>4
  <2>2. CASE i + 1 = k
    <3>1. i \in 1..n /\ k - 1 = i /\ k # 1 /\ i < k /\ i # k
      BY <2>2, <1>n
    <3>2. r[i] = q[i] /\ q[i] = pv[o] /\ q[i] # o /\ q[i] \in Slots
      BY <3>1, <1>e, <1>j, <1>n, <1>2, <1>5
    <3>3. nx2[r[i]] = nx[o]
      BY <3>2, <1>b
    <3>4. CASE k = n
      BY <3>3, <3>4, <2>2, <1>e, <1>j, <1>n, <1>5
    <3>5. CASE k # n
      <4>1. i + 1 \in 1..(n - 1) /\ ~(i + 1 < k) /\ i # n - 1
        BY <3>5, <2>2, <1>n
      <4>2. r[i + 1] = q[k + 1]
        BY <4>1, <2>2, <1>2
      <4> QED  BY <3>3, <3>5, <4>1, <4>2, <1>5
    <3> QED  BY <3>4, <3>5
  <2>3. CASE i + 1 > k
    <3>1. i + 1 \in 1..n /\ ~(i < k) /\ i + 1 # k /\ (k # 1 => k - 1 \in 1..n /\ i + 1 # k - 1)
      BY <2>3, <1>n
    <3>2. r[i] = q[i + 1]
      BY <3>1, <1>2
    <3>3. q[i + 1] \in Slots /\ q[i + 1] # o /\ q[i + 1] # pv[o]
      <4>1. q[i + 1] \in Slots /\ q[i + 1] # nullptr /\ q[i + 1] # o
        BY <3>1, <1>e, <1>j, <1>n, <1>2
      <4>2. k # 1 => q[i + 1] # q[k - 1]
        BY <3>1, <1>e, <1>j, <1>n
      <4> QED  BY <4>1, <4>2, <1>5
    <3>4. nx2[r[i]] = IF i + 1 = n THEN nullptr ELSE q[(i + 1) + 1]
      <4>1. nx[q[i + 1]] = IF i + 1 = n THEN nullptr ELSE q[(i + 1) + 1]
        BY <3>1, <1>l
      <4> QED  BY <3>2, <3>3, <4>1, <1>b
    <3>5. i # n - 1 => r[i + 1] = q[(i + 1) + 1]
      <4> SUFFICES ASSUME i # n - 1 PROVE r[i + 1] = q[(i + 1) + 1]
        OBVIOUS
      <4>1. i + 1 \in 1..(n - 1) /\ ~(i + 1 < k)
        BY <2>3, <1>n
      <4> QED  BY <4>1, <1>2
    <3>6. i = n - 1 <=> i + 1 = n
      BY <1>n
    <3> QED  BY <3>4, <3>5, <3>6
  <2> QED  BY <2>1, <2>2, <2>3, <1>n
<1>9. ASSUME NEW i \in 1..(n - 1) PROVE pv2[r[i]] = IF i = 1 THEN nullptr ELSE r[i - 1]
  <2>1. CASE i < k
    <3>1. i \in 1..n /\ i # k /\ (k # n => k + 1 \in 1..n /\ i # k + 1) /\ (i # 1 => i - 1 \in 1..(n - 1) /\ i - 1 < k)
      BY <2>1, <1>n
    <3>2. r[i] = q[i] /\ (i # 1 => r[i - 1] = q[i - 1])
      BY <3>1, <2>1, <1>2
    <3>3. q[i] \in Slots /\ q[i] # o /\ q[i] # nx[o]
      <4>1. q[i] \in Slots /\ q[i] # nullptr /\ q[i] # o
        BY <3>1, <1>e, <1>j, <1>n, <1>2
      <4>2. k # n => q[i] # q[k + 1]
        BY <3>1, <1>e, <1>j, <1>n
      <4> QED  BY <4>1, <4>2, <1>5
    <3>4. pv2[r[i]] = IF i = 1 THEN nullptr ELSE q[i - 1]
      <4>1. pv[q[i]] = IF i = 1 THEN nullptr ELSE q[i - 1]
        BY <3>1, <1>l
      <4> QED  BY <3>2, <3>3, <4>1, <1>b
    <3> QED  BY <3>2, <3>4
  <2>2. CASE i = k
    <3>1. k # n /\ k + 1 \in 1..n /\ k + 1 # k /\ ~(i < k)
      BY <2>2, <1>n
    <3>2. r[i] = q[k + 1] /\ q[k + 1] = nx[o] /\ q[k + 1] # o /\ q[k + 1] \in Slots
      BY <3>1, <2>2, <1>e, <1>j, <1>n, <1>2, <1>5
    <3>3. pv2[r[i]] = IF k = 1 THEN nullptr ELSE q[k - 1]
      BY <3>2, <1>5, <1>b
    <3>4. k # 1 => r[k - 1] = q[k - 1]
      <4> SUFFICES ASSUME k # 1 PROVE r[k - 1] = q[k - 1]
        OBVIOUS
      <4>1. k - 1 \in 1..(n - 1) /\ k - 1 < k
        BY <1>n
      <4> QED  BY <4>1, <1>2
    <3> QED  BY <3>3, <3>4, <2>2
  <2>3. CASE i > k
    <3>1. /\ i + 1 \in 1..n /\ ~(i < k) /\ i + 1 # k /\ i + 1 # 1 /\ i # 1 /\ (i + 1) - 1 = i
          /\ (k # n => k + 1 \in 1..n /\ i + 1 # k + 1)
          /\ i - 1 \in 1..(n - 1) /\ ~(i - 1 < k) /\ (i - 1) + 1 = i
      BY <2>3, <1>n
    <3>2. r[i] = q[i + 1] /\ r[i - 1] = q[i]
      BY <3>1, <1>2
    <3>3. q[i + 1] \in Slots /\ q[i + 1] # o /\ q[i + 1] # nx[o]
      <4>1. q[i + 1] \in Slots /\ q[i + 1] # nullptr /\ q[i + 1] # o
        BY <3>1, <1>e, <1>j, <1>n, <1>2
      <4>2. k # n => q[i + 1] # q[k + 1]
        BY <3>1, <1>e, <1>j, <1>n
      <4> QED  BY <4>1, <4>2, <1>5
    <3>4. pv2[r[i]] = q[i]
      <4>1. pv[q[i + 1]] = q[(i + 1) - 1]
        BY <3>1, <1>l
      <4> QED  BY <3>1, <3>2, <3>3, <4>1, <1>b
    <3> QED  BY <3>1, <3>2, <3>4
  <2> QED  BY <2>1, <2>2, <2>3, <1>n
<1>10. ASSUME NEW x \in Slots \ Range(r) PROVE pv2[x] = nullptr /\ nx2[x] = nullptr
  <2>1. CASE x = o
    BY <2>1, <1>b
  <2>2. CASE x # o
    <3>1. x \notin Range(q)
      BY <2>2, <1>7
    <3>2. (k # 1 => k - 1 \in 1..n) /\ (k # n => k + 1 \in 1..n)
      BY <1>e, <1>j, <1>n
    <3>3. (k # 1 => x # q[k - 1]) /\ (k # n => x # q[k + 1]) /\ x # nullptr
      BY <3>1, <3>2, <1>e, <1>o
    <3>4. x # pv[o] /\ x # nx[o]
      BY <3>3, <1>5
    <3> QED  BY <2>2, <3>1, <3>4, <1>3, <1>b
  <2> QED  BY <2>1, <2>2
<1>11. (IF pv[o] = nullptr THEN nx[o] ELSE h) = IF Len(r) = 0 THEN nullptr ELSE r[1]
  <2>1. CASE k = 1
    <3>1. CASE n = 1
      BY <2>1, <3>1, <1>2, <1>5
    <3>2. CASE n # 1
      <4>1. 1 \in 1..(n - 1) /\ ~(1 < k) /\ Len(r) # 0 /\ k # n
        BY <2>1, <3>2, <1>e, <1>j, <1>n, <1>2
      <4>2. r[1] = q[1 + 1]
        BY <4>1, <1>2
      <4> QED  BY <2>1, <4>1, <4>2, <1>5
    <3> QED  BY <3>1, <3>2
  <2>2. CASE k # 1
    <3>1. 1 \in 1..(n - 1) /\ 1 < k /\ Len(r) # 0 /\ n # 0 /\ k - 1 \in 1..n
      BY <2>2, <1>e, <1>j, <1>n, <1>2
    <3>2. r[1] = q[1] /\ h = q[1]
      BY <3>1, <1>2, <1>3
    <3>3. pv[o] # nullptr
      BY <3>1, <2>2, <1>e, <1>j, <1>n, <1>5
    <3> QED  BY <3>1, <3>2, <3>3
  <2> QED  BY <2>1, <2>2
<1>12. (IF nx[o] = nullptr THEN pv[o] ELSE t) = IF Len(r) = 0 THEN nullptr ELSE r[Len(r)]
  <2>1. CASE k = n
    <3>1. CASE n = 1
      BY <2>1, <3>1, <1>2, <1>5
    <3>2. CASE n # 1
      <4>1. n - 1 \in 1..(n - 1) /\ n - 1 < k /\ Len(r) # 0 /\ k # 1 /\ k - 1 = n - 1
        BY <2>1, <3>2, <1>e, <1>j, <1>n, <1>2
      <4>2. r[Len(r)] = q[k - 1]
        BY <4>1, <1>2
      <4> QED  BY <2>1, <4>1, <4>2, <1>5
    <3> QED  BY <3>1, <3>2
  <2>2. CASE k # n
    <3>1. n - 1 \in 1..(n - 1) /\ ~(n - 1 < k) /\ Len(r) # 0 /\ n # 0 /\ k + 1 \in 1..n /\ (n - 1) + 1 = n
      BY <2>2, <1>e, <1>j, <1>n, <1>2
    <3>2. r[Len(r)] = q[n] /\ t = q[n]
      BY <3>1, <1>2, <1>3
    <3>3. nx[o] # nullptr
      BY <3>1, <2>2, <1>e, <1>j, <1>n, <1>5
    <3> QED  BY <3>1, <3>2, <3>3
  <2> QED  BY <2>1, <2>2
<1> DEFINE h2 == IF pv[o] = nullptr THEN nx[o] ELSE h
           t2 == IF nx[o] = nullptr THEN pv[o] ELSE t
<1>13. /\ r \in Seq(Slots) /\ IsInjective(r)
       /\ nx2 \in [Slots -> Pointers] /\ pv2 \in [Slots -> Pointers]
       /\ h2 = IF Len(r) = 0 THEN nullptr ELSE r[1]
       /\ t2 = IF Len(r) = 0 THEN nullptr ELSE r[Len(r)]
  BY <1>a, <1>2, <1>6, <1>11, <1>12
<1>14. /\ \A i \in 1..Len(r) :
            /\ nx2[r[i]] = IF i = Len(r) THEN nullptr ELSE r[i + 1]
            /\ pv2[r[i]] = IF i = 1 THEN nullptr ELSE r[i - 1]
       /\ \A x \in Slots \ Range(r) : pv2[x] = nullptr /\ nx2[x] = nullptr
  BY <1>2, <1>8, <1>9, <1>10
<1>15. Links(r, h2, t2, nx2, pv2)
  <2> HIDE DEF h2, t2
  <2> QED  BY <1>13, <1>14, Zenon DEF Links
<1> QED  BY <1>2, <1>7, <1>15 DEF n, r, nx2, pv2

\* PriceLevel::pop_front, as a queue, removes the first order.
LEMMA TailIsUnlinked ==
  ASSUME NEW q \in Seq(Slots), IsInjective(q), Len(q) # 0
  PROVE  Level!Unlinked(q, q[1]) = Tail(q) /\ q[1] \in Range(q)
<1>1. /\ Len(q) \in Nat /\ 1 \in 1..Len(q)
      /\ \A i \in 1..Len(q) : q[i] \in Range(q)
      /\ \A i, j \in 1..Len(q) : q[i] = q[j] => i = j
  BY QueueFacts
<1>2. q[1] \in Range(q)
  BY <1>1
<1> DEFINE r == Level!Unlinked(q, q[1])
<1>3. PICK k \in 1..Len(q) : /\ q[k] = q[1]
                             /\ r \in Seq(Slots) /\ Len(r) = Len(q) - 1
                             /\ \A i \in 1..(Len(q) - 1) : r[i] = IF i < k THEN q[i] ELSE q[i + 1]
  BY <1>2, UnlinkedQueue
<1>4. k = 1
  BY <1>1, <1>3
<1>5. \A i \in 1..(Len(q) - 1) : r[i] = q[i + 1]
  BY <1>3, <1>4
<1>6. q # << >>
  BY EmptySeq
<1>7. /\ Tail(q) \in Seq(Slots) /\ Len(Tail(q)) = Len(q) - 1
      /\ \A i \in 1..(Len(q) - 1) : Tail(q)[i] = q[i + 1]
  BY <1>6, PoppedFront
<1> HIDE DEF r
<1>8. r = Tail(q)
  BY <1>3, <1>5, <1>7, SeqEqual
<1> QED  BY <1>2, <1>8 DEF r

\* A write through a pointer, unless it is nullptr.
LEMMA SetAt ==
  ASSUME NEW f \in [Slots -> Pointers], NEW p \in Pointers, NEW v \in Pointers
  PROVE  Level!Set(f, p, v) = [x \in Slots |-> IF x = p THEN v ELSE f[x]]
<1>1. nullptr \notin Slots
  BY PoolAssumption
<1>2. CASE p = nullptr
  BY <1>1, <1>2 DEF Level!Set
<1>3. CASE p # nullptr
  <2>1. p \in Slots /\ Level!Set(f, p, v) = [f EXCEPT ![p] = v]
    BY <1>3 DEF Level!Set, Pointers
  <2> QED  BY <2>1, Zenon
<1> QED  BY <1>2, <1>3

\* Adding to a counter and reducing it modulo m again is counting modulo m.
LEMMA ModuloAgain ==
  ASSUME NEW m \in Nat \ {0}, NEW a \in Nat, NEW d \in Int
  PROVE  ((a % m) + d) % m = (a + d) % m
<1>1. PICK c \in Int, r \in 0..(m - 1) : a = m * c + r /\ a % m = r
  <2>1. a = m * (a \div m) + (a % m) /\ a % m \in 0..(m - 1) /\ a \div m \in Int
    OBVIOUS
  <2> QED  BY <2>1
<1>2. PICK e \in Int, s \in 0..(m - 1) : r + d = m * e + s /\ (r + d) % m = s
  <2>0. r + d \in Int
    OBVIOUS
  <2> DEFINE b == r + d
  <2> HIDE DEF b
  <2>1. b \in Int
    BY <2>0 DEF b
  <2>2. b = m * (b \div m) + (b % m) /\ b % m \in 0..(m - 1) /\ b \div m \in Int
    BY <2>1
  <2>3. \E e \in Int, s \in 0..(m - 1) : b = m * e + s /\ b % m = s
    BY <2>2, Zenon
  <2> QED  BY <2>3 DEF b
<1>3. a + d = m * (c + e) + s
  BY <1>1, <1>2
<1>4. (m * (c + e) + s) % m = s
  <2> DEFINE f == c + e
  <2>1. f \in Int
    OBVIOUS
  <2> HIDE DEF f
  <2>2. (m * f + s) % m = s
    BY <2>1
  <2> QED  BY <2>2 DEF f
<1> QED  BY <1>1, <1>2, <1>3, <1>4

\* The level of the state: list and count.
LevelInv ==
  /\ Links(queue, head_, tail_, next, prev)
  /\ order_count_ = Len(queue) % CountModulus

\* What the provers need to know of the level's variables.
LEMMA LevelFacts ==
  ASSUME LevelInv
  PROVE  /\ queue \in Seq(Slots) /\ IsInjective(queue) /\ Len(queue) \in Nat
         /\ next \in [Slots -> Pointers] /\ prev \in [Slots -> Pointers]
         /\ head_ \in Pointers /\ tail_ \in Pointers
         /\ Range(queue) \subseteq Slots
         /\ head_ # nullptr => Len(queue) # 0 /\ head_ = queue[1] /\ head_ \in Range(queue)
<1>1. /\ queue \in Seq(Slots) /\ IsInjective(queue)
      /\ next \in [Slots -> Pointers] /\ prev \in [Slots -> Pointers]
      /\ head_ = IF Len(queue) = 0 THEN nullptr ELSE queue[1]
      /\ tail_ = IF Len(queue) = 0 THEN nullptr ELSE queue[Len(queue)]
  BY DEF LevelInv, Links
<1>2. /\ Len(queue) \in Nat
      /\ \A i \in 1..Len(queue) : queue[i] \in Slots /\ queue[i] \in Range(queue)
      /\ \A x \in Range(queue) : \E i \in 1..Len(queue) : queue[i] = x
  BY <1>1, QueueFacts
<1>3. Len(queue) # 0 => 1 \in 1..Len(queue) /\ Len(queue) \in 1..Len(queue)
  BY <1>2
<1> QED  BY <1>1, <1>2, <1>3 DEF Pointers

\* push_back() of an order that is not linked.
LEMMA PushBackKeeps ==
  ASSUME LevelInv, NEW o \in Slots, Level!push_back(o)
  PROVE  LevelInv' /\ Range(queue') = Range(queue) \cup {o}
<1>1. /\ o \notin Range(queue)
      /\ prev' = [prev EXCEPT ![o] = tail_]
      /\ next' = Level!Set([next EXCEPT ![o] = nullptr], tail_, o)
      /\ head_' = IF tail_ = nullptr THEN o ELSE head_
      /\ tail_' = o
      /\ order_count_' = (order_count_ + 1) % CountModulus
      /\ queue' = Append(queue, o)
  BY DEF Level!push_back, Level!Range, Range
<1>2. /\ next \in [Slots -> Pointers] /\ prev \in [Slots -> Pointers]
      /\ tail_ \in Pointers /\ o \in Pointers /\ nullptr \in Pointers /\ Len(queue) \in Nat
  BY LevelFacts DEF Pointers
<1>3. prev' = PushedPrev(prev, tail_, o)
  BY <1>1, <1>2, Zenon DEF PushedPrev
<1>4. next' = PushedNext(next, tail_, o)
  <2> DEFINE f == [next EXCEPT ![o] = nullptr]
  <2>1. f \in [Slots -> Pointers] /\ \A x \in Slots : f[x] = IF x = o THEN nullptr ELSE next[x]
    BY <1>2
  <2>2. next' = Level!Set(f, tail_, o)
    BY <1>1
  <2> HIDE DEF f
  <2>3. Level!Set(f, tail_, o) = [x \in Slots |-> IF x = tail_ THEN o ELSE f[x]]
    BY <2>1, <1>2, SetAt, Zenon
  <2> QED  BY <2>1, <2>2, <2>3 DEF PushedNext
<1>5. Links(queue, head_, tail_, next, prev)
  BY DEF LevelInv
<1>6. /\ Links(Append(queue, o), IF tail_ = nullptr THEN o ELSE head_, o,
               PushedNext(next, tail_, o), PushedPrev(prev, tail_, o))
      /\ Range(Append(queue, o)) = Range(queue) \cup {o}
      /\ Len(Append(queue, o)) = Len(queue) + 1
  BY <1>1, <1>5, PushedBackLinks, Zenon
<1>7. order_count_' = (Len(queue) + 1) % CountModulus
  <2>1. 1 \in Int
    OBVIOUS
  <2>2. ((Len(queue) % CountModulus) + 1) % CountModulus = (Len(queue) + 1) % CountModulus
    BY <2>1, <1>2, CountAssumption, ModuloAgain, Zenon
  <2> QED  BY <1>1, <2>2, Zenon DEF LevelInv
<1>8. Links(queue', head_', tail_', next', prev')
  BY <1>1, <1>3, <1>4, <1>6, Zenon
<1>9. order_count_' = Len(queue') % CountModulus
  BY <1>1, <1>6, <1>7
<1> QED  BY <1>1, <1>6, <1>8, <1>9 DEF LevelInv

\* An order that leaves the level, wherever it stands: what remove() and pop_front()
\* have in common.
LEMMA LeavingKeeps ==
  ASSUME LevelInv, NEW o \in Range(queue),
         queue' = Level!Unlinked(queue, o),
         head_' = IF prev[o] = nullptr THEN next[o] ELSE head_,
         tail_' = IF next[o] = nullptr THEN prev[o] ELSE tail_,
         next' = JoinedNext(next, prev, o), prev' = JoinedPrev(next, prev, o),
         order_count_' = (order_count_ - 1) % CountModulus
  PROVE  LevelInv' /\ Range(queue') = Range(queue) \ {o}
<1>1. Links(queue, head_, tail_, next, prev)
  BY DEF LevelInv
<1>2. /\ Links(Level!Unlinked(queue, o), IF prev[o] = nullptr THEN next[o] ELSE head_,
               IF next[o] = nullptr THEN prev[o] ELSE tail_,
               JoinedNext(next, prev, o), JoinedPrev(next, prev, o))
      /\ Range(Level!Unlinked(queue, o)) = Range(queue) \ {o}
      /\ Len(Level!Unlinked(queue, o)) = Len(queue) - 1
  BY <1>1, UnlinkedLinks, Zenon
<1>3. Links(queue', head_', tail_', next', prev')
  BY <1>2, Zenon
<1>4. order_count_' = Len(queue') % CountModulus
  <2>1. -1 \in Int /\ Len(queue) \in Nat
    BY LevelFacts
  <2>2. ((Len(queue) % CountModulus) + (-1)) % CountModulus = (Len(queue) + (-1)) % CountModulus
    BY <2>1, CountAssumption, ModuloAgain, Zenon
  <2>3. order_count_ = Len(queue) % CountModulus /\ Len(queue) % CountModulus \in Int
    BY <2>1, CountAssumption DEF LevelInv
  <2>4. order_count_ - 1 = (Len(queue) % CountModulus) + (-1) /\ Len(queue) - 1 = Len(queue) + (-1)
    BY <2>1, <2>3
  <2>5. Len(queue') = Len(queue) - 1
    BY <1>2
  <2> QED  BY <2>2, <2>4, <2>5, Zenon
<1> QED  BY <1>2, <1>3, <1>4, Zenon DEF LevelInv

\* remove() of a linked order.
LEMMA RemoveKeeps ==
  ASSUME LevelInv, NEW o \in Slots, Level!remove(o)
  PROVE  LevelInv' /\ Range(queue') = Range(queue) \ {o} /\ o \in Range(queue)
<1>1. /\ o \in Range(queue)
      /\ head_' = IF prev[o] = nullptr THEN next[o] ELSE head_
      /\ tail_' = IF next[o] = nullptr THEN prev[o] ELSE tail_
      /\ next' = [Level!Set(next, prev[o], next[o]) EXCEPT ![o] = nullptr]
      /\ prev' = [Level!Set(prev, next[o], prev[o]) EXCEPT ![o] = nullptr]
      /\ order_count_' = (order_count_ - 1) % CountModulus
      /\ queue' = Level!Unlinked(queue, o)
  BY DEF Level!remove, Level!UnlinkForward, Level!Range, Range
<1>2. next \in [Slots -> Pointers] /\ prev \in [Slots -> Pointers]
  BY LevelFacts
<1>3. prev[o] \in Pointers /\ next[o] \in Pointers
  BY <1>2
<1>4. /\ Level!Set(next, prev[o], next[o]) = [x \in Slots |-> IF x = prev[o] THEN next[o] ELSE next[x]]
      /\ Level!Set(prev, next[o], prev[o]) = [x \in Slots |-> IF x = next[o] THEN prev[o] ELSE prev[x]]
  BY <1>2, <1>3, SetAt
<1>5. next' = JoinedNext(next, prev, o)
  <2> DEFINE f == [x \in Slots |-> IF x = prev[o] THEN next[o] ELSE next[x]]
  <2>1. next' = [f EXCEPT ![o] = nullptr]
    BY <1>1, <1>4, Zenon
  <2>2. next' = [x \in Slots |-> IF x = o THEN nullptr ELSE f[x]]
    BY <2>1, Zenon
  <2> QED  BY <2>2 DEF JoinedNext
<1>6. prev' = JoinedPrev(next, prev, o)
  <2> DEFINE f == [x \in Slots |-> IF x = next[o] THEN prev[o] ELSE prev[x]]
  <2>1. prev' = [f EXCEPT ![o] = nullptr]
    BY <1>1, <1>4, Zenon
  <2>2. prev' = [x \in Slots |-> IF x = o THEN nullptr ELSE f[x]]
    BY <2>1, Zenon
  <2> QED  BY <2>2 DEF JoinedPrev
<1> QED  BY <1>1, <1>5, <1>6, LeavingKeeps, Zenon

\* pop_front() of a level that is not empty.
LEMMA PopFrontKeeps ==
  ASSUME LevelInv, Level!pop_front
  PROVE  LevelInv' /\ Range(queue') = Range(queue) \ {head_} /\ head_ \in Range(queue)
<1>1. /\ head_ # nullptr
      /\ head_' = next[head_]
      /\ tail_' = IF next[head_] = nullptr THEN nullptr ELSE tail_
      /\ prev' = [Level!Set(prev, next[head_], nullptr) EXCEPT ![head_] = nullptr]
      /\ next' = [next EXCEPT ![head_] = nullptr]
      /\ order_count_' = (order_count_ - 1) % CountModulus
      /\ queue' = Tail(queue)
  BY DEF Level!pop_front
<1>2. /\ next \in [Slots -> Pointers] /\ prev \in [Slots -> Pointers] /\ nullptr \in Pointers
      /\ queue \in Seq(Slots) /\ IsInjective(queue) /\ Len(queue) # 0 /\ Len(queue) \in Nat
      /\ head_ = queue[1] /\ head_ \in Range(queue) /\ head_ \in Slots
  BY <1>1, LevelFacts DEF Pointers
<1>3. prev[head_] = nullptr /\ next[head_] \in Pointers
  <2>1. 1 \in 1..Len(queue)
    BY <1>2
  <2>2. prev[queue[1]] = IF 1 = 1 THEN nullptr ELSE queue[1 - 1]
    BY <2>1, Zenon DEF LevelInv, Links
  <2> QED  BY <2>2, <1>2
<1>4. Level!Set(prev, next[head_], nullptr) = [x \in Slots |-> IF x = next[head_] THEN nullptr ELSE prev[x]]
  <2> DEFINE p == next[head_]
  <2>1. prev \in [Slots -> Pointers] /\ p \in Pointers /\ nullptr \in Pointers
    BY <1>2, <1>3
  <2> HIDE DEF p
  <2>2. Level!Set(prev, p, nullptr) = [x \in Slots |-> IF x = p THEN nullptr ELSE prev[x]]
    BY <2>1, SetAt
  <2> QED  BY <2>2 DEF p
<1>5. prev' = JoinedPrev(next, prev, head_)
  <2> DEFINE f == [x \in Slots |-> IF x = next[head_] THEN nullptr ELSE prev[x]]
  <2>1. prev' = [f EXCEPT ![head_] = nullptr]
    BY <1>1, <1>4, Zenon
  <2>2. prev' = [x \in Slots |-> IF x = head_ THEN nullptr ELSE f[x]]
    BY <2>1, Zenon
  <2> QED  BY <2>2, <1>3 DEF JoinedPrev
<1>6. next' = JoinedNext(next, prev, head_)
  <2>1. nullptr \notin Slots
    BY PoolAssumption
  <2> QED  BY <2>1, <1>1, <1>2, <1>3, Zenon DEF JoinedNext
<1>7. queue' = Level!Unlinked(queue, head_)
  BY <1>1, <1>2, TailIsUnlinked
<1>8. /\ head_' = IF prev[head_] = nullptr THEN next[head_] ELSE head_
      /\ tail_' = IF next[head_] = nullptr THEN prev[head_] ELSE tail_
  BY <1>1, <1>3
<1>9. LevelInv' /\ Range(queue') = Range(queue) \ {head_}
  <2> DEFINE o == head_
  <2>1. /\ o \in Range(queue)
        /\ queue' = Level!Unlinked(queue, o)
        /\ head_' = IF prev[o] = nullptr THEN next[o] ELSE head_
        /\ tail_' = IF next[o] = nullptr THEN prev[o] ELSE tail_
        /\ next' = JoinedNext(next, prev, o) /\ prev' = JoinedPrev(next, prev, o)
        /\ order_count_' = (order_count_ - 1) % CountModulus
    BY <1>1, <1>2, <1>5, <1>6, <1>7, <1>8, Zenon
  <2> HIDE DEF o
  <2>2. LevelInv' /\ Range(queue') = Range(queue) \ {o}
    BY <2>1, LeavingKeeps, Zenon
  <2> QED  BY <2>2 DEF o
<1> QED  BY <1>2, <1>9

(***************************************************************************)
(* Pool and level together                                                 *)
(***************************************************************************)

\* The inductive invariant: free list and level are intact, they agree on every slot,
\* and the order the engine has in its hands is owned and linked as its next step asks.
StorageInv ==
  /\ IInv /\ LevelInv /\ LinkedAreLive
  /\ step \in {"idle", "construct", "add", "unlink", "release"}
  /\ step = "idle" => at = nullptr
  /\ step \in {"construct", "add", "release"} => at \in live /\ at \notin Range(queue)
  /\ step = "add" => storage_[at] = Object
  /\ step = "unlink" => at \in Range(queue)

\* The engine starts with an empty level.
LEMMA StorageStart == StorageInit => StorageInv
<1> SUFFICES ASSUME StorageInit PROVE StorageInv
  OBVIOUS
<1>1. /\ Init /\ step = "idle" /\ at = nullptr
      /\ head_ = nullptr /\ tail_ = nullptr /\ order_count_ = 0 /\ queue = << >>
      /\ prev = [o \in Slots |-> nullptr] /\ next = [o \in Slots |-> nullptr]
  BY DEF StorageInit, Level!Init
<1>2. IInv
  BY <1>1, InitIInv
<1>3. << >> \in Seq(Slots) /\ Len(<< >>) = 0 /\ Range(<< >>) = {} /\ IsInjective(<< >>)
  BY EmptySeq DEF Range, IsInjective
<1>4. LevelInv
  <2>1. Links(queue, head_, tail_, next, prev)
    BY <1>1, <1>3 DEF Links, Pointers
  <2>2. 0 % CountModulus = 0
    BY CountAssumption
  <2> QED  BY <2>1, <2>2, <1>1, <1>3 DEF LevelInv
<1>5. LinkedAreLive
  BY <1>1, <1>3 DEF LinkedAreLive, Init
<1> QED  BY <1>1, <1>2, <1>4, <1>5 DEF StorageInv

\* What a step does to the pool is an operation of the pool or nothing.
LEMMA StepsOfThePool == IInv /\ [StorageNext]_storageVars => [Next]_vars
<1> SUFFICES ASSUME IInv, [StorageNext]_storageVars PROVE [Next]_vars
  OBVIOUS
<1>1. live \subseteq Slots
  BY DEF IInv, TypeOK
<1>2. UNCHANGED poolVars => UNCHANGED vars
  BY DEF poolVars, vars
<1>3. LinkSlot => Next
  BY DEF Next
<1>4. Obtain => Next
  BY DEF Obtain, Next
<1>5. Place => Next
  BY <1>1, Zenon DEF Place, Construct, Next
<1>6. Release => Next
  BY <1>1, Zenon DEF Release, deallocate, Next
<1>7. Add \/ Unlink \/ PopFront => UNCHANGED poolVars
  BY DEF Add, Unlink, PopFront, poolVars
<1>8. \A o \in Slots : Cancel(o) => UNCHANGED poolVars
  BY DEF Cancel, poolVars
<1>9. \A qty \in 1..(QuantityModulus - 1) : Fill(qty) => UNCHANGED poolVars
  BY DEF Fill, poolVars
<1>10. UNCHANGED storageVars => UNCHANGED poolVars
  BY DEF storageVars, poolVars
<1> QED  BY <1>2, <1>3, <1>4, <1>5, <1>6, <1>7, <1>8, <1>9, <1>10 DEF StorageNext

\* Every step of the engine on the storage of its orders preserves the invariant.
LEMMA StorageStep == StorageInv /\ [StorageNext]_storageVars => StorageInv'
<1> SUFFICES ASSUME StorageInv, [StorageNext]_storageVars PROVE StorageInv'
  OBVIOUS
<1>a. IInv'
  BY StepsOfThePool, NextIInv DEF StorageInv
<1>b. /\ live \subseteq Slots /\ storage_ \in [Slots -> Slots \cup {nullptr, Object}]
      /\ Range(queue) \subseteq Slots /\ nullptr \notin Slots
      /\ \A o \in Range(queue) : o \in live /\ storage_[o] = Object
      /\ live \ Range(queue) \subseteq {at}
      /\ LevelInv
  BY LevelFacts, PoolAssumption DEF StorageInv, IInv, TypeOK, LinkedAreLive
<1>c. step = "idle" => live = Range(queue) /\ at = nullptr
  BY <1>b DEF StorageInv
<1>d. UNCHANGED levelVars => LevelInv' /\ queue' = queue
  BY <1>b DEF levelVars, LevelInv
<1>1. CASE LinkSlot /\ UNCHANGED <<levelVars, left, step, at>>
  <2>1. live = {} /\ live' = live /\ step' = step /\ at' = at /\ queue' = queue /\ LevelInv'
    BY <1>1, <1>d DEF LinkSlot, StorageInv, IInv
  <2>2. Range(queue) = {}
    BY <2>1, <1>b
  <2> QED  BY <2>1, <2>2, <1>a DEF StorageInv, LinkedAreLive
<1>2. CASE Obtain
  <2>1. /\ step = "idle" /\ step' = "construct" /\ at' = free_head_ /\ queue' = queue
        /\ live' = live \cup {free_head_} /\ storage_' = storage_ /\ LevelInv'
    BY <1>2, <1>d DEF Obtain, allocate, Then
  <2>2. free_head_ \notin live
    <3>1. unlinked = 0 /\ free_head_ # nullptr /\ chain \in Seq(Slots) /\ IsInjective(chain)
      BY <1>2 DEF Obtain, allocate, StorageInv, IInv, TypeOK, FreeListIntact
    <3>2. chain # << >> /\ free_head_ = chain[1]
      BY <3>1 DEF StorageInv, IInv, FreeListIntact
    <3>3. free_head_ \in Range(chain)
      BY <3>1, <3>2, PoppedFront
    <3> QED  BY <3>3 DEF StorageInv, IInv, FreeListIntact
  <2> QED  BY <2>1, <2>2, <1>a, <1>b, <1>c DEF StorageInv, LinkedAreLive
<1>3. CASE Place
  <2>1. /\ step = "construct" /\ at \in live /\ at \notin Range(queue) /\ at \in Slots
        /\ storage_' = [storage_ EXCEPT ![at] = Object] /\ live' = live
        /\ prev' = [prev EXCEPT ![at] = nullptr] /\ next' = [next EXCEPT ![at] = nullptr]
        /\ head_' = head_ /\ tail_' = tail_ /\ order_count_' = order_count_ /\ queue' = queue
        /\ step' = "add" /\ at' = at
    BY <1>3, <1>b DEF Place, Construct, Then, StorageInv
  <2>2. prev' = prev /\ next' = next
    <3>1. prev[at] = nullptr /\ next[at] = nullptr
      BY <2>1, <1>b DEF LevelInv, Links
    <3>2. prev \in [Slots -> Pointers] /\ next \in [Slots -> Pointers]
      BY <1>b, LevelFacts
    <3> QED  BY <3>1, <3>2, <2>1
  <2>3. LevelInv'
    BY <2>1, <2>2, <1>b DEF LevelInv
  <2>4. \A o \in Slots : storage_'[o] = IF o = at THEN Object ELSE storage_[o]
    BY <2>1, <1>b
  <2>5. LinkedAreLive'
    BY <2>1, <2>4, <1>b DEF LinkedAreLive
  <2> QED  BY <2>1, <2>3, <2>4, <2>5, <1>a DEF StorageInv
<1>4. CASE Add
  <2>1. /\ step = "add" /\ at \in live /\ at \notin Range(queue) /\ at \in Slots /\ storage_[at] = Object
        /\ live' = live /\ storage_' = storage_
    BY <1>4, <1>b DEF Add, poolVars, StorageInv
  <2>2. CASE Level!push_back(at) /\ Then("idle", nullptr)
    <3> DEFINE o == at
    <3>1. o \in Slots /\ Level!push_back(o)
      BY <2>1, <2>2
    <3> HIDE DEF o
    <3>2. LevelInv' /\ Range(queue') = Range(queue) \cup {o}
      BY <3>1, <1>b, PushBackKeeps
    <3>3. step' = "idle" /\ at' = nullptr
      BY <2>2 DEF Then
    <3> QED  BY <3>2, <3>3, <2>1, <1>a, <1>b DEF StorageInv, LinkedAreLive, o
  <2>3. CASE UNCHANGED levelVars /\ Then("release", at)
    <3>1. LevelInv' /\ queue' = queue /\ step' = "release" /\ at' = at
      BY <2>3, <1>d DEF Then
    <3> QED  BY <3>1, <2>1, <1>a, <1>b DEF StorageInv, LinkedAreLive
  <2> QED  BY <1>4, <2>2, <2>3 DEF Add
<1>5. ASSUME NEW o \in Slots, Cancel(o) PROVE StorageInv'
  <2>1. LevelInv' /\ Range(queue') = Range(queue) \ {o} /\ o \in Range(queue)
    BY <1>5, <1>b, RemoveKeeps DEF Cancel
  <2>2. step = "idle" /\ step' = "release" /\ at' = o /\ live' = live /\ storage_' = storage_
    BY <1>5 DEF Cancel, Then, poolVars
  <2> QED  BY <2>1, <2>2, <1>a, <1>b, <1>c DEF StorageInv, LinkedAreLive
<1>6. ASSUME NEW qty \in 1..(QuantityModulus - 1), Fill(qty) PROVE StorageInv'
  <2>1. /\ step = "idle" /\ head_ # nullptr /\ live' = live /\ storage_' = storage_
        /\ \/ step' = "unlink" /\ at' = head_
           \/ step' = "idle" /\ at' = nullptr
        /\ head_' = head_ /\ tail_' = tail_ /\ order_count_' = order_count_
        /\ prev' = prev /\ next' = next /\ queue' = queue
    BY <1>6 DEF Fill, Then, poolVars, Level!reduce_quantity
  <2>2. LevelInv' /\ head_ \in Range(queue)
    BY <2>1, <1>b, LevelFacts DEF LevelInv
  <2> QED  BY <2>1, <2>2, <1>a, <1>b, <1>c DEF StorageInv, LinkedAreLive
<1>7. CASE Unlink
  <2>1. /\ step = "unlink" /\ step' = "release" /\ at' = at /\ live' = live /\ storage_' = storage_
        /\ at \in Range(queue) /\ at \in Slots
    BY <1>7, <1>b DEF Unlink, Then, poolVars, StorageInv
  <2> DEFINE o == at
  <2>2. o \in Slots /\ Level!remove(o)
    BY <1>7, <2>1 DEF Unlink
  <2> HIDE DEF o
  <2>3. LevelInv' /\ Range(queue') = Range(queue) \ {o}
    BY <2>2, <1>b, RemoveKeeps
  <2> QED  BY <2>1, <2>3, <1>a, <1>b DEF StorageInv, LinkedAreLive, o
<1>8. CASE PopFront
  <2>1. LevelInv' /\ Range(queue') = Range(queue) \ {head_} /\ head_ \in Range(queue)
    BY <1>8, <1>b, PopFrontKeeps DEF PopFront
  <2>2. step = "idle" /\ step' = "release" /\ at' = head_ /\ live' = live /\ storage_' = storage_
    BY <1>8 DEF PopFront, Then, poolVars
  <2> QED  BY <2>1, <2>2, <1>a, <1>b, <1>c DEF StorageInv, LinkedAreLive
<1>9. CASE Release
  <2>1. /\ step = "release" /\ at \in live /\ at \notin Range(queue) /\ at \in Slots
        /\ step' = "idle" /\ at' = nullptr /\ live' = live \ {at}
        /\ storage_' = [storage_ EXCEPT ![at] = free_head_] /\ LevelInv' /\ queue' = queue
    BY <1>9, <1>b, <1>d DEF Release, deallocate, Then, StorageInv
  <2>2. \A o \in Range(queue) : storage_'[o] = storage_[o]
    BY <2>1, <1>b
  <2> QED  BY <2>1, <2>2, <1>a, <1>b DEF StorageInv, LinkedAreLive
<1>10. CASE UNCHANGED storageVars
  <2>1. /\ LevelInv' /\ queue' = queue /\ step' = step /\ at' = at
        /\ live' = live /\ storage_' = storage_
    BY <1>10, <1>d DEF storageVars, levelVars, poolVars
  <2> QED  BY <2>1, <1>a DEF StorageInv, LinkedAreLive
<1> QED  BY <1>1, <1>2, <1>3, <1>4, <1>5, <1>6, <1>7, <1>8, <1>9, <1>10 DEF StorageNext

\* Recycling orders through the pool never leaves a linked order in a slot that was
\* given back, nor an owned slot out of sight: for every number of slots and every
\* sequence of additions, cancels and fills.
THEOREM SlotsShared == StorageSpec => []LinkedAreLive
<1>1. StorageInv => LinkedAreLive
  BY DEF StorageInv
<1> QED  BY <1>1, StorageStart, StorageStep, PTL DEF StorageSpec

\* The links of price_level.h, read forwards and backwards, are the queue of the level's
\* orders, and order_count_ its length: whatever order leaves, and from wherever it does.
THEOREM LevelLinked == StorageSpec => []Level!ListLinked
<1>1. LevelInv => Level!ListLinked
  <2> SUFFICES ASSUME LevelInv PROVE Level!ListLinked
    OBVIOUS
  <2>1. queue \in Seq(Slots) /\ (queue = << >> <=> Len(queue) = 0)
    BY EmptySeq DEF LevelInv, Links
  <2> QED  BY <2>1 DEF LevelInv, Links, Level!ListLinked, Level!Range, Range, Level!IsInjective, IsInjective
<1>2. StorageInv => LevelInv
  BY DEF StorageInv
<1> QED  BY <1>1, <1>2, StorageStart, StorageStep, PTL DEF StorageSpec

\* What is proved of the pool alone holds of it in the engine's hands.
THEOREM PoolInUse == StorageSpec => []FreeListIntact /\ KeepsPromise
<1>1. StorageInit => Init
  BY DEF StorageInit
<1>2. StorageInv => IInv /\ FreeListIntact
  BY DEF StorageInv, IInv
<1>3. StorageSpec => Spec
  BY <1>1, <1>2, StorageStart, StorageStep, StepsOfThePool, PTL DEF StorageSpec, Spec
<1> QED  BY <1>2, <1>3, StorageStart, StorageStep, Refinement, PTL DEF StorageSpec
===============================================================================
