--------------------------- MODULE SPSCQueueProofs ---------------------------
(***************************************************************************)
(* Proofs about the ring buffer: Safety, Refinement and GenuineRefusals,   *)
(* for every capacity and every set of items.                              *)
(***************************************************************************)
EXTENDS SPSCQueue, SequenceTheorems, TLAPS

\* The static_assert on the capacity, as arithmetic wants it.
LEMMA CapacityType == Capacity \in Nat /\ Capacity > 1
  BY CapacityAssumption

\* One lap around the ring at most: % Capacity (the code's mask) subtracts Capacity once.
LEMMA ModValue ==
  ASSUME NEW x \in Nat, x < 2 * Capacity
  PROVE  x % Capacity = IF x < Capacity THEN x ELSE x - Capacity
<1>1. CASE x < Capacity
  BY <1>1, CapacityType
<1>2. CASE x >= Capacity
  BY <1>2, CapacityType
<1> QED  BY <1>1, <1>2, CapacityType

\* What (i + 1) & kIndexMask gives for an index.
LEMMA WrapValue ==
  ASSUME NEW i \in Index
  PROVE  /\ Wrap(i) = IF i = Capacity - 1 THEN 0 ELSE i + 1
         /\ Wrap(i) \in Index
<1>1. i + 1 \in Nat /\ i + 1 < 2 * Capacity
  BY CapacityType DEF Index
<1> QED  BY <1>1, ModValue, CapacityType DEF Index, Wrap

\* What each thread knows inside a call: the check it made before still holds, since
\* the other thread can only have made more room, or more items.
PcFacts ==
  /\ ppc \in {"copy", "publish"} => Wrap(head_) # tail_cache_
  /\ ppc = "publish" => buffer_[head_] = in_item
  /\ ppc # "idle" => in_item \in Items
  /\ cpc \in {"copy", "release"} => tail_ # head_cache_
  /\ cpc = "release" => out_item = buffer_[tail_]

\* The inductive invariant: the order of the indices, caches included, around the
\* ring, and what the program counters imply.
IInv == TypeOK /\ RingOrder /\ PcFacts

\* The constructor's state satisfies the invariant.
LEMMA InitIInv == Init => IInv
  BY CapacityType DEF Init, IInv, TypeOK, RingOrder, PcFacts, Index, Ahead, Size

\* The writer's slot is never the reader's slot, because the ring keeps one slot free.
LEMMA IInvNoSlotRace == IInv => NoSlotRace
<1> SUFFICES ASSUME IInv, ppc \in {"copy", "publish"}, cpc \in {"copy", "release"}, head_ = tail_
             PROVE FALSE
  BY DEF NoSlotRace
<1>1. Wrap(head_) \in Index
  BY WrapValue DEF IInv, TypeOK
<1> QED  BY <1>1, CapacityType, WrapValue DEF IInv, TypeOK, PcFacts, RingOrder, Index, Ahead

\* Every step of try_push and try_pop, stale acquire loads included, preserves the invariant.
LEMMA NextIInv == IInv /\ [Next]_vars => IInv'
<1> SUFFICES ASSUME IInv, [Next]_vars PROVE IInv'
  OBVIOUS
<1> USE CapacityType, ItemsAssumption
<1>h. Wrap(head_) \in Index /\ Wrap(head_) = IF head_ = Capacity - 1 THEN 0 ELSE head_ + 1
  BY WrapValue DEF IInv, TypeOK
<1>t. Wrap(tail_) \in Index /\ Wrap(tail_) = IF tail_ = Capacity - 1 THEN 0 ELSE tail_ + 1
  BY WrapValue DEF IInv, TypeOK
<1>1. ASSUME NEW x \in Items, PushCall(x) PROVE IInv'
  <2>1. TypeOK'
    BY <1>1, <1>h, <1>t DEF IInv, TypeOK, PcFacts, PushCall, StartWrite, consumerVars, Index
  <2>2. RingOrder'
    BY <1>1, <1>h, <1>t DEF IInv, TypeOK, RingOrder, PcFacts, PushCall, StartWrite, consumerVars, Index, Ahead, Size
  <2>3. PcFacts'
    BY <1>1, <1>h, <1>t DEF IInv, TypeOK, RingOrder, PcFacts, PushCall, StartWrite, consumerVars, Index, Ahead, Size
  <2> QED  BY <2>1, <2>2, <2>3 DEF IInv
<1>2. ASSUME NEW t \in Index, PushReload(t) PROVE IInv'
  <2>1. TypeOK'
    BY <1>2, <1>h, <1>t DEF IInv, TypeOK, PcFacts, PushReload, StartWrite, Visible, consumerVars, Index
  <2>2. RingOrder'
    BY <1>2, <1>h, <1>t DEF IInv, TypeOK, RingOrder, PcFacts, PushReload, StartWrite, Visible, consumerVars, Index, Ahead, Size
  <2>3. PcFacts'
    BY <1>2, <1>h, <1>t DEF IInv, TypeOK, RingOrder, PcFacts, PushReload, StartWrite, Visible, consumerVars, Index, Ahead, Size
  <2> QED  BY <2>1, <2>2, <2>3 DEF IInv
<1>3. ASSUME PushWrite PROVE IInv'
  <2>1. TypeOK'
    BY <1>3, <1>h, <1>t DEF IInv, TypeOK, PcFacts, PushWrite, consumerVars, Index
  <2>2. RingOrder'
    BY <1>3, <1>h, <1>t DEF IInv, TypeOK, RingOrder, PcFacts, PushWrite, consumerVars, Index, Ahead, Size
  <2>3. PcFacts'
    BY <1>3, <1>h, <1>t DEF IInv, TypeOK, RingOrder, PcFacts, PushWrite, consumerVars, Index, Ahead, Size
  <2> QED  BY <2>1, <2>2, <2>3 DEF IInv
<1>4. ASSUME PushPublish PROVE IInv'
  <2>1. TypeOK'
    BY <1>4, <1>h, <1>t DEF IInv, TypeOK, PcFacts, PushPublish, consumerVars, Index
  <2>2. RingOrder'
    BY <1>4, <1>h, <1>t DEF IInv, TypeOK, RingOrder, PcFacts, PushPublish, consumerVars, Index, Ahead, Size
  <2>3. PcFacts'
    BY <1>4, <1>h, <1>t DEF IInv, TypeOK, RingOrder, PcFacts, PushPublish, consumerVars, Index, Ahead, Size
  <2> QED  BY <2>1, <2>2, <2>3 DEF IInv
<1>5. ASSUME PopCall PROVE IInv'
  <2>1. TypeOK'
    BY <1>5, <1>h, <1>t DEF IInv, TypeOK, PcFacts, PopCall, producerVars, Index
  <2>2. RingOrder'
    BY <1>5, <1>h, <1>t DEF IInv, TypeOK, RingOrder, PcFacts, PopCall, producerVars, Index, Ahead, Size
  <2>3. PcFacts'
    BY <1>5, <1>h, <1>t DEF IInv, TypeOK, RingOrder, PcFacts, PopCall, producerVars, Index, Ahead, Size
  <2> QED  BY <2>1, <2>2, <2>3 DEF IInv
<1>6. ASSUME NEW h \in Index, PopReload(h) PROVE IInv'
  <2>1. TypeOK'
    BY <1>6, <1>h, <1>t DEF IInv, TypeOK, PcFacts, PopReload, Visible, producerVars, Index
  <2>2. RingOrder'
    BY <1>6, <1>h, <1>t DEF IInv, TypeOK, RingOrder, PcFacts, PopReload, Visible, producerVars, Index, Ahead, Size
  <2>3. PcFacts'
    BY <1>6, <1>h, <1>t DEF IInv, TypeOK, RingOrder, PcFacts, PopReload, Visible, producerVars, Index, Ahead, Size
  <2> QED  BY <2>1, <2>2, <2>3 DEF IInv
<1>7. ASSUME PopRead PROVE IInv'
  <2>1. TypeOK'
    BY <1>7, <1>h, <1>t DEF IInv, TypeOK, PcFacts, PopRead, producerVars, Index
  <2>2. RingOrder'
    BY <1>7, <1>h, <1>t DEF IInv, TypeOK, RingOrder, PcFacts, PopRead, producerVars, Index, Ahead, Size
  <2>3. PcFacts'
    BY <1>7, <1>h, <1>t DEF IInv, TypeOK, RingOrder, PcFacts, PopRead, producerVars, Index, Ahead, Size
  <2> QED  BY <2>1, <2>2, <2>3 DEF IInv
<1>8. ASSUME PopRelease PROVE IInv'
  <2>1. TypeOK'
    BY <1>8, <1>h, <1>t DEF IInv, TypeOK, PcFacts, PopRelease, producerVars, Index
  <2>2. RingOrder'
    BY <1>8, <1>h, <1>t DEF IInv, TypeOK, RingOrder, PcFacts, PopRelease, producerVars, Index, Ahead, Size
  <2>3. PcFacts'
    BY <1>8, <1>h, <1>t DEF IInv, TypeOK, RingOrder, PcFacts, PopRelease, producerVars, Index, Ahead, Size
  <2> QED  BY <2>1, <2>2, <2>3 DEF IInv
<1>9. CASE UNCHANGED vars
  BY <1>9 DEF IInv, TypeOK, RingOrder, PcFacts, vars, Size, Ahead, Index, Wrap
<1> QED
  BY <1>1, <1>2, <1>3, <1>4, <1>5, <1>6, <1>7, <1>8, <1>9 DEF Next, Producer, Consumer

\* For every capacity and set of items: the indices and cached indices keep their
\* order around the ring, and try_push never writes the slot try_pop is reading.
THEOREM Safety == Spec => [](TypeOK /\ RingOrder /\ NoSlotRace)
<1>1. IInv => TypeOK /\ RingOrder /\ NoSlotRace
  BY IInvNoSlotRace DEF IInv
<1> QED  BY InitIInv, NextIInv, <1>1, PTL DEF Spec

\* Where the i-th item of the queue is stored when the first one is in slot first.
Slot(first, i) == (first + i - 1) % Capacity

\* Slot without the modulus.
LEMMA SlotValue ==
  ASSUME NEW f \in Index, NEW i \in 1..Capacity
  PROVE  /\ Slot(f, i) = IF f + i - 1 < Capacity THEN f + i - 1 ELSE f + i - 1 - Capacity
         /\ Slot(f, i) \in Index
<1>1. f + i - 1 \in Nat /\ f + i - 1 < 2 * Capacity
  BY CapacityType DEF Index
<1> QED  BY <1>1, ModValue, CapacityType DEF Index, Slot

\* The oldest item is on the ring, and no more items are queued than tail_ says.
LEMMA FirstBounds ==
  ASSUME IInv
  PROVE  /\ First \in Index
         /\ Ahead(First, head_) \in 0..(Capacity - 1)
         /\ Size \in 0..(Capacity - 1)
         /\ Ahead(First, head_) <= Size
<1> USE CapacityType
<1>1. Wrap(tail_) \in Index /\ Wrap(tail_) = IF tail_ = Capacity - 1 THEN 0 ELSE tail_ + 1
  BY WrapValue DEF IInv, TypeOK
<1>2. First \in Index
  BY <1>1 DEF First, IInv, TypeOK
<1>3. Ahead(First, head_) \in 0..(Capacity - 1)
  BY <1>2 DEF IInv, TypeOK, Ahead, Index
<1>4. Size \in 0..(Capacity - 1)
  BY DEF IInv, TypeOK, Ahead, Index, Size
<1>5. cpc = "release" => Ahead(Wrap(tail_), head_) <= Ahead(tail_, head_)
  BY <1>1 DEF IInv, TypeOK, Ahead, Index, PcFacts, RingOrder, Size
<1>6. Ahead(First, head_) <= Size
  BY <1>4, <1>5 DEF First, Size
<1> QED  BY <1>2, <1>3, <1>4, <1>6

\* The items of the queue are in distinct slots of the ring, none of them the slot
\* that is being written.
LEMMA FirstFacts ==
  ASSUME IInv
  PROVE  \A i \in 1..Ahead(First, head_) :
           /\ Slot(First, i) \in Index
           /\ Slot(First, i) # head_
           /\ buffer_[Slot(First, i)] \in Items
<1> USE CapacityType
<1>1. Wrap(tail_) \in Index /\ Wrap(tail_) = IF tail_ = Capacity - 1 THEN 0 ELSE tail_ + 1
  BY WrapValue DEF IInv, TypeOK
<1>2. First \in Index /\ tail_ \in Index /\ head_ \in Index
  BY FirstBounds DEF IInv, TypeOK
<1>3. Ahead(First, head_) \in 0..(Capacity - 1)
  BY FirstBounds
<1>4. Ahead(First, head_) <= Size
  BY FirstBounds
<1>5. ASSUME NEW i \in 1..Ahead(First, head_)
      PROVE  /\ Slot(First, i) \in Index
             /\ Slot(First, i) # head_
             /\ buffer_[Slot(First, i)] \in Items
  <2>1. i \in 1..Capacity
    BY <1>3
  <2>2. /\ Slot(First, i) = IF First + i - 1 < Capacity THEN First + i - 1 ELSE First + i - 1 - Capacity
        /\ Slot(First, i) \in Index
    BY <2>1, <1>2, SlotValue
  <2>3. Slot(First, i) # head_
    BY <2>2, <1>2, <1>3 DEF Ahead, Index
  <2>4. Ahead(tail_, Slot(First, i)) < Size
    BY <2>2, <1>1, <1>2, <1>3, <1>4, SMTT(40) DEF IInv, TypeOK, Ahead, Index, First, Size, RingOrder, PcFacts
  <2> QED  BY <2>2, <2>3, <2>4 DEF IInv, RingOrder
<1> QED  BY <1>5

\* The abstract queue read off the ring is a sequence of items.
LEMMA ContentsFacts ==
  ASSUME IInv
  PROVE  /\ Contents = [i \in 1..Ahead(First, head_) |-> buffer_[Slot(First, i)]]
         /\ Contents \in Seq(Items)
         /\ Len(Contents) = Ahead(First, head_)
<1>1. Contents = [i \in 1..Ahead(First, head_) |-> buffer_[Slot(First, i)]]
  BY DEF Contents, Slot
<1>2. Ahead(First, head_) \in Nat
  BY FirstBounds, CapacityType
<1>3. Contents \in Seq(Items)
  BY <1>1, <1>2, FirstFacts
<1> QED  BY <1>1, <1>2, <1>3

\* A step that moves neither end and writes at most the free slot head_ does not
\* change the abstract queue: the copy into the ring is invisible before the store.
LEMMA FirstUnmoved ==
  ASSUME IInv, IInv', First' = First, head_' = head_,
         \A i \in Index : i # head_ => buffer_'[i] = buffer_[i]
  PROVE  Contents' = Contents
<1>1. Ahead(First, head_)' = Ahead(First, head_)
  BY DEF Ahead
<1>2. \A i \in 1..Ahead(First, head_) : buffer_'[Slot(First, i)] = buffer_[Slot(First, i)]
  BY FirstFacts
<1>3. Contents' = [i \in 1..Ahead(First, head_) |-> buffer_'[Slot(First, i)]]
  BY <1>1 DEF Contents, Slot
<1> QED  BY <1>2, <1>3, ContentsFacts

\* The release store of head_ in try_push is the abstract push.
LEMMA PublishAppends ==
  ASSUME IInv, IInv', PushPublish
  PROVE  Fifo!Push(in_item)
<1> USE CapacityType
<1>h. Wrap(head_) \in Index /\ Wrap(head_) = IF head_ = Capacity - 1 THEN 0 ELSE head_ + 1
  BY WrapValue DEF IInv, TypeOK
<1>1. First' = First /\ buffer_' = buffer_ /\ out_item' = out_item
  BY DEF PushPublish, First, consumerVars
<1>2. Size < Capacity - 1
  BY <1>h DEF IInv, PcFacts, PushPublish, RingOrder, Ahead, Size, TypeOK, Index
<1> DEFINE n == Ahead(First, head_)
<1>3. n \in Nat /\ n < Capacity - 1 /\ First \in Index
  <2>1. n \in 0..(Capacity - 1) /\ Size \in 0..(Capacity - 1) /\ n <= Size /\ First \in Index
    BY FirstBounds
  <2> HIDE DEF n
  <2> QED  BY <2>1, <1>2
<1>4. Ahead(First, head_)' = n + 1
  <2>1. Ahead(First, head_)' = Ahead(First, Wrap(head_)) /\ head_ \in Index
    BY <1>1 DEF PushPublish, Ahead, IInv, TypeOK
  <2> QED  BY <2>1, <1>3, <1>h DEF Ahead, Index
<1>5. Slot(First, n + 1) = head_
  <2>1. n + 1 \in 1..Capacity
    BY <1>3
  <2>2. Slot(First, n + 1) = IF First + (n + 1) - 1 < Capacity THEN First + (n + 1) - 1 ELSE First + (n + 1) - 1 - Capacity
    BY <2>1, <1>3, SlotValue
  <2>3. head_ \in Index
    BY DEF IInv, TypeOK
  <2> QED  BY <2>2, <2>3, <1>3 DEF Ahead, Index
<1>6. Contents' = [i \in 1..(n + 1) |-> buffer_[Slot(First, i)]]
  BY <1>1, <1>4 DEF Contents, Slot
<1>7. Contents = [i \in 1..n |-> buffer_[Slot(First, i)]] /\ Len(Contents) = n /\ Contents \in Seq(Items)
  BY ContentsFacts
<1>8. buffer_[head_] = in_item
  BY DEF IInv, PcFacts, PushPublish
<1>9. Contents' = Append(Contents, in_item)
  <2> HIDE DEF n
  <2>1. \A i \in 1..(n + 1) : Contents'[i] = IF i = n + 1 THEN in_item ELSE Contents[i]
    BY <1>3, <1>5, <1>6, <1>7, <1>8
  <2> QED  BY <2>1, <1>3, <1>6, <1>7
<1> QED  BY <1>1, <1>3, <1>7, <1>9 DEF Fifo!Push

\* Reading the item in try_pop is the abstract pop: no push can touch it any more.
LEMMA ReadPops ==
  ASSUME IInv, IInv', PopRead
  PROVE  Fifo!Pop
<1> USE CapacityType
<1>t. Wrap(tail_) \in Index /\ Wrap(tail_) = IF tail_ = Capacity - 1 THEN 0 ELSE tail_ + 1
  BY WrapValue DEF IInv, TypeOK
<1>1. First = tail_ /\ First' = Wrap(tail_) /\ head_' = head_ /\ buffer_' = buffer_
  BY DEF PopRead, First, producerVars
<1> DEFINE n == Ahead(First, head_)
<1>2. n \in 1..(Capacity - 1) /\ Ahead(First, head_)' = n - 1
  <2>1. tail_ # head_
    BY SMTT(40) DEF PopRead, IInv, PcFacts, RingOrder, TypeOK, Ahead, Index
  <2> QED  BY <2>1, <1>1, <1>t DEF IInv, TypeOK, Ahead, Index
<1>3. Contents = [i \in 1..n |-> buffer_[Slot(First, i)]] /\ Len(Contents) = n /\ Contents \in Seq(Items)
  BY ContentsFacts
<1>4. Contents' = [i \in 1..(n - 1) |-> buffer_[Slot(Wrap(tail_), i)]]
  BY <1>1, <1>2 DEF Contents, Slot
<1>5. \A i \in 1..(n - 1) : Slot(Wrap(tail_), i) = Slot(First, i + 1)
  <2> SUFFICES ASSUME NEW i \in 1..(n - 1) PROVE Slot(Wrap(tail_), i) = Slot(First, i + 1)
    OBVIOUS
  <2>1. i \in 1..Capacity /\ i + 1 \in 1..Capacity /\ tail_ \in Index
    BY <1>2 DEF IInv, TypeOK
  <2>2. Slot(Wrap(tail_), i) = IF Wrap(tail_) + i - 1 < Capacity THEN Wrap(tail_) + i - 1 ELSE Wrap(tail_) + i - 1 - Capacity
    BY <2>1, <1>t, SlotValue
  <2>3. Slot(tail_, i + 1) = IF tail_ + (i + 1) - 1 < Capacity THEN tail_ + (i + 1) - 1 ELSE tail_ + (i + 1) - 1 - Capacity
    BY <2>1, SlotValue
  <2> QED  BY <2>1, <2>2, <2>3, <1>1, <1>t DEF Index
<1>6. Slot(First, 1) = tail_
  <2>1. 1 \in 1..Capacity /\ tail_ \in Index
    BY DEF IInv, TypeOK
  <2>2. Slot(tail_, 1) = IF tail_ + 1 - 1 < Capacity THEN tail_ + 1 - 1 ELSE tail_ + 1 - 1 - Capacity
    BY <2>1, SlotValue
  <2> QED  BY <2>1, <2>2, <1>1 DEF Index
<1> HIDE DEF n
<1>7. Contents # << >> /\ Head(Contents) = buffer_[tail_]
  BY <1>2, <1>3, <1>6
<1>8. Contents' = Tail(Contents)
  <2>1. \A i \in 1..(n - 1) : Contents'[i] = Contents[i + 1]
    BY <1>2, <1>3, <1>4, <1>5
  <2>2. /\ Tail(Contents) \in Seq(Items) /\ Len(Tail(Contents)) = n - 1
        /\ \A i \in 1..(n - 1) : Tail(Contents)[i] = Contents[i + 1]
    <3>1. /\ Tail(Contents) \in Seq(Items)
          /\ Len(Tail(Contents)) = Len(Contents) - 1
          /\ \A i \in 1..Len(Tail(Contents)) : Tail(Contents)[i] = Contents[i + 1]
      <4> HIDE DEF Contents
      <4> QED  BY <1>3, <1>7, HeadTailProperties, Zenon
    <3> QED  BY <3>1, <1>3, Zenon
  <2>3. Contents' \in Seq(Items) /\ Len(Contents') = n - 1
    <3>1. \A i \in 1..(n - 1) : buffer_[Slot(Wrap(tail_), i)] \in Items
      BY <1>2, <1>5, FirstFacts DEF n
    <3>2. n - 1 \in Nat
      BY <1>2
    <3> QED  BY <3>1, <3>2, <1>4
  <2> QED  BY <2>1, <2>2, <2>3, <1>2, SeqEqual
<1> QED  BY <1>1, <1>7, <1>8 DEF Fifo!Pop, PopRead

\* For every capacity: the ring with cached indices and stale loads implements a
\* bounded FIFO queue.
THEOREM Refinement == Spec => ImplementsFifo
<1>1. Init => Fifo!Init
  <2> SUFFICES ASSUME Init PROVE Fifo!Init
    OBVIOUS
  <2>1. Ahead(First, head_) = 0
    BY DEF Init, Ahead, First
  <2>2. Contents = << >>
    BY <2>1 DEF Contents
  <2> QED  BY <2>2 DEF Init, Fifo!Init
<1>2. IInv /\ IInv' /\ [Next]_vars => [Fifo!Next]_<<Contents, out_item>>
  <2> SUFFICES ASSUME IInv, IInv', [Next]_vars
               PROVE  Fifo!Next \/ UNCHANGED <<Contents, out_item>>
    OBVIOUS
  <2>1. ASSUME NEW x \in Items, PushCall(x) PROVE UNCHANGED <<Contents, out_item>>
    BY <2>1, FirstUnmoved DEF PushCall, StartWrite, consumerVars, First, IInv, TypeOK
  <2>2. ASSUME NEW t \in Index, PushReload(t) PROVE UNCHANGED <<Contents, out_item>>
    BY <2>2, FirstUnmoved DEF PushReload, StartWrite, consumerVars, First, IInv, TypeOK
  <2>3. ASSUME PushWrite PROVE UNCHANGED <<Contents, out_item>>
    BY <2>3, FirstUnmoved DEF PushWrite, consumerVars, First, IInv, TypeOK
  <2>4. ASSUME PushPublish PROVE Fifo!Next
    BY <2>4, PublishAppends DEF Fifo!Next, IInv, PcFacts, PushPublish
  <2>5. ASSUME PopCall PROVE UNCHANGED <<Contents, out_item>>
    BY <2>5, FirstUnmoved DEF PopCall, producerVars, First
  <2>6. ASSUME NEW h \in Index, PopReload(h) PROVE UNCHANGED <<Contents, out_item>>
    BY <2>6, FirstUnmoved DEF PopReload, producerVars, First
  <2>7. ASSUME PopRead PROVE Fifo!Next
    BY <2>7, ReadPops DEF Fifo!Next
  <2>8. ASSUME PopRelease PROVE UNCHANGED <<Contents, out_item>>
    BY <2>8, FirstUnmoved DEF PopRelease, producerVars, First
  <2>9. CASE UNCHANGED vars
    BY <2>9, FirstUnmoved DEF vars, First
  <2> QED
    BY <2>1, <2>2, <2>3, <2>4, <2>5, <2>6, <2>7, <2>8, <2>9 DEF Next, Producer, Consumer
<1> QED  BY <1>1, <1>2, InitIInv, NextIInv, PTL DEF Spec, ImplementsFifo, Fifo!Spec

\* For every capacity: try_push refuses on an up-to-date load only when the ring is
\* full, and try_pop only when it is empty.
THEOREM GenuineRefusals == Spec => RefusalsAreGenuine
<1> DEFINE Genuine ==
      /\ ppc = "reload" /\ ppc' = "idle" /\ tail_cache_' = tail_ => Size = Capacity - 1
      /\ cpc = "reload" /\ cpc' = "idle" /\ head_cache_' = head_ => Size = 0
<1>1. IInv /\ [Next]_vars => [Genuine]_vars
  <2> SUFFICES ASSUME IInv, [Next]_vars PROVE Genuine
    OBVIOUS
  <2>1. ASSUME ppc = "reload", ppc' = "idle", tail_cache_' = tail_ PROVE Size = Capacity - 1
    <3>1. PushReload(tail_) /\ Wrap(head_) = tail_
      BY <2>1 DEF Next, Producer, Consumer, vars, PushCall, PushReload, PushWrite, PushPublish,
                  PopCall, PopReload, PopRead, PopRelease, StartWrite, producerVars
    <3>2. Wrap(head_) = IF head_ = Capacity - 1 THEN 0 ELSE head_ + 1
      BY WrapValue DEF IInv, TypeOK
    <3> QED  BY <3>1, <3>2, CapacityType DEF Size, Ahead, IInv, TypeOK, Index
  <2>2. ASSUME cpc = "reload", cpc' = "idle", head_cache_' = head_ PROVE Size = 0
    <3>1. tail_ = head_
      BY <2>2 DEF Next, Producer, Consumer, vars, PushCall, PushReload, PushWrite, PushPublish,
                  PopCall, PopReload, PopRead, PopRelease, consumerVars
    <3> QED  BY <3>1, CapacityType DEF Size, Ahead, IInv, TypeOK, Index
  <2> QED  BY <2>1, <2>2
<1> QED  BY <1>1, InitIInv, NextIInv, PTL DEF Spec, RefusalsAreGenuine
=============================================================================
