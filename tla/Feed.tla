--------------------------------- MODULE Feed ---------------------------------
(***************************************************************************)
(* The live feed: FeedHandler::parse turns depth frames into cancels and   *)
(* new orders (feed/feed_handler.cpp), the message handler of CoinbaseFeed *)
(* pushes them into SPSC #1 (feed/coinbase_feed.cpp), and the engine       *)
(* applies them to its book.                                               *)
(*                                                                         *)
(* A frame is taken row by row.  Rows and frames that do not parse, rows   *)
(* with a price outside the book and frames of other types only add to the *)
(* diagnostic counters and are left out.                                   *)
(*                                                                         *)
(* The engine's book is seen from the feed: which orders rest, under which *)
(* id and at which level.  Quantities are left out, so a new order may     *)
(* take any of the orders it crosses, and may itself be used up or find    *)
(* the pool exhausted (module MatchingEngine has the exact book).          *)
(***************************************************************************)
EXTENDS Integers, Sequences, FiniteSets, Functions

CONSTANTS Prices,          \* prices inside the book
          QueueCapacity,   \* messages SPSC #1 holds
          MaxBatch,        \* bound: messages parsed from one frame
          MaxSequence,     \* bound: sequence numbers of matches
          MaxEvents,       \* bound: orders created, matches and gaps together
          NoOrder          \* no entry in live

ASSUME FeedAssumption ==
  /\ Prices \subseteq Int
  /\ QueueCapacity \in Nat /\ MaxBatch \in Nat /\ MaxSequence \in Nat /\ MaxEvents \in Nat
  /\ NoOrder \notin Nat

LevelKey == [price : Prices, side : {"Bid", "Ask"}]
CancelMessage == [kind : {"Cancel"}, id : Nat]
NewOrderMessage == [kind : {"New"}, id : Nat, key : LevelKey]

VARIABLES
  live, next_id,                                 \* FeedHandler::Impl
  have_sequence, last_sequence, sequence_gaps,
  pc, batch_, pushed_, dropped_,                 \* the handler in progress; CoinbaseFeed
  queue,                                         \* SPSC #1
  resting,                                       \* the engine's orders: [id, key]
  seen                                           \* auxiliary: sequence numbers received

sequenceVars == <<have_sequence, last_sequence, sequence_gaps, seen>>
vars == <<live, next_id, sequenceVars, pc, batch_, pushed_, dropped_, queue, resting>>

Init ==
  /\ live = [k \in LevelKey |-> NoOrder] /\ next_id = 1
  /\ have_sequence = FALSE /\ last_sequence = 0 /\ sequence_gaps = 0 /\ seen = {}
  /\ pc = "idle" /\ batch_ = << >> /\ pushed_ = 0 /\ dropped_ = 0
  /\ queue = << >>
  /\ resting = {}

Events == next_id - 1 + Cardinality(seen) + sequence_gaps

(***************************************************************************)
(* FeedHandler::parse                                                      *)
(***************************************************************************)

Cancels(k) ==
  IF live[k] = NoOrder THEN << >> ELSE <<[kind |-> "Cancel", id |-> live[k]]>>

\* mutant: the order that stood at the level is forgotten, not cancelled
apply_level_overwrite(k, positive) ==
  /\ Len(batch_) + 2 <= MaxBatch
  /\ IF positive
     THEN /\ Events < MaxEvents
          /\ live' = [live EXCEPT ![k] = next_id]
          /\ next_id' = next_id + 1
          /\ batch_' = Append(batch_, [kind |-> "New", id |-> next_id, key |-> k])
     ELSE /\ live' = [live EXCEPT ![k] = NoOrder]
          /\ batch_' = batch_ \o Cancels(k)
          /\ UNCHANGED next_id

\* cancel what the level had; a positive quantity puts a new order there
apply_level(k, positive) ==
  /\ Len(batch_) + 2 <= MaxBatch
  /\ IF positive
     THEN /\ Events < MaxEvents
          /\ live' = [live EXCEPT ![k] = next_id]
          /\ next_id' = next_id + 1
          /\ batch_' = batch_ \o Cancels(k) \o <<[kind |-> "New", id |-> next_id, key |-> k]>>
     ELSE /\ live' = [live EXCEPT ![k] = NoOrder]
          /\ batch_' = batch_ \o Cancels(k)
          /\ UNCHANGED next_id

\* a frame arrives: "l2update" goes on with its rows, "snapshot" with the reset
StartFrame ==
  /\ pc = "idle"
  /\ batch_' = << >>
  /\ pc' \in {"changes", "reset"}
  /\ UNCHANGED <<live, next_id, sequenceVars, pushed_, dropped_, queue, resting>>

l2update(k, positive) ==
  /\ pc = "changes"
  /\ apply_level(k, positive)
  /\ UNCHANGED <<sequenceVars, pc, pushed_, dropped_, queue, resting>>

\* one turn of reset_book's loop, in the unspecified order of an unordered_map
reset_book(k) ==
  /\ pc = "reset" /\ live[k] # NoOrder
  /\ batch_' = batch_ \o Cancels(k)
  /\ live' = [live EXCEPT ![k] = NoOrder]
  /\ UNCHANGED <<next_id, sequenceVars, pc, pushed_, dropped_, queue, resting>>

\* a row of the snapshot: rows of size zero are skipped
consume_price_size_array(k) ==
  /\ \/ pc = "bids" /\ k.side = "Bid"
     \/ pc = "asks" /\ k.side = "Ask"
  /\ apply_level(k, TRUE)
  /\ UNCHANGED <<sequenceVars, pc, pushed_, dropped_, queue, resting>>

\* from the reset to the bids, to the asks, to pushing what was parsed
NextPart ==
  /\ \/ pc = "reset" /\ (\A k \in LevelKey : live[k] = NoOrder) /\ pc' = "bids"
     \/ pc = "bids" /\ pc' = "asks"
     \/ pc \in {"asks", "changes"} /\ pc' = "push"
  /\ UNCHANGED <<live, next_id, sequenceVars, batch_, pushed_, dropped_, queue, resting>>

\* mutant: only a step back is taken for a gap
note_sequence_backwards(seq) ==
  /\ sequence_gaps' = IF have_sequence /\ seq < last_sequence THEN sequence_gaps + 1
                      ELSE sequence_gaps
  /\ have_sequence' = TRUE /\ last_sequence' = seq

note_sequence(seq) ==
  /\ sequence_gaps' = IF have_sequence /\ seq # last_sequence + 1 THEN sequence_gaps + 1
                      ELSE sequence_gaps
  /\ have_sequence' = TRUE /\ last_sequence' = seq

\* a match carries a sequence number and nothing for the book
match(seq) ==
  /\ pc = "idle"
  /\ note_sequence(seq)
  /\ seen' = seen \cup {seq}
  /\ UNCHANGED <<live, next_id, pc, batch_, pushed_, dropped_, queue, resting>>

(***************************************************************************)
(* CoinbaseFeed: the message handler pushes without waiting                *)
(***************************************************************************)

PushMessage ==
  /\ pc = "push" /\ batch_ # << >>
  /\ batch_' = Tail(batch_)
  /\ IF Len(queue) < QueueCapacity
     THEN queue' = Append(queue, Head(batch_)) /\ pushed_' = pushed_ + 1 /\ UNCHANGED dropped_
     ELSE dropped_' = dropped_ + 1 /\ UNCHANGED <<queue, pushed_>>
  /\ UNCHANGED <<live, next_id, sequenceVars, pc, resting>>

\* mutant: what is left of the frame is thrown away when the ring is full
EndFrameEarly ==
  /\ pc = "push" /\ (batch_ = << >> \/ Len(queue) = QueueCapacity)
  /\ pc' = "idle"
  /\ UNCHANGED <<live, next_id, sequenceVars, batch_, pushed_, dropped_, queue, resting>>

EndFrame ==
  /\ pc = "push" /\ batch_ = << >>
  /\ pc' = "idle"
  /\ UNCHANGED <<live, next_id, sequenceVars, batch_, pushed_, dropped_, queue, resting>>

(***************************************************************************)
(* The engine                                                              *)
(***************************************************************************)

Crossed(k) ==
  {o \in resting : /\ o.key.side # k.side
                   /\ IF k.side = "Bid" THEN o.key.price <= k.price ELSE o.key.price >= k.price}

ProcessCancel ==
  /\ queue # << >> /\ Head(queue).kind = "Cancel"
  /\ queue' = Tail(queue)
  /\ resting' = {o \in resting : o.id # Head(queue).id}
  /\ UNCHANGED <<live, next_id, sequenceVars, pc, batch_, pushed_, dropped_>>

\* the order rests only when it took all it crossed; it may also rest nowhere
ProcessNew ==
  /\ queue # << >> /\ Head(queue).kind = "New"
  /\ queue' = Tail(queue)
  /\ LET m == Head(queue)
     IN  \/ \E taken \in SUBSET Crossed(m.key) : resting' = resting \ taken
         \/ resting' = (resting \ Crossed(m.key)) \cup {[id |-> m.id, key |-> m.key]}
  /\ UNCHANGED <<live, next_id, sequenceVars, pc, batch_, pushed_, dropped_>>

Engine == ProcessCancel \/ ProcessNew

Parse ==
  \/ \E k \in LevelKey : reset_book(k)
  \/ NextPart
  \/ PushMessage
  \/ EndFrame

Next ==
  \/ StartFrame
  \/ \E k \in LevelKey : consume_price_size_array(k) \/ \E positive \in BOOLEAN : l2update(k, positive)
  \/ Parse
  \/ \E seq \in 1..MaxSequence : Events < MaxEvents /\ match(seq)
  \/ Engine

Spec == Init /\ [][Next]_vars

\* A frame is finite, so its handler ends, and the engine keeps popping.
FairSpec == Spec /\ WF_vars(Parse) /\ WF_vars(Engine)

(***************************************************************************)
(* Properties                                                              *)
(***************************************************************************)

Cancelling(id) == [kind |-> "Cancel", id |-> id] \in Range(queue \o batch_)

\* As long as no message was dropped, every order in the engine's book is the
\* one the feed keeps for that level or its cancel is on the way: the depth
\* shown never contains a level the exchange has taken away for good.
NoGhosts ==
  dropped_ = 0 => \A o \in resting : live[o.key] = o.id \/ Cancelling(o.id)

\* If sequence_gaps() is 0, no match between the first and the last one received
\* is missing, whatever was lost, repeated or reordered on the way.
QuietMeansComplete ==
  sequence_gaps = 0 => \A a, b \in seen : \A n \in a..b : n \in seen

\* An order the feed has taken off its level leaves the engine's book, unless
\* messages were dropped.
StaleOrdersLeave ==
  \A k \in LevelKey, id \in 1..MaxEvents :
    ([id |-> id, key |-> k] \in resting /\ live[k] # id)
      ~> ([id |-> id, key |-> k] \notin resting \/ dropped_ > 0)

===============================================================================
