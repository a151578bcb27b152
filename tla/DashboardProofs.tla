---------------------------- MODULE DashboardProofs ----------------------------
(***************************************************************************)
(* Proofs about the two halves of the dashboard: the sessions of module    *)
(* DashboardServer, for any set of browsers, any MAX_QUEUED and any number *)
(* of broadcasts, and the snapshot of module DashboardHub, for any         *)
(* FILL_KEEP and any number of messages and fills.                         *)
(*                                                                         *)
(* What a handler does to one session is separate from which sessions      *)
(* there are: Sound(s) is preserved by every operation on a session, and   *)
(* Served(s), of the ones broadcast to, by all that do not drop it.        *)
(***************************************************************************)
EXTENDS DashboardServer, DashboardHub, FiniteSetTheorems, SequenceTheorems, TLAPS

Sessions ==
  [stream : {"none", "handshake", "open", "closing", "dead"}, ready_ : BOOLEAN, writing_ : BOOLEAN,
   queue_ : Seq(Int), ops : SUBSET {"accept", "read", "close", "lost"}, writes : Int, behind : Int,
   refused : {"none", "early", "late"}]

\* writing_ says whether a write is outstanding, there is at most one, it has a frame to
\* send, and there is none before the handshake is done
Sound(s) ==
  /\ s \in Sessions
  /\ s.writes = IF s.writing_ THEN 1 ELSE 0
  /\ s.writing_ => s.queue_ # << >> /\ s.ready_
  /\ "accept" \in s.ops => ~s.ready_

\* a session that was refused nothing has all frames since the last one it got
Complete(s) == s.refused = "none" => s.behind \in Nat /\ s.queue_ = [i \in 1..s.behind |-> i]

\* a session that is broadcast to is watched, and its queue is complete and worked off
Served(s) ==
  /\ "accept" \in s.ops \/ "read" \in s.ops
  /\ s.ready_ => (s.writing_ <=> s.queue_ # << >>)
  /\ Complete(s)

IInv ==
  /\ session \in [Browsers -> Sessions]
  /\ sessions_ \subseteq Browsers
  /\ clients_ = Cardinality(sessions_)
  /\ \A b \in Browsers : Sound(session[b])
  /\ \A b \in sessions_ : Served(session[b])

(***************************************************************************)
(* The operations on a session                                             *)
(***************************************************************************)

\* close() only adds an outstanding operation: it keeps a session sound and served.
LEMMA CloseKeeps ==
  ASSUME NEW s, Sound(s)
  PROVE  Sound(close(s)) /\ (Served(s) => Served(close(s)))
<1>1. CASE s.stream # "open"
  BY <1>1 DEF close
<1>2. CASE s.stream = "open" /\ "close" \in s.ops
  <2> DEFINE t == [s EXCEPT !.ops = @ \cup {"lost"}]
  <2>1. close(s) = t
    BY <1>2 DEF close
  <2>2. t \in Sessions /\ t.queue_ = s.queue_ /\ t.writing_ = s.writing_ /\ t.ready_ = s.ready_
        /\ t.writes = s.writes /\ t.refused = s.refused /\ t.behind = s.behind
        /\ t.ops = s.ops \cup {"lost"}
    BY DEF Sound, Sessions
  <2> QED
    BY <2>1, <2>2 DEF Sound, Served, Complete
<1>3. CASE s.stream = "open" /\ "close" \notin s.ops
  <2> DEFINE t == [s EXCEPT !.ops = @ \cup {"close"}, !.stream = IF s.writes = 0 THEN "closing" ELSE @]
  <2>1. close(s) = t
    BY <1>3 DEF close
  <2>2. t \in Sessions /\ t.queue_ = s.queue_ /\ t.writing_ = s.writing_ /\ t.ready_ = s.ready_
        /\ t.writes = s.writes /\ t.refused = s.refused /\ t.behind = s.behind
        /\ t.ops = s.ops \cup {"close"}
    BY Zenon DEF Sound, Sessions
  <2> QED
    BY <2>1, <2>2 DEF Sound, Served, Complete
<1> QED
  BY <1>1, <1>2, <1>3

\* do_write() is right where no write is outstanding, the handshake is done and a frame waits.
LEMMA DoWriteKeeps ==
  ASSUME NEW s, Sound(s), s.ready_, ~s.writing_, s.queue_ # << >>
  PROVE  /\ Sound(do_write(s))
         /\ "read" \in s.ops /\ Complete(s) => Served(do_write(s))
<1> DEFINE t == do_write(s)
<1>1. s \in Sessions
  BY DEF Sound
<1>2. s.writes + 1 \in Int
  BY <1>1 DEF Sessions
<1>3. t \in Sessions
  BY <1>1, <1>2, Zenon DEF do_write, Sessions
<1>4. t.queue_ = s.queue_ /\ t.writing_ /\ t.ready_ = s.ready_
      /\ t.writes = s.writes + 1 /\ t.refused = s.refused /\ t.behind = s.behind /\ t.ops = s.ops
  BY <1>1, Zenon DEF do_write, Sessions
<1> QED
  BY <1>3, <1>4 DEF Sound, Served, Complete

\* A refused frame marks the session; its queue keeps its length.
LEMMA RefusedKeeps ==
  ASSUME NEW s, Sound(s)
  PROVE  Sound(Refused(s)) /\ (Served(s) => Served(Refused(s)))
<1> DEFINE t == Refused(s)
<1>1. s.queue_ \in Seq(Int) /\ s \in Sessions
  BY DEF Sound, Sessions
<1>2. t.queue_ = [i \in DOMAIN s.queue_ |-> 0] /\ t.queue_ \in Seq(Int)
      /\ (t.queue_ = << >> <=> s.queue_ = << >>)
  BY <1>1 DEF Refused, Sessions
<1>3. t.writing_ = s.writing_ /\ t.ready_ = s.ready_
      /\ t.writes = s.writes /\ t.refused # "none" /\ t.ops = s.ops
  BY <1>1 DEF Refused, Sessions
<1>4. [i \in DOMAIN s.queue_ |-> 0] \in Seq(Int) /\ 0 \in Int
      /\ (IF s.ready_ THEN "late" ELSE "early") \in {"none", "early", "late"}
  BY <1>1
<1>5. t \in Sessions
  BY <1>1, <1>4, Zenon DEF Refused, Sessions
<1> QED
  BY <1>2, <1>3, <1>5 DEF Sound, Served, Complete

\* A frame is put behind the others: the queue of a session that was refused nothing stays
\* complete.
LEMMA QueuedKeeps ==
  ASSUME NEW s, Sound(s)
  PROVE  /\ Sound(Queued(s))
         /\ Queued(s).queue_ # << >> /\ Queued(s).ops = s.ops
         /\ Queued(s).ready_ = s.ready_ /\ Queued(s).writing_ = s.writing_
         /\ Complete(s) => Complete(Queued(s))
<1> DEFINE n == IF s.refused = "none" THEN s.behind + 1 ELSE 0
           t == [s EXCEPT !.queue_ = Append(@, n), !.behind = n]
<1>1. s \in Sessions /\ s.queue_ \in Seq(Int) /\ s.behind \in Int /\ n \in Int
  BY DEF Sound, Sessions
<1>2. Queued(s) = t
  BY DEF Queued
<1> HIDE DEF n
<1>3. Append(s.queue_, n) \in Seq(Int) /\ Append(s.queue_, n) # << >>
  BY <1>1, AppendProperties
<1>4. t \in Sessions /\ t.queue_ = Append(s.queue_, n) /\ t.writing_ = s.writing_ /\ t.ready_ = s.ready_
      /\ t.writes = s.writes /\ t.refused = s.refused /\ t.behind = n /\ t.ops = s.ops
  BY <1>1, <1>3, Zenon DEF Sessions
<1>5. ASSUME Complete(s), s.refused = "none"
      PROVE  n \in Nat /\ Append(s.queue_, n) = [i \in 1..n |-> i]
  <2>1. s.behind \in Nat /\ s.queue_ = [i \in 1..s.behind |-> i] /\ n = s.behind + 1
    BY <1>5 DEF Complete, n
  <2>2. Len(s.queue_) = s.behind
    BY <1>1, <2>1
  <2>3. Append(s.queue_, n) = [i \in 1..(Len(s.queue_) + 1) |-> IF i = Len(s.queue_) + 1 THEN n ELSE s.queue_[i]]
    BY <1>1
  <2> QED
    BY <2>1, <2>2, <2>3
<1> QED
  BY <1>2, <1>3, <1>4, <1>5 DEF Sound, Complete

\* send() keeps a session that is broadcast to sound and served, whether it queues the frame,
\* starts to write or refuses.
LEMMA SendKeeps ==
  ASSUME NEW s, Sound(s), Served(s)
  PROVE  Sound(send(s)) /\ Served(send(s))
<1>1. CASE Len(s.queue_) >= MAX_QUEUED
  BY <1>1, RefusedKeeps, CloseKeeps DEF send
<1>2. CASE ~(Len(s.queue_) >= MAX_QUEUED) /\ s.ready_ /\ ~s.writing_
  <2>1. "read" \in s.ops
    BY <1>2 DEF Sound, Served
  <2> QED
    BY <1>2, <2>1, QueuedKeeps, DoWriteKeeps DEF send, Served
<1>3. CASE ~(Len(s.queue_) >= MAX_QUEUED) /\ ~(s.ready_ /\ ~s.writing_)
  <2>1. send(s) = Queued(s)
    BY <1>3 DEF send
  <2> QED
    BY <1>3, <2>1, QueuedKeeps DEF Served
<1> QED
  BY <1>1, <1>2, <1>3

\* The end of a handshake starts the read, and a write if frames came meanwhile.
LEMMA ReadyKeeps ==
  ASSUME NEW s, Sound(s), "accept" \in s.ops
  PROVE  Sound(Ready(s)) /\ (Served(s) => Served(Ready(s)))
<1> DEFINE r == [s EXCEPT !.stream = "open", !.ready_ = TRUE, !.ops = {"read"}]
<1>1. s \in Sessions
  BY DEF Sound
<1>2. r \in Sessions /\ r.queue_ = s.queue_ /\ r.writing_ = s.writing_ /\ r.ready_
      /\ r.writes = s.writes /\ r.refused = s.refused /\ r.behind = s.behind /\ r.ops = {"read"}
  BY <1>1, Zenon DEF Sessions
<1>3. ~s.writing_
  BY DEF Sound
<1>4. Sound(r) /\ ~r.writing_
  BY <1>2, <1>3 DEF Sound
<1>5. CASE s.queue_ # << >>
  <2>1. Ready(s) = do_write(r)
    BY <1>5 DEF Ready
  <2> HIDE DEF r
  <2> QED
    BY <1>2, <1>4, <1>5, <2>1, DoWriteKeeps DEF Served, Complete
<1>6. CASE s.queue_ = << >>
  <2>1. Ready(s) = r
    BY <1>6 DEF Ready
  <2> HIDE DEF r
  <2> QED
    BY <1>2, <1>4, <1>6, <2>1 DEF Served, Complete
<1> QED
  BY <1>5, <1>6

\* The end of a write takes the frame off the queue and starts the next one, if any.
LEMMA WrittenKeeps ==
  ASSUME NEW s, Sound(s), s.writing_
  PROVE  Sound(Written(s)) /\ (Served(s) => Served(Written(s)))
<1> DEFINE f    == Head(s.queue_)
           rest == CountFrom(f, Tail(s.queue_))
           t    == [s EXCEPT !.writing_ = FALSE, !.writes = @ - 1, !.queue_ = rest, !.behind = @ - f,
                             !.stream = IF "close" \in s.ops THEN "closing" ELSE @]
<1>1. s \in Sessions /\ s.queue_ \in Seq(Int) /\ s.queue_ # << >> /\ s.behind \in Int
  BY DEF Sound, Sessions
<1>2. f \in Int /\ Tail(s.queue_) \in Seq(Int)
  BY <1>1
<1> HIDE DEF f
<1>3. rest \in Seq(Int)
  <2> DEFINE q == Tail(s.queue_)
  <2>1. q \in Seq(Int) /\ DOMAIN q = 1..Len(q) /\ Len(q) \in Nat
    BY <1>2
  <2> HIDE DEF q
  <2>2. \A i \in 1..Len(q) : q[i] - f \in Int
    BY <1>2, <2>1
  <2>3. [i \in 1..Len(q) |-> q[i] - f] \in Seq(Int)
    BY <2>1, <2>2
  <2> QED
    BY <2>1, <2>3 DEF CountFrom, q
<1>4. ASSUME s.behind \in Nat, s.queue_ = [i \in 1..s.behind |-> i]
      PROVE  s.behind - f \in Nat /\ rest = [i \in 1..(s.behind - f) |-> i]
  <2>1. s.behind >= 1 /\ Len(s.queue_) = s.behind
    BY <1>1, <1>4
  <2>2. f = 1
    BY <1>1, <1>4, <2>1 DEF f
  <2>3. DOMAIN Tail(s.queue_) = 1..(s.behind - 1)
    BY <1>1, <2>1
  <2>4. \A i \in 1..(s.behind - 1) : Tail(s.queue_)[i] = i + 1
    BY <1>1, <1>4, <2>1
  <2>5. rest = [i \in 1..(s.behind - 1) |-> Tail(s.queue_)[i] - 1]
    BY <2>2, <2>3 DEF CountFrom
  <2>6. [i \in 1..(s.behind - 1) |-> Tail(s.queue_)[i] - 1] = [i \in 1..(s.behind - 1) |-> i]
    <3>1. \A i \in 1..(s.behind - 1) : Tail(s.queue_)[i] - 1 = i
      BY <1>4, <2>4
    <3> QED
      BY <3>1, Zenon
  <2>7. s.behind - f = s.behind - 1 /\ s.behind - 1 \in Nat
    BY <1>4, <2>1, <2>2
  <2> QED
    BY <2>5, <2>6, <2>7, Zenon
<1> HIDE DEF rest
<1>5. t.queue_ = rest /\ ~t.writing_ /\ t.ready_ = s.ready_
      /\ t.writes = s.writes - 1 /\ t.refused = s.refused /\ t.behind = s.behind - f /\ t.ops = s.ops
  BY <1>1 DEF Sessions
<1>6. Sound(t)
  <2>1. s.writes - 1 \in Int /\ s.behind - f \in Int /\ FALSE \in BOOLEAN
        /\ (IF "close" \in s.ops THEN "closing" ELSE s.stream)
             \in {"none", "handshake", "open", "closing", "dead"}
    BY <1>1, <1>2 DEF Sessions
  <2>2. t \in Sessions
    BY <1>1, <1>3, <2>1, Zenon DEF Sessions
  <2> HIDE DEF t
  <2> QED
    BY <1>5, <2>2 DEF Sound
<1> HIDE DEF t
<1>9. Served(s) => Complete(t)
  BY <1>4, <1>5 DEF Served, Complete
<1> USE DEF t
<1>7. CASE rest # << >>
  <2>1. Written(s) = do_write(t)
    BY <1>5, <1>7 DEF Written, f, rest
  <2> HIDE DEF t
  <2>2. t.ready_ /\ (Served(s) => "read" \in t.ops)
    BY <1>5 DEF Sound, Served
  <2> QED
    BY <1>5, <1>6, <1>7, <1>9, <2>1, <2>2, DoWriteKeeps
<1>8. CASE rest = << >>
  <2>1. Written(s) = t
    BY <1>5, <1>8 DEF Written, f, rest
  <2> HIDE DEF t
  <2> QED
    BY <1>5, <1>6, <1>8, <1>9, <2>1 DEF Served
<1> QED
  BY <1>7, <1>8

(***************************************************************************)
(* The handlers                                                            *)
(***************************************************************************)

\* A session whose reference count goes to zero is an empty one again.
LEMMA NoSessionSound == Sound(NoSession)
BY DEF Sound, Sessions, NoSession

\* The sessions after Put(b, s, members), where members are those broadcast to before, with
\* or without b.
LEMMA PutKeeps ==
  ASSUME IInv, NEW b \in Browsers, NEW s, Sound(s),
         NEW members, members \subseteq sessions_, b \in members => Served(s),
         Put(b, s, members), sessions_' = members, clients_' = Cardinality(members)
  PROVE  IInv'
<1> DEFINE t == IF b \notin members /\ s.ops = {} /\ s.writes = 0 THEN NoSession ELSE s
<1>1. Sound(t) /\ (b \in members => Served(t))
  BY NoSessionSound
<1> HIDE DEF t
<1>2. session' = [session EXCEPT ![b] = t]
  BY DEF Put, t
<1>3. session' \in [Browsers -> Sessions] /\ (\A c \in Browsers : session'[c] = IF c = b THEN t ELSE session[c])
  BY <1>1, <1>2 DEF IInv, Sound
<1> QED
  BY <1>1, <1>3 DEF IInv

\* The server starts without sessions.
LEMMA InitHolds == Init => IInv
BY NoSessionSound, FS_EmptySet DEF Init, IInv, Sound

\* Every step of the server preserves the invariant.
LEMMA NextKeeps == IInv /\ [Next]_vars => IInv'
<1> SUFFICES ASSUME IInv, [Next]_vars PROVE IInv'
  OBVIOUS
<1>1. ASSUME UNCHANGED <<session, sessions_, clients_>>
      PROVE  IInv'
  BY <1>1 DEF IInv
<1>2. CASE UNCHANGED vars
  BY <1>1, <1>2 DEF vars
<1>3. CASE start \/ AcceptEnds \/ TimerEnds \/ stop \/ RunReturns
  BY <1>1, <1>3 DEF start, AcceptEnds, TimerEnds, stop, RunReturns
<1>4. CASE Tick
  <2>1. \A b \in Browsers : session'[b] = IF b \in sessions_ THEN send(session[b]) ELSE session[b]
    BY <1>4 DEF Tick
  <2>2. \A b \in Browsers : Sound(session'[b]) /\ (b \in sessions_ => Served(session'[b]))
    BY <2>1, SendKeeps DEF IInv
  <2>3. session' \in [Browsers -> Sessions]
    BY <1>4, <2>1, <2>2 DEF Tick, Sound
  <2> QED
    BY <1>4, <2>2, <2>3 DEF Tick, IInv
<1>5. CASE StopHandler
  <2>1. \A b \in Browsers : session'[b] = IF b \in sessions_ THEN close(session[b]) ELSE session[b]
    BY <1>5 DEF StopHandler
  <2>2. \A b \in Browsers : Sound(session'[b])
    BY <2>1, CloseKeeps DEF IInv
  <2>3. session' \in [Browsers -> Sessions]
    BY <1>5, <2>1, <2>2 DEF StopHandler, Sound
  <2> QED
    BY <1>5, <2>2, <2>3, FS_EmptySet DEF StopHandler, IInv
<1>6. ASSUME NEW b \in Browsers, AcceptOk(b)
      PROVE  IInv'
  <2> DEFINE s == [NoSession EXCEPT !.stream = "handshake", !.ops = {"accept"}]
  <2>1. Sound(s) /\ Served(s)
    <3>1. NoSession \in Sessions
      BY NoSessionSound DEF Sound
    <3>2. ~NoSession.ready_ /\ ~NoSession.writing_ /\ NoSession.queue_ = << >> /\ NoSession.writes = 0
          /\ NoSession.behind = 0
      BY DEF NoSession
    <3>3. s \in Sessions /\ s.ready_ = NoSession.ready_ /\ s.writing_ = NoSession.writing_
          /\ s.queue_ = NoSession.queue_ /\ s.writes = NoSession.writes
          /\ s.behind = NoSession.behind /\ s.ops = {"accept"}
      BY <3>1, Zenon DEF Sessions
    <3>4. << >> = [i \in 1..0 |-> i]
      OBVIOUS
    <3> HIDE DEF s
    <3> QED
      BY <3>2, <3>3, <3>4 DEF Sound, Served, Complete
  <2> HIDE DEF s
  <2>2. session' = [session EXCEPT ![b] = s] /\ sessions_' = sessions_ \cup {b}
        /\ clients_' = Cardinality(sessions_')
    BY <1>6 DEF AcceptOk, s
  <2>3. \A c \in Browsers : session'[c] = IF c = b THEN s ELSE session[c]
    BY <2>2 DEF IInv
  <2>4. session' \in [Browsers -> Sessions]
    BY <2>1, <2>2 DEF IInv, Sound
  <2> QED
    BY <2>1, <2>2, <2>3, <2>4 DEF IInv
<1>7. ASSUME NEW b \in Browsers, HandshakeOk(b)
      PROVE  IInv'
  BY <1>7, PutKeeps, ReadyKeeps DEF HandshakeOk, Keep, IInv
<1>8. ASSUME NEW b \in Browsers, NEW op \in {"accept", "read"}, drop_session(b, Failed(session[b], op))
      PROVE  IInv'
  <2>1. Sound(Failed(session[b], op))
    <3> DEFINE s == session[b]
               t == Failed(s, op)
    <3>1. Sound(s)
      BY DEF IInv
    <3> HIDE DEF s
    <3>2. t \in Sessions /\ t.writes = s.writes /\ t.writing_ = s.writing_ /\ t.queue_ = s.queue_
          /\ t.ready_ = s.ready_ /\ t.ops = s.ops \ {op}
      BY <3>1, Zenon DEF Failed, Sound, Sessions
    <3> HIDE DEF t
    <3>3. Sound(t)
      BY <3>1, <3>2 DEF Sound
    <3> QED
      BY <3>3 DEF t, s
  <2> QED
    BY <1>8, <2>1, PutKeeps DEF drop_session
<1>9. ASSUME NEW b \in Browsers, WriteOk(b)
      PROVE  IInv'
  <2>1. session[b].writing_
    BY <1>9 DEF WriteOk, IInv, Sound
  <2> QED
    BY <1>9, <2>1, PutKeeps, WrittenKeeps DEF WriteOk, Keep, IInv
<1>10. ASSUME NEW b \in Browsers, WriteFails(b)
       PROVE  IInv'
  <2> DEFINE s == session[b]
             t == [Failed(s, "write") EXCEPT !.writing_ = FALSE, !.writes = @ - 1]
  <2>1. Sound(s) /\ s \in Sessions /\ s.writing_
    BY <1>10 DEF WriteFails, IInv, Sound
  <2> HIDE DEF s
  <2>2. s.writes - 1 \in Int /\ s.ops \ {"write"} \in SUBSET {"accept", "read", "close", "lost"}
        /\ FALSE \in BOOLEAN
    BY <2>1 DEF Sessions
  <2>3. t = [s EXCEPT !.stream = "dead", !.ops = s.ops \ {"write"}, !.writing_ = FALSE, !.writes = s.writes - 1]
    BY <2>1 DEF Failed, Sessions
  <2>4. t \in Sessions
    BY <2>1, <2>2, <2>3, Zenon DEF Sessions
  <2>5. ~t.writing_ /\ t.writes = s.writes - 1 /\ t.queue_ = s.queue_ /\ t.ready_ = s.ready_
        /\ t.ops = s.ops \ {"write"}
    BY <2>1, <2>3, Zenon DEF Sessions
  <2>6. Sound(t)
    BY <2>1, <2>4, <2>5 DEF Sound
  <2> QED
    BY <1>10, <2>6, PutKeeps DEF WriteFails, drop_session, s
<1>11. ASSUME NEW b \in Browsers, CloseDone(b)
       PROVE  IInv'
  <2> DEFINE s == session[b]
             t == Failed(s, "close")
  <2>2. Sound(s) /\ s \in Sessions
    BY DEF IInv, Sound
  <2> HIDE DEF s
  <2>3. t \in Sessions /\ t.writing_ = s.writing_ /\ t.writes = s.writes /\ t.queue_ = s.queue_
        /\ t.ready_ = s.ready_ /\ t.refused = s.refused /\ t.behind = s.behind
        /\ t.ops = s.ops \ {"close"}
    BY <2>2, Zenon DEF Failed, Sessions
  <2>1. Sound(t) /\ (Served(s) => Served(t))
    BY <2>2, <2>3 DEF Sound, Served, Complete
  <2> QED
    BY <1>11, <2>1, PutKeeps DEF CloseDone, Keep, IInv, s
<1> QED
  BY <1>2, <1>3, <1>4, <1>5, <1>6, <1>7, <1>8, <1>9, <1>10, <1>11 DEF Next, HandshakeFails, ReadFails

LEMMA ServerInvariance == Spec => []IInv
BY InitHolds, NextKeeps, PTL DEF Spec

\* Whatever browsers, the network and the broadcast timer do: a session has one write at a
\* time outstanding, of the front frame of its queue (do_write, send).
THEOREM WritesOneByOne == Spec => []OneWrite
<1>1. IInv => OneWrite
  BY DEF IInv, Sound, Served, OneWrite
<1> QED BY <1>1, ServerInvariance, PTL

\* A browser that is not dropped for being slow gets every frame, in order.
THEOREM CompleteQueues == Spec => []FramesInOrder
<1>1. IInv => FramesInOrder
  BY DEF IInv, Served, Complete, FramesInOrder
<1> QED BY <1>1, ServerInvariance, PTL

\* Every session broadcast to has its handshake or a read outstanding, whose end makes
\* drop_session take it out, and clients_ counts those sessions.
THEOREM TrueClientCount == Spec => []SessionsWatched
<1>1. IInv => SessionsWatched
  BY DEF IInv, Served, SessionsWatched
<1> QED BY <1>1, ServerInvariance, PTL

(***************************************************************************)
(* The hub                                                                 *)
(***************************************************************************)

\* Who holds mu_ is in its critical section, and nobody else is.
Locks ==
  /\ mu_ = "engine" <=> engine_pc \in {"clear", "bids", "asks"}
  /\ mu_ = "output" <=> output_pc = "rows"
  /\ mu_ = "server" <=> server_pc \in {"bids", "rest"}

\* The two sides of the hub differ only between the engine's two copies.
Sides ==
  /\ engine_pc # "asks" => bids_ = asks_
  /\ server_pc = "rest" => frame.bids = bids_
  /\ server_pc \in {"tick", "lock"} => frame.bids = frame.asks

\* A request is for a book the engine has; what it copies is that book or a newer one.
Requests ==
  /\ book \in Int /\ requested \in Int /\ bids_ \in Int /\ asks_ \in Int
  /\ requested <= book
  /\ engine_pc = "asks" => bids_ = book
  /\ ~book_wanted_ /\ engine_pc = "loop" => bids_ >= requested /\ asks_ >= requested

\* The flag and the lock are all the three threads share, and they suffice.
HubInv == Locks /\ Sides /\ Requests

LEMMA HubStart == HubInit => HubInv
BY DEF HubInit, HubInv, Locks, Sides, Requests

LEMMA HubStep == HubInv /\ [HubNext]_hubVars => HubInv'
<1> SUFFICES ASSUME Locks, Sides, Requests, [HubNext]_hubVars
             PROVE  Locks' /\ Sides' /\ Requests'
  BY DEF HubInv
<1> USE DEF dataVars, engineVars, outputVars, frameVars
<1>1. Locks'
  <2>1. CASE EngineLoop
    BY <2>1 DEF Locks, EngineLoop, TryLock
  <2>2. CASE EngineClear \/ EngineCopyBids \/ EngineCopyAsks
    BY <2>2 DEF Locks, EngineClear, EngineCopyBids, EngineCopyAsks
  <2>3. CASE Output
    BY <2>3 DEF Locks, Output, OutputFill, OutputPublish, OutputRow, OutputPublished
  <2>4. CASE request_book \/ ServerLock
    BY <2>4 DEF Locks, request_book, ServerLock
  <2>5. CASE ServerBids \/ ServerRest
    BY <2>5 DEF Locks, ServerBids, ServerRest
  <2>6. CASE UNCHANGED hubVars
    BY <2>6 DEF Locks, hubVars
  <2> QED BY <2>1, <2>2, <2>3, <2>4, <2>5, <2>6 DEF HubNext, Engine, Server
<1>2. Sides'
  <2>1. CASE EngineLoop
    BY <2>1 DEF Locks, Sides, Requests, EngineLoop, TryLock
  <2>2. CASE EngineClear
    BY <2>2 DEF Locks, Sides, EngineClear
  <2>3. CASE EngineCopyBids \/ EngineCopyAsks
    BY <2>3 DEF Locks, Sides, Requests, EngineCopyBids, EngineCopyAsks
  <2>4. CASE Output
    BY <2>4 DEF Sides, Output, OutputFill, OutputPublish, OutputRow, OutputPublished
  <2>5. CASE request_book \/ ServerLock
    BY <2>5 DEF Locks, Sides, request_book, ServerLock
  <2>6. CASE ServerBids \/ ServerRest
    BY <2>6 DEF Locks, Sides, ServerBids, ServerRest
  <2>7. CASE UNCHANGED hubVars
    BY <2>7 DEF Sides, hubVars
  <2> QED BY <2>1, <2>2, <2>3, <2>4, <2>5, <2>6, <2>7 DEF HubNext, Engine, Server
<1>3. Requests'
  <2>1. CASE EngineLoop
    BY <2>1 DEF Requests, EngineLoop, Process, TryLock
  <2>2. CASE EngineClear \/ EngineCopyBids \/ EngineCopyAsks
    BY <2>2 DEF Requests, EngineClear, EngineCopyBids, EngineCopyAsks
  <2>3. CASE Output
    BY <2>3 DEF Requests, Output, OutputFill, OutputPublish, OutputRow, OutputPublished
  <2>4. CASE Server
    BY <2>4 DEF Requests, Server, request_book, ServerLock, ServerBids, ServerRest
  <2>5. CASE UNCHANGED hubVars
    BY <2>5 DEF Requests, hubVars
  <2> QED BY <2>1, <2>2, <2>3, <2>4, <2>5 DEF HubNext, Engine
<1> QED BY <1>1, <1>2, <1>3

\* The invariant holds in every interleaving of the three threads.
LEMMA HubInvariance == HubSpec => []HubInv
BY HubStart, HubStep, PTL DEF HubSpec

\* A frame's two sides come from one book, whatever engine and server do meanwhile.
THEOREM WholeFrames == HubSpec => []FrameNotTorn
<1>1. HubInv => FrameNotTorn
  BY DEF HubInv, Sides, FrameNotTorn
<1> QED BY <1>1, HubInvariance, PTL

\* No request for a snapshot is swallowed, by a failed try_lock or by a flag that is
\* lowered while it is raised again.
THEOREM RequestsServed == HubSpec => []NoRequestLost
<1>1. HubInv => NoRequestLost
  BY DEF HubInv, Requests, NoRequestLost
<1> QED BY <1>1, HubInvariance, PTL

(***************************************************************************)
(* The tape                                                                *)
(***************************************************************************)

\* the slot of the hub's ring that was written back turns ago
Before(back) == IF back <= fill_head_ THEN fill_head_ - back ELSE fill_head_ - back + FILL_KEEP

\* the newest n rows of the hub are the fills up to last, in order
Newest(last, n) == \A back \in 1..n : fills_[Before(back)] = last + 1 - back

AtMostKept(n) == IF n < FILL_KEEP THEN n ELSE FILL_KEEP

RingType ==
  /\ FILL_KEEP \in Nat \ {0}
  /\ fills_ \in [0..(FILL_KEEP - 1) -> Int]
  /\ fill_head_ \in 0..(FILL_KEEP - 1) /\ fill_count_ \in 0..FILL_KEEP
  /\ fill_count_ < FILL_KEEP => fill_head_ = fill_count_

PendingType ==
  /\ MaxFills \in Nat /\ fill_seq \in 0..MaxFills /\ pending_fills \in Seq(Int)
  /\ Len(pending_fills) <= FILL_KEEP /\ Len(pending_fills) <= fill_seq
  /\ output_pc = "loop" => pending_head \in 0..(FILL_KEEP - 1)
  /\ output_pc = "loop" /\ Len(pending_fills) < FILL_KEEP => pending_head = 0

\* between publications: the rows waiting are the newest fills, as a ring from
\* pending_head on, and the hub has the last ones published before them
Collecting ==
  /\ \A j \in 1..Len(pending_fills) :
       pending_fills[j] = IF j > pending_head
                          THEN fill_seq - Len(pending_fills) + (j - pending_head)
                          ELSE fill_seq - pending_head + j
  /\ published \in 0..(fill_seq - Len(pending_fills))
  /\ Len(pending_fills) < FILL_KEEP => published = fill_seq - Len(pending_fills)
  /\ fill_count_ = AtMostKept(published) /\ Newest(published, fill_count_)

\* during one: the rows are in order, and the first row of them are in the hub; behind
\* them is what was there, which matters unless all of it goes
Publishing ==
  LET n == fill_seq - Len(pending_fills) + row
  IN  /\ row \in 0..Len(pending_fills)
      /\ \A j \in 1..Len(pending_fills) : pending_fills[j] = fill_seq - Len(pending_fills) + j
      /\ IF Len(pending_fills) < FILL_KEEP
         THEN fill_count_ = AtMostKept(n) /\ Newest(n, fill_count_)
         ELSE row <= fill_count_ /\ Newest(n, row)

TapeInv ==
  /\ RingType /\ PendingType
  /\ output_pc \in {"loop", "rows"}
  /\ output_pc = "loop" => Collecting
  /\ output_pc = "rows" => Publishing
  /\ TapeExact

\* One lap at most: % FILL_KEEP subtracts FILL_KEEP once.
LEMMA LapValue ==
  ASSUME FILL_KEEP \in Nat \ {0}, NEW x \in Nat, x < 2 * FILL_KEEP
  PROVE  x % FILL_KEEP = IF x < FILL_KEEP THEN x ELSE x - FILL_KEEP
<1>1. CASE x < FILL_KEEP
  BY <1>1
<1>2. CASE x >= FILL_KEEP
  BY <1>2
<1> QED BY <1>1, <1>2

\* The tape the server copies: the oldest row is the one written fill_count_ turns ago.
LEMMA TapeRows ==
  ASSUME RingType
  PROVE  Tape = [i \in 1..fill_count_ |-> fills_[Before(fill_count_ - i + 1)]]
<1>1. ASSUME NEW i \in 1..fill_count_
      PROVE  (fill_head_ + FILL_KEEP - fill_count_ + i - 1) % FILL_KEEP = Before(fill_count_ - i + 1)
  <2> DEFINE x == fill_head_ + FILL_KEEP - fill_count_ + i - 1
  <2>1. x \in Nat /\ x < 2 * FILL_KEEP
    BY DEF RingType
  <2> HIDE DEF x
  <2>2. x % FILL_KEEP = IF x < FILL_KEEP THEN x ELSE x - FILL_KEEP
    BY <2>1, LapValue, Zenon DEF RingType
  <2> QED BY <2>2 DEF x, RingType, Before
<1> QED BY <1>1 DEF Tape

\* One row of publish_output: the rows written before are one turn older.
LEMMA RowWritten ==
  ASSUME RingType, NEW last \in Int, NEW n \in 0..FILL_KEEP, Newest(last, n),
         fills_' = [fills_ EXCEPT ![fill_head_] = last + 1],
         fill_head_' = (fill_head_ + 1) % FILL_KEEP,
         fill_count_' = IF fill_count_ < FILL_KEEP THEN fill_count_ + 1 ELSE fill_count_
  PROVE  /\ RingType' /\ fill_count_' = AtMostKept(fill_count_ + 1)
         /\ Newest(last + 1, AtMostKept(n + 1))'
<1>1. fill_head_' = IF fill_head_ + 1 = FILL_KEEP THEN 0 ELSE fill_head_ + 1
  <2>1. /\ FILL_KEEP \in Nat \ {0} /\ fill_head_ \in 0..(FILL_KEEP - 1)
        /\ fill_head_ + 1 \in Nat /\ fill_head_ + 1 < 2 * FILL_KEEP
    BY DEF RingType
  <2> DEFINE x == fill_head_ + 1
  <2>2. x \in Nat /\ x < 2 * FILL_KEEP /\ fill_head_' = x % FILL_KEEP
    BY <2>1
  <2> HIDE DEF x
  <2>3. x % FILL_KEEP = IF x < FILL_KEEP THEN x ELSE x - FILL_KEEP
    BY <2>1, <2>2, LapValue
  <2>4. fill_head_' = IF x < FILL_KEEP THEN x ELSE x - FILL_KEEP
    BY <2>2, <2>3, Zenon
  <2> QED BY <2>1, <2>4 DEF x
<1>2. RingType' /\ fill_count_' = AtMostKept(fill_count_ + 1)
  BY <1>1 DEF RingType, AtMostKept
<1>3. ASSUME NEW back \in 1..AtMostKept(n + 1)
      PROVE  fills_'[Before(back)'] = last + 1 + 1 - back
  <2>1. CASE back = 1
    <3>1. Before(back)' = fill_head_
      BY <1>1, <2>1 DEF Before, RingType
    <3> QED BY <2>1, <3>1 DEF RingType
  <2>2. CASE back > 1
    <3>1. back - 1 \in 1..n /\ back \in 1..FILL_KEEP
      BY <2>2 DEF AtMostKept, RingType
    <3>2. /\ Before(back)' = Before(back - 1) /\ Before(back - 1) # fill_head_
          /\ Before(back - 1) \in 0..(FILL_KEEP - 1)
      <4>1. FILL_KEEP \in Nat \ {0} /\ fill_head_ \in 0..(FILL_KEEP - 1)
        BY DEF RingType
      <4>2. Before(back)' = IF back <= fill_head_' THEN fill_head_' - back ELSE fill_head_' - back + FILL_KEEP
        BY DEF Before
      <4>3. CASE fill_head_ + 1 = FILL_KEEP
        BY <1>1, <3>1, <4>1, <4>2, <4>3 DEF Before
      <4>4. CASE fill_head_ + 1 # FILL_KEEP
        BY <1>1, <3>1, <4>1, <4>2, <4>4 DEF Before
      <4> QED BY <4>3, <4>4
    <3>3. fills_[Before(back - 1)] = last + 1 - (back - 1)
      BY <3>1, Zenon DEF Newest
    <3>4. fills_'[Before(back)'] = fills_[Before(back - 1)]
      BY <3>2 DEF RingType
    <3> QED BY <3>1, <3>3, <3>4
  <2> QED BY <2>1, <2>2
<1>4. Newest(last + 1, AtMostKept(n + 1))'
  BY <1>3, Zenon DEF Newest
<1> QED BY <1>2, <1>4

\* publish_dashboard turns the waiting rows so that the oldest comes first.
LEMMA RotatedRows ==
  ASSUME RingType, PendingType, output_pc = "loop", Collecting
  PROVE  /\ Rotated \in Seq(Int) /\ Len(Rotated) = Len(pending_fills)
         /\ \A j \in 1..Len(pending_fills) : Rotated[j] = fill_seq - Len(pending_fills) + j
<1> DEFINE P == pending_fills
           h == pending_head
           L == Len(P)
<1>1. /\ P \in Seq(Int) /\ L \in Nat /\ FILL_KEEP \in Nat \ {0} /\ h \in 0..(FILL_KEEP - 1)
      /\ fill_seq \in Int /\ (L < FILL_KEEP => h = 0) /\ L <= FILL_KEEP
  BY LenProperties DEF RingType, PendingType
<1>2. \A j \in 1..L : P[j] = IF j > h THEN fill_seq - L + (j - h) ELSE fill_seq - h + j
  BY Zenon DEF Collecting
<1>3. CASE h # 0 /\ L = FILL_KEEP
  <2> DEFINE a == SubSeq(P, h + 1, FILL_KEEP)
             b == SubSeq(P, 1, h)
  <2>1. /\ a \in Seq(Int) /\ Len(a) = L - h
        /\ \A i \in 1..(L - h) : a[i] = P[h + i]
    <3>1. h + 1 \in 1..(L + 1) /\ FILL_KEEP \in h..L
      BY <1>1, <1>3
    <3> HIDE DEF P, h, L
    <3>2. /\ SubSeq(P, h + 1, FILL_KEEP) \in Seq(Int)
          /\ Len(SubSeq(P, h + 1, FILL_KEEP)) = IF h + 1 <= FILL_KEEP THEN FILL_KEEP - (h + 1) + 1 ELSE 0
          /\ \A i \in 1..(FILL_KEEP - (h + 1) + 1) : SubSeq(P, h + 1, FILL_KEEP)[i] = P[(h + 1) + i - 1]
      BY <1>1, <1>3, <3>1, SubSeqProperties DEF L
    <3>3. FILL_KEEP - (h + 1) + 1 = L - h /\ h + 1 <= FILL_KEEP
      BY <1>1, <1>3
    <3>4. ASSUME NEW i \in 1..(L - h)
          PROVE  a[i] = P[h + i]
      <4>1. (h + 1) + i - 1 = h + i
        BY <1>1
      <4> QED BY <3>2, <3>3, <4>1, Zenon
    <3> QED BY <3>2, <3>3, <3>4, Zenon
  <2>2. /\ b \in Seq(Int) /\ Len(b) = h
        /\ \A i \in 1..h : b[i] = P[i]
    <3> HIDE DEF P, h, L
    <3>2. /\ SubSeq(P, 1, h) \in Seq(Int)
          /\ Len(SubSeq(P, 1, h)) = IF 1 <= h THEN h - 1 + 1 ELSE 0
          /\ \A i \in 1..(h - 1 + 1) : SubSeq(P, 1, h)[i] = P[1 + i - 1]
      BY <1>1, <1>3, SubSeqProperties DEF L
    <3> QED BY <1>1, <1>3, <3>2
  <2>3. Rotated = a \o b
    BY <1>3, Zenon DEF Rotated
  <2> HIDE DEF P, h, L, a, b
  <2>4. /\ a \o b \in Seq(Int) /\ Len(a \o b) = Len(a) + Len(b)
        /\ \A i \in 1..(Len(a) + Len(b)) : (a \o b)[i] = IF i <= Len(a) THEN a[i] ELSE b[i - Len(a)]
    BY <2>1, <2>2, ConcatProperties, Zenon
  <2>5. ASSUME NEW j \in 1..L
        PROVE  (a \o b)[j] = fill_seq - L + j
    <3>1. CASE j <= L - h
      <4>1. (a \o b)[j] = P[h + j]
        <5>1. j \in 1..(Len(a) + Len(b)) /\ j <= Len(a) /\ j \in 1..(L - h)
          BY <1>1, <1>3, <2>1, <2>2, <3>1
        <5>2. (a \o b)[j] = a[j]
          BY <2>4, <5>1, Zenon
        <5>3. a[j] = P[h + j]
          BY <2>1, <5>1, Zenon
        <5> QED BY <5>2, <5>3, Zenon
      <4>2. h + j \in 1..L /\ h + j > h
        BY <1>1, <1>3, <3>1
      <4>3. P[h + j] = fill_seq - L + ((h + j) - h)
        BY <1>2, <4>2
      <4> QED BY <1>1, <4>1, <4>3
    <3>2. CASE j > L - h
      <4>1. /\ j \in 1..(Len(a) + Len(b)) /\ ~(j <= Len(a)) /\ j - Len(a) \in 1..h
            /\ j - Len(a) = j - (L - h)
        BY <1>1, <1>3, <2>1, <2>2, <3>2
      <4>2. (a \o b)[j] = b[j - Len(a)]
        BY <2>4, <4>1, Zenon
      <4>3. b[j - Len(a)] = P[j - (L - h)]
        BY <2>2, <4>1, Zenon
      <4>4. j - (L - h) \in 1..L /\ ~(j - (L - h) > h)
        BY <1>1, <1>3, <3>2
      <4>5. P[j - (L - h)] = fill_seq - h + (j - (L - h))
        BY <1>2, <4>4, Zenon
      <4> QED BY <1>1, <4>2, <4>3, <4>5
    <3>3. j <= L - h \/ j > L - h
      BY <1>1
    <3> QED BY <3>1, <3>2, <3>3, Zenon
  <2>6. Len(a \o b) = L
    BY <1>1, <2>1, <2>2, <2>4
  <2> QED BY <2>3, <2>4, <2>5, <2>6, Zenon DEF P, L
<1>4. CASE ~(h # 0 /\ L = FILL_KEEP)
  <2>1. Rotated = P
    BY <1>4 DEF Rotated
  <2>2. h = 0
    BY <1>1, <1>4
  <2> HIDE DEF h
  <2>3. \A j \in 1..L : P[j] = fill_seq - L + j
    BY <1>1, <1>2, <2>2
  <2> QED BY <1>1, <2>1, <2>3
<1> QED BY <1>3, <1>4

\* What the other threads leave alone.
LEMMA TapeUntouched ==
  ASSUME TapeInv, UNCHANGED <<fills_, fill_head_, fill_count_, fill_seq, pending_fills, pending_head,
                              row, output_pc, published>>
  PROVE  RingType' /\ PendingType' /\ (output_pc \in {"loop", "rows"})'
         /\ (output_pc = "loop" => Collecting)' /\ (output_pc = "rows" => Publishing)'
<1>1. RingType'
  BY DEF TapeInv, RingType
<1>2. PendingType'
  BY DEF TapeInv, PendingType
<1>3. Collecting => Collecting'
  BY Zenon DEF Collecting, Newest, Before
<1>4. Publishing => Publishing'
  BY Zenon DEF Publishing, Newest, Before
<1> QED BY <1>1, <1>2, <1>3, <1>4, Zenon DEF TapeInv

\* A fill waits: the rows grow, or the newest takes the place of the oldest.
LEMMA FillWaits ==
  ASSUME TapeInv, OutputFill
  PROVE  RingType' /\ PendingType' /\ output_pc' = "loop" /\ Collecting'
<1>1. /\ output_pc = "loop" /\ fill_seq < MaxFills /\ fill_seq' = fill_seq + 1
      /\ UNCHANGED <<fills_, fill_head_, fill_count_, output_pc, published>>
  BY DEF OutputFill, dataVars
<1>2. /\ FILL_KEEP \in Nat \ {0} /\ fill_seq \in Nat /\ pending_fills \in Seq(Int)
      /\ Len(pending_fills) \in Nat
      /\ Len(pending_fills) <= FILL_KEEP /\ Len(pending_fills) <= fill_seq
      /\ pending_head \in 0..(FILL_KEEP - 1)
      /\ Len(pending_fills) < FILL_KEEP => pending_head = 0
      /\ MaxFills \in Int
  BY <1>1, LenProperties DEF TapeInv, RingType, PendingType
<1>3. RingType'
  BY <1>1 DEF TapeInv, RingType
<1>4. /\ published \in 0..(fill_seq - Len(pending_fills))
      /\ Len(pending_fills) < FILL_KEEP => published = fill_seq - Len(pending_fills)
      /\ fill_count_ = AtMostKept(published) /\ Newest(published, fill_count_)
  BY <1>1, Zenon DEF TapeInv, Collecting
<1>5. (fill_count_ = AtMostKept(published) /\ Newest(published, fill_count_))'
  BY <1>1, <1>4, Zenon DEF Newest, Before
<1>6. \A j \in 1..Len(pending_fills) :
        pending_fills[j] = IF j > pending_head
                           THEN fill_seq - Len(pending_fills) + (j - pending_head)
                           ELSE fill_seq - pending_head + j
  BY <1>1, Zenon DEF TapeInv, Collecting
<1>7. CASE Len(pending_fills) < FILL_KEEP
  <2>1. pending_fills' = Append(pending_fills, fill_seq + 1) /\ pending_head' = 0
    BY <1>2, <1>7 DEF OutputFill
  <2>2. /\ pending_fills' \in Seq(Int) /\ Len(pending_fills') = Len(pending_fills) + 1
        /\ \A j \in 1..Len(pending_fills) : pending_fills'[j] = pending_fills[j]
        /\ pending_fills'[Len(pending_fills) + 1] = fill_seq + 1
    BY <1>2, <2>1, AppendProperties
  <2>3. PendingType'
    BY <1>1, <1>2, <1>7, <2>1, <2>2 DEF PendingType
  <2>4. \A j \in 1..Len(pending_fills') :
          pending_fills'[j] = IF j > pending_head'
                              THEN fill_seq' - Len(pending_fills') + (j - pending_head')
                              ELSE fill_seq' - pending_head' + j
    BY <1>1, <1>2, <1>6, <1>7, <2>1, <2>2
  <2>5. published' \in 0..(fill_seq' - Len(pending_fills')) /\ published' = fill_seq' - Len(pending_fills')
    BY <1>1, <1>2, <1>4, <1>7, <2>2
  <2>6. Collecting'
    BY <1>5, <2>4, <2>5, Zenon DEF Collecting
  <2> QED BY <1>1, <1>3, <2>3, <2>6
<1>8. CASE ~(Len(pending_fills) < FILL_KEEP)
  <2>1. /\ Len(pending_fills) = FILL_KEEP
        /\ pending_fills' = [pending_fills EXCEPT ![pending_head + 1] = fill_seq + 1]
        /\ pending_head' = (pending_head + 1) % FILL_KEEP
    BY <1>2, <1>8 DEF OutputFill
  <2>2. pending_head' = IF pending_head + 1 = FILL_KEEP THEN 0 ELSE pending_head + 1
    <3> DEFINE x == pending_head + 1
    <3>1. x \in Nat /\ x < 2 * FILL_KEEP /\ pending_head' = x % FILL_KEEP
      BY <1>2, <2>1
    <3> HIDE DEF x
    <3>2. x % FILL_KEEP = IF x < FILL_KEEP THEN x ELSE x - FILL_KEEP
      BY <1>2, <3>1, LapValue, Zenon
    <3>3. pending_head' = IF x < FILL_KEEP THEN x ELSE x - FILL_KEEP
      BY <3>1, <3>2, Zenon
    <3> QED BY <1>2, <3>3 DEF x
  <2>3. pending_head + 1 \in 1..Len(pending_fills)
    BY <1>2, <2>1
  <2>4. /\ pending_fills' \in Seq(Int) /\ Len(pending_fills') = Len(pending_fills)
        /\ \A j \in 1..Len(pending_fills) :
             pending_fills'[j] = IF j = pending_head + 1 THEN fill_seq + 1 ELSE pending_fills[j]
    BY <1>2, <2>1, <2>3, ExceptSeq
  <2>5. PendingType'
    BY <1>1, <1>2, <2>1, <2>2, <2>4 DEF PendingType
  <2>6. ASSUME NEW j \in 1..Len(pending_fills')
        PROVE  pending_fills'[j] = IF j > pending_head'
                                   THEN fill_seq' - Len(pending_fills') + (j - pending_head')
                                   ELSE fill_seq' - pending_head' + j
    <3>1. j \in 1..Len(pending_fills)
      BY <2>4
    <3>2. CASE j = pending_head + 1
      BY <1>1, <1>2, <2>1, <2>2, <2>4, <3>1, <3>2
    <3>3. CASE j # pending_head + 1
      <4>1. pending_fills'[j] = IF j > pending_head THEN fill_seq - Len(pending_fills) + (j - pending_head)
                                ELSE fill_seq - pending_head + j
        BY <1>6, <2>4, <3>1, <3>3, Zenon
      <4>2. fill_seq' = fill_seq + 1 /\ Len(pending_fills') = FILL_KEEP /\ Len(pending_fills) = FILL_KEEP
        BY <1>1, <2>1, <2>4
      <4>3. CASE pending_head + 1 = FILL_KEEP
        <5>1. pending_head' = 0 /\ j <= pending_head /\ j > 0
          BY <1>2, <2>2, <3>1, <3>3, <4>2, <4>3
        <5> QED BY <1>2, <4>1, <4>2, <4>3, <5>1
      <4>4. CASE pending_head + 1 # FILL_KEEP
        <5>1. pending_head' = pending_head + 1 /\ (j > pending_head' <=> j > pending_head)
          BY <1>2, <2>2, <3>1, <3>3, <4>4
        <5> QED BY <1>2, <3>1, <4>1, <4>2, <5>1
      <4> QED BY <4>3, <4>4
    <3> QED BY <3>2, <3>3
  <2>7. published' \in 0..(fill_seq' - Len(pending_fills')) /\ ~(Len(pending_fills') < FILL_KEEP)
    BY <1>1, <1>2, <1>4, <1>8, <2>4
  <2>8. Collecting'
    BY <1>5, <2>6, <2>7, Zenon DEF Collecting
  <2> QED BY <1>1, <1>3, <2>5, <2>8
<1> QED BY <1>7, <1>8

\* A publication starts: none of its rows is in the hub yet.
LEMMA PublicationStarts ==
  ASSUME TapeInv, OutputPublish
  PROVE  RingType' /\ PendingType' /\ output_pc' = "rows" /\ Publishing'
<1>1. /\ output_pc = "loop" /\ pending_fills' = Rotated /\ row' = 0 /\ output_pc' = "rows"
      /\ UNCHANGED <<fills_, fill_head_, fill_count_, fill_seq>>
  BY DEF OutputPublish, dataVars
<1>2. /\ Rotated \in Seq(Int) /\ Len(Rotated) = Len(pending_fills)
      /\ \A j \in 1..Len(pending_fills) : Rotated[j] = fill_seq - Len(pending_fills) + j
  BY <1>1, RotatedRows DEF TapeInv
<1>3. /\ Len(pending_fills') = Len(pending_fills) /\ pending_fills' \in Seq(Int)
      /\ \A j \in 1..Len(pending_fills') : pending_fills'[j] = fill_seq' - Len(pending_fills') + j
  BY <1>1, <1>2
<1>4. RingType'
  BY <1>1 DEF TapeInv, RingType
<1>5. PendingType'
  BY <1>1, <1>3 DEF TapeInv, PendingType
<1>6. /\ FILL_KEEP \in Nat \ {0} /\ fill_seq \in Nat /\ fill_count_ \in Nat
      /\ Len(pending_fills) \in Nat
  BY LenProperties DEF TapeInv, RingType, PendingType
<1>7. fill_seq' - Len(pending_fills') + row' = fill_seq - Len(pending_fills)
  BY <1>1, <1>3, <1>6
<1>8. CASE Len(pending_fills) < FILL_KEEP
  <2>1. fill_count_ = AtMostKept(fill_seq - Len(pending_fills))
        /\ Newest(fill_seq - Len(pending_fills), fill_count_)
    BY <1>1, <1>8, Zenon DEF TapeInv, Collecting
  <2>2. (fill_count_ = AtMostKept(fill_seq - Len(pending_fills) + row)
         /\ Newest(fill_seq - Len(pending_fills) + row, fill_count_))'
    BY <1>1, <1>7, <2>1, Zenon DEF Newest, Before
  <2>3. row' \in 0..Len(pending_fills')
    BY <1>1, <1>3, <1>6
  <2> QED BY <1>1, <1>3, <1>4, <1>5, <1>8, <2>2, <2>3, Zenon DEF Publishing
<1>9. CASE ~(Len(pending_fills) < FILL_KEEP)
  <2>1. row' \in 0..Len(pending_fills') /\ row' <= fill_count_' /\ 1..row' = {}
    BY <1>1, <1>3, <1>6
  <2>2. Newest(fill_seq - Len(pending_fills) + row, row)'
    BY <2>1, Zenon DEF Newest
  <2> QED BY <1>1, <1>3, <1>4, <1>5, <1>9, <2>1, <2>2, Zenon DEF Publishing
<1> QED BY <1>8, <1>9

\* A row reaches the hub.
LEMMA RowPublished ==
  ASSUME TapeInv, Locks, OutputRow
  PROVE  RingType' /\ PendingType' /\ output_pc' = "rows" /\ Publishing'
<1> DEFINE L == Len(pending_fills)
           n == fill_seq - L + row
<1>1. /\ output_pc = "rows" /\ row < L /\ row' = row + 1
      /\ fills_' = [fills_ EXCEPT ![fill_head_] = pending_fills[row + 1]]
      /\ fill_head_' = (fill_head_ + 1) % FILL_KEEP
      /\ fill_count_' = IF fill_count_ < FILL_KEEP THEN fill_count_ + 1 ELSE fill_count_
      /\ UNCHANGED <<fill_seq, pending_fills, pending_head, output_pc>>
  BY DEF OutputRow
<1>2. /\ FILL_KEEP \in Nat \ {0} /\ fill_seq \in Nat /\ fill_count_ \in 0..FILL_KEEP
      /\ L \in Nat /\ L <= FILL_KEEP /\ L <= fill_seq
  BY LenProperties DEF TapeInv, RingType, PendingType
<1>3. /\ row \in 0..L
      /\ \A j \in 1..L : pending_fills[j] = fill_seq - L + j
      /\ L < FILL_KEEP => fill_count_ = AtMostKept(n) /\ Newest(n, fill_count_)
      /\ ~(L < FILL_KEEP) => row <= fill_count_ /\ Newest(n, row)
  BY <1>1, Zenon DEF TapeInv, Publishing
<1>4. n \in Nat /\ n + 1 = fill_seq - L + (row + 1) /\ row + 1 \in 1..L
  BY <1>1, <1>2, <1>3
<1>5. fills_' = [fills_ EXCEPT ![fill_head_] = n + 1]
  BY <1>1, <1>3, <1>4, Zenon
<1>6. RingType
  BY DEF TapeInv
<1>7. PendingType'
  BY <1>1 DEF TapeInv, PendingType
<1>8. (fill_seq - L + row)' = n + 1
  BY <1>1, <1>4
<1>9. /\ row' \in 0..Len(pending_fills')
      /\ \A j \in 1..Len(pending_fills') : pending_fills'[j] = fill_seq' - Len(pending_fills') + j
  BY <1>1, <1>2, <1>3
<1> HIDE DEF n
<1>10. PICK last \in Int : last = n
  BY <1>4
<1>11. CASE L < FILL_KEEP
  <2>1. PICK c \in 0..FILL_KEEP : c = fill_count_
    BY <1>2
  <2>2. Newest(last, c)
    BY <1>3, <1>10, <1>11, <2>1, Zenon
  <2>3. RingType' /\ fill_count_' = AtMostKept(fill_count_ + 1) /\ Newest(last + 1, AtMostKept(c + 1))'
    BY <1>1, <1>5, <1>6, <1>10, <2>2, RowWritten, Zenon
  <2>4. fill_count_' = AtMostKept(n + 1)
    BY <1>2, <1>3, <1>4, <1>11, <2>3 DEF AtMostKept
  <2>5. fill_count_' = AtMostKept((fill_seq - L + row)')
    BY <1>8, <2>4, Zenon
  <2>6. Newest(fill_seq - L + row, fill_count_)'
    BY <1>8, <1>10, <2>1, <2>3, Zenon DEF Newest
  <2> QED BY <1>1, <1>7, <1>9, <1>11, <2>3, <2>5, <2>6, Zenon DEF Publishing
<1>12. CASE ~(L < FILL_KEEP)
  <2>1. PICK r \in 0..FILL_KEEP : r = row
    BY <1>2, <1>3
  <2>2. Newest(last, r) /\ AtMostKept(r + 1) = row'
    BY <1>1, <1>2, <1>3, <1>10, <1>12, <2>1 DEF AtMostKept
  <2>3. RingType' /\ Newest(last + 1, AtMostKept(r + 1))'
    BY <1>1, <1>5, <1>6, <1>10, <2>2, RowWritten, Zenon
  <2>4. row' <= fill_count_'
    BY <1>1, <1>2, <1>3, <1>12
  <2>5. Newest(fill_seq - L + row, row)'
    BY <1>8, <1>10, <2>2, <2>3, Zenon DEF Newest
  <2> QED BY <1>1, <1>7, <1>9, <1>12, <2>3, <2>4, <2>5, Zenon DEF Publishing
<1> QED BY <1>11, <1>12

\* A publication ends: the hub has the newest fills, all of them if more than FILL_KEEP
\* were waiting or the rows before them followed on.
LEMMA PublicationEnds ==
  ASSUME TapeInv, OutputPublished
  PROVE  RingType' /\ PendingType' /\ output_pc' = "loop" /\ Collecting'
<1>1. /\ output_pc = "rows" /\ row = Len(pending_fills) /\ output_pc' = "loop"
      /\ pending_fills' = << >> /\ pending_head' = 0 /\ published' = fill_seq
      /\ UNCHANGED <<fills_, fill_head_, fill_count_, fill_seq>>
  BY DEF OutputPublished, dataVars
<1>2. /\ FILL_KEEP \in Nat \ {0} /\ fill_seq \in Nat /\ fill_count_ \in 0..FILL_KEEP
      /\ Len(pending_fills) \in Nat /\ Len(pending_fills) <= FILL_KEEP
      /\ Len(pending_fills) <= fill_seq
  BY LenProperties DEF TapeInv, RingType, PendingType
<1>3. RingType'
  BY <1>1 DEF TapeInv, RingType
<1>4. Len(pending_fills') = 0 /\ pending_fills' \in Seq(Int)
  BY <1>1, EmptySeq
<1>5. PendingType'
  BY <1>1, <1>2, <1>4 DEF TapeInv, PendingType
<1>6. fill_seq - Len(pending_fills) + row = fill_seq
  BY <1>1, <1>2
<1>7. fill_count_ = AtMostKept(fill_seq) /\ Newest(fill_seq, fill_count_)
  <2>1. CASE Len(pending_fills) < FILL_KEEP
    BY <1>1, <1>6, <2>1, Zenon DEF TapeInv, Publishing
  <2>2. CASE ~(Len(pending_fills) < FILL_KEEP)
    <3>1. row <= fill_count_ /\ Newest(fill_seq, row)
      BY <1>1, <1>6, <2>2, Zenon DEF TapeInv, Publishing
    <3>2. row = fill_count_ /\ fill_count_ = FILL_KEEP
      BY <1>1, <1>2, <2>2, <3>1
    <3>3. fill_count_ = AtMostKept(fill_seq)
      BY <1>1, <1>2, <3>2 DEF AtMostKept
    <3> QED BY <3>1, <3>2, <3>3
  <2> QED BY <2>1, <2>2
<1>8. (fill_count_ = AtMostKept(fill_seq) /\ Newest(fill_seq, fill_count_))'
  BY <1>1, <1>7, Zenon DEF Newest, Before
<1>9. /\ 1..Len(pending_fills') = {} /\ fill_seq' - Len(pending_fills') = fill_seq'
      /\ fill_seq' \in 0..(fill_seq' - Len(pending_fills')) /\ published' = fill_seq'
  BY <1>1, <1>2, <1>4
<1>10. Collecting'
  BY <1>8, <1>9, Zenon DEF Collecting
<1> QED BY <1>1, <1>3, <1>5, <1>10

\* The server copies the tape under the lock, so between publications.
LEMMA TapeCopied ==
  ASSUME TapeInv, Locks, ServerRest
  PROVE  TapeExact'
<1>1. /\ server_pc = "rest" /\ frame' = [bids |-> frame.bids, asks |-> asks_, fills |-> Tape]
      /\ shown' = published
  BY DEF ServerRest
<1>2. output_pc = "loop"
  BY <1>1 DEF Locks, TapeInv
<1>3. /\ FILL_KEEP \in Nat \ {0} /\ fill_seq \in Nat
      /\ fill_count_ \in 0..FILL_KEEP /\ Len(pending_fills) \in Nat
  BY LenProperties DEF TapeInv, RingType, PendingType
<1>4. /\ published \in 0..(fill_seq - Len(pending_fills))
      /\ fill_count_ = AtMostKept(published) /\ Newest(published, fill_count_)
  BY <1>2, Zenon DEF TapeInv, Collecting
<1>5. published \in Int
  BY <1>3, <1>4
<1>6. Tape = [i \in 1..fill_count_ |-> fills_[Before(fill_count_ - i + 1)]]
  BY TapeRows DEF TapeInv
<1>7. ASSUME NEW i \in 1..fill_count_
      PROVE  fills_[Before(fill_count_ - i + 1)] = published - fill_count_ + i
  <2>1. fill_count_ - i + 1 \in 1..fill_count_
    BY <1>3
  <2>2. fills_[Before(fill_count_ - i + 1)] = published + 1 - (fill_count_ - i + 1)
    BY <1>4, <2>1, Zenon DEF Newest
  <2> QED BY <1>3, <1>5, <2>2
<1>8. Tape = [i \in 1..fill_count_ |-> published - fill_count_ + i]
  BY <1>6, <1>7, Zenon
<1>9. frame'.fills = [i \in 1..AtMostKept(shown') |-> shown' - AtMostKept(shown') + i]
  BY <1>1, <1>4, <1>8
<1> QED BY <1>9 DEF TapeExact, AtMostKept

LEMMA TapeNext == HubInv /\ TapeInv /\ [HubNext]_hubVars => TapeInv'
<1> SUFFICES ASSUME Locks, TapeInv, [HubNext]_hubVars
             PROVE  TapeInv'
  BY DEF HubInv
<1> USE DEF dataVars, engineVars, outputVars, frameVars
<1>1. CASE Output
  <2>1. frame' = frame /\ shown' = shown
    BY <1>1 DEF Output, OutputFill, OutputPublish, OutputRow, OutputPublished
  <2>2. TapeExact'
    BY <2>1, Zenon DEF TapeInv, TapeExact
  <2>3. /\ RingType' /\ PendingType'
        /\ (output_pc' = "loop" /\ Collecting') \/ (output_pc' = "rows" /\ Publishing')
    <3>1. CASE OutputFill
      BY <3>1, FillWaits
    <3>2. CASE OutputPublish
      BY <3>2, PublicationStarts
    <3>3. CASE OutputRow
      BY <3>3, RowPublished
    <3>4. CASE OutputPublished
      BY <3>4, PublicationEnds
    <3> QED BY <1>1, <3>1, <3>2, <3>3, <3>4 DEF Output
  <2> QED BY <2>2, <2>3 DEF TapeInv
<1>2. CASE Engine \/ Server \/ UNCHANGED hubVars
  <2>1. UNCHANGED <<fills_, fill_head_, fill_count_, fill_seq, pending_fills, pending_head, row, output_pc,
                  published>>
    BY <1>2 DEF Engine, EngineLoop, EngineClear, EngineCopyBids, EngineCopyAsks,
       Server, request_book, ServerLock, ServerBids, ServerRest, hubVars
  <2>2. TapeExact'
    <3>1. ServerRest \/ (frame'.fills = frame.fills /\ shown' = shown)
      <4>1. CASE Engine
        BY <4>1 DEF Engine, EngineLoop, EngineClear, EngineCopyBids, EngineCopyAsks
      <4>2. CASE Server
        BY <4>2 DEF Server, request_book, ServerLock, ServerBids
      <4>3. CASE UNCHANGED hubVars
        BY <4>3 DEF hubVars
      <4> QED BY <1>2, <4>1, <4>2, <4>3
    <3>2. CASE frame'.fills = frame.fills /\ shown' = shown
      BY <3>2, Zenon DEF TapeInv, TapeExact
    <3> QED BY <3>1, <3>2, TapeCopied
  <2> QED BY <2>1, <2>2, TapeUntouched DEF TapeInv
<1> QED BY <1>1, <1>2 DEF HubNext

\* The tape of every frame is the newest published fills without a gap, for every size of
\* the two rings and every interleaving of fills, publications and frames.
THEOREM ExactTape == HubSpec => []TapeExact
<1>1. HubInit => TapeInv
  <2> SUFFICES ASSUME HubInit
               PROVE  TapeInv
    OBVIOUS
  <2>1. RingType
    BY HubAssumption DEF HubInit, RingType
  <2>2. PendingType /\ output_pc = "loop"
    BY HubAssumption, EmptySeq DEF HubInit, PendingType
  <2>3. /\ Len(pending_fills) = 0 /\ 1..Len(pending_fills) = {} /\ 0 \in 0..(fill_seq - Len(pending_fills))
        /\ fill_seq - Len(pending_fills) = 0 /\ fill_count_ = AtMostKept(0) /\ 1..fill_count_ = {}
        /\ published = 0
    <3>1. pending_fills = << >> /\ fill_seq = 0 /\ fill_count_ = 0 /\ published = 0
      BY DEF HubInit
    <3>2. AtMostKept(0) = 0
      BY HubAssumption DEF AtMostKept
    <3>3. Len(pending_fills) = 0
      BY <3>1
    <3>4. 0 - 0 = 0 /\ 1..0 = {} /\ 0 \in 0..0
      BY SMT
    <3>5. fill_seq - Len(pending_fills) = 0 /\ 1..Len(pending_fills) = {} /\ 1..fill_count_ = {}
      BY <3>1, <3>3, <3>4, Zenon
    <3> QED BY <3>1, <3>2, <3>3, <3>4, <3>5, Zenon
  <2>4. Newest(0, fill_count_)
    BY <2>3, Zenon DEF Newest
  <2>5. Collecting
    BY <2>3, <2>4, Zenon DEF Collecting
  <2>6. TapeExact
    <3>1. frame.fills = [i \in 1..AtMostKept(0) |-> 0 - AtMostKept(0) + i] /\ shown = 0
      BY HubAssumption DEF HubInit, AtMostKept
    <3> QED BY <3>1, Zenon DEF TapeExact, AtMostKept
  <2> QED BY <2>1, <2>2, <2>5, <2>6 DEF TapeInv
<1>2. TapeInv => TapeExact
  BY DEF TapeInv
<1> QED BY <1>1, <1>2, HubInvariance, TapeNext, PTL DEF HubSpec
================================================================================
