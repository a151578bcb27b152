-------------------------- MODULE WebSocketClientProofs --------------------------
(***************************************************************************)
(* Proofs about the reconnecting client, for any delays and any number of  *)
(* failures in a row: one attempt at a time, and the frame being written   *)
(* stays alive.                                                            *)
(*                                                                         *)
(* The client has no variable that says where it is.  The invariant        *)
(* recovers it from the operations under way: the wait for a reconnect,    *)
(* the look-up of the host and each step of the handshake exclude each     *)
(* other and all reads and writes of a live connection, since the backoff  *)
(* ends only when the handlers of the dead connection have run.            *)
(***************************************************************************)
EXTENDS WebSocketClient, FiniteSetTheorems, SequenceTheorems, TLAPS

Entry == [op : Ops \cup {"send", "stop"}, result : {"ok", "failed", "aborted"}]

\* e is the handler of an operation op that was not aborted
Live(e, op) == e.op = op /\ e.result # "aborted"

\* at most one such handler is in s
Once(s, op) == \A i, j \in 1..Len(s) : Live(s[i], op) /\ Live(s[j], op) => i = j

\* one is in s
Waits(s, op) == \E e \in Range(s) : Live(e, op)

Attempting(op) == op \in pending \/ Waits(ready, op)

HandshakeOps == {"connect", "tls", "handshake"}
AttemptOps == HandshakeOps \cup {"timer", "resolve"}
Counted == AttemptOps \cup {"read", "write", "send", "stop"}

TypeInv ==
  /\ conn \in {"fresh", "open", "closing", "shut"}
  /\ write_queue_ \in Nat /\ written \in Nat /\ writing_ \in BOOLEAN
  /\ stopping_ \in BOOLEAN /\ stop_called \in BOOLEAN
  /\ pending \subseteq Ops /\ ready \in Seq(Entry)
  /\ \A e \in Range(ready) : e.result = "aborted" => e.op \in SocketOps

Single ==
  \A op \in Counted : Once(ready, op) /\ (op \in pending => ~Waits(ready, op))

\* nothing but handlers of ops is due
Only(ops) == \A e \in Range(ready) : e.op \in ops
NoneAborted == \A e \in Range(ready) : e.result # "aborted"

Phases ==
  /\ "timer" \in pending =>
       pending = {"timer"} /\ conn = "shut" /\ \A op \in AttemptOps : ~Waits(ready, op)
  /\ Waits(ready, "timer") => pending = {} /\ conn = "shut" /\ Only({"timer", "stop"})
  /\ Attempting("resolve") =>
       pending \subseteq {"resolve"} /\ conn \in {"fresh", "shut"} /\ Only({"resolve", "stop"})
  /\ \A op \in {"connect", "tls"} : Attempting(op) =>
       /\ pending \subseteq {op} /\ Only({op, "stop"}) /\ NoneAborted
       /\ conn \in {"fresh", "shut"} /\ (op \in pending => conn = "fresh")
  /\ Attempting("handshake") =>
       /\ pending \subseteq {"handshake", "close"} /\ Only({"handshake", "stop", "close"})
       /\ NoneAborted
       /\ "handshake" \in pending => pending = {"handshake"} /\ conn = "fresh"
  /\ conn # "shut" => NoneAborted

\* stop() is called once; its handler has not run, or has and will not again
Stopping ==
  /\ Waits(ready, "stop") => stop_called /\ ~stopping_
  /\ stopping_ => stop_called
  /\ "close" \in pending => stopping_

Frames ==
  /\ written + write_queue_ <= 1
  /\ Waits(ready, "send") => written = 0 /\ write_queue_ = 0
  /\ \A op \in HandshakeOps \cup {"resolve"} :
       Attempting(op) => written = 0 /\ write_queue_ = 0 /\ ~writing_
  /\ Attempting("write") => writing_ /\ write_queue_ > 0
  /\ (\E e \in Range(ready) : e.op = "write" /\ e.result = "aborted") => ~Attempting("write")

IInv == TypeInv /\ Single /\ Phases /\ Stopping /\ Frames

(***************************************************************************)
(* Handlers added to and taken from the queue of the io_context            *)
(***************************************************************************)

\* The elements of a sequence are what its places hold.
LEMMA Elements ==
  ASSUME NEW S, NEW s \in Seq(S)
  PROVE  /\ \A i \in 1..Len(s) : s[i] \in Range(s)
         /\ \A e \in Range(s) : e \in S /\ \E i \in 1..Len(s) : e = s[i]
<1>1. DOMAIN s = 1..Len(s) /\ \A i \in 1..Len(s) : s[i] \in S
  BY LenProperties, ElementOfSeq
<1> QED
  BY <1>1 DEF Range

\* Serving a handler takes it from the queue; if at most one of its kind was due, none
\* is left.
LEMMA Served ==
  ASSUME NEW S, NEW s \in Seq(S), s # << >>
  PROVE  /\ Tail(s) \in Seq(S) /\ Head(s) \in Range(s)
         /\ Range(Tail(s)) \subseteq Range(s)
         /\ \A op : Once(s, op) => /\ Once(Tail(s), op)
                                   /\ Live(Head(s), op) => ~Waits(Tail(s), op)
<1>1. /\ Tail(s) \in Seq(S) /\ Len(Tail(s)) = Len(s) - 1 /\ Len(s) \in Nat \ {0}
      /\ \A i \in 1..Len(Tail(s)) : Tail(s)[i] = s[i + 1]
      /\ Head(s) = s[1]
  BY HeadTailProperties, EmptySeq, LenProperties
<1> DEFINE t == Tail(s)
<1> HIDE DEF t
<1>2. /\ \A i \in 1..Len(s) : s[i] \in Range(s)
      /\ \A e \in Range(t) : \E i \in 1..Len(t) : e = t[i]
  <2>1. t \in Seq(S)
    BY <1>1 DEF t
  <2>2. \A e \in Range(t) : e \in S /\ \E i \in 1..Len(t) : e = t[i]
    BY <2>1, Elements
  <2>3. \A i \in 1..Len(s) : s[i] \in Range(s)
    BY Elements
  <2> QED
    BY <2>2, <2>3
<1>3. Len(t) = Len(s) - 1 /\ Len(s) \in Nat /\ 1 \in 1..Len(s) /\ \A i \in 1..Len(t) : t[i] = s[i + 1]
  BY <1>1 DEF t
<1>4. Head(s) \in Range(s)
  BY <1>1, <1>2, <1>3
<1>5. ASSUME NEW e \in Range(t) PROVE \E i \in 1..Len(s) : i # 1 /\ e = s[i]
  <2>1. PICK i \in 1..Len(t) : e = t[i]
    BY <1>2, <1>5
  <2>2. i + 1 \in 1..Len(s) /\ i + 1 # 1 /\ e = s[i + 1]
    BY <2>1, <1>3
  <2> QED
    BY <2>2
<1>6. Range(t) \subseteq Range(s)
  BY <1>2, <1>5
<1>7. ASSUME NEW op, Once(s, op) PROVE Once(t, op)
  <2> SUFFICES ASSUME NEW i \in 1..Len(t), NEW j \in 1..Len(t), Live(t[i], op), Live(t[j], op)
               PROVE  i = j
    BY DEF Once
  <2>1. i + 1 \in 1..Len(s) /\ j + 1 \in 1..Len(s) /\ t[i] = s[i + 1] /\ t[j] = s[j + 1]
    BY <1>3
  <2>2. i + 1 = j + 1
    BY <1>7, <2>1, Zenon DEF Once
  <2> QED
    BY <2>2
<1>8. ASSUME NEW op, Once(s, op), Live(Head(s), op), Waits(t, op) PROVE FALSE
  <2>1. PICK e \in Range(t) : Live(e, op)
    BY <1>8 DEF Waits
  <2>2. PICK i \in 1..Len(s) : i # 1 /\ e = s[i]
    BY <1>5
  <2> QED
    BY <1>1, <1>3, <1>8, <2>1, <2>2, Zenon DEF Once
<1> QED
  BY <1>1, <1>4, <1>6, <1>7, <1>8 DEF t

\* Handlers that become due are put at the end, here a sequence of them.
LEMMA Joined ==
  ASSUME NEW S, NEW s \in Seq(S), NEW t \in Seq(S)
  PROVE  /\ s \o t \in Seq(S) /\ Range(s \o t) = Range(s) \cup Range(t)
         /\ \A op : Once(s, op) /\ Once(t, op) /\ ~(Waits(s, op) /\ Waits(t, op)) => Once(s \o t, op)
<1> DEFINE r == s \o t
<1>1. /\ r \in Seq(S) /\ Len(r) = Len(s) + Len(t) /\ Len(s) \in Nat /\ Len(t) \in Nat
      /\ \A i \in 1..Len(s) : r[i] = s[i]
      /\ \A i \in 1..Len(t) : r[Len(s) + i] = t[i]
  <2>1. /\ r \in Seq(S) /\ Len(r) = Len(s) + Len(t)
        /\ \A i \in 1..(Len(s) + Len(t)) : r[i] = IF i <= Len(s) THEN s[i] ELSE t[i - Len(s)]
    BY ConcatProperties, Zenon
  <2>2. Len(s) \in Nat /\ Len(t) \in Nat
    BY LenProperties
  <2> HIDE DEF r
  <2>3. \A i \in 1..Len(s) : r[i] = s[i]
    BY <2>1, <2>2
  <2>4. ASSUME NEW i \in 1..Len(t) PROVE r[Len(s) + i] = t[i]
    <3>1. Len(s) + i \in 1..(Len(s) + Len(t)) /\ ~(Len(s) + i <= Len(s)) /\ (Len(s) + i) - Len(s) = i
      BY <2>2
    <3> QED
      BY <2>1, <3>1
  <2> QED
    BY <2>1, <2>2, <2>3, <2>4
<1> HIDE DEF r
<1>2. /\ \A i \in 1..Len(s) : s[i] \in Range(s)
      /\ \A e \in Range(s) : \E i \in 1..Len(s) : e = s[i]
  BY Elements, Zenon
<1>3. /\ \A i \in 1..Len(t) : t[i] \in Range(t)
      /\ \A e \in Range(t) : \E i \in 1..Len(t) : e = t[i]
  BY Elements, Zenon
<1>4. /\ \A i \in 1..Len(r) : r[i] \in Range(r)
      /\ \A e \in Range(r) : \E i \in 1..Len(r) : e = r[i]
  <2>1. r \in Seq(S)
    BY <1>1
  <2>2. \A i \in 1..Len(r) : r[i] \in Range(r)
    BY <2>1, Elements
  <2>3. \A e \in Range(r) : e \in S /\ \E i \in 1..Len(r) : e = r[i]
    BY <2>1, Elements
  <2> QED
    BY <2>2, <2>3
<1>5. ASSUME NEW i \in 1..Len(r)
      PROVE  \/ i \in 1..Len(s) /\ r[i] = s[i]
             \/ i - Len(s) \in 1..Len(t) /\ r[i] = t[i - Len(s)]
  <2>1. CASE i <= Len(s)
    BY <1>1, <2>1
  <2>2. CASE ~(i <= Len(s))
    <3>1. i - Len(s) \in 1..Len(t) /\ i = Len(s) + (i - Len(s))
      BY <1>1, <2>2
    <3> QED
      BY <1>1, <3>1
  <2> QED
    BY <2>1, <2>2
<1>6. Range(r) \subseteq Range(s) \cup Range(t)
  <2> SUFFICES ASSUME NEW e \in Range(r) PROVE e \in Range(s) \cup Range(t)
    OBVIOUS
  <2>1. PICK i \in 1..Len(r) : e = r[i]
    BY <1>4
  <2> QED
    BY <2>1, <1>2, <1>3, <1>5
<1>7. Range(s) \subseteq Range(r)
  <2> SUFFICES ASSUME NEW e \in Range(s) PROVE e \in Range(r)
    OBVIOUS
  <2>1. PICK i \in 1..Len(s) : e = s[i]
    BY <1>2
  <2>2. i \in 1..Len(r) /\ r[i] = e
    BY <1>1, <2>1
  <2> QED
    BY <1>4, <2>2
<1>8. Range(t) \subseteq Range(r)
  <2> SUFFICES ASSUME NEW e \in Range(t) PROVE e \in Range(r)
    OBVIOUS
  <2>1. PICK i \in 1..Len(t) : e = t[i]
    BY <1>3
  <2>2. Len(s) + i \in 1..Len(r) /\ r[Len(s) + i] = e
    BY <1>1, <2>1
  <2> QED
    BY <1>4, <2>2
<1>9. ASSUME NEW op, Once(s, op), Once(t, op), ~(Waits(s, op) /\ Waits(t, op))
      PROVE  Once(r, op)
  <2> SUFFICES ASSUME NEW i \in 1..Len(r), NEW j \in 1..Len(r), Live(r[i], op), Live(r[j], op)
               PROVE  i = j
    BY DEF Once
  <2>1. CASE i \in 1..Len(s) /\ r[i] = s[i] /\ j \in 1..Len(s) /\ r[j] = s[j]
    BY <1>9, <2>1 DEF Once
  <2>2. CASE /\ i - Len(s) \in 1..Len(t) /\ r[i] = t[i - Len(s)]
             /\ j - Len(s) \in 1..Len(t) /\ r[j] = t[j - Len(s)]
    <3>1. i - Len(s) = j - Len(s)
      BY <1>9, <2>2, Zenon DEF Once
    <3> QED
      BY <1>1, <3>1
  <2>3. CASE (r[i] \in Range(s) /\ r[j] \in Range(t)) \/ (r[j] \in Range(s) /\ r[i] \in Range(t))
    BY <1>9, <2>3 DEF Waits
  <2> QED
    BY <1>2, <1>3, <1>5, <2>1, <2>2, <2>3
<1> QED
  BY <1>1, <1>6, <1>7, <1>8, <1>9 DEF r

\* One handler becomes due.
LEMMA Appended ==
  ASSUME NEW S, NEW s \in Seq(S), NEW e \in S
  PROVE  /\ Append(s, e) \in Seq(S) /\ Range(Append(s, e)) = Range(s) \cup {e}
         /\ \A op : Once(s, op) /\ ~(Waits(s, op) /\ Live(e, op)) => Once(Append(s, e), op)
<1>1. <<e>> \in Seq(S) /\ Append(s, e) = s \o <<e>> /\ Len(<<e>>) = 1 /\ <<e>>[1] = e
  OBVIOUS
<1>2. Range(<<e>>) = {e}
  BY <1>1, Elements DEF Range
<1>3. \A op : Once(<<e>>, op) /\ (Waits(<<e>>, op) <=> Live(e, op))
  BY <1>1, <1>2 DEF Once, Waits
<1>4. /\ s \o <<e>> \in Seq(S) /\ Range(s \o <<e>>) = Range(s) \cup Range(<<e>>)
      /\ \A op : Once(s, op) /\ Once(<<e>>, op) /\ ~(Waits(s, op) /\ Waits(<<e>>, op))
                   => Once(s \o <<e>>, op)
  BY <1>1, Joined
<1> QED
  BY <1>1, <1>2, <1>3, <1>4
(***************************************************************************)
(* What the invariant says of the handler that is served                   *)
(***************************************************************************)

\* Serving a handler, with the invariant's types.
LEMMA Popped ==
  ASSUME TypeInv, Single, ready # << >>
  PROVE  /\ Tail(ready) \in Seq(Entry) /\ Head(ready) \in Entry /\ Head(ready) \in Range(ready)
         /\ Range(Tail(ready)) \subseteq Range(ready) /\ Range(ready) \subseteq Entry
         /\ \A op : Waits(Tail(ready), op) => Waits(ready, op)
         /\ \A op : Live(Head(ready), op) => Waits(ready, op)
         /\ \A op \in Counted : /\ Once(Tail(ready), op)
                                /\ Live(Head(ready), op) => ~Waits(Tail(ready), op)
<1>1. ready \in Seq(Entry) /\ \A op \in Counted : Once(ready, op)
  BY DEF TypeInv, Single
<1>2. /\ Tail(ready) \in Seq(Entry) /\ Head(ready) \in Range(ready)
      /\ Range(Tail(ready)) \subseteq Range(ready)
      /\ \A op : Once(ready, op) => /\ Once(Tail(ready), op)
                                    /\ Live(Head(ready), op) => ~Waits(Tail(ready), op)
  BY <1>1, Served
<1>3. Range(ready) \subseteq Entry
  BY <1>1, Elements
<1>4. ASSUME NEW op PROVE Waits(Tail(ready), op) => Waits(ready, op)
  BY <1>2, Zenon DEF Waits
<1>5. ASSUME NEW op PROVE Live(Head(ready), op) => Waits(ready, op)
  BY <1>2, Zenon DEF Waits
<1> QED
  BY <1>1, <1>2, <1>3, <1>4, <1>5

\* The handler of a step towards a connection has the client to itself: nothing else
\* is under way but stop() and, after it, the closing of the websocket.
LEMMA Exclusive ==
  ASSUME IInv, ready # << >>, NEW op \in AttemptOps, Live(Head(ready), op)
  PROVE  /\ pending \subseteq {"close"} /\ (op # "handshake" => pending = {})
         /\ \A e \in Range(Tail(ready)) :
              /\ e.result # "aborted"
              /\ e.op = "stop" \/ (op = "handshake" /\ e.op = "close")
         /\ op # "timer" => written = 0 /\ write_queue_ = 0 /\ ~writing_
<1>1. TypeInv /\ Single /\ Phases /\ Frames
  BY DEF IInv
<1>2. Waits(ready, op) /\ op \notin pending /\ ~Waits(Tail(ready), op)
  BY <1>1, Popped DEF Single, Counted
<1>3. Range(Tail(ready)) \subseteq Range(ready)
      /\ \A e \in Range(ready) : e.result = "aborted" => e.op \in SocketOps
  BY <1>1, Popped DEF TypeInv
<1>4. \A e \in Range(Tail(ready)) : ~Live(e, op)
  BY <1>2 DEF Waits
<1>5. CASE op = "timer"
  BY <1>1, <1>2, <1>3, <1>4, <1>5 DEF Phases, Only, Live, SocketOps
<1>6. CASE op = "resolve"
  BY <1>1, <1>2, <1>3, <1>4, <1>6 DEF Phases, Only, Live, SocketOps, Attempting, Frames
<1>7. CASE op \in {"connect", "tls"}
  <2>1. pending \subseteq {op} /\ Only({op, "stop"}) /\ NoneAborted
    BY <1>1, <1>2, <1>7 DEF Phases, Attempting
  <2>2. written = 0 /\ write_queue_ = 0 /\ ~writing_
    BY <1>1, <1>2, <1>7 DEF Frames, Attempting, HandshakeOps
  <2> QED
    BY <1>2, <1>3, <1>4, <1>7, <2>1, <2>2 DEF Only, NoneAborted, Live
<1>8. CASE op = "handshake"
  <2>1. pending \subseteq {op, "close"} /\ Only({op, "stop", "close"}) /\ NoneAborted
    BY <1>1, <1>2, <1>8 DEF Phases, Attempting
  <2>2. written = 0 /\ write_queue_ = 0 /\ ~writing_
    BY <1>1, <1>2, <1>8 DEF Frames, Attempting, HandshakeOps
  <2> QED
    BY <1>2, <1>3, <1>4, <1>8, <2>1, <2>2 DEF Only, NoneAborted, Live
<1> QED
  BY <1>5, <1>6, <1>7, <1>8 DEF AttemptOps, HandshakeOps

\* A handler that only leaves the queue disturbs nothing, nor does the end of a write
\* that takes back writing_.
LEMMA JustServed ==
  ASSUME IInv, ready # << >>, ready' = Tail(ready),
         UNCHANGED <<conn, pending, write_queue_, written, stopping_, stop_called>>,
         writing_' = writing_ \/ (Head(ready).op = "write" /\ writing_' = FALSE)
  PROVE  IInv'
<1>1. TypeInv /\ Single /\ Phases /\ Stopping /\ Frames
  BY DEF IInv
<1>2. /\ ready' \in Seq(Entry) /\ Range(ready') \subseteq Range(ready) /\ Head(ready) \in Range(ready)
      /\ \A op : Waits(ready', op) => Waits(ready, op)
      /\ \A op \in Counted : Once(ready', op) /\ (Live(Head(ready), op) => ~Waits(ready', op))
  BY <1>1, Popped
<1>3. \A op : Attempting(op)' => Attempting(op)
  BY <1>2 DEF Attempting
<1>4. writing_' \in BOOLEAN /\ (writing_' => writing_)
  <2>1. writing_ \in BOOLEAN
    BY <1>1 DEF TypeInv
  <2>2. CASE writing_' = writing_
    BY <2>1, <2>2, Zenon
  <2>3. CASE writing_' = FALSE
    BY <2>3, Zenon
  <2> QED
    BY <2>2, <2>3, Zenon
<1>5. TypeInv'
  BY <1>1, <1>2, <1>4 DEF TypeInv
<1>6. Single'
  BY <1>1, <1>2 DEF Single
<1>7. Phases'
  BY <1>1, <1>2, <1>3 DEF Phases, Only, NoneAborted
<1>8. Stopping'
  BY <1>1, <1>2 DEF Stopping
<1>9. Attempting("write")' => writing_' /\ write_queue_' > 0
  <2>1. CASE writing_' = writing_
    BY <1>1, <1>3, <2>1 DEF Frames
  <2>2. CASE Head(ready).op = "write"
    <3>1. CASE Head(ready).result = "aborted"
      <4>1. ~Attempting("write")
        BY <1>1, <1>2, <2>2, <3>1 DEF Frames
      <4> QED
        BY <1>3, <4>1
    <3>2. CASE Head(ready).result # "aborted"
      <4>1. Waits(ready, "write") /\ ~Waits(ready', "write")
        BY <1>1, <1>2, <2>2, <3>2, Popped DEF Live, Counted
      <4> QED
        BY <1>1, <4>1 DEF Single, Counted, Attempting
    <3> QED
      BY <3>1, <3>2
  <2> QED
    BY <2>1, <2>2
<1>10. Frames'
  BY <1>1, <1>2, <1>3, <1>4, <1>9 DEF Frames
<1> QED
  BY <1>5, <1>6, <1>7, <1>8, <1>10 DEF IInv
(***************************************************************************)
(* Each step preserves the invariant                                       *)
(***************************************************************************)

\* Closing the transport makes handlers due for the pending socket operations only, all
\* of them with an error that they recognise.
LEMMA AbortedHandlers ==
  ASSUME pending \subseteq Ops, NEW a \in Aborted
  PROVE  /\ a \in Seq(Entry)
         /\ \A e \in Range(a) : e.result = "aborted" /\ e.op \in pending \cap SocketOps
         /\ \A op : Once(a, op) /\ ~Waits(a, op)
<1> DEFINE S == pending \cap SocketOps
<1>1. S \subseteq Ops /\ S \subseteq SocketOps /\ IsFiniteSet(SocketOps)
  <2>1. IsFiniteSet({"connect"} \cup {"tls"} \cup {"handshake"} \cup {"read"} \cup {"write"} \cup {"close"})
    BY FS_Singleton, FS_Union, Zenon
  <2>2. SocketOps = {"connect"} \cup {"tls"} \cup {"handshake"} \cup {"read"} \cup {"write"} \cup {"close"}
    BY DEF SocketOps
  <2> QED
    BY <2>1, <2>2
<1>2. Cardinality(S) \in Nat
  BY <1>1, FS_Subset, FS_CardinalityType, Zenon
<1>3. PICK order \in Orders(S) : a = [i \in DOMAIN order |-> Due(order[i], "aborted")]
  BY DEF Aborted
<1> HIDE DEF S
<1>4. order \in [1..Cardinality(S) -> S]
  BY Zenon DEF Orders, Bijection, Injection
<1>5. PICK n \in Nat : n = Cardinality(S)
  BY <1>2
<1>6. a = [i \in 1..n |-> Due(order[i], "aborted")] /\ \A i \in 1..n : order[i] \in S
  BY <1>3, <1>4, <1>5
<1>7. \A i \in 1..n : Due(order[i], "aborted") \in Entry
  BY <1>1, <1>6 DEF Due, Entry
<1>8. a \in Seq(Entry)
  BY <1>6, <1>7
<1>9. \A i \in 1..n : a[i].result = "aborted" /\ a[i].op \in S
  BY <1>6 DEF Due
<1>10. Len(a) = n
  BY <1>6, <1>8
<1>11. \A e \in Range(a) : e.result = "aborted" /\ e.op \in S
  BY <1>8, <1>9, <1>10, Elements
<1>12. \A op : Once(a, op) /\ ~Waits(a, op)
  BY <1>9, <1>10, <1>11 DEF Once, Waits, Live
<1> QED
  BY <1>8, <1>11, <1>12 DEF S

\* Closing the transport behind the handler that is served: the aborted operations are
\* due, nothing else is new.
LEMMA TransportClosed ==
  ASSUME TypeInv, Single, ready # << >>, NEW a \in Aborted, ready' = Tail(ready) \o a
  PROVE  /\ ready' \in Seq(Entry)
         /\ \A op : Waits(ready', op) <=> Waits(Tail(ready), op)
         /\ \A op \in Counted : Once(ready', op)
         /\ \A e \in Range(ready') : \/ e \in Range(Tail(ready))
                                     \/ e.result = "aborted" /\ e.op \in pending \cap SocketOps
<1>1. /\ a \in Seq(Entry)
      /\ \A e \in Range(a) : e.result = "aborted" /\ e.op \in pending \cap SocketOps
      /\ \A op : Once(a, op) /\ ~Waits(a, op)
  BY AbortedHandlers DEF TypeInv
<1>2. Tail(ready) \in Seq(Entry) /\ \A op \in Counted : Once(Tail(ready), op)
  BY Popped
<1>3. /\ ready' \in Seq(Entry) /\ Range(ready') = Range(Tail(ready)) \cup Range(a)
      /\ \A op : Once(Tail(ready), op) /\ Once(a, op) /\ ~(Waits(Tail(ready), op) /\ Waits(a, op))
                   => Once(ready', op)
  BY <1>1, <1>2, Joined
<1>4. \A op : Waits(ready', op) <=> Waits(Tail(ready), op)
  BY <1>1, <1>3, Zenon DEF Waits
<1> QED
  BY <1>1, <1>2, <1>3, <1>4

\* schedule_reconnect, whichever handler calls it: the wait for the next attempt is all
\* that is pending, and what is left of the dead connection can only be served.
LEMMA Rescheduled ==
  ASSUME IInv, ready # << >>, Head(ready).op \in HandshakeOps \cup {"resolve", "read", "write"},
         NEW result, result = "aborted" <=> Head(ready).result = "aborted",
         schedule_reconnect(result),
         UNCHANGED <<write_queue_, written, stopping_, stop_called>>,
         writing_' = writing_ \/ (Head(ready).op = "write" /\ writing_' = FALSE)
  PROVE  IInv'
<1>1. TypeInv /\ Single /\ Phases /\ Stopping /\ Frames
  BY DEF IInv
<1>2. CASE stopping_ \/ result = "aborted"
  <2>1. ready' = Tail(ready) /\ UNCHANGED <<conn, pending>>
    BY <1>2, Zenon DEF schedule_reconnect
  <2> QED
    BY <2>1, JustServed
<1>3. CASE ~(stopping_ \/ result = "aborted")
  <2>1. /\ conn' = "shut" /\ pending' = (pending \ SocketOps) \cup {"timer"}
        /\ \E a \in Aborted : ready' = Tail(ready) \o a
    BY <1>3, Zenon DEF schedule_reconnect
  <2> DEFINE h == Head(ready)
             t == Tail(ready)
  <2>2. PICK a \in Aborted : ready' = t \o a
    BY <2>1
  <2>3. /\ ready' \in Seq(Entry)
        /\ \A op : Waits(ready', op) <=> Waits(t, op)
        /\ \A op \in Counted : Once(ready', op)
        /\ \A e \in Range(ready') : \/ e \in Range(t)
                                    \/ e.result = "aborted" /\ e.op \in pending \cap SocketOps
    BY <1>1, <2>2, TransportClosed
  <2>4. /\ Range(t) \subseteq Range(ready) /\ h \in Range(ready)
        /\ \A op : Waits(t, op) => Waits(ready, op)
        /\ Waits(ready, h.op) /\ ~Waits(t, h.op) /\ h.op \notin pending
    <3>1. Live(h, h.op) /\ h.op \in Counted
      BY <1>3 DEF Live, Counted, AttemptOps, HandshakeOps
    <3> QED
      BY <1>1, <3>1, Popped DEF Single
  <2>5. "resolve" \notin pending /\ \A op \in AttemptOps : ~Waits(t, op)
    <3>1. CASE h.op \in AttemptOps
      <4>1. /\ pending \subseteq {"close"}
            /\ \A e \in Range(t) : e.op \in {"stop", "close"}
        BY <1>3, <3>1, Exclusive DEF Live
      <4> QED
        BY <4>1 DEF Waits, Live, AttemptOps, HandshakeOps
    <3>2. CASE h.op \notin AttemptOps
      <4>1. h.op \in {"read", "write"}
        BY <3>2 DEF AttemptOps
      <4>2. ~Waits(ready, "timer") /\ ~Attempting("resolve") /\ ~Attempting("connect")
            /\ ~Attempting("tls") /\ ~Attempting("handshake")
        BY <1>1, <2>4, <4>1 DEF Phases, Only
      <4> QED
        BY <2>4, <4>2 DEF Attempting, AttemptOps, HandshakeOps
    <3> QED
      BY <3>1, <3>2
  <2>6. pending' = {"timer"}
    BY <1>1, <2>1, <2>5 DEF TypeInv, Ops
  <2> HIDE DEF h, t
  <2>7. writing_' \in BOOLEAN
    BY <1>1, Zenon DEF TypeInv
  <2>8. TypeInv'
    BY <1>1, <2>1, <2>3, <2>4, <2>6, <2>7 DEF TypeInv, Ops
  <2>9. Single'
    BY <2>3, <2>5, <2>6 DEF Single, AttemptOps
  <2>10. Phases'
    BY <2>1, <2>3, <2>5, <2>6 DEF Phases, Attempting, AttemptOps, HandshakeOps
  <2>11. Stopping'
    BY <1>1, <2>3, <2>4, <2>6 DEF Stopping
  <2>12. Attempting("write")' => Waits(t, "write")
    BY <2>3, <2>6 DEF Attempting
  <2>13. Waits(t, "write") => Attempting("write") /\ writing_' = writing_ /\ "write" \notin pending
    BY <1>1, <2>4 DEF Attempting, h, Single, Counted
  <2>14. Attempting("write")' => writing_' /\ write_queue_' > 0
    BY <1>1, <2>12, <2>13 DEF Frames
  <2>15. (\E e \in Range(ready') : e.op = "write" /\ e.result = "aborted") => ~Attempting("write")'
    BY <1>1, <2>3, <2>4, <2>12, <2>13 DEF Frames
  <2>16. \A op \in HandshakeOps \cup {"resolve"} : ~Attempting(op)'
    BY <2>3, <2>5, <2>6 DEF Attempting, AttemptOps, HandshakeOps
  <2>17. Frames'
    BY <1>1, <2>3, <2>4, <2>14, <2>15, <2>16 DEF Frames
  <2> QED
    BY <2>8, <2>9, <2>10, <2>11, <2>17 DEF IInv
<1> QED
  BY <1>2, <1>3
\* A step towards a connection begins when nothing else is under way: its operation is
\* pending on a fresh stream, or has failed at once on one that is shut.
LEMMA StepBegins ==
  ASSUME IInv, ready # << >>, pending = {}, NEW op \in HandshakeOps \cup {"resolve"},
         \A e \in Range(Tail(ready)) : e.result # "aborted" /\ e.op = "stop",
         \/ pending' = {op} /\ ready' = Tail(ready) /\ conn' = "fresh"
         \/ /\ pending' = {} /\ ready' = Append(Tail(ready), Due(op, "failed")) /\ conn' = "shut"
            /\ op # "resolve",
         written' = 0, write_queue_' = 0, writing_' = FALSE, UNCHANGED <<stopping_, stop_called>>
  PROVE  IInv'
<1>1. TypeInv /\ Single /\ Stopping
  BY DEF IInv
<1>2. /\ Tail(ready) \in Seq(Entry)
      /\ \A o \in Counted : Once(Tail(ready), o)
      /\ \A o : Waits(Tail(ready), o) => Waits(ready, o)
  BY <1>1, Popped
<1>3. \A o : Waits(Tail(ready), o) => o = "stop"
  BY DEF Waits, Live
<1>4. Due(op, "failed") \in Entry /\ Due(op, "failed").op = op /\ Due(op, "failed").result = "failed"
  BY DEF Due, Entry, HandshakeOps, Ops, SocketOps
<1>5. op \in AttemptOps /\ op \in Counted /\ op # "timer" /\ op # "stop" /\ op # "write" /\ op # "send"
      /\ op \in Ops /\ op # "close" /\ op # "read"
  BY DEF AttemptOps, Counted, HandshakeOps, Ops, SocketOps
<1>6. /\ ready' \in Seq(Entry)
      /\ \A o \in Counted : Once(ready', o)
      /\ \A e \in Range(ready') : e.result # "aborted" /\ e.op \in {op, "stop"}
      /\ Waits(ready', "stop") => Waits(Tail(ready), "stop")
      /\ \A o : Waits(ready', o) => o \in {op, "stop"}
      /\ op \in pending' => ~Waits(ready', op)
  <2>1. CASE pending' = {op} /\ ready' = Tail(ready)
    BY <1>2, <1>3, <1>5, <2>1
  <2>2. CASE pending' = {} /\ ready' = Append(Tail(ready), Due(op, "failed"))
    <3>1. /\ ready' \in Seq(Entry) /\ Range(ready') = Range(Tail(ready)) \cup {Due(op, "failed")}
          /\ \A o : Once(Tail(ready), o) /\ ~(Waits(Tail(ready), o) /\ Live(Due(op, "failed"), o))
                      => Once(ready', o)
      BY <1>2, <1>4, <2>2, Appended
    <3>2. \A o : ~(Waits(Tail(ready), o) /\ Live(Due(op, "failed"), o))
      BY <1>3, <1>4, <1>5 DEF Live
    <3>3. \A o : Waits(ready', o) => Waits(Tail(ready), o) \/ o = op
      BY <3>1, <1>4 DEF Waits, Live
    <3> QED
      BY <1>2, <1>3, <1>4, <1>5, <2>2, <3>1, <3>2, <3>3
  <2> QED
    BY <2>1, <2>2
<1>7. writing_' \in BOOLEAN /\ ~writing_'
  BY Zenon
<1>8. pending' \subseteq {op} /\ conn' \in {"fresh", "shut"} /\ (op \in pending' => conn' = "fresh")
      /\ (op = "resolve" => conn' = "fresh")
  OBVIOUS
<1>9. TypeInv'
  BY <1>1, <1>5, <1>6, <1>7, <1>8 DEF TypeInv
<1>10. Single'
  BY <1>6, <1>8 DEF Single
<1>11. \A o : Attempting(o)' => o \in {op, "stop"}
  BY <1>6, <1>8 DEF Attempting
<1>12. Phases'
  BY <1>5, <1>6, <1>8, <1>11 DEF Phases, Only, NoneAborted, HandshakeOps
<1>13. Stopping'
  BY <1>1, <1>2, <1>5, <1>6, <1>8 DEF Stopping
<1>14. Frames'
  BY <1>5, <1>6, <1>7, <1>11 DEF Frames
<1> QED
  BY <1>9, <1>10, <1>12, <1>13, <1>14 DEF IInv

\* The host is resolved, or is not.
LEMMA ResolvedKeeps == IInv /\ on_resolved => IInv'
<1> SUFFICES ASSUME IInv, on_resolved PROVE IInv'
  OBVIOUS
<1>1. ready # << >> /\ Head(ready).op = "resolve"
      /\ UNCHANGED <<write_queue_, writing_, stopping_, stop_called, written>>
  BY DEF on_resolved, Serve
<1>2. CASE Head(ready).result = "ok"
  <2>1. /\ pending = {} /\ written = 0 /\ write_queue_ = 0 /\ ~writing_
        /\ \A e \in Range(Tail(ready)) : e.result # "aborted" /\ e.op = "stop"
    BY <1>1, <1>2, Exclusive DEF Live, AttemptOps
  <2>2. pending' = {"connect"} /\ ready' = Tail(ready) /\ conn' = "fresh"
    BY <1>2, <2>1 DEF on_resolved
  <2>3. writing_' = FALSE
    BY <1>1, <2>1, Zenon DEF IInv, TypeInv
  <2> QED
    BY <1>1, <2>1, <2>2, <2>3, StepBegins DEF HandshakeOps
<1>3. CASE Head(ready).result # "ok"
  BY <1>1, <1>3, Rescheduled DEF on_resolved
<1> QED
  BY <1>2, <1>3

\* The socket is connected, or is not, or the host name cannot be set.
LEMMA ConnectedKeeps == IInv /\ on_tcp_connected => IInv'
<1> SUFFICES ASSUME IInv, on_tcp_connected PROVE IInv'
  OBVIOUS
<1>1. ready # << >> /\ Head(ready).op = "connect" /\ Head(ready).op \in HandshakeOps
      /\ UNCHANGED <<write_queue_, writing_, stopping_, stop_called, written>>
  BY DEF on_tcp_connected, Serve, HandshakeOps
<1>2. CASE Head(ready).result = "ok" /\ Start("tls") /\ conn' = conn
  <2>1. /\ pending = {} /\ written = 0 /\ write_queue_ = 0 /\ ~writing_
        /\ \A e \in Range(Tail(ready)) : e.result # "aborted" /\ e.op = "stop"
    BY <1>1, <1>2, Exclusive DEF Live, AttemptOps
  <2>2. conn \in {"fresh", "shut"}
    <3>1. Attempting("connect")
      BY <1>1, <1>2, Popped DEF Live, Attempting, IInv
    <3> QED
      BY <3>1 DEF IInv, Phases
  <2>3. \/ pending' = {"tls"} /\ ready' = Tail(ready) /\ conn' = "fresh"
        \/ pending' = {} /\ ready' = Append(Tail(ready), Due("tls", "failed")) /\ conn' = "shut"
    BY <1>2, <2>1, <2>2 DEF Start
  <2>4. writing_' = FALSE
    BY <1>1, <2>1, Zenon DEF IInv, TypeInv
  <2> QED
    BY <1>1, <2>1, <2>3, <2>4, StepBegins DEF HandshakeOps
<1>3. CASE Head(ready).result = "ok" /\ schedule_reconnect("failed")
  BY <1>1, <1>3, Rescheduled
<1>4. CASE Head(ready).result # "ok" /\ schedule_reconnect(Head(ready).result)
  BY <1>1, <1>4, Rescheduled
<1> QED
  BY <1>2, <1>3, <1>4 DEF on_tcp_connected

\* The TLS handshake is done, or has failed.
LEMMA TlsKeeps == IInv /\ on_tls_handshake_done => IInv'
<1> SUFFICES ASSUME IInv, on_tls_handshake_done PROVE IInv'
  OBVIOUS
<1>1. ready # << >> /\ Head(ready).op = "tls" /\ Head(ready).op \in HandshakeOps
      /\ UNCHANGED <<write_queue_, writing_, stopping_, stop_called, written>>
  BY DEF on_tls_handshake_done, Serve, HandshakeOps
<1>2. CASE Head(ready).result = "ok" /\ Start("handshake") /\ conn' = conn
  <2>1. /\ pending = {} /\ written = 0 /\ write_queue_ = 0 /\ ~writing_
        /\ \A e \in Range(Tail(ready)) : e.result # "aborted" /\ e.op = "stop"
    BY <1>1, <1>2, Exclusive DEF Live, AttemptOps
  <2>2. conn \in {"fresh", "shut"}
    <3>1. Attempting("tls")
      BY <1>1, <1>2, Popped DEF Live, Attempting, IInv
    <3> QED
      BY <3>1 DEF IInv, Phases
  <2>3. \/ pending' = {"handshake"} /\ ready' = Tail(ready) /\ conn' = "fresh"
        \/ pending' = {} /\ ready' = Append(Tail(ready), Due("handshake", "failed")) /\ conn' = "shut"
    BY <1>2, <2>1, <2>2 DEF Start
  <2>4. writing_' = FALSE
    BY <1>1, <2>1, Zenon DEF IInv, TypeInv
  <2> QED
    BY <1>1, <2>1, <2>3, <2>4, StepBegins DEF HandshakeOps
<1>3. CASE Head(ready).result # "ok" /\ schedule_reconnect(Head(ready).result)
  BY <1>1, <1>3, Rescheduled
<1> QED
  BY <1>2, <1>3 DEF on_tls_handshake_done

\* The backoff is over: a new attempt begins, or the client is stopping.
LEMMA TimerKeeps == IInv /\ start_connect => IInv'
<1> SUFFICES ASSUME IInv, start_connect PROVE IInv'
  OBVIOUS
<1>1. /\ ready # << >> /\ Head(ready).op = "timer" /\ ready' = Tail(ready)
      /\ UNCHANGED <<stopping_, stop_called>>
  BY DEF start_connect, Serve
<1>2. CASE stopping_
  <2>1. UNCHANGED <<conn, write_queue_, writing_, pending, written>>
    BY <1>2, Zenon DEF start_connect
  <2> QED
    BY <1>1, <2>1, JustServed
<1>3. CASE ~stopping_
  <2>1. /\ conn' = "fresh" /\ write_queue_' = 0 /\ writing_' = FALSE /\ written' = 0
        /\ pending' = pending \cup {"resolve"}
    BY <1>3, Zenon DEF start_connect
  <2>2. Head(ready).result # "aborted"
    BY <1>1, Popped DEF IInv, TypeInv, SocketOps
  <2>3. pending = {} /\ \A e \in Range(Tail(ready)) : e.result # "aborted" /\ e.op = "stop"
    BY <1>1, <2>2, Exclusive DEF Live, AttemptOps
  <2>4. pending' = {"resolve"}
    BY <2>1, <2>3
  <2> QED
    BY <1>1, <2>1, <2>3, <2>4, StepBegins
<1> QED
  BY <1>2, <1>3
\* The handlers of a connection that is up, or was: no step towards the next one has
\* begun, though its backoff may be running.
LEMMA NoAttempt ==
  ASSUME IInv, ready # << >>, Head(ready).op \in {"read", "write", "send"}
  PROVE  ~Waits(ready, "timer") /\ \A op \in HandshakeOps \cup {"resolve"} : ~Attempting(op)
<1>1. Head(ready) \in Range(ready)
  BY Popped DEF IInv
<1> QED
  BY <1>1 DEF IInv, Phases, Only, HandshakeOps

\* Reading on, or writing a frame, on behalf of the handler that is served: the
\* operation is pending, or has failed at once on a stream that is shut.
LEMMA Proceeds ==
  ASSUME IInv, ready # << >>, Head(ready).op \in {"read", "write", "send"},
         NEW op \in {"read", "write"}, op \notin pending, ~Waits(Tail(ready), op),
         Start(op), UNCHANGED <<conn, stopping_, stop_called>>,
         write_queue_' \in Nat, written' \in Nat, writing_' \in BOOLEAN
  PROVE  /\ TypeInv' /\ Single' /\ Phases' /\ Stopping'
         /\ \A o : Waits(ready', o) => Waits(Tail(ready), o) \/ o = op
         /\ pending' \subseteq pending \cup {op}
         /\ \A e \in Range(ready') : e.result = "aborted" => e \in Range(Tail(ready))
<1>1. TypeInv /\ Single /\ Phases /\ Stopping
  BY DEF IInv
<1>2. /\ Tail(ready) \in Seq(Entry) /\ Range(Tail(ready)) \subseteq Range(ready)
      /\ \A o \in Counted : Once(Tail(ready), o)
      /\ \A o : Waits(Tail(ready), o) => Waits(ready, o)
  BY <1>1, Popped
<1>3. ~Waits(ready, "timer") /\ \A o \in HandshakeOps \cup {"resolve"} : ~Attempting(o)
  BY NoAttempt
<1>4. Due(op, "failed") \in Entry /\ Due(op, "failed").op = op /\ Due(op, "failed").result = "failed"
  BY DEF Due, Entry, Ops, SocketOps
<1>5. /\ ready' \in Seq(Entry)
      /\ \A o \in Counted : Once(ready', o)
      /\ \A e \in Range(ready') : e \in Range(Tail(ready)) \/ e = Due(op, "failed")
      /\ \A o : Waits(ready', o) => Waits(Tail(ready), o) \/ o = op
      /\ \/ conn = "shut" /\ pending' = pending
         \/ conn # "shut" /\ pending' = pending \cup {op} /\ ready' = Tail(ready)
  <2>1. CASE conn = "shut"
    <3>1. pending' = pending /\ ready' = Append(Tail(ready), Due(op, "failed"))
      BY <2>1 DEF Start
    <3>2. /\ ready' \in Seq(Entry) /\ Range(ready') = Range(Tail(ready)) \cup {Due(op, "failed")}
          /\ \A o : Once(Tail(ready), o) /\ ~(Waits(Tail(ready), o) /\ Live(Due(op, "failed"), o))
                      => Once(ready', o)
      BY <1>2, <1>4, <3>1, Appended
    <3>3. \A o : ~(Waits(Tail(ready), o) /\ Live(Due(op, "failed"), o))
      BY <1>4 DEF Live
    <3>4. \A o : Waits(ready', o) => Waits(Tail(ready), o) \/ o = op
      BY <3>2, <1>4 DEF Waits, Live
    <3> QED
      BY <1>2, <2>1, <3>1, <3>2, <3>3, <3>4
  <2>2. CASE conn # "shut"
    BY <1>2, <2>2 DEF Start
  <2> QED
    BY <2>1, <2>2
<1>6. op \in Ops /\ op \in Counted /\ op # "timer" /\ op # "close" /\ op # "stop"
      /\ op \notin HandshakeOps \cup {"resolve"}
  BY DEF Ops, SocketOps, Counted, HandshakeOps
<1>7. TypeInv'
  BY <1>1, <1>2, <1>4, <1>5, <1>6 DEF TypeInv
<1>8. Single'
  <2> SUFFICES ASSUME NEW o \in Counted, o \in pending' PROVE ~Waits(ready', o)
    BY <1>5 DEF Single
  <2>1. CASE o \in pending
    BY <1>1, <1>2, <1>5, <2>1 DEF Single
  <2>2. CASE o \notin pending
    BY <1>5, <2>2
  <2> QED
    BY <2>1, <2>2
<1>9. ~Waits(ready', "timer") /\ \A o \in HandshakeOps \cup {"resolve"} : ~Attempting(o)'
  BY <1>2, <1>3, <1>5, <1>6 DEF Attempting
<1>10. \A o \in AttemptOps : ~Waits(ready', o)
  BY <1>9 DEF AttemptOps, Attempting
<1>11. Phases'
  BY <1>1, <1>2, <1>4, <1>5, <1>6, <1>9, <1>10 DEF Phases, HandshakeOps, NoneAborted
<1>12. Stopping'
  BY <1>1, <1>2, <1>5, <1>6 DEF Stopping
<1> QED
  BY <1>4, <1>5, <1>7, <1>8, <1>11, <1>12

\* A message has been read and the next read starts, or the connection is lost.
LEMMA ReadKeeps == IInv /\ do_read => IInv'
<1> SUFFICES ASSUME IInv, do_read PROVE IInv'
  OBVIOUS
<1>1. ready # << >> /\ Head(ready).op = "read"
      /\ UNCHANGED <<write_queue_, writing_, stopping_, stop_called, written>>
  BY DEF do_read, Serve
<1>2. CASE Head(ready).result = "ok" /\ Start("read") /\ conn' = conn
  <2>1. TypeInv /\ Single /\ Frames
    BY DEF IInv
  <2>2. "read" \notin pending /\ ~Waits(Tail(ready), "read")
    <3>1. Live(Head(ready), "read") /\ "read" \in Counted
      BY <1>1, <1>2 DEF Live, Counted
    <3> QED
      BY <1>1, <2>1, <3>1, Popped DEF Single
  <2>3. write_queue_' \in Nat /\ written' \in Nat /\ writing_' \in BOOLEAN
    BY <1>1, <2>1 DEF TypeInv
  <2>4. /\ TypeInv' /\ Single' /\ Phases' /\ Stopping'
        /\ \A o : Waits(ready', o) => Waits(Tail(ready), o) \/ o = "read"
        /\ pending' \subseteq pending \cup {"read"}
        /\ \A e \in Range(ready') : e.result = "aborted" => e \in Range(Tail(ready))
    BY <1>1, <1>2, <2>2, <2>3, Proceeds
  <2>5. /\ Range(Tail(ready)) \subseteq Range(ready)
        /\ \A o : Waits(Tail(ready), o) => Waits(ready, o)
    BY <1>1, <2>1, Popped
  <2>6. \A o : Attempting(o)' => Attempting(o) \/ o = "read"
    BY <2>4, <2>5 DEF Attempting
  <2>7. Frames'
    BY <1>1, <2>1, <2>4, <2>5, <2>6 DEF Frames, HandshakeOps
  <2> QED
    BY <2>4, <2>7 DEF IInv
<1>3. CASE Head(ready).result # "ok" /\ schedule_reconnect(Head(ready).result)
  BY <1>1, <1>3, Rescheduled
<1> QED
  BY <1>2, <1>3 DEF do_read

\* The frame has been written and leaves the queue, or the connection is lost.
LEMMA WriteKeeps == IInv /\ do_write => IInv'
<1> SUFFICES ASSUME IInv, do_write PROVE IInv'
  OBVIOUS
<1>1. ready # << >> /\ Head(ready).op = "write" /\ UNCHANGED <<stopping_, stop_called>>
  BY DEF do_write, Serve
<1>2. CASE Head(ready).result = "ok"
  <2>1. TypeInv /\ Single /\ Phases /\ Stopping /\ Frames
    BY DEF IInv
  <2>2. Live(Head(ready), "write") /\ "write" \in Counted
    BY <1>1, <1>2 DEF Live, Counted
  <2>3. /\ Range(Tail(ready)) \subseteq Range(ready) /\ Tail(ready) \in Seq(Entry)
        /\ \A o : Waits(Tail(ready), o) => Waits(ready, o)
        /\ \A o \in Counted : Once(Tail(ready), o)
        /\ Waits(ready, "write") /\ ~Waits(Tail(ready), "write")
    BY <1>1, <2>1, <2>2, Popped
  <2>4. "write" \notin pending /\ write_queue_ = 1 /\ written = 0
    BY <2>1, <2>2, <2>3 DEF Single, Frames, Attempting, TypeInv
  <2>5. /\ write_queue_' = 0 /\ written' = 1 /\ ready' = Tail(ready) /\ writing_' = FALSE
        /\ UNCHANGED <<pending, conn>>
    BY <1>2, <2>4 DEF do_write
  <2>6. ~writing_' /\ writing_' \in BOOLEAN
    BY <2>5, Zenon
  <2>7. TypeInv'
    BY <1>1, <2>1, <2>3, <2>5, <2>6 DEF TypeInv
  <2>8. Single'
    BY <2>1, <2>3, <2>5 DEF Single
  <2>9. \A o : Attempting(o)' => Attempting(o)
    BY <2>3, <2>5 DEF Attempting
  <2>10. Phases'
    BY <2>1, <2>3, <2>5, <2>9 DEF Phases, Only, NoneAborted
  <2>11. Stopping'
    BY <1>1, <2>1, <2>3, <2>5 DEF Stopping
  <2>12. ~Attempting("write")' /\ ~Waits(ready', "send")
    BY <2>1, <2>3, <2>4, <2>5 DEF Attempting, Frames
  <2>13. \A o \in HandshakeOps \cup {"resolve"} : ~Attempting(o)'
    BY <1>1, <2>9, NoAttempt
  <2>14. Frames'
    BY <2>5, <2>12, <2>13 DEF Frames
  <2> QED
    BY <2>7, <2>8, <2>10, <2>11, <2>14 DEF IInv
<1>3. CASE Head(ready).result # "ok"
  <2>1. schedule_reconnect(Head(ready).result) /\ writing_' = FALSE
        /\ UNCHANGED <<write_queue_, written>>
    BY <1>3 DEF do_write
  <2> QED
    BY <1>1, <2>1, Rescheduled
<1> QED
  BY <1>2, <1>3
\* The posted part of send(): the frame is queued and, if the client is idle, written.
LEMMA SendKeeps == IInv /\ send => IInv'
<1> SUFFICES ASSUME IInv, send PROVE IInv'
  OBVIOUS
<1>1. /\ ready # << >> /\ Head(ready).op = "send" /\ write_queue_' = write_queue_ + 1
      /\ UNCHANGED <<conn, stopping_, stop_called, written>>
  BY DEF send, Serve
<1>2. TypeInv /\ Single /\ Phases /\ Stopping /\ Frames
  BY DEF IInv
<1>3. /\ Range(Tail(ready)) \subseteq Range(ready) /\ Tail(ready) \in Seq(Entry)
      /\ Head(ready) \in Range(ready)
      /\ \A o : Waits(Tail(ready), o) => Waits(ready, o)
      /\ \A o : Live(Head(ready), o) => Waits(ready, o)
      /\ \A o \in Counted : /\ Once(Tail(ready), o)
                            /\ Live(Head(ready), o) => ~Waits(Tail(ready), o)
  BY <1>1, <1>2, Popped
<1>4. Live(Head(ready), "send") /\ "send" \in Counted
  BY <1>1, <1>2, <1>3 DEF TypeInv, SocketOps, Live, Counted
<1>5. ~Waits(Tail(ready), "send") /\ written = 0 /\ write_queue_ = 0
  BY <1>2, <1>3, <1>4 DEF Frames
<1>6. write_queue_' = 1 /\ written' = 0
  BY <1>1, <1>5
<1>7. \A o \in HandshakeOps \cup {"resolve"} : ~Attempting(o)
  BY <1>1, NoAttempt
<1>8. CASE conn = "open" /\ ~writing_
  <2>1. Start("write") /\ writing_' = TRUE /\ ready' = Tail(ready)
    BY <1>8, Zenon DEF send, Start
  <2>2. writing_' /\ writing_' \in BOOLEAN
    BY <2>1, Zenon
  <2>3. "write" \notin pending /\ ~Waits(Tail(ready), "write")
    BY <1>2, <1>3, <1>8 DEF Frames, Attempting
  <2>4. /\ TypeInv' /\ Single' /\ Phases' /\ Stopping'
        /\ pending' \subseteq pending \cup {"write"}
    BY <1>1, <1>6, <2>1, <2>2, <2>3, Proceeds
  <2>5. \A e \in Range(ready') : e.result # "aborted"
    BY <1>2, <1>3, <1>8, <2>1 DEF Phases, NoneAborted
  <2>6. \A o \in HandshakeOps \cup {"resolve"} : ~Attempting(o)'
    BY <1>3, <1>7, <2>1, <2>4 DEF Attempting, HandshakeOps
  <2>7. Frames'
    BY <1>5, <1>6, <2>1, <2>2, <2>5, <2>6 DEF Frames
  <2> QED
    BY <2>4, <2>7 DEF IInv
<1>9. CASE ~(conn = "open" /\ ~writing_)
  <2>1. ready' = Tail(ready) /\ UNCHANGED <<writing_, pending>>
    BY <1>9, Zenon DEF send
  <2>2. \A o : Attempting(o)' => Attempting(o)
    BY <1>3, <2>1 DEF Attempting
  <2>3. TypeInv'
    BY <1>1, <1>2, <1>3, <1>6, <2>1 DEF TypeInv
  <2>4. Single'
    BY <1>2, <1>3, <2>1 DEF Single
  <2>5. Phases'
    BY <1>1, <1>2, <1>3, <2>1, <2>2 DEF Phases, Only, NoneAborted
  <2>6. Stopping'
    BY <1>1, <1>2, <1>3, <2>1 DEF Stopping
  <2>7. Frames'
    BY <1>2, <1>3, <1>5, <1>6, <1>7, <2>1, <2>2 DEF Frames
  <2> QED
    BY <2>3, <2>4, <2>5, <2>6, <2>7 DEF IInv
<1> QED
  BY <1>8, <1>9

\* The handlers of operations that a handler starts on a stream that is shut, for at
\* most one operation: one that has failed, or none.
LEMMA FailedAtOnce ==
  ASSUME NEW S \in {{}, {"read"}}, NEW order \in Orders(S)
  PROVE  LET x == [i \in DOMAIN order |-> Due(order[i], "failed")]
         IN  /\ x \in Seq(Entry)
             /\ \A e \in Range(x) : e = Due("read", "failed") /\ S = {"read"}
             /\ \A op : Once(x, op)
<1> DEFINE x == [i \in DOMAIN order |-> Due(order[i], "failed")]
<1>1. PICK n \in {0, 1} : n = Cardinality(S)
  BY FS_EmptySet, FS_Singleton
<1>2. order \in [1..n -> S]
  BY <1>1, Zenon DEF Orders, Bijection, Injection
<1>3. Due("read", "failed") \in Entry
  BY DEF Due, Entry, Ops, SocketOps
<1>4. x = [i \in 1..n |-> Due(order[i], "failed")]
  BY <1>2
<1>5. \A i \in 1..n : order[i] = "read" /\ S = {"read"}
  BY <1>2
<1>6. \A i \in 1..n : x[i] = Due("read", "failed") /\ x[i] \in Entry
  BY <1>3, <1>4, <1>5
<1>7. x \in Seq(Entry) /\ Len(x) = n
  BY <1>4, <1>6
<1> HIDE DEF x
<1>8. \A e \in Range(x) : e = Due("read", "failed") /\ S = {"read"}
  BY <1>5, <1>6, <1>7, Elements
<1>9. \A op : Once(x, op)
  <2>1. \A i, j \in 1..n : i = j
    OBVIOUS
  <2> QED
    BY <1>7, <2>1 DEF Once
<1> QED
  BY <1>7, <1>8, <1>9 DEF x

\* The websocket is up: the subscription is posted and the first read starts.
LEMMA HandshakeKeeps == IInv /\ on_handshake => IInv'
<1> SUFFICES ASSUME IInv, on_handshake PROVE IInv'
  OBVIOUS
<1>1. ready # << >> /\ Head(ready).op = "handshake" /\ Head(ready).op \in HandshakeOps
      /\ UNCHANGED <<write_queue_, stopping_, stop_called, written>>
  BY DEF on_handshake, Serve, HandshakeOps
<1>2. ASSUME Head(ready).result # "ok" /\ schedule_reconnect(Head(ready).result) /\ UNCHANGED writing_
      PROVE  IInv'
  BY <1>1, <1>2, Rescheduled
<1>3. CASE Head(ready).result = "ok"
  <2>1. TypeInv /\ Single /\ Phases /\ Stopping
    BY DEF IInv
  <2>2. /\ pending \subseteq {"close"} /\ written = 0 /\ write_queue_ = 0 /\ ~writing_
        /\ \A e \in Range(Tail(ready)) : e.result # "aborted" /\ e.op \in {"stop", "close"}
    BY <1>1, <1>3, Exclusive DEF Live, AttemptOps
  <2>3. /\ Tail(ready) \in Seq(Entry)
        /\ \A o \in Counted : Once(Tail(ready), o)
        /\ \A o : Waits(Tail(ready), o) => Waits(ready, o)
    BY <1>1, <2>1, Popped
  <2>4. conn' = conn
    BY <1>3 DEF on_handshake
  <2> DEFINE started == {"read"} \cup (IF write_queue_ > 0 /\ ~writing_ THEN {"write"} ELSE {})
             S == IF conn = "shut" THEN {"read"} ELSE {}
  <2>5. started = {"read"}
    BY <2>2
  <2>6. /\ \E order \in Orders(IF conn = "shut" THEN started ELSE {}) :
             ready' = Tail(ready) \o connect_handler \o [i \in DOMAIN order |-> Due(order[i], "failed")]
        /\ pending' = IF conn = "shut" THEN pending ELSE pending \cup started
        /\ writing_' = (writing_ \/ "write" \in started)
    BY <1>3 DEF on_handshake
  <2>7. ~writing_' /\ writing_' \in BOOLEAN
    <3>1. ~(writing_ \/ "write" \in started)
      BY <2>2, <2>5
    <3> QED
      BY <2>6, <3>1, Zenon
  <2> HIDE DEF started
  <2>8. pending' = IF conn = "shut" THEN pending ELSE pending \cup {"read"}
    BY <2>5, <2>6
  <2>9. PICK order \in Orders(S) :
          ready' = Tail(ready) \o connect_handler \o [i \in DOMAIN order |-> Due(order[i], "failed")]
    BY <2>5, <2>6
  <2> DEFINE x == [i \in DOMAIN order |-> Due(order[i], "failed")]
             r == Append(Tail(ready), Due("send", "ok"))
  <2>10. S \in {{}, {"read"}}
    OBVIOUS
  <2>11. x \in Seq(Entry) /\ (\A e \in Range(x) : e = Due("read", "failed") /\ S = {"read"})
         /\ \A o : Once(x, o)
    BY <2>10, FailedAtOnce
  <2>12. Due("send", "ok") \in Entry /\ Due("send", "ok").op = "send" /\ Due("send", "ok").result = "ok"
         /\ Due("read", "failed").op = "read" /\ Due("read", "failed").result = "failed"
    BY DEF Due, Entry
  <2>13. ready' = r \o x
    <3>1. Tail(ready) \o connect_handler = r
      BY <2>3, <2>12 DEF connect_handler
    <3> QED
      BY <2>9, <3>1
  <2>14. /\ r \in Seq(Entry) /\ Range(r) = Range(Tail(ready)) \cup {Due("send", "ok")}
         /\ \A o : Once(Tail(ready), o) /\ ~(Waits(Tail(ready), o) /\ Live(Due("send", "ok"), o))
                     => Once(r, o)
    BY <2>3, <2>12, Appended
  <2> HIDE DEF x, r
  <2>15. /\ ready' \in Seq(Entry) /\ Range(ready') = Range(r) \cup Range(x)
         /\ \A o : Once(r, o) /\ Once(x, o) /\ ~(Waits(r, o) /\ Waits(x, o)) => Once(ready', o)
    BY <2>11, <2>13, <2>14, Joined
  <2>16. /\ \A o : Waits(Tail(ready), o) => o \in {"stop", "close"}
         /\ \A o : Waits(r, o) => o = "send" \/ Waits(Tail(ready), o)
         /\ \A o : Waits(x, o) => o = "read" /\ S = {"read"}
    BY <2>2, <2>11, <2>12, <2>14 DEF Waits, Live
  <2>17. \A o \in Counted : Once(ready', o)
    BY <2>3, <2>11, <2>12, <2>14, <2>15, <2>16 DEF Live
  <2>18. \A e \in Range(ready') : e.result # "aborted" /\ e.op \in {"stop", "close", "send", "read"}
    BY <2>2, <2>11, <2>12, <2>14, <2>15
  <2>19. \A o : Waits(ready', o) => \/ o \in {"send", "close"} \/ (o = "read" /\ S = {"read"})
                                    \/ (o = "stop" /\ Waits(ready, "stop"))
    <3>1. \A o : Waits(ready', o) => Waits(r, o) \/ Waits(x, o)
      BY <2>15 DEF Waits
    <3> QED
      BY <2>3, <2>16, <3>1
  <2>20. TypeInv'
    BY <1>1, <2>1, <2>4, <2>7, <2>8, <2>15, <2>18 DEF TypeInv, Ops, SocketOps
  <2>21. Single'
    BY <2>2, <2>8, <2>17, <2>19 DEF Single, Counted, AttemptOps, HandshakeOps
  <2>22. "timer" \notin pending' /\ ~Waits(ready', "timer") /\ ~Attempting("write")'
         /\ \A o \in HandshakeOps \cup {"resolve"} : ~Attempting(o)'
    BY <2>2, <2>8, <2>19 DEF Attempting, HandshakeOps
  <2>23. Phases'
    BY <2>18, <2>22 DEF Phases, NoneAborted, HandshakeOps
  <2>24. Stopping'
    BY <1>1, <2>1, <2>8, <2>19 DEF Stopping
  <2>25. Frames'
    BY <1>1, <2>2, <2>22 DEF Frames
  <2> QED
    BY <2>20, <2>21, <2>23, <2>24, <2>25 DEF IInv
<1> QED
  BY <1>2, <1>3 DEF on_handshake
\* stop()'s work: an open websocket is closed politely, any other transport at once.
LEMMA StopKeeps == IInv /\ stop => IInv'
<1> SUFFICES ASSUME IInv, stop PROVE IInv'
  OBVIOUS
<1>1. /\ ready # << >> /\ Head(ready).op = "stop" /\ stopping_' = TRUE
      /\ UNCHANGED <<write_queue_, writing_, stop_called, written>>
  BY DEF stop, Serve
<1>2. TypeInv /\ Single /\ Phases /\ Stopping /\ Frames
  BY DEF IInv
<1>3. /\ Range(Tail(ready)) \subseteq Range(ready) /\ Tail(ready) \in Seq(Entry)
      /\ Head(ready) \in Range(ready)
      /\ \A o : Waits(Tail(ready), o) => Waits(ready, o)
      /\ \A o : Live(Head(ready), o) => Waits(ready, o)
      /\ \A o \in Counted : /\ Once(Tail(ready), o)
                            /\ Live(Head(ready), o) => ~Waits(Tail(ready), o)
  BY <1>1, <1>2, Popped
<1>4. Live(Head(ready), "stop") /\ "stop" \in Counted
  BY <1>1, <1>2, <1>3 DEF TypeInv, SocketOps, Live, Counted
<1>5. /\ ~Waits(Tail(ready), "stop") /\ Waits(ready, "stop") /\ "close" \notin pending
      /\ stopping_' /\ stopping_' \in BOOLEAN /\ stop_called'
  <2>1. ~Waits(Tail(ready), "stop") /\ Waits(ready, "stop")
    BY <1>3, <1>4
  <2>2. stop_called /\ ~stopping_
    BY <1>2, <2>1 DEF Stopping
  <2>3. stopping_' /\ stopping_' \in BOOLEAN
    BY <1>1, Zenon
  <2> QED
    BY <1>1, <1>2, <2>1, <2>2, <2>3 DEF Stopping
<1>6. CASE conn = "open"
  <2>1. conn' = "closing" /\ pending' = (pending \ {"timer"}) \cup {"close"} /\ ready' = Tail(ready)
    BY <1>6 DEF stop
  <2>2. /\ "timer" \notin pending /\ ~Waits(ready, "timer")
        /\ \A o \in {"resolve", "connect", "tls"} : ~Attempting(o)
        /\ "handshake" \notin pending /\ NoneAborted
    BY <1>2, <1>6 DEF Phases, Attempting
  <2>3. \A o : o # "close" => (Attempting(o)' => Attempting(o))
    BY <1>3, <2>1 DEF Attempting
  <2>4. TypeInv'
    BY <1>1, <1>2, <1>3, <1>5, <2>1 DEF TypeInv, Ops, SocketOps
  <2>5. Single'
    BY <1>2, <1>3, <2>1 DEF Single, Counted, AttemptOps, HandshakeOps
  <2>6. Attempting("handshake")' => /\ pending' \subseteq {"handshake", "close"}
                                    /\ Only({"handshake", "stop", "close"})' /\ "handshake" \notin pending'
    BY <1>2, <1>3, <2>1, <2>2, <2>3 DEF Phases, Only
  <2>7. NoneAborted' /\ "timer" \notin pending' /\ ~Waits(ready', "timer")
        /\ \A o \in {"resolve", "connect", "tls"} : ~Attempting(o)'
    BY <1>3, <2>1, <2>2, <2>3 DEF NoneAborted
  <2>8. Phases'
    BY <2>6, <2>7 DEF Phases
  <2>9. Stopping'
    BY <1>5, <2>1 DEF Stopping
  <2>10. Frames'
    BY <1>1, <1>2, <1>3, <2>1, <2>3 DEF Frames, HandshakeOps
  <2> QED
    BY <2>4, <2>5, <2>8, <2>9, <2>10 DEF IInv
<1>7. CASE conn # "open"
  <2>1. /\ conn' = "shut" /\ pending' = pending \ (SocketOps \cup {"timer"})
        /\ \E a \in Aborted : ready' = Tail(ready) \o a
    BY <1>7 DEF stop
  <2>2. PICK a \in Aborted : ready' = Tail(ready) \o a
    BY <2>1
  <2>3. /\ ready' \in Seq(Entry)
        /\ \A o : Waits(ready', o) <=> Waits(Tail(ready), o)
        /\ \A o \in Counted : Once(ready', o)
        /\ \A e \in Range(ready') : \/ e \in Range(Tail(ready))
                                    \/ e.result = "aborted" /\ e.op \in pending \cap SocketOps
    BY <1>1, <1>2, <2>2, TransportClosed
  <2>4. pending' \subseteq {"resolve"} /\ pending' \subseteq pending
    BY <1>2, <2>1 DEF TypeInv, Ops
  <2>5. \A o : Attempting(o)' => Attempting(o)
    BY <1>3, <2>3, <2>4 DEF Attempting
  <2>6. TypeInv'
    BY <1>1, <1>2, <1>3, <1>5, <2>1, <2>3, <2>4 DEF TypeInv
  <2>7. Single'
    BY <1>2, <1>3, <2>3, <2>4 DEF Single
  <2>8. \A o \in HandshakeOps : Attempting(o)' => Waits(ready, o) /\ pending = {}
    <3> SUFFICES ASSUME NEW o \in HandshakeOps, Attempting(o)' PROVE Waits(ready, o) /\ pending = {}
      OBVIOUS
    <3>1. Waits(ready, o) /\ o \in Counted
      BY <1>3, <2>3, <2>4 DEF Attempting, HandshakeOps, Counted, AttemptOps
    <3>2. o \notin pending /\ Attempting(o)
      BY <1>2, <3>1 DEF Single, Attempting
    <3> QED
      BY <1>2, <1>5, <3>1, <3>2 DEF Phases, HandshakeOps
  <2>9. pending \cap SocketOps = {} => Range(ready') \subseteq Range(ready)
    BY <1>3, <2>3
  <2>10. Waits(ready', "timer") => pending' = {} /\ Only({"timer", "stop"})'
    BY <1>2, <1>3, <2>3, <2>4, <2>9 DEF Phases, Only
  <2>11. Attempting("resolve")' => Only({"resolve", "stop"})'
    BY <1>2, <2>5, <2>9 DEF Phases, Only, SocketOps
  <2>12. \A o \in {"connect", "tls"} : Attempting(o)' =>
           pending' \subseteq {o} /\ Only({o, "stop"})' /\ NoneAborted' /\ o \notin pending'
    BY <1>2, <2>4, <2>5, <2>8, <2>9 DEF Phases, Only, NoneAborted, HandshakeOps
  <2>13. Attempting("handshake")' =>
           /\ pending' \subseteq {"handshake", "close"} /\ Only({"handshake", "stop", "close"})'
           /\ NoneAborted' /\ "handshake" \notin pending'
    BY <1>2, <2>4, <2>5, <2>8, <2>9 DEF Phases, Only, NoneAborted, HandshakeOps
  <2>14. Phases'
    BY <2>1, <2>4, <2>10, <2>11, <2>12, <2>13 DEF Phases
  <2>15. Stopping'
    BY <1>5, <2>3, <2>4 DEF Stopping
  <2>16. (\E e \in Range(ready') : e.op = "write" /\ e.result = "aborted") => ~Attempting("write")'
    <3> SUFFICES ASSUME NEW e \in Range(ready'), e.op = "write", e.result = "aborted", Attempting("write")'
                 PROVE  FALSE
      OBVIOUS
    <3>1. Waits(ready, "write") /\ Attempting("write")
      BY <1>3, <2>3, <2>4, <2>5 DEF Attempting
    <3>2. "write" \notin pending
      BY <1>2, <3>1 DEF Single, Counted
    <3> QED
      BY <1>2, <1>3, <2>3, <3>1, <3>2 DEF Frames
  <2>17. Frames'
    BY <1>1, <1>2, <1>3, <2>3, <2>5, <2>16 DEF Frames
  <2> QED
    BY <2>6, <2>7, <2>14, <2>15, <2>17 DEF IInv
<1> QED
  BY <1>6, <1>7

\* stop() is called.
LEMMA StopCallKeeps == IInv /\ StopCall => IInv'
<1> SUFFICES ASSUME IInv, StopCall PROVE IInv'
  OBVIOUS
<1>1. /\ ~stop_called /\ stop_called' = TRUE /\ ready' = Append(ready, Due("stop", "ok"))
      /\ UNCHANGED <<conn, write_queue_, writing_, stopping_, pending, written>>
  BY DEF StopCall
<1>2. TypeInv /\ Single /\ Phases /\ Stopping /\ Frames
  BY DEF IInv
<1>3. Due("stop", "ok") \in Entry /\ Due("stop", "ok").op = "stop" /\ Due("stop", "ok").result = "ok"
  BY DEF Due, Entry
<1>4. /\ ready' \in Seq(Entry) /\ Range(ready') = Range(ready) \cup {Due("stop", "ok")}
      /\ \A o : Once(ready, o) /\ ~(Waits(ready, o) /\ Live(Due("stop", "ok"), o)) => Once(ready', o)
  BY <1>1, <1>2, <1>3, Appended DEF TypeInv
<1>5. ~Waits(ready, "stop") /\ ~stopping_ /\ "close" \notin pending /\ "stop" \notin pending
  BY <1>1, <1>2 DEF Stopping, TypeInv, Ops, SocketOps
<1>6. \A o : Waits(ready', o) => Waits(ready, o) \/ o = "stop"
  BY <1>3, <1>4 DEF Waits, Live
<1>7. \A o : Attempting(o)' => Attempting(o) \/ o = "stop"
  BY <1>1, <1>6 DEF Attempting
<1>8. stop_called' /\ stop_called' \in BOOLEAN /\ ~stopping_'
  BY <1>1, <1>5, Zenon
<1>9. TypeInv'
  BY <1>1, <1>2, <1>3, <1>4, <1>8 DEF TypeInv
<1>10. Single'
  BY <1>1, <1>2, <1>3, <1>4, <1>5, <1>6 DEF Single, Live
<1>11. Phases'
  BY <1>1, <1>2, <1>3, <1>4, <1>6, <1>7 DEF Phases, Only, NoneAborted, AttemptOps, HandshakeOps
<1>12. Stopping'
  BY <1>1, <1>5, <1>8 DEF Stopping
<1>13. Frames'
  BY <1>1, <1>2, <1>3, <1>4, <1>6, <1>7 DEF Frames, HandshakeOps
<1> QED
  BY <1>9, <1>10, <1>11, <1>12, <1>13 DEF IInv
\* An operation completes.
LEMMA CompleteKeeps ==
  ASSUME IInv, NEW op \in Ops, NEW result \in {"ok", "failed"}, Complete(op, result)
  PROVE  IInv'
<1> DEFINE e0 == Due(op, result)
<1>1. /\ op \in pending /\ pending' = pending \ {op} /\ ready' = Append(ready, e0)
      /\ UNCHANGED <<write_queue_, writing_, stopping_, stop_called, written>>
  BY DEF Complete
<1>2. TypeInv /\ Single /\ Phases /\ Stopping /\ Frames
  BY DEF IInv
<1>3. e0 \in Entry /\ e0.op = op /\ e0.result # "aborted"
  BY DEF Due, Entry
<1> HIDE DEF e0
<1>4. /\ ready' \in Seq(Entry) /\ Range(ready') = Range(ready) \cup {e0}
      /\ \A o : Once(ready, o) /\ ~(Waits(ready, o) /\ Live(e0, o)) => Once(ready', o)
  <2>1. ready \in Seq(Entry)
    BY <1>2 DEF TypeInv
  <2> QED
    BY <1>1, <1>3, <2>1, Appended
<1>5. \A o : Waits(ready', o) => Waits(ready, o) \/ o = op
  BY <1>3, <1>4 DEF Waits, Live
<1>6. \A o : Attempting(o)' => Attempting(o)
  BY <1>1, <1>5 DEF Attempting
<1>7. /\ conn' = conn \/ conn' = "shut" \/ (op = "handshake" /\ conn' = "open")
      /\ op \in {"timer", "resolve", "connect", "tls"} => conn' = conn
      /\ op = "handshake" => conn' \in {conn, "open"}
  BY DEF Complete
<1>8. TypeInv'
  BY <1>1, <1>2, <1>3, <1>4, <1>7 DEF TypeInv
<1>9. Single'
  <2> SUFFICES ASSUME NEW o \in Counted PROVE Once(ready', o) /\ (o \in pending' => ~Waits(ready', o))
    BY DEF Single
  <2>1. Once(ready, o) /\ (o \in pending => ~Waits(ready, o))
    BY <1>2 DEF Single
  <2> QED
    BY <1>1, <1>3, <1>4, <1>5, <2>1 DEF Live
<1>10. Stopping'
  BY <1>1, <1>2, <1>5 DEF Stopping, TypeInv, Ops, SocketOps
<1>11. Frames'
  <2>1. Waits(ready', "send") => Waits(ready, "send")
    BY <1>5 DEF Ops, SocketOps
  <2> QED
    BY <1>1, <1>2, <1>3, <1>4, <1>6, <2>1 DEF Frames
<1>12. Phases'
  <2>1. CASE op = "timer"
    <3>1. pending' = {} /\ conn' = "shut" /\ \A o \in AttemptOps : ~Waits(ready, o)
      BY <1>1, <1>2, <1>7, <2>1 DEF Phases
    <3>2. Only({"timer", "stop"})'
      <4>1. \A e \in Range(ready) : e.op = "stop"
        BY <1>2, <2>1, Elements DEF Complete, TypeInv
      <4> QED
        BY <1>3, <1>4, <2>1, <4>1 DEF Only
    <3>3. \A o \in HandshakeOps \cup {"resolve"} : ~Attempting(o)'
      BY <1>5, <2>1, <3>1 DEF Attempting, AttemptOps, HandshakeOps
    <3> QED
      BY <3>1, <3>2, <3>3 DEF Phases, HandshakeOps
  <2>2. CASE op # "timer"
    <3>1. "timer" \notin pending /\ ~Waits(ready, "timer")
      BY <1>1, <1>2, <2>2 DEF Phases
    <3>2. "timer" \notin pending' /\ ~Waits(ready', "timer")
      BY <1>1, <1>5, <2>2, <3>1
    <3>3. Attempting("resolve")' =>
            pending' \subseteq {"resolve"} /\ conn' \in {"fresh", "shut"} /\ Only({"resolve", "stop"})'
      <4> SUFFICES ASSUME Attempting("resolve")
                   PROVE  pending' \subseteq {"resolve"} /\ conn' \in {"fresh", "shut"} /\ Only({"resolve", "stop"})'
        BY <1>6
      <4>1. op = "resolve"
        BY <1>1, <1>2 DEF Phases
      <4> QED
        BY <1>1, <1>2, <1>3, <1>4, <1>7, <4>1 DEF Phases, Only
    <3>4. ASSUME NEW o \in {"connect", "tls"}, Attempting(o)'
          PROVE  /\ pending' \subseteq {o} /\ Only({o, "stop"})' /\ NoneAborted'
                 /\ conn' \in {"fresh", "shut"} /\ (o \in pending' => conn' = "fresh")
      <4>1. Attempting(o) /\ op = o
        BY <1>1, <1>2, <1>6, <3>4 DEF Phases
      <4> QED
        BY <1>1, <1>2, <1>3, <1>4, <1>7, <4>1 DEF Phases, Only, NoneAborted
    <3>5. ASSUME Attempting("handshake")'
          PROVE  /\ pending' \subseteq {"handshake", "close"} /\ Only({"handshake", "stop", "close"})'
                 /\ NoneAborted' /\ "handshake" \notin pending'
      <4>1. Attempting("handshake") /\ op \in {"handshake", "close"}
        BY <1>1, <1>2, <1>6, <3>5 DEF Phases
      <4>2. Only({"handshake", "stop", "close"})' /\ NoneAborted'
        BY <1>2, <1>3, <1>4, <4>1 DEF Phases, Only, NoneAborted
      <4> QED
        BY <1>1, <1>2, <4>1, <4>2 DEF Phases
    <3>6. conn' # "shut" => NoneAborted'
      <4>1. op = "handshake" => conn = "fresh"
        BY <1>1, <1>2 DEF Phases, Attempting
      <4> QED
        BY <1>2, <1>3, <1>4, <1>7, <4>1 DEF Phases, NoneAborted
    <3> QED
      BY <3>2, <3>3, <3>4, <3>5, <3>6 DEF Phases
  <2> QED
    BY <2>1, <2>2
<1> QED
  BY <1>8, <1>9, <1>10, <1>11, <1>12 DEF IInv

\* Every step of client and network preserves the invariant.
LEMMA NextIInv == IInv /\ [Next]_vars => IInv'
<1> SUFFICES ASSUME IInv, [Next]_vars PROVE IInv'
  OBVIOUS
<1>1. ASSUME UNCHANGED <<conn, write_queue_, writing_, stopping_, pending, ready, stop_called, written>>
      PROVE  IInv'
  BY <1>1 DEF IInv, TypeInv, Single, Phases, Stopping, Frames, Attempting, Only, NoneAborted
<1>2. CASE UNCHANGED vars
  BY <1>1, <1>2 DEF vars
<1>3. CASE RunReturns
  BY <1>1, <1>3 DEF RunReturns
<1>4. CASE on_closed
  <2>1. ready # << >> /\ ready' = Tail(ready)
        /\ UNCHANGED <<conn, pending, write_queue_, written, writing_, stopping_, stop_called>>
    BY <1>4 DEF on_closed, Serve
  <2> QED
    BY <2>1, JustServed
<1>5. ASSUME NEW op \in Ops, NEW result \in {"ok", "failed"}, Complete(op, result)
      PROVE  IInv'
  BY <1>5, CompleteKeeps
<1>6. CASE on_resolved \/ on_tcp_connected \/ on_tls_handshake_done \/ on_handshake
  BY <1>6, ResolvedKeeps, ConnectedKeeps, TlsKeeps, HandshakeKeeps
<1>7. CASE do_read \/ do_write \/ send \/ start_connect \/ stop \/ StopCall
  BY <1>7, ReadKeeps, WriteKeeps, SendKeeps, TimerKeeps, StopKeeps, StopCallKeeps
<1> QED
  BY <1>2, <1>3, <1>4, <1>5, <1>6, <1>7 DEF Next, Handler, Network

\* The invariant holds throughout.
LEMMA Invariance == Spec => []IInv
<1>1. Init => IInv
  <2> SUFFICES ASSUME Init PROVE IInv
    OBVIOUS
  <2>1. /\ conn = "fresh" /\ write_queue_ = 0 /\ pending = {"resolve"} /\ ready = << >> /\ written = 0
        /\ Range(ready) = {} /\ Len(ready) = 0
    BY DEF Init, Range
  <2>2. /\ writing_ \in BOOLEAN /\ ~writing_ /\ stopping_ \in BOOLEAN /\ ~stopping_
        /\ stop_called \in BOOLEAN
    BY Zenon DEF Init
  <2>3. \A op : ~Waits(ready, op) /\ Once(ready, op)
    BY <2>1 DEF Waits, Once
  <2>4. \A op : Attempting(op) => op = "resolve"
    BY <2>1, <2>3 DEF Attempting
  <2>5. TypeInv
    BY <2>1, <2>2 DEF TypeInv, Ops
  <2>6. Single
    BY <2>3 DEF Single
  <2>7. Phases
    BY <2>1, <2>3, <2>4 DEF Phases, Only, NoneAborted
  <2>8. Stopping
    BY <2>1, <2>2, <2>3 DEF Stopping
  <2>9. Frames
    BY <2>1, <2>2, <2>3, <2>4 DEF Frames
  <2> QED
    BY <2>5, <2>6, <2>7, <2>8, <2>9 DEF IInv
<1> QED
  BY <1>1, NextIInv, PTL DEF Spec

\* How often an operation is under way, in terms of the invariant: never or once.
LEMMA UnderWayValue ==
  ASSUME IInv, NEW op \in Counted
  PROVE  UnderWay(op) = IF Attempting(op) THEN 1 ELSE 0
<1> DEFINE W == {i \in 1..Len(ready) : ready[i].op = op /\ ready[i].result # "aborted"}
<1>1. ready \in Seq(Entry) /\ Once(ready, op) /\ (op \in pending => ~Waits(ready, op))
  BY DEF IInv, TypeInv, Single
<1>2. Cardinality(pending \cap {op}) = IF op \in pending THEN 1 ELSE 0
  <2>1. CASE op \in pending
    <3>1. pending \cap {op} = {op}
      BY <2>1
    <3> QED
      BY <2>1, <3>1, FS_Singleton
  <2>2. CASE op \notin pending
    <3>1. pending \cap {op} = {}
      BY <2>2
    <3> QED
      BY <2>2, <3>1, FS_EmptySet
  <2> QED
    BY <2>1, <2>2
<1>3. Cardinality(W) = IF Waits(ready, op) THEN 1 ELSE 0
  <2>1. CASE Waits(ready, op)
    <3>1. PICK e \in Range(ready) : Live(e, op)
      BY <2>1 DEF Waits
    <3>2. PICK i \in 1..Len(ready) : e = ready[i]
      BY <1>1, Elements
    <3>3. W = {i}
      BY <1>1, <3>1, <3>2 DEF Once, Live
    <3> QED
      BY <2>1, <3>3, FS_Singleton
  <2>2. CASE ~Waits(ready, op)
    <3>1. W = {}
      BY <1>1, <2>2, Elements DEF Waits, Live
    <3> QED
      BY <2>2, <3>1, FS_EmptySet
  <2> QED
    BY <2>1, <2>2
<1>4. UnderWay(op) = Cardinality(pending \cap {op}) + Cardinality(W)
  BY DEF UnderWay
<1> HIDE DEF W
<1> QED
  BY <1>1, <1>2, <1>3, <1>4 DEF Attempting

\* The client tries to connect once at a time and never while it reads, for any delays:
\* neither the timer nor a handler of a dead connection disturbs the next one.
THEOREM SingleAttempt == Spec => []OneAttempt
<1>1. IInv => OneAttempt
  <2> SUFFICES ASSUME IInv PROVE OneAttempt
    OBVIOUS
  <2>1. \A op \in Counted : UnderWay(op) = IF Attempting(op) THEN 1 ELSE 0
    BY UnderWayValue
  <2>2. \A op, o \in AttemptOps : Attempting(op) /\ Attempting(o) => op = o
    <3>1. TypeInv /\ Single /\ Phases
      BY DEF IInv
    <3>2. ASSUME NEW op \in AttemptOps, NEW o \in AttemptOps, Waits(ready, op), Waits(ready, o)
          PROVE  op = o
      BY <3>1, <3>2 DEF Phases, Attempting, Only, Waits, Live, AttemptOps, HandshakeOps
    <3>3. ASSUME NEW op \in AttemptOps, NEW o \in AttemptOps, op \in pending, Attempting(o)
          PROVE  op = o
      BY <3>1, <3>3 DEF Phases, Attempting, Only, Waits, Live, AttemptOps, HandshakeOps, Single, Counted
    <3> QED
      BY <3>2, <3>3 DEF Attempting
  <2>3. /\ UnderWay("timer") + UnderWay("resolve") + UnderWay("connect") + UnderWay("tls")
             + UnderWay("handshake") <= 1
        /\ UnderWay("read") <= 1
    BY <2>1, <2>2 DEF Counted, AttemptOps, HandshakeOps
  <2>4. ASSUME conn \in {"fresh", "open"}
        PROVE  UnderWay("timer") = 0 /\ \A i \in 1..Len(ready) : ready[i].result # "aborted"
    <3>1. NoneAborted /\ ~Attempting("timer")
      BY <2>4 DEF IInv, Phases, Attempting
    <3>2. \A i \in 1..Len(ready) : ready[i] \in Range(ready)
      BY Elements DEF IInv, TypeInv
    <3> QED
      BY <2>1, <3>1, <3>2 DEF NoneAborted, Counted, AttemptOps
  <2> QED
    BY <2>3, <2>4 DEF OneAttempt
<1> QED
  BY <1>1, Invariance, PTL

\* async_write never refers to a frame that is gone and a connection carries the
\* subscription once, for any delays.
THEOREM FrameKept == Spec => []WriteBufferAlive
<1>1. IInv => WriteBufferAlive
  <2> SUFFICES ASSUME IInv PROVE WriteBufferAlive
    OBVIOUS
  <2>1. UnderWay("write") = IF Attempting("write") THEN 1 ELSE 0
    BY UnderWayValue DEF Counted
  <2>2. TypeInv /\ Frames
    BY DEF IInv
  <2>3. CASE Attempting("write")
    <3>1. writing_ /\ write_queue_ > 0 /\ written = 0
      BY <2>2, <2>3 DEF Frames, TypeInv
    <3> QED
      BY <2>1, <2>3, <3>1 DEF WriteBufferAlive
  <2>4. CASE ~Attempting("write")
    <3>1. UnderWay("write") = 0 /\ written <= 1 /\ written \in Nat
      BY <2>1, <2>2, <2>4 DEF Frames, TypeInv
    <3> QED
      BY <3>1 DEF WriteBufferAlive
  <2> QED
    BY <2>3, <2>4
<1> QED
  BY <1>1, Invariance, PTL
==================================================================================
