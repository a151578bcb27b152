---------------------------- MODULE WebSocketClient ----------------------------
(***************************************************************************)
(* The reconnecting client of the live feed (feed/ws_client.cpp), with the *)
(* subscription CoinbaseFeed sends on every connect.                       *)
(*                                                                         *)
(* Everything runs on one io_context thread.  An asynchronous operation is *)
(* in pending until it completes; its handler then waits in ready, which   *)
(* is served in order together with the functions posted by send() and     *)
(* stop().  Closing the transport completes the operations pending on it   *)
(* as aborted.  What Boost and the network do (Complete, Aborted and the   *)
(* states of conn) is external: modelled from how the client uses it.      *)
(*                                                                         *)
(* Written frames are counted, not modelled: the only one is the           *)
(* subscription.  Received messages go to module Feed.                     *)
(***************************************************************************)
EXTENDS Integers, Sequences, FiniteSets, Functions

CONSTANTS BaseDelay, MaxDelay,   \* reconnect_base_delay, reconnect_max_delay
          ShiftCap,              \* 16: clamp of the backoff's shift
          Width,                 \* 32: bits of 1u
          MaxAttempts            \* where the count of failures in a row saturates

ASSUME DelayAssumption ==
  /\ BaseDelay \in Nat \ {0} /\ MaxDelay \in Nat /\ BaseDelay <= MaxDelay
  /\ ShiftCap \in Nat /\ Width \in Nat /\ ShiftCap < Width
  /\ MaxAttempts \in Nat /\ ShiftCap <= MaxAttempts

SocketOps == {"connect", "tls", "handshake", "read", "write", "close"}
Ops == SocketOps \cup {"resolve", "timer"}

VARIABLES
  conn,                 \* ws_: "fresh" (not open yet), "open", "closing" or "shut"
  write_queue_,         \* number of frames queued
  writing_, stopping_, reconnect_attempts_,
  pending, ready,       \* operations outstanding; handlers due, in order
  stop_called, running, \* stop() has been called; run() has not returned
  delay,                \* backoff of the last reconnect scheduled
  written               \* auxiliary: frames written on this connection

vars == <<conn, write_queue_, writing_, stopping_, reconnect_attempts_, pending, ready,
          stop_called, running, delay, written>>

\* run() has called start_connect, which is resolving the host
Init ==
  /\ conn = "fresh" /\ write_queue_ = 0 /\ writing_ = FALSE
  /\ stopping_ = FALSE /\ reconnect_attempts_ = 0
  /\ pending = {"resolve"} /\ ready = << >>
  /\ stop_called = FALSE /\ running = TRUE
  /\ delay = 0 /\ written = 0

Due(op, result) == [op |-> op, result |-> result]

(***************************************************************************)
(* Boost and the network                                                   *)
(***************************************************************************)

\* a stream that is shut, or whose peer is gone, only lets operations fail
Results(op) ==
  IF op = "timer" THEN {"ok"}
  ELSE IF op \in SocketOps /\ conn = "shut" THEN {"failed"} ELSE {"ok", "failed"}

\* an operation completes; a websocket is open from the end of its handshake
\* to the first failure of a read or a write.  The backoff, half a second at
\* least, outlasts the handlers of the dead connection that are due.
Complete(op, result) ==
  /\ op \in pending /\ result \in Results(op)
  /\ op = "timer" => \A i \in 1..Len(ready) : ready[i].op = "stop"
  /\ pending' = pending \ {op}
  /\ ready' = Append(ready, Due(op, result))
  /\ conn' = CASE op = "handshake" /\ result = "ok" -> "open"
               [] op \in {"read", "write", "close"} /\ result = "failed" -> "shut"
               [] OTHER -> conn
  /\ UNCHANGED <<write_queue_, writing_, stopping_, reconnect_attempts_, stop_called, running,
                 delay, written>>

\* the sequences in which each of the operations ops occurs once
Orders(ops) == Bijection(1..Cardinality(ops), ops)

\* handlers of the operations that closing the transport aborts, in any order
Aborted == {[i \in DOMAIN order |-> Due(order[i], "aborted")] :
              order \in Orders(pending \cap SocketOps)}

(***************************************************************************)
(* The client                                                              *)
(***************************************************************************)

\* An operation is started by the handler at the head of ready; on a stream that
\* is shut it fails at once.
Start(op) ==
  IF conn = "shut" THEN ready' = Append(Tail(ready), Due(op, "failed")) /\ UNCHANGED pending
  ELSE ready' = Tail(ready) /\ pending' = pending \cup {op}

\* beyond ShiftCap the count makes no difference to the backoff
Bump(attempts) == IF attempts < MaxAttempts THEN attempts + 1 ELSE attempts

\* mutant: the shift is not clamped
BackoffUnclamped(attempts) ==
  LET shifted == BaseDelay * (2^attempts % 2^Width)
  IN  IF shifted < MaxDelay THEN shifted ELSE MaxDelay

Backoff(attempts) ==
  LET shift   == IF attempts < ShiftCap THEN attempts ELSE ShiftCap
      shifted == BaseDelay * (2^shift % 2^Width)
  IN  IF shifted < MaxDelay THEN shifted ELSE MaxDelay

\* mutant: the wait that a new failure supersedes is taken for an expired one
schedule_reconnect_superseded(result) ==
  IF stopping_ \/ result = "aborted"
  THEN ready' = Tail(ready) /\ UNCHANGED <<conn, reconnect_attempts_, pending, delay>>
  ELSE /\ delay' = Backoff(reconnect_attempts_)
       /\ reconnect_attempts_' = Bump(reconnect_attempts_)
       /\ conn' = "shut"
       /\ \E aborted \in Aborted :
            ready' = Tail(ready) \o aborted
                     \o (IF "timer" \in pending THEN <<Due("timer", "ok")>> ELSE << >>)
       /\ pending' = (pending \ SocketOps) \cup {"timer"}

\* mutant: the old transport is not closed
schedule_reconnect_leaves_open(result) ==
  IF stopping_ \/ result = "aborted"
  THEN ready' = Tail(ready) /\ UNCHANGED <<conn, reconnect_attempts_, pending, delay>>
  ELSE /\ delay' = Backoff(reconnect_attempts_)
       /\ reconnect_attempts_' = Bump(reconnect_attempts_)
       /\ ready' = Tail(ready) /\ pending' = pending \cup {"timer"}
       /\ UNCHANGED conn

\* mutant: a failure that follows another one does not arm the timer
schedule_reconnect_once(result) ==
  IF stopping_ \/ result = "aborted" \/ reconnect_attempts_ > 0
  THEN ready' = Tail(ready) /\ conn' = "shut" /\ UNCHANGED <<reconnect_attempts_, pending, delay>>
  ELSE /\ delay' = Backoff(reconnect_attempts_)
       /\ reconnect_attempts_' = Bump(reconnect_attempts_)
       /\ conn' = "shut"
       /\ \E aborted \in Aborted : ready' = Tail(ready) \o aborted
       /\ pending' = (pending \ SocketOps) \cup {"timer"}

\* Called by the handler at the head of ready.  Arming the timer again cancels
\* a wait that is still pending; its handler then has nothing to do.
schedule_reconnect(result) ==
  IF stopping_ \/ result = "aborted"
  THEN ready' = Tail(ready) /\ UNCHANGED <<conn, reconnect_attempts_, pending, delay>>
  ELSE /\ delay' = Backoff(reconnect_attempts_)
       /\ reconnect_attempts_' = Bump(reconnect_attempts_)
       /\ conn' = "shut"
       /\ \E aborted \in Aborted : ready' = Tail(ready) \o aborted
       /\ pending' = (pending \ SocketOps) \cup {"timer"}

\* The handler of op is next.
Serve(op) == ready # << >> /\ Head(ready).op = op

\* async_connect opens a socket, also when the old one has been closed
on_resolved ==
  /\ Serve("resolve")
  /\ IF Head(ready).result = "ok"
     THEN /\ conn' = "fresh"
          /\ ready' = Tail(ready) /\ pending' = pending \cup {"connect"}
          /\ UNCHANGED <<reconnect_attempts_, delay>>
     ELSE schedule_reconnect(Head(ready).result)
  /\ UNCHANGED <<write_queue_, writing_, stopping_, stop_called, running, written>>

\* setting the SNI host name may fail
on_tcp_connected ==
  /\ Serve("connect")
  /\ \/ /\ Head(ready).result = "ok"
        /\ Start("tls")
        /\ UNCHANGED <<conn, reconnect_attempts_, delay>>
     \/ Head(ready).result = "ok" /\ schedule_reconnect("failed")
     \/ Head(ready).result # "ok" /\ schedule_reconnect(Head(ready).result)
  /\ UNCHANGED <<write_queue_, writing_, stopping_, stop_called, running, written>>

on_tls_handshake_done ==
  /\ Serve("tls")
  /\ \/ /\ Head(ready).result = "ok"
        /\ Start("handshake")
        /\ UNCHANGED <<conn, reconnect_attempts_, delay>>
     \/ Head(ready).result # "ok" /\ schedule_reconnect(Head(ready).result)
  /\ UNCHANGED <<write_queue_, writing_, stopping_, stop_called, running, written>>

\* CoinbaseFeed's connect handler posts the subscription
connect_handler == <<Due("send", "ok")>>

\* connected: the connect handler posts the subscription, frames queued before
\* are flushed and the first read starts
on_handshake ==
  /\ Serve("handshake")
  /\ \/ /\ Head(ready).result = "ok"
        /\ LET started == {"read"} \cup (IF write_queue_ > 0 /\ ~writing_ THEN {"write"} ELSE {})
           IN  /\ \E order \in Orders(IF conn = "shut" THEN started ELSE {}) :
                    ready' = Tail(ready) \o connect_handler
                             \o [i \in DOMAIN order |-> Due(order[i], "failed")]
               /\ pending' = IF conn = "shut" THEN pending ELSE pending \cup started
               /\ writing_' = (writing_ \/ "write" \in started)
        /\ reconnect_attempts_' = 0
        /\ UNCHANGED <<conn, delay>>
     \/ /\ Head(ready).result # "ok" /\ schedule_reconnect(Head(ready).result)
        /\ UNCHANGED writing_
  /\ UNCHANGED <<write_queue_, stopping_, stop_called, running, written>>

\* a message goes to the message handler (module Feed) and the next read starts
do_read ==
  /\ Serve("read")
  /\ \/ Head(ready).result = "ok" /\ Start("read") /\ UNCHANGED <<conn, reconnect_attempts_, delay>>
     \/ Head(ready).result # "ok" /\ schedule_reconnect(Head(ready).result)
  /\ UNCHANGED <<write_queue_, writing_, stopping_, stop_called, running, written>>

do_write ==
  /\ Serve("write")
  /\ IF Head(ready).result = "ok"
     THEN /\ write_queue_' = write_queue_ - 1 /\ written' = written + 1
          /\ IF write_queue_ > 1 THEN Start("write") /\ writing_' = TRUE
             ELSE ready' = Tail(ready) /\ writing_' = FALSE /\ UNCHANGED pending
          /\ UNCHANGED <<conn, reconnect_attempts_, delay>>
     ELSE /\ schedule_reconnect(Head(ready).result) /\ writing_' = FALSE
          /\ UNCHANGED <<write_queue_, written>>
  /\ UNCHANGED <<stopping_, stop_called, running>>

\* the posted part of send()
send ==
  /\ Serve("send")
  /\ write_queue_' = write_queue_ + 1
  /\ IF conn = "open" /\ ~writing_ THEN Start("write") /\ writing_' = TRUE
     ELSE ready' = Tail(ready) /\ UNCHANGED <<writing_, pending>>
  /\ UNCHANGED <<conn, stopping_, reconnect_attempts_, stop_called, running, delay, written>>

\* the handler of async_close does nothing
on_closed ==
  /\ Serve("close")
  /\ ready' = Tail(ready)
  /\ UNCHANGED <<conn, write_queue_, writing_, stopping_, reconnect_attempts_, pending,
                 stop_called, running, delay, written>>

\* the backoff is over: a fresh stream
start_connect ==
  /\ Serve("timer")
  /\ ready' = Tail(ready)
  /\ IF stopping_ THEN UNCHANGED <<conn, write_queue_, writing_, pending, written>>
     ELSE /\ conn' = "fresh" /\ write_queue_' = 0 /\ writing_' = FALSE /\ written' = 0
          /\ pending' = pending \cup {"resolve"}
  /\ UNCHANGED <<stopping_, reconnect_attempts_, stop_called, running, delay>>

\* stop() posts its work, from another thread and at any time
StopCall ==
  /\ ~stop_called /\ running
  /\ stop_called' = TRUE
  /\ ready' = Append(ready, Due("stop", "ok"))
  /\ UNCHANGED <<conn, write_queue_, writing_, stopping_, reconnect_attempts_, pending, running,
                 delay, written>>

\* mutant: an open websocket is left alone
stop_leaves_open ==
  /\ Serve("stop")
  /\ stopping_' = TRUE
  /\ IF conn = "open"
     THEN pending' = pending \ {"timer"} /\ ready' = Tail(ready) /\ UNCHANGED conn
     ELSE /\ conn' = "shut"
          /\ pending' = pending \ (SocketOps \cup {"timer"})
          /\ \E aborted \in Aborted : ready' = Tail(ready) \o aborted
  /\ UNCHANGED <<write_queue_, writing_, reconnect_attempts_, stop_called, running, delay, written>>

\* the timer is cancelled; an open websocket is closed politely, any other
\* transport at once.  A host being resolved is neither.
stop ==
  /\ Serve("stop")
  /\ stopping_' = TRUE
  /\ IF conn = "open"
     THEN /\ conn' = "closing"
          /\ pending' = (pending \ {"timer"}) \cup {"close"}
          /\ ready' = Tail(ready)
     ELSE /\ conn' = "shut"
          /\ pending' = pending \ (SocketOps \cup {"timer"})
          /\ \E aborted \in Aborted : ready' = Tail(ready) \o aborted
  /\ UNCHANGED <<write_queue_, writing_, reconnect_attempts_, stop_called, running, delay, written>>

\* run() returns when nothing is left to wait for
RunReturns ==
  /\ running /\ pending = {} /\ ready = << >>
  /\ running' = FALSE
  /\ UNCHANGED <<conn, write_queue_, writing_, stopping_, reconnect_attempts_, pending, ready,
                 stop_called, delay, written>>

Handler ==
  \/ on_resolved \/ on_tcp_connected \/ on_tls_handshake_done \/ on_handshake
  \/ do_read \/ do_write \/ send \/ on_closed \/ start_connect \/ stop \/ RunReturns

Network == \E op \in Ops, result \in {"ok", "failed"} : Complete(op, result)

Next == Handler \/ Network \/ StopCall

Spec == Init /\ [][Next]_vars

\* The io thread serves its handlers.  Every operation but a read ends: the
\* resolver, the handshakes and a write have timeouts.  A read on a websocket
\* that is being closed fails when the peer answers or the close times out.
FairSpec ==
  /\ Spec
  /\ WF_vars(Handler)
  /\ \A op \in Ops \ {"read"} : WF_vars(\E result \in {"ok", "failed"} : Complete(op, result))
  /\ SF_vars(conn \in {"closing", "shut"} /\ Complete("read", "failed"))

(***************************************************************************)
(* Properties                                                              *)
(***************************************************************************)

\* How often op is under way: outstanding, or completed and not yet handled.
UnderWay(op) ==
  Cardinality(pending \cap {op})
    + Cardinality({i \in 1..Len(ready) : ready[i].op = op /\ ready[i].result # "aborted"})

\* At most one attempt to connect is under way, and none while a connection is
\* being read, although a read and a write can both fail and each schedules a
\* reconnect: a timer or a handler of the old connection never disturbs the new.
OneAttempt ==
  /\ UnderWay("timer") + UnderWay("resolve") + UnderWay("connect") + UnderWay("tls")
       + UnderWay("handshake") <= 1
  /\ UnderWay("read") <= 1
  /\ conn \in {"fresh", "open"} =>
       UnderWay("timer") = 0 /\ \A i \in 1..Len(ready) : ready[i].result # "aborted"

\* One write at a time, and its frame stays in write_queue_ until its handler has
\* run: async_write never refers to a frame that is gone, and pop_front finds it.
\* A connection carries the subscription once: frames meant for one that died are
\* not sent on the next.
WriteBufferAlive ==
  /\ written + UnderWay("write") <= 1
  /\ UnderWay("write") = 1 => writing_ /\ write_queue_ > 0

\* While the client fails to connect its delay only grows, up to the maximum, and
\* it is never zero, however long the outage: the shift does not overflow.
BackoffGrows ==
  [][/\ reconnect_attempts_ > 0 => delay' >= delay
     /\ delay' # delay => delay' \in BaseDelay..MaxDelay]_vars

\* A lost connection is replaced by a fresh attempt, whichever operation noticed.
Reconnects == conn = "shut" ~> (conn = "fresh" \/ stop_called)

\* stop() ends run(), if its work is not done while the host is being resolved.
StopUnwinds == (Serve("stop") /\ UnderWay("resolve") = 0) ~> ~running

\* ws_client.h: run() "blocks until stop()"; ws_client.cpp: "after stop(),
\* handlers unwind without rearming and run() returns naturally"
StopReturns == stop_called ~> ~running
===============================================================================
