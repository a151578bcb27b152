---------------------------- MODULE DashboardServer ----------------------------
(***************************************************************************)
(* The broadcast server of the dashboard (server/ws_server.cpp): accept    *)
(* loop, broadcast timer, one DashboardSession per browser, and stop().    *)
(* Everything but stop() runs on one io_context thread, so each completion *)
(* handler is one action.  What Beast does between two handlers is the     *)
(* external part: a session records the operations it has outstanding and  *)
(* the state of its stream, and a handler may run with every result the    *)
(* stream's state allows.                                                  *)
(*                                                                         *)
(* A queued frame is its distance from the last frame the browser has got, *)
(* so that numbers stay small however long the server broadcasts.          *)
(***************************************************************************)
EXTENDS Integers, Sequences, FiniteSets

CONSTANTS Browsers,     \* connections that can exist at a time
          MAX_QUEUED    \* frames buffered per session

ASSUME ServerAssumption == MAX_QUEUED \in Nat \ {0}

VARIABLES
  session,                 \* the DashboardSession of each browser, NoSession if none
  sessions_, clients_,     \* sessions broadcast to, and the count other threads read
  accepting, ticking,      \* an async_accept, an async_wait of the timer is outstanding
  stopping_, main          \* main: what start() and stop() have done

vars == <<session, sessions_, clients_, accepting, ticking, stopping_, main>>

NoSession ==
  [stream |-> "none", ready_ |-> FALSE, writing_ |-> FALSE, queue_ |-> << >>,
   ops |-> {}, writes |-> 0,          \* outstanding: accept, read, close; async_writes
   behind |-> 0, refused |-> "none"]  \* auxiliary: frames broadcast since the last one it got;
                                      \* one was refused "early", in the handshake, or "late"

Init ==
  /\ session = [b \in Browsers |-> NoSession]
  /\ sessions_ = {} /\ clients_ = 0
  /\ accepting = FALSE /\ ticking = FALSE
  /\ stopping_ = FALSE /\ main = "created"

(***************************************************************************)
(* DashboardSession: each operation maps a session to the next             *)
(***************************************************************************)

do_write(s) == [s EXCEPT !.writing_ = TRUE, !.writes = @ + 1]

\* async_close: waits behind a write that is under way, and the stream counts as
\* open until then.  Only one close may be outstanding: of a second one that is
\* issued while the first still waits, one is never completed.
close(s) ==
  IF s.stream # "open" THEN s
  ELSE IF "close" \in s.ops THEN [s EXCEPT !.ops = @ \cup {"lost"}]
  ELSE [s EXCEPT !.ops = @ \cup {"close"}, !.stream = IF s.writes = 0 THEN "closing" ELSE @]

\* from the first refusal on the browser misses frames, and they are no longer told apart
Refused(s) == [s EXCEPT !.refused = IF s.ready_ THEN "late" ELSE "early",
                        !.behind = 0, !.queue_ = [i \in DOMAIN @ |-> 0]]

Queued(s) ==
  LET n == IF s.refused = "none" THEN s.behind + 1 ELSE 0
  IN  [s EXCEPT !.queue_ = Append(@, n), !.behind = n]

\* mutant: does not look at writing_
SendAtOnce(s) ==
  IF Len(s.queue_) >= MAX_QUEUED THEN close(Refused(s))
  ELSE IF s.ready_ THEN do_write(Queued(s)) ELSE Queued(s)

\* mutant: a full queue loses the frame and the client stays
SendLossy(s) ==
  IF Len(s.queue_) >= MAX_QUEUED THEN Refused(s)
  ELSE IF s.ready_ /\ ~s.writing_ THEN do_write(Queued(s)) ELSE Queued(s)

send(s) ==
  IF Len(s.queue_) >= MAX_QUEUED THEN close(Refused(s))
  ELSE IF s.ready_ /\ ~s.writing_ THEN do_write(Queued(s)) ELSE Queued(s)

\* the handshake is done: do_read(), and the frames that came meanwhile
Ready(s) ==
  LET reading == [s EXCEPT !.stream = "open", !.ready_ = TRUE, !.ops = {"read"}]
  IN  IF s.queue_ # << >> THEN do_write(reading) ELSE reading

\* the frames that remain, counted from f, which the browser has now got
CountFrom(f, frames) == [i \in DOMAIN frames |-> frames[i] - f]

\* mutant: the frame stays at the front after it was sent
WrittenKept(s) ==
  LET f    == Head(s.queue_)
      sent == [s EXCEPT !.writing_ = FALSE, !.writes = @ - 1,
                        !.queue_ = CountFrom(f, @), !.behind = @ - f,
                        !.stream = IF "close" \in s.ops THEN "closing" ELSE @]
  IN  IF sent.queue_ # << >> THEN do_write(sent) ELSE sent

\* the front frame is out; a close that waited for it goes next
Written(s) ==
  LET f    == Head(s.queue_)
      sent == [s EXCEPT !.writing_ = FALSE, !.writes = @ - 1,
                        !.queue_ = CountFrom(f, Tail(@)), !.behind = @ - f,
                        !.stream = IF "close" \in s.ops THEN "closing" ELSE @]
  IN  IF sent.queue_ # << >> THEN do_write(sent) ELSE sent

\* an operation of the stream has failed: nothing works on it from here on
Failed(s, op) == [s EXCEPT !.stream = "dead", !.ops = @ \ {op}]

(***************************************************************************)
(* DashboardServer: the handlers                                           *)
(***************************************************************************)

\* the last reference to a session goes with its last outstanding operation
Put(b, s, members) ==
  session' = [session EXCEPT ![b] = IF b \notin members /\ s.ops = {} /\ s.writes = 0
                                    THEN NoSession ELSE s]

\* a handler that leaves the session where it is
Keep(b, s) == Put(b, s, sessions_) /\ UNCHANGED <<sessions_, clients_>>

\* mutant: the count is not brought up to date
DropUncounted(b, s) ==
  /\ sessions_' = sessions_ \ {b}
  /\ Put(b, s, sessions_')
  /\ UNCHANGED clients_

drop_session(b, s) ==
  /\ sessions_' = sessions_ \ {b}
  /\ clients_' = Cardinality(sessions_')
  /\ Put(b, s, sessions_')

serverVars == <<accepting, ticking, stopping_, main>>

\* start(): fails when the port is taken
start ==
  /\ main = "created"
  /\ \/ main' = "disabled" /\ UNCHANGED <<accepting, ticking>>
     \/ main' = "running" /\ accepting' = TRUE /\ ticking' = TRUE
  /\ UNCHANGED <<session, sessions_, clients_, stopping_>>

\* a connection: the session is in, its handshake starts, and accept goes on
AcceptOk(b) ==
  /\ accepting /\ ~stopping_ /\ session[b] = NoSession
  /\ sessions_' = sessions_ \cup {b}
  /\ clients_' = Cardinality(sessions_')
  /\ session' = [session EXCEPT ![b] = [NoSession EXCEPT !.stream = "handshake", !.ops = {"accept"}]]
  /\ UNCHANGED serverVars

\* an error, or a connection that comes after stop(): the loop ends
AcceptEnds ==
  /\ accepting
  /\ accepting' = FALSE
  /\ UNCHANGED <<session, sessions_, clients_, ticking, stopping_, main>>

HandshakeOk(b) ==
  /\ "accept" \in session[b].ops
  /\ Keep(b, Ready(session[b]))
  /\ UNCHANGED serverVars

HandshakeFails(b) ==
  /\ "accept" \in session[b].ops
  /\ drop_session(b, Failed(session[b], "accept"))
  /\ UNCHANGED serverVars

\* a message of the browser only starts the next read: the state stays as it is
ReadFails(b) ==
  /\ "read" \in session[b].ops
  /\ drop_session(b, Failed(session[b], "read"))
  /\ UNCHANGED serverVars

WriteOk(b) ==
  /\ session[b].writes > 0 /\ session[b].stream = "open"
  /\ Keep(b, Written(session[b]))
  /\ UNCHANGED serverVars

WriteFails(b) ==
  /\ session[b].writes > 0
  /\ drop_session(b, [Failed(session[b], "write") EXCEPT !.writing_ = FALSE, !.writes = @ - 1])
  /\ UNCHANGED serverVars

CloseDone(b) ==
  /\ "close" \in session[b].ops /\ session[b].stream \in {"closing", "dead"}
  /\ Keep(b, Failed(session[b], "close"))
  /\ UNCHANGED serverVars

\* the timer: one frame, handed to every session, with or without browsers
Tick ==
  /\ ticking /\ ~stopping_
  /\ session' = [b \in Browsers |-> IF b \in sessions_ THEN send(session[b]) ELSE session[b]]
  /\ UNCHANGED <<sessions_, clients_, accepting, ticking, stopping_, main>>

TimerEnds ==
  /\ ticking /\ stopping_
  /\ ticking' = FALSE
  /\ UNCHANGED <<session, sessions_, clients_, accepting, stopping_, main>>

\* stop(): main posts the handler and waits in join()
stop ==
  /\ main = "running"
  /\ main' = "joining"
  /\ UNCHANGED <<session, sessions_, clients_, accepting, ticking, stopping_>>

\* mutant: the sessions are forgotten without being closed
StopForgets ==
  /\ main = "joining" /\ ~stopping_
  /\ stopping_' = TRUE
  /\ sessions_' = {} /\ clients_' = 0
  /\ UNCHANGED <<session, accepting, ticking, main>>

StopHandler ==
  /\ main = "joining" /\ ~stopping_
  /\ stopping_' = TRUE
  /\ session' = [b \in Browsers |-> IF b \in sessions_ THEN close(session[b]) ELSE session[b]]
  /\ sessions_' = {} /\ clients_' = 0
  /\ UNCHANGED <<accepting, ticking, main>>

\* run() returns when nothing is outstanding any more, and join() with it
RunReturns ==
  /\ main = "joining" /\ stopping_ /\ ~accepting /\ ~ticking
  /\ \A b \in Browsers : session[b] = NoSession
  /\ main' = "joined"
  /\ UNCHANGED <<session, sessions_, clients_, accepting, ticking, stopping_>>

Next ==
  \/ start \/ AcceptEnds \/ Tick \/ TimerEnds \/ stop \/ StopHandler \/ RunReturns
  \/ \E b \in Browsers :
       \/ AcceptOk(b) \/ HandshakeOk(b) \/ HandshakeFails(b) \/ ReadFails(b)
       \/ WriteOk(b) \/ WriteFails(b) \/ CloseDone(b)

Spec == Init /\ [][Next]_vars

\* The timer fires, posted handlers run, and the suggested timeouts of the stream end
\* every handshake, write and close, and every read of a stream that is not open.
FairSpec ==
  /\ Spec
  /\ WF_vars(Tick) /\ WF_vars(TimerEnds) /\ WF_vars(StopHandler) /\ WF_vars(RunReturns)
  /\ WF_vars(stopping_ /\ AcceptEnds)
  /\ \A b \in Browsers :
       /\ WF_vars(HandshakeOk(b) \/ HandshakeFails(b)) /\ WF_vars(WriteOk(b) \/ WriteFails(b))
       /\ WF_vars(CloseDone(b)) /\ WF_vars(session[b].stream # "open" /\ ReadFails(b))

(***************************************************************************)
(* Properties                                                              *)
(***************************************************************************)

\* A session has at most one async_write outstanding, its buffer is the front of the
\* queue for as long as it runs, and frames wait only behind a write that is under way:
\* neither the handshake nor the end of a write leaves a queue standing.
OneWrite ==
  \A b \in Browsers :
    /\ session[b].writes <= 1
    /\ session[b].writes = 1 => session[b].queue_ # << >>
    /\ b \in sessions_ /\ session[b].ready_ => (session[b].writes = 1) = (session[b].queue_ # << >>)

\* A browser that was refused nothing gets every frame since it connected, in order and
\* once: what it has received and what is queued for it are all the frames there were.
FramesInOrder ==
  \A b \in sessions_ :
    session[b].refused = "none" => session[b].queue_ = [i \in 1..session[b].behind |-> i]

\* client_count() is the number of sessions broadcast to, and each of them has an
\* operation outstanding that ends when the browser goes: none is kept for ever.
SessionsWatched ==
  /\ clients_ = Cardinality(sessions_)
  /\ \A b \in sessions_ : session[b].ops \cap {"accept", "read"} # {}

\* A browser that is open and cannot keep up is disconnected, not buffered for.
SlowClientLeaves ==
  \A b \in Browsers : session[b].refused = "late" ~> b \notin sessions_

\* stop() returns, unless a session is still in its handshake, which close() passes over,
\* or a second close was issued on a session before the first one could start.
StopUnwinds ==
  [](main = "joining" => \A b \in Browsers : session[b].stream # "handshake" /\ "lost" \notin session[b].ops)
    => (main = "joining" ~> main = "joined")
===============================================================================
