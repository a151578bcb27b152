----------------------------- MODULE DashboardHub -----------------------------
(***************************************************************************)
(* The snapshot shared by the engine, output and server threads            *)
(* (server/dashboard_hub.h), with the parts of run_engine and run_output   *)
(* that feed it and the broadcast callback of main.cpp that reads it.      *)
(*                                                                         *)
(* The order book is a version number that grows with every message, so a  *)
(* copy of one side is the version it was copied from.  A fill is its      *)
(* sequence number fill_seq.  What a thread does under mu_ is cut into     *)
(* steps, so that only the lock keeps the others out.                      *)
(***************************************************************************)
EXTENDS Integers, Sequences

CONSTANTS FILL_KEEP,    \* rows kept by the hub, and by the output thread
          MaxUpdates,   \* bound: messages the engine processes
          MaxFills      \* bound: fills the output thread receives

ASSUME HubAssumption ==
  FILL_KEEP \in Nat \ {0} /\ MaxUpdates \in Nat /\ MaxFills \in Nat

VARIABLES
  book_wanted_, mu_,                            \* request flag; who holds the mutex
  bids_, asks_, fills_, fill_head_, fill_count_,
  book, engine_pc,                              \* engine thread
  fill_seq, pending_fills, pending_head, row, output_pc,   \* output thread
  server_pc, frame,                             \* server thread and the last frame sent
  requested,                                    \* auxiliary: book at the last request
  published, shown                              \* auxiliary: fills handed to the hub; those
                                                \* at the time the frame was copied

dataVars == <<bids_, asks_, fills_, fill_head_, fill_count_>>
engineVars == <<book, engine_pc>>
outputVars == <<fill_seq, pending_fills, pending_head, row, output_pc, published>>
frameVars == <<server_pc, frame, requested, shown>>
hubVars == <<book_wanted_, mu_, dataVars, engineVars, outputVars, frameVars>>

HubInit ==
  /\ book_wanted_ = FALSE /\ mu_ = "none"
  /\ bids_ = 0 /\ asks_ = 0
  /\ fills_ = [i \in 0..(FILL_KEEP - 1) |-> 0] /\ fill_head_ = 0 /\ fill_count_ = 0
  /\ book = 0 /\ engine_pc = "loop"
  /\ fill_seq = 0 /\ pending_fills = << >> /\ pending_head = 0 /\ row = 0 /\ output_pc = "loop"
  /\ server_pc = "tick" /\ frame = [bids |-> 0, asks |-> 0, fills |-> << >>] /\ requested = 0
  /\ published = 0 /\ shown = 0

(***************************************************************************)
(* Engine thread                                                           *)
(***************************************************************************)

\* the message this iteration processes, if there is one
Process == (book < MaxUpdates /\ book' = book + 1) \/ UNCHANGED book

TryLock ==
  IF book_wanted_ /\ mu_ = "none"
  THEN mu_' = "engine" /\ engine_pc' = "clear"
  ELSE UNCHANGED <<mu_, engine_pc>>

\* mutant: the request is looked at only after a message
EngineLoopBusy ==
  /\ engine_pc = "loop"
  /\ book < MaxUpdates /\ book' = book + 1
  /\ TryLock
  /\ UNCHANGED <<book_wanted_, dataVars, outputVars, frameVars>>

\* mutant: the flag is lowered before the lock is known to be ours
EngineLoopLowers ==
  /\ engine_pc = "loop"
  /\ Process
  /\ TryLock
  /\ book_wanted_' = FALSE
  /\ UNCHANGED <<dataVars, outputVars, frameVars>>

\* mutant: the result of try_to_lock is not looked at
EngineLoopUnlocked ==
  /\ engine_pc = "loop"
  /\ Process
  /\ engine_pc' = IF book_wanted_ THEN "clear" ELSE "loop"
  /\ UNCHANGED <<book_wanted_, mu_, dataVars, outputVars, frameVars>>

\* One turn of run_engine up to the try_lock of publish_book: the request is
\* looked at with or without a message.  Without the lock the frame is skipped
\* and the flag stays up.
EngineLoop ==
  /\ engine_pc = "loop"
  /\ Process
  /\ TryLock
  /\ UNCHANGED <<book_wanted_, dataVars, outputVars, frameVars>>

EngineClear ==
  /\ engine_pc = "clear"
  /\ book_wanted_' = FALSE
  /\ engine_pc' = "bids"
  /\ UNCHANGED <<mu_, dataVars, book, outputVars, frameVars>>

EngineCopyBids ==
  /\ engine_pc = "bids"
  /\ bids_' = book
  /\ engine_pc' = "asks"
  /\ UNCHANGED <<book_wanted_, mu_, asks_, fills_, fill_head_, fill_count_, book, outputVars, frameVars>>

EngineCopyAsks ==
  /\ engine_pc = "asks"
  /\ asks_' = book
  /\ mu_' = "none" /\ engine_pc' = "loop"
  /\ UNCHANGED <<book_wanted_, bids_, fills_, fill_head_, fill_count_, book, outputVars, frameVars>>

Engine == EngineLoop \/ EngineClear \/ EngineCopyBids \/ EngineCopyAsks

(***************************************************************************)
(* Output thread                                                           *)
(***************************************************************************)

\* a full pending_fills overwrites its oldest row
OutputFill ==
  /\ output_pc = "loop" /\ fill_seq < MaxFills
  /\ fill_seq' = fill_seq + 1
  /\ IF Len(pending_fills) < FILL_KEEP
     THEN pending_fills' = Append(pending_fills, fill_seq + 1) /\ UNCHANGED pending_head
     ELSE /\ pending_fills' = [pending_fills EXCEPT ![pending_head + 1] = fill_seq + 1]
          /\ pending_head' = (pending_head + 1) % FILL_KEEP
  /\ UNCHANGED <<book_wanted_, mu_, dataVars, engineVars, row, output_pc, published, frameVars>>

Rotated ==
  IF pending_head # 0 /\ Len(pending_fills) = FILL_KEEP
  THEN SubSeq(pending_fills, pending_head + 1, FILL_KEEP) \o SubSeq(pending_fills, 1, pending_head)
  ELSE pending_fills

\* publish_dashboard: rows oldest first, then publish_output takes the lock
OutputPublish ==
  /\ output_pc = "loop" /\ mu_ = "none"
  /\ mu_' = "output"
  /\ pending_fills' = Rotated
  /\ row' = 0 /\ output_pc' = "rows"
  /\ UNCHANGED <<book_wanted_, dataVars, engineVars, fill_seq, pending_head, published, frameVars>>

OutputRow ==
  /\ output_pc = "rows" /\ row < Len(pending_fills)
  /\ fills_' = [fills_ EXCEPT ![fill_head_] = pending_fills[row + 1]]
  /\ fill_head_' = (fill_head_ + 1) % FILL_KEEP
  /\ fill_count_' = IF fill_count_ < FILL_KEEP THEN fill_count_ + 1 ELSE fill_count_
  /\ row' = row + 1
  /\ UNCHANGED <<book_wanted_, mu_, bids_, asks_, engineVars, fill_seq, pending_fills, pending_head,
                 output_pc, published, frameVars>>

\* mutant: pending_head is not reset with the rows
OutputPublishedStaleHead ==
  /\ output_pc = "rows" /\ row = Len(pending_fills)
  /\ mu_' = "none" /\ output_pc' = "loop"
  /\ pending_fills' = << >>
  /\ published' = fill_seq
  /\ UNCHANGED <<book_wanted_, dataVars, engineVars, fill_seq, pending_head, row, frameVars>>

OutputPublished ==
  /\ output_pc = "rows" /\ row = Len(pending_fills)
  /\ mu_' = "none" /\ output_pc' = "loop"
  /\ pending_fills' = << >> /\ pending_head' = 0
  /\ published' = fill_seq
  /\ UNCHANGED <<book_wanted_, dataVars, engineVars, fill_seq, row, frameVars>>

Output == OutputFill \/ OutputPublish \/ OutputRow \/ OutputPublished

(***************************************************************************)
(* Server thread: the snapshot function, at every tick of the broadcast    *)
(***************************************************************************)

request_book ==
  /\ server_pc = "tick"
  /\ book_wanted_' = TRUE
  /\ requested' = book
  /\ server_pc' = "lock"
  /\ UNCHANGED <<mu_, dataVars, engineVars, outputVars, frame, shown>>

ServerLock ==
  /\ server_pc = "lock" /\ mu_ = "none"
  /\ mu_' = "server"
  /\ server_pc' = "bids"
  /\ UNCHANGED <<book_wanted_, dataVars, engineVars, outputVars, frame, requested, shown>>

ServerBids ==
  /\ server_pc = "bids"
  /\ frame' = [bids |-> bids_, asks |-> frame.asks, fills |-> frame.fills]
  /\ server_pc' = "rest"
  /\ UNCHANGED <<book_wanted_, mu_, dataVars, engineVars, outputVars, requested, shown>>

\* the tape of the hub, oldest first
Tape == [i \in 1..fill_count_ |-> fills_[(fill_head_ + FILL_KEEP - fill_count_ + i - 1) % FILL_KEEP]]

ServerRest ==
  /\ server_pc = "rest"
  /\ frame' = [bids |-> frame.bids, asks |-> asks_, fills |-> Tape]
  /\ shown' = published
  /\ mu_' = "none" /\ server_pc' = "tick"
  /\ UNCHANGED <<book_wanted_, dataVars, engineVars, outputVars, requested>>

Server == request_book \/ ServerLock \/ ServerBids \/ ServerRest

HubNext == Engine \/ Output \/ Server

HubSpec == HubInit /\ [][HubNext]_hubVars

\* Every thread keeps running.  mu_ is held for microseconds, twice every 100 ms:
\* whoever asks for it again and again gets it.
HubFairSpec ==
  /\ HubSpec
  /\ WF_hubVars(Engine) /\ WF_hubVars(Server) /\ WF_hubVars(OutputRow \/ OutputPublished)
  /\ SF_hubVars(EngineLoop /\ mu_' = "engine") /\ SF_hubVars(ServerLock)

(***************************************************************************)
(* Properties                                                              *)
(***************************************************************************)

\* Both sides of a frame come from one and the same book, although engine and
\* server never wait for each other's whole pass.
FrameNotTorn == server_pc \in {"tick", "lock"} => frame.bids = frame.asks

\* The tape of a frame is the newest of all the fills published when it was copied,
\* up to FILL_KEEP of them, oldest first and without a gap: neither the wrap-around
\* of the two rings nor an overflow between two publications shows.
TapeExact ==
  LET kept == IF shown < FILL_KEEP THEN shown ELSE FILL_KEEP
  IN  frame.fills = [i \in 1..kept |-> shown - kept + i]

\* When the flag is down and the engine is not copying, the hub holds a book at
\* least as new as the last request: a request is never swallowed, neither by a
\* failed try_lock nor by the flag being lowered while it is raised again.
NoRequestLost ==
  ~book_wanted_ /\ engine_pc = "loop" => bids_ >= requested /\ asks_ >= requested

\* Frames catch up with the book: once the server has asked, a book as new as
\* its request is broadcast, in a quiet market too.
FramesFresh == \A v \in 1..MaxUpdates : requested = v ~> frame.bids >= v
===============================================================================
