---------------------------- MODULE PipelineStream ----------------------------
(***************************************************************************)
(* Pipeline with a stream of messages that need not end.  The generator of *)
(* main.cpp is throttled by SPSC #1 alone, so samples can keep coming for  *)
(* as long as a fill waits behind them; whether it waits for ever cannot   *)
(* be asked of a bounded number of messages.                               *)
(*                                                                         *)
(* Apart from that bound no step of Pipeline depends on how large a        *)
(* counter is, and its properties compare differences of counters only.    *)
(* So what is over and done with can be forgotten: Forget takes a message  *)
(* or a sample off every counter that has counted it.  MaxMessages then    *)
(* bounds the messages not yet forgotten, and the stream is endless in     *)
(* finitely many states.  Fills stay numbered and bounded, by MaxProduced. *)
(***************************************************************************)
EXTENDS Pipeline

CONSTANT MaxProduced   \* bound: fills of all messages together

ASSUME StreamAssumption == MaxProduced \in Nat

(***************************************************************************)
(* Forgetting                                                              *)
(***************************************************************************)

\* messages whose Match sample was dropped: total_orders will never count them
Uncounted ==
  processed + One(engine_pc \in {"order", "fills", "pushed", "dropped"})
    - (total_orders + MatchSamples)

\* a message that run_engine has processed and run_output has recorded
Recorded == processed > 0 /\ total_orders > 0

\* One drop is kept, so that some drops never look like none; after the engine has
\* published its count, all are.
DropsToSpare == lat_dropped > 1 /\ engine_pc # "exited"

\* a processed message whose Match sample was dropped; a dropped Order sample
MatchMissed == DropsToSpare /\ processed > 0 /\ Uncounted > 0
OrderMissed == DropsToSpare /\ Uncounted < lat_dropped

DropsSettled == ~MatchMissed /\ ~OrderMissed
RecordsSettled == ~Recorded /\ order_samples = 0
Settled == DropsSettled /\ RecordsSettled

Forget ==
  /\ ~Settled
  /\ ingested' = ingested - One(Recorded \/ MatchMissed)
  /\ processed' = processed - One(Recorded \/ MatchMissed)
  /\ total_orders' = total_orders - One(Recorded)
  /\ lat_dropped' = lat_dropped - One(~Recorded /\ ~DropsSettled)
  /\ order_samples' = 0
  /\ UNCHANGED <<mainVars, in, out, lat, ingest_pc, engine_pc, fills_left, produced, fills,
                 out_dropped, lat_dropped_published, output_pc, drained, did_work, log,
                 dropped_samples>>

(***************************************************************************)
(* The threads, each waiting for Forget before its next step.  The output  *)
(* thread waits only for what it has recorded itself: engine drops without *)
(* end must not hold it up.                                                *)
(***************************************************************************)

StreamIngest == Settled /\ Ingest
StreamEngine == Settled /\ Engine /\ produced' + fills_left' <= MaxProduced
StreamOutput == RecordsSettled /\ Output
StreamMain == Settled /\ Main
StreamShutdown == Settled /\ Shutdown

StreamNext ==
  StreamIngest \/ StreamEngine \/ StreamOutput \/ StreamMain \/ StreamShutdown \/ Forget

\* Every thread keeps running, and an index that is read again and again is
\* eventually read up to date, so a ring with data is not refused for ever.  Nothing
\* is assumed of Shutdown: without it the stream goes on.
StreamSpec ==
  /\ Init /\ [][StreamNext]_vars
  /\ WF_vars(StreamIngest) /\ WF_vars(StreamEngine) /\ WF_vars(StreamOutput)
  /\ WF_vars(StreamMain) /\ WF_vars(Forget)
  /\ SF_vars(Settled /\ EnginePop /\ in' # in)
  /\ SF_vars(RecordsSettled /\ OutputFill /\ out' # out)

(***************************************************************************)
(* Properties                                                              *)
(***************************************************************************)

Holds(sequence, fill) == \E i \in 1..Len(sequence) : sequence[i] = fill

\* Nobody starves while the stream goes on and the rings need never be empty.  Whenever
\* SPSC #1 holds a message run_engine goes on to take the oldest, so each has its turn.
\* Every fill in SPSC #2 is logged although run_output drains telemetry first and more
\* samples keep coming: that loop ends after LatencyBatch of them.  Only a thread that
\* has left, told to stop and seeing nothing, leaves an item behind.
NothingStarves ==
  /\ in > 0 ~> engine_pc \in {"match", "exited"}
  /\ \A k \in 1..MaxProduced : Holds(out, k) ~> (Holds(log, k) \/ output_pc = "exited")

===============================================================================
