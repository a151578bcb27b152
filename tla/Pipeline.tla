------------------------------- MODULE Pipeline -------------------------------
(***************************************************************************)
(* The threads of main.cpp in synthetic mode without a dashboard: ingest,  *)
(* engine, output (the metrics worker) and main, the three rings between   *)
(* them, the counters they share and the staged shutdown.                  *)
(*                                                                         *)
(* A ring is a bounded FIFO queue (module SPSCQueue implements one).  With *)
(* StaleViews a call may also be refused because the caller has not seen   *)
(* the other side's index move yet.                                        *)
(*                                                                         *)
(* Matching itself is module MatchingEngine: here a message is a token and *)
(* process() yields some number of fills.  Fills are numbered in the order *)
(* the engine produces them; the number stands for the FillMessage.        *)
(***************************************************************************)
EXTENDS Integers, Sequences, FiniteSets

CONSTANTS InputCapacity,    \* messages SPSC #1 holds
          OutputCapacity,   \* fills SPSC #2 holds
          LatencyCapacity,  \* samples the telemetry ring holds
          LatencyBatch,     \* samples drained per turn of the output loop
          StaleViews,       \* may an acquire load return an old index?
          MaxMessages,      \* bound: messages the generator produces (PipelineStream lifts it)
          MaxFills          \* bound: fills of one message

ASSUME PipelineAssumption ==
  /\ InputCapacity \in Nat /\ OutputCapacity \in Nat /\ LatencyCapacity \in Nat
  /\ LatencyBatch \in Nat /\ MaxMessages \in Nat /\ MaxFills \in Nat
  /\ StaleViews \in BOOLEAN

VARIABLES
  g_shutdown, engine_stop, output_stop, main_pc,
  in, out, lat,                            \* SPSC #1 (how many), SPSC #2, telemetry ring
  ingest_pc, ingested,
  engine_pc, fills_left, produced,         \* fills of this message still to push; all so far
  processed, fills, out_dropped, lat_dropped, lat_dropped_published,
  output_pc, drained, did_work,
  total_orders, order_samples, log, dropped_samples   \* MetricsCollector and TradeLogger

mainVars == <<g_shutdown, engine_stop, output_stop, main_pc>>
ingestVars == <<ingest_pc, ingested>>
engineVars == <<engine_pc, fills_left, produced, processed, fills, out_dropped, lat_dropped,
                lat_dropped_published>>
outputVars == <<output_pc, drained, did_work, total_orders, order_samples, log, dropped_samples>>
vars == <<mainVars, in, out, lat, ingestVars, engineVars, outputVars>>

Init ==
  /\ g_shutdown = FALSE /\ engine_stop = FALSE /\ output_stop = FALSE /\ main_pc = "wait"
  /\ in = 0 /\ out = << >> /\ lat = << >>
  /\ ingest_pc = "check" /\ ingested = 0
  /\ engine_pc = "pop" /\ fills_left = 0 /\ produced = 0
  /\ processed = 0 /\ fills = 0 /\ out_dropped = 0 /\ lat_dropped = 0 /\ lat_dropped_published = 0
  /\ output_pc = "lat" /\ drained = 0 /\ did_work = FALSE
  /\ total_orders = 0 /\ order_samples = 0 /\ log = << >> /\ dropped_samples = 0

Refused(genuine) == genuine \/ StaleViews

(***************************************************************************)
(* run_synthetic_ingest                                                    *)
(***************************************************************************)

IngestCheck ==
  /\ ingest_pc = "check"
  /\ IF g_shutdown THEN ingest_pc' = "exited"
     ELSE ingested < MaxMessages /\ ingest_pc' = "push"
  /\ UNCHANGED <<mainVars, in, out, lat, ingested, engineVars, outputVars>>

IngestPush ==
  /\ ingest_pc = "push"
  /\ \/ in < InputCapacity /\ in' = in + 1 /\ ingest_pc' = "count"
     \/ Refused(in = InputCapacity) /\ ingest_pc' = "refused" /\ UNCHANGED in
  /\ UNCHANGED <<mainVars, out, lat, ingested, engineVars, outputVars>>

\* backpressure: retry until it fits, or abandon the message at shutdown
IngestRefused ==
  /\ ingest_pc = "refused"
  /\ ingest_pc' = IF g_shutdown THEN "exited" ELSE "push"
  /\ UNCHANGED <<mainVars, in, out, lat, ingested, engineVars, outputVars>>

IngestCount ==
  /\ ingest_pc = "count"
  /\ ingested' = ingested + 1
  /\ ingest_pc' = "check"
  /\ UNCHANGED <<mainVars, in, out, lat, engineVars, outputVars>>

Ingest == IngestCheck \/ IngestPush \/ IngestRefused \/ IngestCount

(***************************************************************************)
(* run_engine                                                              *)
(***************************************************************************)

EnginePop ==
  /\ engine_pc = "pop"
  /\ \/ in > 0 /\ in' = in - 1 /\ engine_pc' = "match"
     \/ Refused(in = 0) /\ engine_pc' = "stop?" /\ UNCHANGED in
  /\ UNCHANGED <<mainVars, out, lat, ingestVars, fills_left, produced, processed, fills, out_dropped,
                 lat_dropped, lat_dropped_published, outputVars>>

\* emit: a sample that does not fit is dropped, never waited for
emit(kind) ==
  \/ Len(lat) < LatencyCapacity /\ lat' = Append(lat, kind) /\ UNCHANGED lat_dropped
  \/ Refused(Len(lat) = LatencyCapacity) /\ lat_dropped' = lat_dropped + 1 /\ UNCHANGED lat

EngineMatch ==
  /\ engine_pc = "match"
  /\ \E n \in 0..MaxFills : fills_left' = n
  /\ emit("Match")
  /\ engine_pc' = "order"
  /\ UNCHANGED <<mainVars, in, out, ingestVars, produced, processed, fills, out_dropped,
                 lat_dropped_published, outputVars>>

\* skipped when the message has no timestamp or the clock has not moved on
EngineOrderSample ==
  /\ engine_pc = "order"
  /\ emit("Order") \/ UNCHANGED <<lat, lat_dropped>>
  /\ engine_pc' = "fills"
  /\ UNCHANGED <<mainVars, in, out, ingestVars, fills_left, produced, processed, fills, out_dropped,
                 lat_dropped_published, outputVars>>

EnginePushFill ==
  /\ engine_pc = "fills" /\ fills_left > 0
  /\ fills_left' = fills_left - 1
  /\ produced' = produced + 1
  /\ \/ Len(out) < OutputCapacity /\ out' = Append(out, produced + 1) /\ engine_pc' = "pushed"
     \/ Refused(Len(out) = OutputCapacity) /\ engine_pc' = "dropped" /\ UNCHANGED out
  /\ UNCHANGED <<mainVars, in, lat, ingestVars, processed, fills, out_dropped, lat_dropped,
                 lat_dropped_published, outputVars>>

\* mutant: fills counts the dropped ones too
EngineCountAllFills ==
  /\ engine_pc \in {"pushed", "dropped"}
  /\ fills' = fills + 1
  /\ out_dropped' = IF engine_pc = "dropped" THEN out_dropped + 1 ELSE out_dropped
  /\ engine_pc' = "fills"
  /\ UNCHANGED <<mainVars, in, out, lat, ingestVars, fills_left, produced, processed, lat_dropped,
                 lat_dropped_published, outputVars>>

EngineCountFill ==
  /\ engine_pc \in {"pushed", "dropped"}
  /\ fills' = IF engine_pc = "pushed" THEN fills + 1 ELSE fills
  /\ out_dropped' = IF engine_pc = "dropped" THEN out_dropped + 1 ELSE out_dropped
  /\ engine_pc' = "fills"
  /\ UNCHANGED <<mainVars, in, out, lat, ingestVars, fills_left, produced, processed, lat_dropped,
                 lat_dropped_published, outputVars>>

EngineProcessed ==
  /\ engine_pc = "fills" /\ fills_left = 0
  /\ processed' = processed + 1
  /\ engine_pc' = "pop"
  /\ UNCHANGED <<mainVars, in, out, lat, ingestVars, fills_left, produced, fills, out_dropped,
                 lat_dropped, lat_dropped_published, outputVars>>

\* mutant: the thread-local drop count is not published
EngineStopSilent ==
  /\ engine_pc = "stop?"
  /\ engine_pc' = IF engine_stop THEN "exited" ELSE "pop"
  /\ UNCHANGED <<mainVars, in, out, lat, ingestVars, fills_left, produced, processed, fills,
                 out_dropped, lat_dropped, lat_dropped_published, outputVars>>

\* nothing to pop: leave if told to (publishing the thread-local drop count)
EngineStop ==
  /\ engine_pc = "stop?"
  /\ IF engine_stop
     THEN engine_pc' = "exited" /\ lat_dropped_published' = lat_dropped
     ELSE engine_pc' = "pop" /\ UNCHANGED lat_dropped_published
  /\ UNCHANGED <<mainVars, in, out, lat, ingestVars, fills_left, produced, processed, fills,
                 out_dropped, lat_dropped, outputVars>>

Engine ==
  \/ EnginePop \/ EngineMatch \/ EngineOrderSample \/ EnginePushFill
  \/ EngineCountFill \/ EngineProcessed \/ EngineStop

(***************************************************************************)
(* run_output                                                              *)
(***************************************************************************)

\* mutant: the latency ring is drained until it is empty
OutputLatencyUnbounded ==
  /\ output_pc = "lat"
  /\ \/ /\ lat # << >>
        /\ lat' = Tail(lat)
        /\ IF Head(lat) = "Match"
           THEN total_orders' = total_orders + 1 /\ UNCHANGED order_samples
           ELSE order_samples' = order_samples + 1 /\ UNCHANGED total_orders
        /\ did_work' = TRUE
        /\ UNCHANGED <<output_pc, drained>>
     \/ /\ Refused(lat = << >>)
        /\ output_pc' = "out"
        /\ UNCHANGED <<lat, drained, did_work, total_orders, order_samples>>
  /\ UNCHANGED <<mainVars, in, out, ingestVars, engineVars, log, dropped_samples>>

OutputLatency ==
  /\ output_pc = "lat"
  /\ \/ /\ drained < LatencyBatch /\ lat # << >>
        /\ lat' = Tail(lat)
        /\ IF Head(lat) = "Match"
           THEN total_orders' = total_orders + 1 /\ UNCHANGED order_samples
           ELSE order_samples' = order_samples + 1 /\ UNCHANGED total_orders
        /\ drained' = drained + 1 /\ did_work' = TRUE
        /\ UNCHANGED output_pc
     \/ /\ drained = LatencyBatch \/ Refused(lat = << >>)
        /\ output_pc' = "out"
        /\ UNCHANGED <<lat, drained, did_work, total_orders, order_samples>>
  /\ UNCHANGED <<mainVars, in, out, ingestVars, engineVars, log, dropped_samples>>

OutputFill ==
  /\ output_pc = "out"
  /\ \/ /\ out # << >>
        /\ out' = Tail(out)
        /\ log' = Append(log, Head(out))
        /\ did_work' = TRUE
     \/ Refused(out = << >>) /\ UNCHANGED <<out, log, did_work>>
  /\ output_pc' = "stop?"
  /\ UNCHANGED <<mainVars, in, lat, ingestVars, engineVars, drained, total_orders, order_samples,
                 dropped_samples>>

\* mutant: did_work is not reset on the next turn
OutputStopSticky ==
  /\ output_pc = "stop?"
  /\ IF ~did_work /\ output_stop
     THEN output_pc' = "exited" /\ dropped_samples' = dropped_samples + lat_dropped_published
     ELSE output_pc' = "lat" /\ UNCHANGED dropped_samples
  /\ drained' = 0
  /\ UNCHANGED <<mainVars, in, out, lat, ingestVars, engineVars, did_work, total_orders,
                 order_samples, log>>

OutputStop ==
  /\ output_pc = "stop?"
  /\ IF ~did_work /\ output_stop
     THEN output_pc' = "exited" /\ dropped_samples' = dropped_samples + lat_dropped_published
     ELSE output_pc' = "lat" /\ UNCHANGED dropped_samples
  /\ did_work' = FALSE /\ drained' = 0
  /\ UNCHANGED <<mainVars, in, out, lat, ingestVars, engineVars, total_orders, order_samples, log>>

Output == OutputLatency \/ OutputFill \/ OutputStop

(***************************************************************************)
(* main                                                                    *)
(***************************************************************************)

\* SIGINT or SIGTERM, or the deadline of --duration
Shutdown ==
  /\ ~g_shutdown
  /\ g_shutdown' = TRUE
  /\ UNCHANGED <<engine_stop, output_stop, main_pc, in, out, lat, ingestVars, engineVars, outputVars>>

StopIngest ==
  /\ main_pc = "wait" /\ g_shutdown
  /\ main_pc' = "join_ingest"
  /\ UNCHANGED <<g_shutdown, engine_stop, output_stop, in, out, lat, ingestVars, engineVars, outputVars>>

\* mutant: does not join the ingest thread first
StopEngineEarly ==
  /\ main_pc = "join_ingest"
  /\ engine_stop' = TRUE
  /\ main_pc' = "join_engine"
  /\ UNCHANGED <<g_shutdown, output_stop, in, out, lat, ingestVars, engineVars, outputVars>>

StopEngine ==
  /\ main_pc = "join_ingest" /\ ingest_pc = "exited"
  /\ engine_stop' = TRUE
  /\ main_pc' = "join_engine"
  /\ UNCHANGED <<g_shutdown, output_stop, in, out, lat, ingestVars, engineVars, outputVars>>

StopOutput ==
  /\ main_pc = "join_engine" /\ engine_pc = "exited"
  /\ output_stop' = TRUE
  /\ main_pc' = "join_output"
  /\ UNCHANGED <<g_shutdown, engine_stop, in, out, lat, ingestVars, engineVars, outputVars>>

Finish ==
  /\ main_pc = "join_output" /\ output_pc = "exited"
  /\ main_pc' = "finished"
  /\ UNCHANGED <<g_shutdown, engine_stop, output_stop, in, out, lat, ingestVars, engineVars, outputVars>>

Main == StopIngest \/ StopEngine \/ StopOutput \/ Finish

Next == Ingest \/ Engine \/ Output \/ Main \/ Shutdown

Spec == Init /\ [][Next]_vars

(***************************************************************************)
(* Properties                                                              *)
(***************************************************************************)

One(condition) == IF condition THEN 1 ELSE 0
MatchSamples == Cardinality({i \in 1..Len(lat) : lat[i] = "Match"})

\* Nothing disappears between the counters, at any point of the shutdown either.  A
\* message that was pushed is in SPSC #1, in the engine's hands or processed.  A fill is
\* logged, in SPSC #2 or counted as dropped, and reaches the log in the order the engine
\* produced it: a drop leaves a gap and never a swap.  total_orders trails the messages
\* the engine timed by what waits in the telemetry ring and by what was dropped there.
NothingLost ==
  LET pipe  == log \o out
      timed == processed + One(engine_pc \in {"order", "fills", "pushed", "dropped"})
  IN  /\ ingested + One(ingest_pc = "count") = in + One(engine_pc = "match") + timed
      /\ produced = Len(pipe) + out_dropped + One(engine_pc = "dropped")
      /\ Len(pipe) = fills + One(engine_pc = "pushed")
      /\ \A i, j \in 1..Len(pipe) : i < j => pipe[i] < pipe[j]
      /\ timed - (total_orders + MatchSamples) \in 0..lat_dropped

\* A consumer leaves only after its producer has left and main has said so: no
\* ring is abandoned while somebody can still push into it.
NoRingAbandoned ==
  /\ engine_pc = "exited" => engine_stop /\ ingest_pc = "exited"
  /\ output_pc = "exited" => output_stop /\ engine_pc = "exited"
  /\ main_pc = "finished" => output_pc = "exited"

\* The final report of dropped samples is complete: the engine's thread-local
\* count is published before the output thread reads it.
DropsReported == output_pc = "exited" => dropped_samples = lat_dropped

\* A shutdown request ends the process, whatever the rings hold.
Terminates == g_shutdown ~> main_pc = "finished"

\* main.cpp: "drains SPSC #1, then exits"
EngineDrainsInput == engine_pc = "exited" => in = 0

===============================================================================
