----------------------------- MODULE MetricsWorker -----------------------------
(***************************************************************************)
(* What the output thread does with the samples and fills it pops          *)
(* (run_output of main.cpp): the two histograms and the counters of        *)
(* metrics/metrics_collector.h and the binary trade log of                 *)
(* metrics/trade_logger.cpp, opened before the threads start and closed    *)
(* after they are joined.                                                  *)
(*                                                                         *)
(* A fill is its number.  The stdio buffer holds BUFFER_RECORDS of them,   *)
(* the header being one; writing it out to the file is the external part,  *)
(* and may fail.                                                           *)
(***************************************************************************)
EXTENDS LatencyTracker, Sequences, SequencesExt

CONSTANTS Latencies,        \* nanoseconds measured
          BUFFER_RECORDS,   \* records FILE_BUFFER_SIZE holds
          MaxWork           \* bound: samples and fills together

VARIABLES
  match_latency_, order_latency_,                                  \* MetricsCollector
  total_orders_, total_matches_, dropped_samples_,
  file_, buffer_, total_logged_,                                   \* TradeLogger
  disk,                                                            \* the log file
  phase,                                                           \* of main
  measured, fills, io_error    \* auxiliary: samples of either kind, fills popped, a write failed

metricsVars == <<match_latency_, order_latency_, total_orders_, total_matches_, dropped_samples_, measured>>
logVars == <<file_, buffer_, total_logged_, disk, io_error>>
vars == <<metricsVars, logVars, phase, fills>>

Header == "FILL"

\* the path may name the log of an earlier run
Init ==
  /\ match_latency_ = Empty /\ order_latency_ = Empty
  /\ total_orders_ = 0 /\ total_matches_ = 0 /\ dropped_samples_ = 0
  /\ file_ = "nullptr" /\ buffer_ = << >> /\ total_logged_ = 0
  /\ disk \in {<< >>, <<Header, 0>>}
  /\ phase = "init"
  /\ measured = [match |-> << >>, order |-> << >>] /\ fills = 0 /\ io_error = FALSE

(***************************************************************************)
(* MetricsCollector                                                        *)
(***************************************************************************)

Work == Len(measured.match) + Len(measured.order) + fills

record_match_latency(ns) ==
  /\ phase = "running" /\ Work < MaxWork
  /\ match_latency_' = record(match_latency_, ns)
  /\ total_orders_' = total_orders_ + 1
  /\ measured' = [measured EXCEPT !.match = SortSeq(Append(@, ns), <)]
  /\ UNCHANGED <<order_latency_, total_matches_, dropped_samples_, logVars, phase, fills>>

record_order_latency(ns) ==
  /\ phase = "running" /\ Work < MaxWork
  /\ order_latency_' = record(order_latency_, ns)
  /\ measured' = [measured EXCEPT !.order = SortSeq(Append(@, ns), <)]
  /\ UNCHANGED <<match_latency_, total_orders_, total_matches_, dropped_samples_, logVars, phase, fills>>

\* the output thread leaves: it notes the samples the engine has lost
note_dropped_samples(n) ==
  /\ phase = "running" /\ phase' = "drained"
  /\ dropped_samples_' = dropped_samples_ + n
  /\ UNCHANGED <<match_latency_, order_latency_, total_orders_, total_matches_, measured, logVars, fills>>

reset ==
  /\ phase = "running"
  /\ match_latency_' = Empty /\ order_latency_' = Empty
  /\ total_orders_' = 0 /\ total_matches_' = 0 /\ dropped_samples_' = 0
  /\ measured' = [match |-> << >>, order |-> << >>]
  /\ UNCHANGED <<logVars, phase, fills>>

(***************************************************************************)
(* TradeLogger                                                             *)
(***************************************************************************)

\* stdio writes the buffer out
WriteOut == disk' = disk \o buffer_ /\ UNCHANGED io_error

\* an error: some of it is written, and the rest is kept or lost
WriteFails ==
  /\ \E n \in 0..(Len(buffer_) - 1) :
       /\ disk' = disk \o SubSeq(buffer_, 1, n)
       /\ buffer_' \in {<< >>, SubSeq(buffer_, n + 1, Len(buffer_))}
  /\ io_error' = TRUE

\* mutant: opened for appending
open_append ==
  /\ phase = "init" /\ phase' = "running"
  /\ \/ UNCHANGED logVars
     \/ /\ file_' = "open" /\ buffer_' = <<Header>> /\ total_logged_' = 0
        /\ UNCHANGED <<disk, io_error>>
  /\ UNCHANGED <<metricsVars, fills>>

\* the file cannot be opened, and logging is off, or it is truncated
open ==
  /\ phase = "init" /\ phase' = "running"
  /\ \/ UNCHANGED logVars
     \/ /\ disk' = << >>
        /\ file_' = "open" /\ buffer_' = <<Header>> /\ total_logged_' = 0
        /\ UNCHANGED io_error
  /\ UNCHANGED <<metricsVars, fills>>

\* a popped fill: logged, and counted when fwrite took it
log ==
  /\ phase = "running" /\ Work < MaxWork
  /\ fills' = fills + 1 /\ total_matches_' = total_matches_ + 1
  /\ \/ file_ = "nullptr" /\ UNCHANGED logVars
     \/ /\ file_ = "open" /\ Len(buffer_) < BUFFER_RECORDS
        /\ buffer_' = Append(buffer_, fills') /\ total_logged_' = total_logged_ + 1
        /\ UNCHANGED <<file_, disk, io_error>>
     \/ /\ file_ = "open" /\ Len(buffer_) = BUFFER_RECORDS
        /\ \/ WriteOut /\ buffer_' = <<fills'>> /\ total_logged_' = total_logged_ + 1
           \/ WriteFails /\ UNCHANGED total_logged_
        /\ UNCHANGED file_
  /\ UNCHANGED <<match_latency_, order_latency_, total_orders_, dropped_samples_, measured, phase>>

flush ==
  /\ phase = "running" /\ file_ = "open"
  /\ (WriteOut /\ buffer_' = << >>) \/ WriteFails
  /\ UNCHANGED <<metricsVars, file_, total_logged_, phase, fills>>

\* main, after the output thread is joined; the result of the flush is not looked at
close ==
  /\ phase = "drained" /\ phase' = "closed"
  /\ \/ file_ = "nullptr" /\ UNCHANGED logVars
     \/ /\ file_ = "open" /\ file_' = "nullptr"
        /\ WriteOut /\ buffer_' = << >>
        /\ UNCHANGED total_logged_
     \/ /\ file_ = "open" /\ file_' = "nullptr"
        /\ WriteFails /\ buffer_' = << >>
        /\ UNCHANGED total_logged_
  /\ UNCHANGED <<metricsVars, fills>>

Next ==
  \/ \E ns \in Latencies : record_match_latency(ns) \/ record_order_latency(ns)
  \/ \E n \in 0..1 : note_dropped_samples(n)
  \/ reset \/ open \/ log \/ flush \/ close

Spec == Init /\ [][Next]_vars

(***************************************************************************)
(* Properties                                                              *)
(***************************************************************************)

\* The sample the reported value stands for: as many samples as the rank asks for are
\* at most this large.  What the tracker reports of a non-empty set of samples is never
\* less, and more by at most one part in SUB_COUNT; a sample that outgrows the bins is
\* reported as the largest value they tell apart.  min, mean and max are in order.
Reported(t, samples) ==
  samples # << >> =>
    /\ \A permille \in {500, 950, 990, 999} : \A target \in Targets(t, permille) \ {0} :
         LET p == percentile(t, target)
             x == samples[target]
         IN  IF x < 2^MAX_BITS THEN x <= p /\ (p - x) * SUB_COUNT <= x ELSE p = 2^MAX_BITS - 1
    /\ t.min_ = Head(samples) /\ t.max_ = Last(samples)
    /\ t.min_ <= mean(t) /\ mean(t) <= t.max_

\* "p99 <= this value, within 1.6%": percentiles of both histograms are upper bounds of
\* the exact ones, tight up to the width of a bucket, octave boundaries included.
PercentilesTight ==
  Reported(match_latency_, measured.match) /\ Reported(order_latency_, measured.order)

\* As long as no write has failed, the log is one header and then the fills in the order
\* they were popped, none missing and none twice, with total_logged() counting them; and
\* all of it is in the file once the logger is closed, whatever the path held before.
LogFaithful ==
  total_logged_ > 0 /\ ~io_error =>
    /\ disk \o buffer_ = <<Header>> \o [i \in 1..total_logged_ |-> i]
    /\ total_logged_ = fills
    /\ phase = "closed" => buffer_ = << >>
===============================================================================
