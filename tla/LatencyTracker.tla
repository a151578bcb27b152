---------------------------- MODULE LatencyTracker ----------------------------
(***************************************************************************)
(* The latency histogram of the metrics thread (metrics/latency_tracker.h) *)
(* as a value: a tracker is a record of bins_, count_, sum_, max_, min_,   *)
(* and record() and reset() map a tracker to the next.  Buckets get wider  *)
(* with every octave: 2^SUB_BITS of them between two powers of two.        *)
(***************************************************************************)
EXTENDS Integers, FiniteSetsExt

CONSTANTS SUB_BITS,     \* sub-buckets per octave, as a power of two
          MAX_BITS,     \* values of more bits than this go to the last bin
          UINT64_MAX    \* min_ of an empty tracker

ASSUME TrackerAssumption == SUB_BITS \in Nat /\ MAX_BITS \in Nat /\ SUB_BITS < MAX_BITS

SUB_COUNT == 2^SUB_BITS
NUM_BINS == SUB_COUNT + (MAX_BITS - SUB_BITS) * SUB_COUNT

\* position of the highest bit of v > 0: std::bit_width(v) - 1
Msb(v) == CHOOSE k \in 0..v : 2^k <= v /\ v < 2^(k + 1)

\* mutant: the implicit leading one is left in the sub-bucket
bucket_index_unstripped(v) ==
  IF v < SUB_COUNT THEN v
  ELSE LET shift == Msb(v) - SUB_BITS
       IN  SUB_COUNT * (shift + 1) + (v \div 2^shift)

bucket_index(v) ==
  IF v < SUB_COUNT THEN v
  ELSE LET shift == Msb(v) - SUB_BITS
           sub   == (v \div 2^shift) - SUB_COUNT
       IN  SUB_COUNT * (shift + 1) + sub

bucket_upper(idx) ==
  IF idx < SUB_COUNT THEN idx
  ELSE (SUB_COUNT + (idx % SUB_COUNT) + 1) * 2^((idx \div SUB_COUNT) - 1) - 1

\* a new tracker, and one that was reset()
Empty == [bins_ |-> [i \in 0..(NUM_BINS - 1) |-> 0], count_ |-> 0, sum_ |-> 0, max_ |-> 0,
          min_ |-> UINT64_MAX]

record(t, ns) ==
  LET idx == Min({bucket_index(ns), NUM_BINS - 1})
  IN  [t EXCEPT !.bins_[idx] = @ + 1, !.count_ = @ + 1, !.sum_ = @ + ns,
                !.max_ = Max({@, ns}), !.min_ = Min({@, ns})]

\* The rank percentile() looks for: permille * count_ / 1000, rounded half up.  The code
\* computes it in double, which puts an exact half on either side.
Targets(t, permille) ==
  LET scaled == 2 * permille * t.count_ + 1000
  IN  {scaled \div 2000} \cup (IF scaled % 2000 = 0 THEN {(scaled \div 2000) - 1} ELSE {})

\* the upper end of the first bin that brings the samples so far to the target
percentile(t, target) ==
  LET reached == {i \in DOMAIN t.bins_ : MapThenSumSet(LAMBDA j : t.bins_[j], 0..i) >= target}
  IN  IF t.count_ = 0 THEN 0
      ELSE IF reached = {} THEN t.max_ ELSE bucket_upper(Min(reached))

mean(t) == IF t.count_ = 0 THEN 0 ELSE t.sum_ \div t.count_
===============================================================================
