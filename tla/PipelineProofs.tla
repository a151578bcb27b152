---------------------------- MODULE PipelineProofs ----------------------------
(***************************************************************************)
(* Proofs about the threads of module Pipeline, for every capacity of the  *)
(* rings, every batch size and every number of messages and fills.         *)
(***************************************************************************)
EXTENDS Pipeline, FiniteSetTheorems, SequenceTheorems, TLAPS

(***************************************************************************)
(* Counting the samples of a ring                                          *)
(***************************************************************************)

\* where sequence s holds v
At(s, v) == {i \in 1..Len(s) : s[i] = v}

\* The places are finitely many, so their number is a natural number.
LEMMA AtFinite ==
  ASSUME NEW S, NEW s \in Seq(S), NEW v
  PROVE  IsFiniteSet(At(s, v)) /\ Cardinality(At(s, v)) \in Nat
<1>1. Len(s) \in Nat
  BY LenProperties, Zenon
<1>2. IsFiniteSet(1..Len(s))
  BY <1>1, FS_Interval, SMT
<1>3. At(s, v) \in SUBSET (1..Len(s))
  BY Zenon DEF At
<1>4. IsFiniteSet(At(s, v))
  BY <1>2, <1>3, FS_Subset, Zenon
<1> QED BY <1>4, FS_CardinalityType, Zenon

\* A push adds a place exactly when it pushes v.
LEMMA AtAppend ==
  ASSUME NEW S, NEW s \in Seq(S), NEW e \in S, NEW v
  PROVE  Cardinality(At(Append(s, e), v)) = Cardinality(At(s, v)) + One(e = v)
<1>1. /\ Len(s) \in Nat /\ Len(Append(s, e)) = Len(s) + 1
      /\ \A i \in 1..Len(s) : Append(s, e)[i] = s[i]
      /\ Append(s, e)[Len(s) + 1] = e
  BY AppendProperties, LenProperties, SMT
<1>2. At(Append(s, e), v) = IF e = v THEN At(s, v) \cup {Len(s) + 1} ELSE At(s, v)
  <2>1. 1..Len(Append(s, e)) = (1..Len(s)) \cup {Len(s) + 1}
    BY <1>1, SMT
  <2> QED BY <1>1, <2>1, Zenon DEF At
<1>3. Len(s) + 1 \notin At(s, v)
  BY <1>1, SMT DEF At
<1>4. IsFiniteSet(At(s, v)) /\ Cardinality(At(s, v)) \in Nat
  BY AtFinite, Zenon
<1>5. CASE e = v
  <2>1. Cardinality(At(s, v) \cup {Len(s) + 1}) = Cardinality(At(s, v)) + 1
    BY <1>3, <1>4, FS_AddElement, Zenon
  <2> QED BY <1>2, <1>5, <2>1, Zenon DEF One
<1>6. CASE e # v
  BY <1>2, <1>4, <1>6, SMT DEF One
<1> QED BY <1>5, <1>6

\* A pop takes a place away exactly when it pops v.
LEMMA AtTail ==
  ASSUME NEW S, NEW s \in Seq(S), s # << >>, NEW v
  PROVE  Cardinality(At(s, v)) = Cardinality(At(Tail(s), v)) + One(Head(s) = v)
<1> DEFINE t == Tail(s)
           later == At(s, v) \ {1}
           shift == [i \in later |-> i - 1]
<1>1. /\ Len(s) \in Nat /\ Len(s) >= 1 /\ Len(t) = Len(s) - 1
      /\ \A i \in 1..Len(t) : t[i] = s[i + 1]
      /\ Head(s) = s[1] /\ t \in Seq(S)
  BY HeadTailProperties, LenProperties, EmptySeq, SMT
<1>2. IsFiniteSet(At(s, v)) /\ Cardinality(At(s, v)) \in Nat
  BY AtFinite, Zenon
<1>3. Cardinality(later) = Cardinality(At(t, v)) /\ IsFiniteSet(later)
  <2>1. shift \in [later -> At(t, v)]
    BY <1>1, SMT DEF At
  <2>2. \A i, j \in later : shift[i] = shift[j] => i = j
    BY <1>1, SMT DEF At
  <2>3. \A k \in At(t, v) : \E i \in later : shift[i] = k
    <3> SUFFICES ASSUME NEW k \in At(t, v)
                 PROVE  \E i \in later : shift[i] = k
      OBVIOUS
    <3>1. k + 1 \in later /\ shift[k + 1] = k
      BY <1>1, SMT DEF At
    <3> QED BY <3>1, Zenon
  <2>4. shift \in Bijection(later, At(t, v))
    BY <2>1, <2>2, <2>3, Zenon DEF Bijection, Injection, Surjection, IsInjective
  <2>5. ExistsBijection(later, At(t, v))
    BY <2>4, Zenon DEF ExistsBijection
  <2>6. IsFiniteSet(later)
    BY <1>2, FS_RemoveElement, Zenon
  <2> HIDE DEF later
  <2> QED BY <2>5, <2>6, FS_Bijection, Zenon
<1>4. Cardinality(later) = IF 1 \in At(s, v) THEN Cardinality(At(s, v)) - 1 ELSE Cardinality(At(s, v))
  BY <1>2, FS_RemoveElement, Zenon
<1>5. 1 \in At(s, v) <=> Head(s) = v
  BY <1>1, SMT DEF At
<1> HIDE DEF later
<1> QED BY <1>2, <1>3, <1>4, <1>5, SMT DEF One

(***************************************************************************)
(* The inductive invariant                                                 *)
(***************************************************************************)

TypeInv ==
  /\ in \in Nat /\ ingested \in Nat /\ processed \in Nat /\ produced \in Nat
  /\ fills \in Nat /\ out_dropped \in Nat /\ lat_dropped \in Nat /\ total_orders \in Nat
  /\ out \in Seq(Nat) /\ log \in Seq(Nat) /\ lat \in Seq({"Match", "Order"})

\* main goes through its stages one by one, and each of them knows who has left
Stages ==
  /\ main_pc \in {"wait", "join_ingest"} => ~engine_stop
  /\ main_pc \in {"wait", "join_ingest", "join_engine"} => ~output_stop
  /\ main_pc = "finished" => output_pc = "exited"
  /\ engine_stop => ingest_pc = "exited"
  /\ output_stop => engine_pc = "exited"
  /\ engine_pc = "exited" => engine_stop
  /\ output_pc = "exited" => output_stop

\* the drop counts on their way from the engine to the report
DropCounts ==
  /\ engine_pc = "exited" => lat_dropped_published = lat_dropped
  /\ output_pc # "exited" => dropped_samples = 0
  /\ output_pc = "exited" => dropped_samples = lat_dropped

\* the fills in the log and in SPSC #2, as one sequence
Pipe == log \o out

\* messages the engine has timed
Timed == processed + One(engine_pc \in {"order", "fills", "pushed", "dropped"})

\* NothingLost, conjunct by conjunct; no fill is numbered beyond those produced
MessagesKept == ingested + One(ingest_pc = "count") = in + One(engine_pc = "match") + Timed

FillsKept ==
  /\ produced = Len(Pipe) + out_dropped + One(engine_pc = "dropped")
  /\ Len(Pipe) = fills + One(engine_pc = "pushed")

FillsOrdered ==
  /\ \A i, j \in 1..Len(Pipe) : i < j => Pipe[i] < Pipe[j]
  /\ \A i \in 1..Len(Pipe) : Pipe[i] <= produced

SamplesKept == Timed - (total_orders + Cardinality(At(lat, "Match"))) \in 0..lat_dropped

IInv ==
  /\ TypeInv /\ Stages /\ DropCounts
  /\ MessagesKept /\ FillsKept /\ FillsOrdered /\ SamplesKept

\* Types are kept by every step of the four threads.
LEMMA TypeKept == TypeInv /\ [Next]_vars => TypeInv'
<1> SUFFICES ASSUME TypeInv, [Next]_vars
             PROVE  TypeInv'
  OBVIOUS
<1> USE DEF TypeInv, mainVars, ingestVars, engineVars, outputVars
<1>1. CASE Ingest
  <2>1. /\ UNCHANGED <<out, log, lat, processed, produced, fills, out_dropped, lat_dropped, total_orders>>
        /\ in' \in {in, in + 1} /\ ingested' \in {ingested, ingested + 1}
    BY <1>1 DEF Ingest, IngestCheck, IngestPush, IngestRefused, IngestCount
  <2> QED BY <2>1
<1>2. CASE Engine
  <2>1. CASE EnginePop
    BY <2>1 DEF EnginePop
  <2>2. CASE EngineMatch
    <3>1. lat' \in Seq({"Match", "Order"}) /\ lat_dropped' \in Nat
      <4>1. Append(lat, "Match") \in Seq({"Match", "Order"})
        BY AppendProperties
      <4>2. \/ lat' = Append(lat, "Match") /\ lat_dropped' = lat_dropped
            \/ lat' = lat /\ lat_dropped' = lat_dropped + 1
        BY <2>2, Zenon DEF EngineMatch, emit
      <4>3. lat_dropped + 1 \in Nat
        OBVIOUS
      <4> QED BY <4>1, <4>2, <4>3, Zenon
    <3> QED BY <2>2, <3>1 DEF EngineMatch
  <2>3. CASE EngineOrderSample
    <3>1. lat' \in Seq({"Match", "Order"}) /\ lat_dropped' \in Nat
      <4>1. Append(lat, "Order") \in Seq({"Match", "Order"})
        BY AppendProperties
      <4>2. \/ lat' = Append(lat, "Order") /\ lat_dropped' = lat_dropped
            \/ lat' = lat /\ lat_dropped' \in {lat_dropped, lat_dropped + 1}
        BY <2>3, Zenon DEF EngineOrderSample, emit
      <4>3. lat_dropped + 1 \in Nat
        OBVIOUS
      <4> QED BY <4>1, <4>2, <4>3, Zenon
    <3> QED BY <2>3, <3>1 DEF EngineOrderSample
  <2>4. CASE EnginePushFill
    <3>1. out' \in Seq(Nat)
      <4>1. Append(out, produced + 1) \in Seq(Nat)
        BY AppendProperties
      <4> QED BY <2>4, <4>1 DEF EnginePushFill
    <3> QED BY <2>4, <3>1 DEF EnginePushFill
  <2>5. CASE EngineCountFill
    BY <2>5 DEF EngineCountFill
  <2>6. CASE EngineProcessed
    BY <2>6 DEF EngineProcessed
  <2>7. CASE EngineStop
    BY <2>7 DEF EngineStop
  <2> QED BY <1>2, <2>1, <2>2, <2>3, <2>4, <2>5, <2>6, <2>7 DEF Engine
<1>3. CASE Output
  <2>1. CASE OutputLatency
    <3>1. lat' \in Seq({"Match", "Order"})
      BY <2>1, HeadTailProperties DEF OutputLatency
    <3> QED BY <2>1, <3>1 DEF OutputLatency
  <2>2. CASE OutputFill
    <3>1. out' \in Seq(Nat) /\ log' \in Seq(Nat)
      <4>1. out # << >> => Tail(out) \in Seq(Nat) /\ Head(out) \in Nat
        BY HeadTailProperties
      <4>2. out # << >> => Append(log, Head(out)) \in Seq(Nat)
        BY <4>1, AppendProperties
      <4> QED BY <2>2, <4>1, <4>2 DEF OutputFill
    <3> QED BY <2>2, <3>1 DEF OutputFill
  <2>3. CASE OutputStop
    BY <2>3 DEF OutputStop
  <2> QED BY <1>3, <2>1, <2>2, <2>3 DEF Output
<1>4. CASE Main \/ Shutdown \/ UNCHANGED vars
  BY <1>4 DEF Main, StopIngest, StopEngine, StopOutput, Finish, Shutdown, vars
<1> QED BY <1>1, <1>2, <1>3, <1>4 DEF Next

\* A thread leaves, and main goes on, only in the order of the shutdown.
LEMMA StagesKept == Stages /\ [Next]_vars => Stages'
<1> SUFFICES ASSUME Stages, [Next]_vars
             PROVE  Stages'
  OBVIOUS
<1> USE DEF Stages, mainVars, ingestVars, engineVars, outputVars
<1>1. CASE Ingest
  BY <1>1 DEF Ingest, IngestCheck, IngestPush, IngestRefused, IngestCount
<1>2. CASE Engine
  BY <1>2 DEF Engine, EnginePop, EngineMatch, EngineOrderSample, EnginePushFill, EngineCountFill,
     EngineProcessed, EngineStop
<1>3. CASE Output
  BY <1>3 DEF Output, OutputLatency, OutputFill, OutputStop
<1>4. CASE Main \/ Shutdown \/ UNCHANGED vars
  BY <1>4 DEF Main, StopIngest, StopEngine, StopOutput, Finish, Shutdown, vars
<1> QED BY <1>1, <1>2, <1>3, <1>4 DEF Next

\* The engine publishes its last count before the output thread is told to leave, and
\* counts nothing after that.
LEMMA DropCountsKept == TypeInv /\ Stages /\ DropCounts /\ [Next]_vars => DropCounts'
<1> SUFFICES ASSUME TypeInv, Stages, DropCounts, [Next]_vars
             PROVE  DropCounts'
  OBVIOUS
<1> USE DEF DropCounts, mainVars, ingestVars, engineVars, outputVars
<1>1. CASE Ingest
  BY <1>1 DEF Ingest, IngestCheck, IngestPush, IngestRefused, IngestCount
<1>2. CASE Engine
  BY <1>2 DEF Stages, Engine, EnginePop, EngineMatch, EngineOrderSample, EnginePushFill,
     EngineCountFill, EngineProcessed, EngineStop
<1>3. CASE Output
  BY <1>3 DEF TypeInv, Stages, Output, OutputLatency, OutputFill, OutputStop
<1>4. CASE Main \/ Shutdown \/ UNCHANGED vars
  BY <1>4 DEF Main, StopIngest, StopEngine, StopOutput, Finish, Shutdown, vars
<1> QED BY <1>1, <1>2, <1>3, <1>4 DEF Next

\* Messages: every step that takes one from a place puts it in the next.
LEMMA MessagesKeptNext == TypeInv /\ MessagesKept /\ [Next]_vars => MessagesKept'
<1> SUFFICES ASSUME TypeInv, MessagesKept, [Next]_vars
             PROVE  MessagesKept'
  OBVIOUS
<1> USE DEF TypeInv, MessagesKept, Timed, One, mainVars, ingestVars, engineVars, outputVars
<1>1. CASE Ingest
  <2>1. CASE IngestCheck
    BY <2>1 DEF IngestCheck
  <2>2. CASE IngestPush
    <3>1. \/ in' = in + 1 /\ ingest_pc' = "count"
          \/ in' = in /\ ingest_pc' = "refused"
      BY <2>2, Zenon DEF IngestPush
    <3>2. ingest_pc = "push" /\ UNCHANGED <<ingested, processed, engine_pc>>
      BY <2>2 DEF IngestPush
    <3>3. CASE in' = in + 1 /\ ingest_pc' = "count"
      BY <3>2, <3>3
    <3>4. CASE in' = in /\ ingest_pc' = "refused"
      BY <3>2, <3>4
    <3> QED BY <3>1, <3>3, <3>4, Zenon
  <2>3. CASE IngestRefused
    BY <2>3 DEF IngestRefused
  <2>4. CASE IngestCount
    BY <2>4 DEF IngestCount
  <2> QED BY <1>1, <2>1, <2>2, <2>3, <2>4 DEF Ingest
<1>2. CASE Engine
  <2>1. CASE EnginePop
    <3>1. \/ in > 0 /\ in' = in - 1 /\ engine_pc' = "match"
          \/ in' = in /\ engine_pc' = "stop?"
      BY <2>1, Zenon DEF EnginePop
    <3>2. engine_pc = "pop" /\ UNCHANGED <<ingested, processed, ingest_pc>>
      BY <2>1 DEF EnginePop
    <3>3. CASE in > 0 /\ in' = in - 1 /\ engine_pc' = "match"
      BY <3>2, <3>3
    <3>4. CASE in' = in /\ engine_pc' = "stop?"
      BY <3>2, <3>4
    <3> QED BY <3>1, <3>3, <3>4, Zenon
  <2>2. CASE EngineMatch
    BY <2>2 DEF EngineMatch
  <2>3. CASE EngineOrderSample
    BY <2>3 DEF EngineOrderSample
  <2>4. CASE EnginePushFill
    BY <2>4 DEF EnginePushFill
  <2>5. CASE EngineCountFill
    BY <2>5 DEF EngineCountFill
  <2>6. CASE EngineProcessed
    BY <2>6 DEF EngineProcessed
  <2>7. CASE EngineStop
    BY <2>7 DEF EngineStop
  <2> QED BY <1>2, <2>1, <2>2, <2>3, <2>4, <2>5, <2>6, <2>7 DEF Engine
<1>3. CASE Output
  BY <1>3 DEF Output, OutputLatency, OutputFill, OutputStop
<1>4. CASE Main \/ Shutdown \/ UNCHANGED vars
  BY <1>4 DEF Main, StopIngest, StopEngine, StopOutput, Finish, Shutdown, vars
<1> QED BY <1>1, <1>2, <1>3, <1>4 DEF Next

\* A push at the end of the ring is a push at the end of log and ring together.
LEMMA PipeGrows ==
  ASSUME NEW a \in Seq(Nat), NEW b \in Seq(Nat), NEW e \in Nat
  PROVE  /\ Len(a \o b) \in Nat /\ a \o b \in Seq(Nat)
         /\ Len(a \o Append(b, e)) = Len(a \o b) + 1
         /\ \A i \in 1..Len(a \o b) : (a \o Append(b, e))[i] = (a \o b)[i]
         /\ (a \o Append(b, e))[Len(a \o b) + 1] = e
<1>1. /\ Append(b, e) \in Seq(Nat) /\ Len(Append(b, e)) = Len(b) + 1
      /\ \A i \in 1..Len(b) : Append(b, e)[i] = b[i]
      /\ Append(b, e)[Len(b) + 1] = e
  BY AppendProperties
<1>2. Len(a) \in Nat /\ Len(b) \in Nat
  BY LenProperties
<1>3. /\ a \o b \in Seq(Nat) /\ Len(a \o b) = Len(a) + Len(b)
      /\ \A i \in 1..(Len(a) + Len(b)) : (a \o b)[i] = IF i <= Len(a) THEN a[i] ELSE b[i - Len(a)]
  BY ConcatProperties, Zenon
<1>4. /\ Len(a \o Append(b, e)) = Len(a) + Len(Append(b, e))
      /\ \A i \in 1..(Len(a) + Len(Append(b, e))) :
           (a \o Append(b, e))[i] = IF i <= Len(a) THEN a[i] ELSE Append(b, e)[i - Len(a)]
  BY <1>1, ConcatProperties, Zenon
<1> QED BY <1>1, <1>2, <1>3, <1>4

\* A fill moved from the ring to the log keeps its place.
LEMMA PipeMoves ==
  ASSUME NEW a \in Seq(Nat), NEW b \in Seq(Nat), b # << >>
  PROVE  Append(a, Head(b)) \o Tail(b) = a \o b
<1> DEFINE c == Append(a, Head(b))
           d == Tail(b)
<1>1. /\ Len(b) \in Nat /\ Len(b) >= 1 /\ Head(b) \in Nat /\ Head(b) = b[1]
      /\ d \in Seq(Nat) /\ Len(d) = Len(b) - 1
      /\ \A i \in 1..Len(d) : d[i] = b[i + 1]
  BY HeadTailProperties, LenProperties, EmptySeq, SMT
<1>2. /\ c \in Seq(Nat) /\ Len(c) = Len(a) + 1
      /\ \A i \in 1..Len(a) : c[i] = a[i]
      /\ c[Len(a) + 1] = Head(b)
      /\ Len(a) \in Nat
  BY <1>1, AppendProperties, LenProperties
<1> HIDE DEF c, d
<1>3. /\ a \o b \in Seq(Nat) /\ Len(a \o b) = Len(a) + Len(b)
      /\ \A i \in 1..(Len(a) + Len(b)) : (a \o b)[i] = IF i <= Len(a) THEN a[i] ELSE b[i - Len(a)]
  BY ConcatProperties, Zenon
<1>4. /\ c \o d \in Seq(Nat) /\ Len(c \o d) = Len(c) + Len(d)
      /\ \A i \in 1..(Len(c) + Len(d)) : (c \o d)[i] = IF i <= Len(c) THEN c[i] ELSE d[i - Len(c)]
  <2>1. c \in Seq(Nat) /\ d \in Seq(Nat)
    BY <1>1, <1>2
  <2> QED BY <2>1, ConcatProperties, Zenon
<1>5. Len(c \o d) = Len(a \o b)
  BY <1>1, <1>2, <1>3, <1>4
<1>6. ASSUME NEW i \in 1..Len(c \o d)
      PROVE  (c \o d)[i] = (a \o b)[i]
  <2>1. CASE i <= Len(a)
    BY <1>1, <1>2, <1>3, <1>4, <2>1
  <2>2. CASE i = Len(a) + 1
    BY <1>1, <1>2, <1>3, <1>4, <2>2
  <2>3. CASE i > Len(a) + 1
    <3>1. /\ i \in 1..(Len(c) + Len(d)) /\ ~(i <= Len(c))
          /\ i \in 1..(Len(a) + Len(b)) /\ ~(i <= Len(a))
          /\ i - Len(c) \in 1..Len(d) /\ (i - Len(c)) + 1 = i - Len(a)
      <4>1. /\ Len(a) \in Nat /\ Len(b) \in Nat /\ Len(c) = Len(a) + 1 /\ Len(d) = Len(b) - 1
            /\ i \in 1..(Len(c) + Len(d))
        BY <1>1, <1>2, <1>4
      <4> QED BY <2>3, <4>1
    <3>2. (c \o d)[i] = d[i - Len(c)]
      BY <1>4, <3>1, Zenon
    <3>3. (a \o b)[i] = b[i - Len(a)]
      BY <1>3, <3>1, Zenon
    <3>4. d[i - Len(c)] = b[(i - Len(c)) + 1]
      BY <1>1, <3>1, Zenon
    <3> QED BY <3>1, <3>2, <3>3, <3>4, Zenon
  <2>4. i \in Nat /\ Len(a) \in Nat
    BY <1>1, <1>2, <1>4
  <2>5. i <= Len(a) \/ i = Len(a) + 1 \/ i > Len(a) + 1
    BY <2>4, SMT
  <2> QED BY <2>1, <2>2, <2>3, <2>5, Zenon
<1>7. c \o d = a \o b
  BY <1>3, <1>4, <1>5, <1>6, SeqEqual, Zenon
<1> QED BY <1>7 DEF c, d

\* A step that leaves the fills alone keeps what is said of them.
LEMMA FillsUntouched ==
  ASSUME TypeInv, FillsKept /\ FillsOrdered,
         UNCHANGED <<produced, fills, out_dropped>>, Pipe' = Pipe,
         (engine_pc = "pushed") = (engine_pc = "pushed")',
         (engine_pc = "dropped") = (engine_pc = "dropped")'
  PROVE  FillsKept' /\ FillsOrdered'
BY DEF FillsKept, FillsOrdered, One

\* Fills: a fill that is produced is pushed or dropped, and counted next.
LEMMA FillsNext ==
  TypeInv /\ FillsKept /\ FillsOrdered /\ [Next]_vars => FillsKept' /\ FillsOrdered'
<1> SUFFICES ASSUME TypeInv, FillsKept, FillsOrdered, [Next]_vars
             PROVE  FillsKept' /\ FillsOrdered'
  OBVIOUS
<1>1. CASE EnginePushFill
  <2>1. /\ Len(Pipe) \in Nat /\ Pipe \in Seq(Nat)
        /\ Len(log \o Append(out, produced + 1)) = Len(Pipe) + 1
        /\ \A i \in 1..Len(Pipe) : (log \o Append(out, produced + 1))[i] = Pipe[i]
        /\ (log \o Append(out, produced + 1))[Len(Pipe) + 1] = produced + 1
    BY PipeGrows DEF TypeInv, Pipe
  <2>2. /\ engine_pc = "fills" /\ produced' = produced + 1
        /\ UNCHANGED <<log, fills, out_dropped>>
    BY <1>1 DEF EnginePushFill, outputVars
  <2>3. /\ produced \in Nat /\ fills \in Nat /\ out_dropped \in Nat
        /\ \A i \in 1..Len(Pipe) : Pipe[i] \in Nat
    BY <2>1, ElementOfSeq, Zenon DEF TypeInv
  <2>4. CASE out' = Append(out, produced + 1) /\ engine_pc' = "pushed"
    <3>1. Pipe' = log \o Append(out, produced + 1)
      BY <2>2, <2>4 DEF Pipe
    <3>2. /\ Len(Pipe') = Len(Pipe) + 1 /\ Len(Pipe) \in Nat
          /\ \A i \in 1..Len(Pipe) : Pipe'[i] = Pipe[i]
          /\ Pipe'[Len(Pipe) + 1] = produced + 1
      BY <2>1, <3>1, Zenon
    <3>3. FillsKept'
      <4>1. /\ One(engine_pc = "pushed") = 0 /\ One(engine_pc = "dropped") = 0
            /\ One((engine_pc = "pushed")') = 1 /\ One((engine_pc = "dropped")') = 0
        BY <2>2, <2>4 DEF One
      <4>2. produced = Len(Pipe) + out_dropped /\ Len(Pipe) = fills
        BY <2>3, <3>2, <4>1 DEF FillsKept
      <4>3. produced' = Len(Pipe') + out_dropped' + 0 /\ Len(Pipe') = fills' + 1
        BY <2>2, <2>3, <3>2, <4>2
      <4> QED BY <4>1, <4>3, Zenon DEF FillsKept
    <3>4. FillsOrdered'
      <4>1. \A i \in 1..Len(Pipe) : Pipe'[i] \in Nat /\ Pipe'[i] <= produced
        BY <2>3, <3>2 DEF FillsOrdered
      <4>2. \A i \in 1..Len(Pipe') : Pipe'[i] <= produced'
        BY <2>2, <2>3, <3>2, <4>1
      <4>3. ASSUME NEW i \in 1..Len(Pipe'), NEW j \in 1..Len(Pipe'), i < j
            PROVE  Pipe'[i] < Pipe'[j]
        <5>1. CASE j = Len(Pipe) + 1
          BY <2>3, <3>2, <4>1, <4>3, <5>1
        <5>2. CASE j # Len(Pipe) + 1
          BY <3>2, <4>3, <5>2 DEF FillsOrdered
        <5> QED BY <5>1, <5>2
      <4> QED BY <4>2, <4>3 DEF FillsOrdered
    <3> QED BY <3>3, <3>4
  <2>5. CASE out' = out /\ engine_pc' = "dropped"
    <3>1. Pipe' = Pipe
      BY <2>2, <2>5 DEF Pipe
    <3>2. FillsKept'
      BY <2>1, <2>2, <2>3, <2>5, <3>1 DEF FillsKept, One
    <3>3. FillsOrdered'
      BY <2>1, <2>2, <2>3, <3>1 DEF FillsOrdered
    <3> QED BY <3>2, <3>3
  <2> QED BY <1>1, <2>4, <2>5, Zenon DEF EnginePushFill
<1>2. CASE EngineCountFill
  <2>1. /\ Pipe' = Pipe /\ produced' = produced /\ engine_pc' = "fills"
        /\ fills' = IF engine_pc = "pushed" THEN fills + 1 ELSE fills
        /\ out_dropped' = IF engine_pc = "dropped" THEN out_dropped + 1 ELSE out_dropped
        /\ engine_pc \in {"pushed", "dropped"}
    BY <1>2 DEF EngineCountFill, outputVars, Pipe
  <2>2. Len(Pipe) \in Nat /\ produced \in Nat /\ fills \in Nat /\ out_dropped \in Nat
    BY ConcatProperties, LenProperties DEF TypeInv, Pipe
  <2>3. FillsKept'
    BY <2>1, <2>2 DEF FillsKept, One
  <2>4. FillsOrdered'
    BY <2>1 DEF FillsOrdered
  <2> QED BY <2>3, <2>4
<1>3. CASE Engine /\ ~EnginePushFill /\ ~EngineCountFill
  <2>1. /\ UNCHANGED <<produced, fills, out_dropped, log, out>>
        /\ engine_pc \notin {"pushed", "dropped"} /\ engine_pc' \notin {"pushed", "dropped"}
    BY <1>3 DEF Engine, EnginePop, EngineMatch, EngineOrderSample, EngineProcessed, EngineStop, outputVars
  <2> QED BY <2>1, FillsUntouched DEF Pipe
<1>4. CASE Output
  <2>1. UNCHANGED <<produced, fills, out_dropped, engine_pc>>
    BY <1>4 DEF Output, OutputLatency, OutputFill, OutputStop, engineVars
  <2>2. \/ UNCHANGED <<log, out>>
        \/ out # << >> /\ out' = Tail(out) /\ log' = Append(log, Head(out))
    BY <1>4 DEF Output, OutputLatency, OutputFill, OutputStop
  <2>3. Pipe' = Pipe
    BY <2>2, PipeMoves DEF Pipe, TypeInv
  <2> QED BY <2>1, <2>3, FillsUntouched
<1>5. CASE Ingest \/ Main \/ Shutdown \/ UNCHANGED vars
  <2>1. UNCHANGED <<produced, fills, out_dropped, log, out, engine_pc>>
    <3>1. CASE Ingest
      BY <3>1 DEF Ingest, IngestCheck, IngestPush, IngestRefused, IngestCount, engineVars,
         outputVars
    <3>2. CASE Main
      BY <3>2 DEF Main, StopIngest, StopEngine, StopOutput, Finish, engineVars, outputVars
    <3>3. CASE Shutdown
      BY <3>3 DEF Shutdown, engineVars, outputVars
    <3>4. CASE UNCHANGED vars
      BY <3>4 DEF vars, engineVars, outputVars
    <3> QED BY <1>5, <3>1, <3>2, <3>3, <3>4
  <2> QED BY <2>1, FillsUntouched DEF Pipe
<1> QED BY <1>1, <1>2, <1>3, <1>4, <1>5 DEF Next, Engine

\* Samples: what total_orders misses was dropped or waits in the ring.
LEMMA SamplesUntouched ==
  ASSUME SamplesKept, UNCHANGED <<lat, lat_dropped, total_orders>>, Timed' = Timed
  PROVE  SamplesKept'
BY Zenon DEF SamplesKept, At

\* How a sample that is emitted is counted; an order sample changes no match count.
LEMMA EmitCounts ==
  ASSUME TypeInv, NEW kind \in {"Match", "Order"}, emit(kind)
  PROVE  \/ /\ Cardinality(At(lat', "Match")) = Cardinality(At(lat, "Match")) + One(kind = "Match")
            /\ lat_dropped' = lat_dropped
         \/ lat' = lat /\ lat_dropped' = lat_dropped + 1
<1>1. Cardinality(At(Append(lat, kind), "Match")) = Cardinality(At(lat, "Match")) + One(kind = "Match")
  <2>1. lat \in Seq({"Match", "Order"})
    BY DEF TypeInv
  <2> QED BY <2>1, AtAppend
<1> QED BY <1>1, Zenon DEF emit

\* Samples: every step keeps what is counted of them.
LEMMA SamplesNext == TypeInv /\ SamplesKept /\ [Next]_vars => SamplesKept'
<1> SUFFICES ASSUME TypeInv, SamplesKept, [Next]_vars
             PROVE  SamplesKept'
  OBVIOUS
<1> DEFINE waiting == Cardinality(At(lat, "Match"))
<1>1. /\ waiting \in Nat /\ lat_dropped \in Nat /\ total_orders \in Nat /\ processed \in Nat
      /\ Timed - (total_orders + waiting) \in 0..lat_dropped
  BY AtFinite, Zenon DEF TypeInv, SamplesKept
<1>2. CASE EngineMatch
  <2>1. /\ emit("Match") /\ engine_pc = "match" /\ engine_pc' = "order"
        /\ UNCHANGED <<processed, total_orders>>
    BY <1>2 DEF EngineMatch, outputVars
  <2>2. \/ waiting' = waiting + 1 /\ lat_dropped' = lat_dropped
        \/ waiting' = waiting /\ lat_dropped' = lat_dropped + 1
    BY <2>1, EmitCounts, Zenon DEF One
  <2>3. Timed = processed /\ Timed' = processed + 1
    BY <1>1, <2>1 DEF Timed, One
  <2> HIDE DEF waiting
  <2>4. Timed' - (total_orders' + waiting') \in 0..lat_dropped'
    BY <1>1, <2>1, <2>2, <2>3
  <2> QED BY <2>4 DEF SamplesKept, waiting
<1>3. CASE EngineOrderSample
  <2>1. /\ emit("Order") \/ UNCHANGED <<lat, lat_dropped>>
        /\ engine_pc = "order" /\ engine_pc' = "fills"
        /\ UNCHANGED <<processed, total_orders>>
    BY <1>3 DEF EngineOrderSample, outputVars
  <2>2. "Order" # "Match" /\ waiting + 0 = waiting
    BY <1>1
  <2>3. waiting' = waiting /\ lat_dropped' \in {lat_dropped, lat_dropped + 1}
    BY <2>1, <2>2, EmitCounts, Zenon DEF One
  <2>4. Timed' = Timed
    BY <2>1 DEF Timed, One
  <2> HIDE DEF waiting
  <2>5. Timed' - (total_orders' + waiting') \in 0..lat_dropped'
    BY <1>1, <2>1, <2>3, <2>4
  <2> QED BY <2>5 DEF SamplesKept, waiting
<1>4. CASE Engine /\ ~EngineMatch /\ ~EngineOrderSample
  <2>1. UNCHANGED <<lat, lat_dropped, total_orders>>
    BY <1>4 DEF Engine, EnginePop, EnginePushFill, EngineCountFill, EngineProcessed, EngineStop, outputVars
  <2>2. \/ engine_pc = "fills" /\ engine_pc' = "pop" /\ processed' = processed + 1
        \/ /\ engine_pc \in {"fills", "pushed", "dropped"} /\ engine_pc' \in {"fills", "pushed", "dropped"}
           /\ processed' = processed
        \/ /\ engine_pc \in {"pop", "stop?"} /\ engine_pc' \in {"pop", "match", "stop?", "exited"}
           /\ processed' = processed
    BY <1>4 DEF Engine, EnginePop, EnginePushFill, EngineCountFill, EngineProcessed, EngineStop
  <2>3. Timed' = Timed
    BY <1>1, <2>2 DEF Timed, One
  <2> QED BY <2>1, <2>3, SamplesUntouched
<1>5. CASE OutputLatency
  <2>1. /\ Timed' = Timed /\ lat_dropped' = lat_dropped
        /\ \/ UNCHANGED <<lat, total_orders>>
           \/ /\ lat # << >> /\ lat' = Tail(lat)
              /\ total_orders' = IF Head(lat) = "Match" THEN total_orders + 1 ELSE total_orders
    BY <1>5 DEF OutputLatency, engineVars, Timed
  <2>2. CASE UNCHANGED <<lat, total_orders>>
    BY <2>1, <2>2, SamplesUntouched
  <2>3. CASE /\ lat # << >> /\ lat' = Tail(lat)
             /\ total_orders' = IF Head(lat) = "Match" THEN total_orders + 1 ELSE total_orders
    <3>1. waiting = waiting' + One(Head(lat) = "Match")
      BY <2>3, AtTail, Zenon DEF TypeInv
    <3>2. waiting' \in Nat
      <4>1. Tail(lat) \in Seq({"Match", "Order"})
        BY <2>3, HeadTailProperties, Zenon DEF TypeInv
      <4> QED BY <2>3, <4>1, AtFinite, Zenon
    <3> HIDE DEF waiting
    <3>3. total_orders' + waiting' = total_orders + waiting
      BY <1>1, <2>3, <3>1, <3>2 DEF One
    <3>4. Timed' - (total_orders' + waiting') \in 0..lat_dropped'
      BY <1>1, <2>1, <3>3
    <3> QED BY <3>4 DEF SamplesKept, waiting
  <2> QED BY <2>1, <2>2, <2>3, Zenon
<1>6. CASE OutputFill \/ OutputStop \/ Ingest \/ Main \/ Shutdown \/ UNCHANGED vars
  <2>1. UNCHANGED <<lat, lat_dropped, total_orders, processed, engine_pc>>
    BY <1>6 DEF OutputFill, OutputStop, Ingest, IngestCheck, IngestPush, IngestRefused, IngestCount,
       Main, StopIngest, StopEngine, StopOutput, Finish, Shutdown, vars, engineVars, outputVars
  <2> QED BY <2>1, SamplesUntouched DEF Timed
<1> QED BY <1>2, <1>3, <1>4, <1>5, <1>6 DEF Next, Engine, Output

(***************************************************************************)
(* The theorems                                                            *)
(***************************************************************************)

\* Before the threads start every place is empty.
LEMMA InitIInv == Init => IInv
<1> SUFFICES ASSUME Init
             PROVE  IInv
  OBVIOUS
<1>1. TypeInv
  BY EmptySeq DEF Init, TypeInv
<1>2. Stages /\ DropCounts /\ MessagesKept
  BY DEF Init, Stages, DropCounts, MessagesKept, Timed, One
<1>3. Pipe = << >> /\ Len(Pipe) = 0
  BY DEF Init, Pipe
<1>4. FillsKept /\ FillsOrdered
  BY <1>3 DEF Init, FillsKept, FillsOrdered, One
<1>5. At(lat, "Match") = {}
  BY DEF Init, At
<1>6. Cardinality(At(lat, "Match")) = 0
  BY <1>5, FS_EmptySet, Zenon
<1>7. SamplesKept
  BY <1>6 DEF Init, SamplesKept, Timed, One
<1> QED BY <1>1, <1>2, <1>4, <1>7, Zenon DEF IInv

\* Every step of the threads and of main preserves the invariant.
LEMMA NextIInv == IInv /\ [Next]_vars => IInv'
BY TypeKept, StagesKept, DropCountsKept, MessagesKeptNext, FillsNext, SamplesNext, Zenon DEF IInv

\* So it holds throughout.
LEMMA Invariance == Spec => []IInv
BY InitIInv, NextIInv, PTL DEF Spec

\* Nothing disappears between the counters, whatever the capacities, the batch size,
\* the bounds and the views of the rings.
THEOREM Conservation == Spec => []NothingLost
<1>1. IInv => NothingLost
  BY DEF IInv, NothingLost, MessagesKept, FillsKept, FillsOrdered, SamplesKept, Pipe, Timed, At, MatchSamples
<1> QED BY <1>1, Invariance, PTL

\* The staged shutdown of main abandons no ring that somebody can still push into.
THEOREM StagedShutdown == Spec => []NoRingAbandoned
<1>1. IInv => NoRingAbandoned
  BY DEF IInv, Stages, NoRingAbandoned
<1> QED BY <1>1, Invariance, PTL

\* The report of dropped samples is the engine's own count.
THEOREM Reporting == Spec => []DropsReported
<1>1. IInv => DropsReported
  BY DEF IInv, DropCounts, DropsReported
<1> QED BY <1>1, Invariance, PTL
===============================================================================
