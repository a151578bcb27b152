# Verification of the lock-free matching engine

TLA+ models of the matching engine's threads, rings, order book, feed, metrics
and dashboard, checked with TLC on small instances. The safety of the ring, the
order book and its storage, the threads and their shutdown, the feed, the
WebSocket client and the dashboard is also proved with TLAPS, for every instance.
`PROJECT.json` maps every
definition to the lines it models and lists runs, hazards and findings.

## The system

```
 ingest thread ----SPSC #1----> engine thread ----SPSC #2----> output thread
 (synthetic, or                 MatchingEngine  --telemetry-->  trade log, metrics
  live: WebSocketClient             |                               |
  -> FeedHandler)                   +--------> DashboardHub <-------+
                                                    |
                                     DashboardServer thread -> browsers
```

| Part | Source | State | Operations | Module |
|---|---|---|---|---|
| Ring buffer | `transport/spsc_queue.h` | `head_`, `tail_`, cached copies, slots | `try_push`, `try_pop` | `SPSCQueue`, `BoundedFifo` |
| Order book, engine | `core/matching_engine.cpp`, `core/order_book.cpp` | levels, id map, counts, best prices, pool | `process` (new order, cancel) | `MatchingEngine`, `PriceTimeBook`, `MatchingEngineRefinement` |
| Memory pool | `core/memory_pool.h` | free list inside the slots | `allocate`, `deallocate` | `MemoryPool`, `SlotPool` |
| Price level | `core/price_level.h` | linked orders, aggregates | `push_back`, `remove`, `pop_front`, `reduce_quantity` | `PriceLevel` |
| Pool and level in use | `core/matching_engine.cpp` | one memory for both lists | rest, cancel, fill | `OrderStorage` |
| Threads, shutdown | `main.cpp` | rings, counters, stop flags | the three loops, `main` | `Pipeline`, `PipelineStream` |
| Live feed | `feed/feed_handler.cpp`, `feed/coinbase_feed.cpp` | live order per level, sequence | `parse`, message handler | `Feed` |
| WebSocket client | `feed/ws_client.cpp` | stream, write queue, backoff | connect steps, read, write, `send`, `stop` | `WebSocketClient` |
| Dashboard hub | `server/dashboard_hub.h`, `main.cpp` | snapshot, mutex, request flag | `publish_book`, `publish_output`, `snapshot_json` | `DashboardHub`; the walk over the levels in `BookLadder` |
| Dashboard server | `server/ws_server.cpp` | sessions, write queues, timer | accept, send, close, broadcast, `stop` | `DashboardServer` |
| Histogram | `metrics/latency_tracker.h` | bins, extremes | `record`, `percentile`, `reset` | `LatencyTracker` |
| Metrics, trade log | `metrics/metrics_collector.*`, `metrics/trade_logger.cpp` | histograms, stdio buffer, file | `record_*`, `log`, `flush`, `close` | `MetricsWorker` |
| Synthetic workload | `tools/synthetic_workload.h` | live ids | `make_new_order`, `make_cancel` | `Workload` |
| Baseline engine | `bench/matching_bench.cpp` | ordered maps, lists, index | `handle` (new order, cancel) | `MapBookEngine` |

What is hard about it: two threads share a ring without locks and with cached
indices; one level array serves both sides of the book and the best prices are
cached; the pool keeps its list in the memory it hands out; shutdown is staged
over three threads that look at a ring and at a flag one after the other; the
feed drops messages rather than wait; handlers of client and server outlive the
connection they belong to; engine and server meet at a mutex the engine may not
wait for.

## Modules

**SPSCQueue** cuts `try_push` and `try_pop` at every access to a shared
variable. `StartWrite` leaves the slot `Torn` until `PushPublish` has run, so a
read at the wrong moment shows. An acquire load may return any index between
the cached one and the current one (`Visible`): memory that is coherent and in
order, but not up to date. `BoundedFifo` is the promise; `Contents`, the items
between tail and head, is the refinement mapping: an item enters with the
release store of `head_` and leaves when it has been read.

**MatchingEngine** follows `process()`: validation, the walk over levels
(`EnterLevel`), one action per fill (`fill_level`), leaving a level, resting or
dropping the remainder, cancelling. `OrderBook` and `MemoryPool` are the
operators `add_order`, `cancel_order`, `update_best_*`, `allocate`,
`deallocate`. Levels are sequences of slots and the pool is a set, which
`OrderStorage` justifies; quantities wrap at `QuantityModulus`. `PriceTimeBook`
knows only orders, their arrival order and price-time priority;
`MatchingEngineRefinement` holds the mapping. **BookLadder** adds the walk by
which `publish_book` copies the book for the dashboard: it takes every level
that is not empty for one of the side it is scanning.

**OrderStorage** composes **MemoryPool** and **PriceLevel** as the engine does:
get a slot, construct the order, link it; unlink it, give the slot back. Both
lists keep their pointers, and both lie in the slots. `MemoryPool` implements
`SlotPool`, a set of free slots; `PriceLevel` represents a queue. **LevelQueue**
holds what `PriceLevel::remove` does to that queue, for the list that represents
it and for the engine that works on it.

**MapBookEngine** is the `std::map` engine the benchmark compares with, fed by
**Workload**, the generator of synthetic flow. It is held to the same
`PriceTimeBook` as the flat engine: the comparison is fair only if both match
alike. Both modules live outside the production binary.

**Pipeline** interleaves ingest, engine, output and main at every ring access
and counter. A ring is its content; `StaleViews` lets `try_push` and `try_pop`
fail although there is room or an item, which the stale loads of `SPSCQueue`
allow, but not once the other side has been joined. A message may yield up to
`MaxFills` fills. Bounds: `MaxMessages`, `MaxFills`.

**PipelineStream** is `Pipeline` with messages that keep coming. The generator is
throttled by SPSC #1 alone, so neither ring need ever be empty, and the output
thread drains telemetry, two samples per message, before it takes a fill: whether
a fill is reached cannot be asked of a few messages. No step depends on the size of
a counter and the properties compare differences, so its one step of its own,
`Forget`, takes what every counter has counted off all of them: a message processed
and recorded, a message whose Match sample was dropped, a dropped or recorded Order
sample. It never hides a difference, nor whether anything was dropped at all.
`MaxMessages` bounds the messages not yet forgotten. The threads pause for
`Forget`, which keeps one state per class of equal differences; the output thread
pauses only for its own records, as an engine that drops for ever could otherwise
keep it waiting. Fills are numbered and bounded by `MaxProduced`.

**Feed** takes a depth frame row by row; the engine's book is seen as the set of
resting orders, and since quantities are left out a new order may take any of
those it crosses. Bounds: `MaxEvents` (orders created, matches seen and gaps
counted, together), `MaxBatch` (messages of a frame), `MaxSequence`.

**WebSocketClient** has one queue of handlers that are due (`ready`) and a set of
pending operations; Boost is external. Two assumptions: closing a transport
turns its pending operations, but not handlers already due, into aborted ones;
and the backoff, 500 ms at least, outlasts the handlers due when it is armed.
Without the second one a wait that has expired cannot be cancelled any more and
two attempts would share `ws_`. Failures in a row saturate at `MaxAttempts`,
beyond which the delay no longer depends on them.

**DashboardHub** represents the book by a version number and a fill by its
sequence number, and cuts the critical sections into steps so that only the
mutex keeps threads apart. Two auxiliary variables hold how many fills have been
published, now (`published`) and when the frame was copied (`shown`).

**DashboardServer** has one action per completion handler, as they all run on
one thread, and `stop()` with its caller waiting in `join()`. Beast's streams are
external: a session records the operations it has outstanding and the state of
its stream, and a handler may run with every result that state allows. A queued
frame is its distance from the last frame the browser has received, so that the
numbers stay small however long the server runs.

**LatencyTracker** is the histogram as a value, with operators for `record`,
`bucket_index`, `bucket_upper` and `percentile`. **MetricsWorker** is what the
output thread does with it and with the trade log, whose stdio buffer is written
out at moments of its own and may fail to be.

## Runs

| Run | Shows | Bounds |
|---|---|---|
| `spsc` | no slot is read and written at once, refusals are genuine, the ring is a FIFO; stale cached indices hide items and room only for a while | 4 slots: indices wrap many times, full and empty both occur |
| `engine` | pool, map, levels, counters and best prices agree inside every call; uncrossed book; exact ladder; price-time priority; `process()` returns | 3 prices (a level between the extremes), 3 ids for 2 slots (exhaustion, duplicates), quantities 0, 1, 2 mod 3 (overflowing sums) |
| `storage` | free list and order list, in the same bytes, stay apart; the pool is a set and the level a queue | 4 slots: head, tail and two in the middle |
| `baseline` | the baseline engine is the same price-time book; every resting order can still be cancelled by the generator | 4 orders, 3 prices, quantities to 2: partial fills, walks over two levels |
| `pipeline` | messages, fills and samples are conserved or counted, in order; no ring is left under a running producer; the process ends after a shutdown request; every message is taken and every fill logged, in a stream without end too | endless messages, 2 of them not yet forgotten; rings of 1, 2 and 1, so that each overflows; a batch of 1, which the samples outlast for ever; 2 fills, of one message or of two |
| `feed` | without drops the engine holds only the feed's orders or ones about to be cancelled, and the latter leave; a silent gap counter means no match is missing | 2 prices on 2 sides, a ring of 2, 3 events: a replacement that crosses, a drop, a gap |
| `ws` | one attempt at a time, buffers outlive writes, backoff grows; a lost connection is tried again; `stop()` ends `run()` unless it meets the resolver | clamp at 3, attempts to 5 |
| `hub` | frames not torn, tape of the last fills published without gaps, requests not lost, frames fresh | 3 rows kept and 8 fills: both tape rings wrap twice |
| `server` | one write at a time, frames in order and complete, every session watched; slow browsers leave; `stop()` returns unless it meets a handshake or a second close | 2 browsers, queues of 2: full queues, both together |
| `metrics` | reported percentiles bound the exact ones within a bucket; the log is one header and every fill in order unless a write failed | 4 buckets per octave, samples on both sides of the linear range, of an octave and of the last bin |

Runs that end in a violation, each a disagreement of the code with its comments:

| Run | What happens |
|---|---|
| `pipeline_engine_drain` | The engine sees SPSC #1 empty; ingest pushes and is joined, `engine_stop` is set; the engine sees the flag and leaves the message behind ("producer joined AND queue drained"). |
| `ws_stop` | `stop()` while the host is being resolved is lost and `run()` does not return ("run() returns naturally"). |

Further points where the code and its comments part, met while modelling:

- The output thread leaves by the same order of tests as the engine
  (`main.cpp:416`, "engine joined AND both rings drained"), so that a fill can
  stay in SPSC #2. `NothingLost` counts it as left in the ring.
- A dropped cancel leaves two orders on a level for good, against the "one resting
  limit order per (side, price)" of the feed. `NoGhosts` and `StaleOrdersLeave`
  therefore speak of runs without drops.
- A level's `uint32_t` aggregate wraps, so the properties state it modulo 2^32
  where `price_level.h` says "total_quantity_ == sum of remaining_quantity()".
- "Total orders processed" counts the telemetry samples that got through.
- `trade_logger.h:19` speaks of "append-only mode"; `open()` truncates the file.
- A browser whose queue fills up during its handshake is not closed, because the
  stream is not open yet; it is later served with a gap. `FramesInOrder` and
  `SlowClientLeaves` tell this case apart (`refused`).
- `DashboardServer::stop()` passes over a session in its handshake, and a second
  `async_close` on a session may never end; `StopUnwinds` excludes both.

## Fairness

Weak fairness of a thread's steps: every thread of `main.cpp` is a loop that the
operating system keeps running, and no step waits for another thread except at a
ring or the mutex. `SPSCQueue` additionally assumes that a thread that reloads an
index again and again eventually sees the current value, as C++ asks of atomic
stores. `PipelineStream` assumes the same of the pops from SPSC #1 and #2, and nothing of
the telemetry ring or of a shutdown request. In `DashboardHub`
the mutex is free almost always and asked for again at every turn of the loop, so
strong fairness of the successful lock is assumed. In `WebSocketClient` every
operation but a read ends by itself or by a timeout the code sets, and a read on
a stream that is closing ends with the close or its timeout. `DashboardServer`
assumes that the timer fires, that posted handlers run, and that the suggested
timeouts the code sets on each stream end every handshake, write and close, and
every read of a stream that is no longer open; nothing makes a browser connect,
send or leave. `Feed` assumes that a frame is finite and that the engine keeps
popping.

`CHECK_DEADLOCK FALSE` is used where the program ends: `Pipeline` and `PipelineStream` after main
returns, `WebSocketClient` and `DashboardServer` after `run()` returns,
`MetricsWorker` after the log is closed, `MapBookEngine` after the last order of
the stream.

## Proofs

**SPSCQueueProofs**, from a capacity that is a power of two above 1 (the
`static_assert`s) and `NoItem`, `Torn` not being items.
`Safety`, `Refinement` and `GenuineRefusals` rest on the invariant `IInv`:
`RingOrder` (tail, cached tail, head and cached head in order around the ring)
together with `PcFacts` (what a thread checked at the start of its call still
holds, because the other one can only have improved it). Neither alone is
inductive: the order survives a publication only because of the check before it,
and the check survives only because of the order. For the refinement,
`PublishAppends` and `ReadPops` show that two steps are the abstract operations,
and `FirstUnmoved` that every other one is invisible.

**MatchingEngineProofs**, from finite `Slots`, at least one price and a positive
modulus. `Safety` (best prices and side counters are exact, no filled order
rests), `NoSlotLeaks` (`SlotsAccounted`) and `BookUncrossed` (`Uncrossed`) share
one invariant. It adds `SidesCounted` (the counters behind `has_bids()`),
`CallValid` (what validation established) and the best prices as bounds that are
attained (`BidTop`, `AskTop`), which is what the scan after a removal preserves.
The book changes in three ways only: an order is removed (`RemovePreserves`, in
**BookInvariant**, with the facts about queues and extrema), added
(`AddPreserves`) or partly filled (`PartialFillPreserves`); each action is a
combination of them.

**OrderStorageProofs**, from at least one slot, `nullptr` and `Object` not being
slots, and a positive width of `order_count_`. Of the pool alone, `Safety`
(`FreeListIntact`) and `Refinement` (`KeepsPromise`) rest on the free list being
intact and on nothing being handed out before the constructor has linked every
slot. `PushKeepsList` serves the constructor and `deallocate()`, both of which put
a slot in front; `FreeIsNotLive` turns the list into the set `SlotPool` speaks of.
Of pool and level together, `SlotsShared` (`LinkedAreLive`), `LevelLinked` (the
pointers and the count of `ListIntact`) and `PoolInUse` (the pool's two promises
again, in the engine's hands) rest on `StorageInv`: both lists are intact, and the
order between two steps of the engine is owned and is, or is not, linked as the
next step expects. Without the latter a slot might be released while it is still
linked. `Links` states the list as a relation of a queue and four pointers, so
that `push_back`, `remove` and `pop_front` are facts about functions
(`PushedBackLinks`, `UnlinkedLinks`, `TailIsUnlinked`) before they are steps.

**PipelineProofs**, of `Pipeline` itself, whose counters grow without limit: for any
capacities, batch size and number of messages and fills, with or without the
refusals of stale views. `StagedShutdown`
(`NoRingAbandoned`) and `Reporting` (`DropsReported`) follow from `Stages`, which
ties each stage of main to the threads that have left, and `DropCounts`.
`Conservation` (`NothingLost`) needs three balances, `MessagesKept`, `FillsKept`
and `SamplesKept`, and that no fill in the pipe is newer than the last one
produced (`FillsOrdered`), without which the next one could not be put behind them.

**WebSocketClientProofs**, for any delays and any clamp. `SingleAttempt` (`OneAttempt`) and `FrameKept` (`WriteBufferAlive`) rest
on one invariant: every operation occurs once among the pending ones and the
handlers due (`Single`); what may be outstanding in which state of the connection
(`Phases`), once `stop()` was called too (`Stopping`); and which of them the
write queue allows (`Frames`). `Phases` is the heart: a handler of a dead
connection is harmless because nothing new begins until the timer has run, and the
timer runs last, which is the second assumption of the model above.

**FeedProofs**, from `NoOrder` not being an id. `NoGhostOrders`
(`NoGhosts`), for any prices, ring and frames, treats the messages under way,
those in the ring and those of the frame being pushed, as one sequence that grows
at its end and shrinks at its front. `NoGhosts` alone is not inductive, because it
says nothing of an order that has yet to reach the engine: `Covered` adds that such
an order is the feed's own or has its cancel behind it. `SilenceIsComplete`
(`QuietMeansComplete`) adds that while no gap was counted the last number received
is the largest.

**DashboardProofs**. For the server, any number of browsers and any positive queue
limit: `WritesOneByOne` (`OneWrite`), `CompleteQueues` (`FramesInOrder`) and
`TrueClientCount` (`SessionsWatched`). The invariant says of every session,
remembered or not, that its flags describe the write it has outstanding (`Sound`),
and of one that is broadcast to that it is watched, that its queue is worked off
and that it is complete (`Served`). It is a statement about one session at a time,
so each handler needs only a lemma about the record it writes; `PutKeeps` puts the
record back among the others. For the hub: `WholeFrames` (`FrameNotTorn`) and
`RequestsServed` (`NoRequestLost`) from who holds the mutex in which step
(`Locks`), whose book each side is (`Sides`) and how new it is (`Requests`);
`ExactTape` (`TapeExact`), for every positive tape length (the `HubAssumption` of
`DashboardHub`), from the content of both rings at every row being copied
(`Collecting`, `Publishing`).

### Model-checked only

- Liveness, which the prover does not reach.
- `LadderExact`, `PercentilesTight`, the sum `total_quantity_` in `ListIntact`, and
  `CancelsReachOrders`: sorting, sums and selections are recursive, and what they
  yield for every input takes an induction over data.
- `ImplementsPriceTime` and `MirrorsPriceTime`, the price-time refinements: their
  mapping selects the orders of a side from a level.
- `BackoffGrows`, which is about powers of two.
- `LogFaithful` of `MetricsWorker`.

## Not modelled

- JSON and decimal parsing, conversions between dollars, ticks and lots, and the
  feed's diagnostic counters: character-level conversions and floating point. A
  row that fails to parse is skipped, which in `Feed` is a row that never came.
- The command line, CPU pinning, statistics and every other text output.
- `metrics/tsc_clock.h`, which calibrates a hardware counter.
- The command-line tools and the other benchmarks, which only drive the code above,
  and the browser's JavaScript, whose state is the browser's event loop.
- `BookUpdateMessage`, which is declared and never emitted.
- Live mode as one composition of `WebSocketClient`, `Feed` and `Pipeline`: each
  interface is modelled on both sides, the product is beyond TLC's reach at bounds
  at which anything happens.
