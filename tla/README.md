# Verification of the candleforge data path

TLA+ models, TLC configurations and TLAPS proofs for candleforge, a service that
collects candles from an exchange over WebSocket, writes them to ClickHouse in
batches, announces every stored row on NATS, supervises itself and answers an HTTP
API. All paths below are relative to the repository (`src/src/main.py` is the
`main.py` of the service); the runtime is CPython 3.11 with asyncio
(`environment.yml`), a single event loop in a single process.

## 1. Inventory

How the parts interact:

    exchange -> ExchangeCollector.start / _connection_manager / _message_loop
             -> DataValidator -> ClickHouseManager.insert_ohlcv -> _write_queue (500)
             -> _batch_writer -> _write_batch (INSERT, publish, retry) -> ClickHouse
                                              \-> NatsPublisher.publish_kline -> NATS
    RecoveryService (gap fill) -> find_data_gaps, get_historical_klines -> insert_ohlcv
    AutoRecoveryManager -> checks and handlers of DataService (main.py)
    HTTP API -> CollectorManager.restart_collector, force_recovery, reset_component

| Component | State | Operations | What makes it correct |
|---|---|---|---|
| ClickHouse write path, `storage/clickhouse.py` 22-62, 125-167, 215-399 | `_write_queue`, the batch of the writer, pending tasks, semaphore, shared `_batch_stats`, `is_connected`, publisher | `insert_ohlcv`, `_batch_writer`, `_write_batch`, `close` | no accepted row lost, doubled or reordered; announced once, only when stored; the shared failure counter never spoils another batch; shutdown ends |
| Auto-recovery, `utils/recovery_manager.py` | per component: status, errors, attempts, `next_recovery`; the monitoring task | checks, handlers, `force_recovery`, `reset_component`, `stop_monitoring` | a component being recovered is pursued; exhaustion is reported; the report follows reality |
| Service lifecycle, `main.py` 50-253 | `db_manager`, collectors, recovery service, publisher; the references others hold | `startup`, `shutdown`, `_check_*`, `_recover_*` | one live manager, seen by everybody; shutdown leaves nothing behind |
| Collector, `collectors/base.py`, `binance.py`; manager, `manager.py` | connection tasks, `websocket_clients`, `connection_health`, `is_running`; `tasks` | `start`, `stop`, `_connection_manager`, `_message_loop`, `restart_collector`, `start_all`, `stop_all` | one task per batch of symbols, no leaked socket, reconnect, restarts that may overlap |
| Gap recovery, `services/recovery.py`, `find_data_gaps` | `is_running`, the cycle index; one search at a time | `_check_and_recover_gaps`, `_recover_symbol_gaps`, `_fill_gap` | what is missing is filled, every symbol in turn, no final candle damaged |
| NATS publisher, `events/nats_publisher.py` | connection, failure count, time of the last publish | `connect`, `publish_kline`, `close`, `health` | fire and forget, honest sub-probe |
| Health endpoint, `main.py` 255-273, 342-522 | none of its own | `health_check` and its sub-probes | the verdict is the worst of the parts |
| Validator, `data/validator.py` | none | `validate_ohlcv` | every row that passes is one to trade on |
| Cleaner, `data/cleaner.py` | none (it changes the candles of its caller) | fill, dedupe, smooth, detect, aggregate; unused | candles stay candles, whatever is applied after what |
| HTTP API, `api/routes.py`, `freqtrade.py` | none of its own | requests | answers from the live manager |
| Legacy collector and rate limiter, `collectors/exchange_collector.py` | `is_running`, the tasks, markets, the cached times; two windows of requests | `start`, `stop`, six workers, watchers, `acquire` | a history without holes, the rate kept, no jam, a stop that stops |
| Concurrency controller, `docs/legacy/.../smart_concurrency_controller.py` | queue, running tasks, resource counts, limit, breaker | `submit`, the worker loop, retries, `_adjust_concurrency`, `stop` | no slot is lost or given twice, futures settle, `stop()` returns; all but for coroutines that end in `CancelledError` |
| Compact records, log manager, configuration, scripts | - | - | not modelled (section 5) |

The hard behaviours: coroutines that suspend inside a read-modify-write of shared
objects; cancellation arriving at any await (also one that `asyncio.wait_for` of 3.11
swallows); retries whose counter is shared; replies that are lost after the INSERT
took effect; connections that drop, hang or are refused; handlers that replace the
object others still hold; two API requests doing the same thing at once; a search on
a table that rows are still on the way to. `PROJECT.json` lists each hazard at its line.

## 2. The modules

A step of every module is what runs between two awaits; an action carries the whole
synchronous piece of its handler, and the position of a suspended coroutine is a value
of a control variable (`wpc`, `jobs[i].st`, `monitor`, `handler`, `pc`, `conn`, `rec`).

**WritePipeline** - one `ClickHouseManager`. `Insert`/`Refuse` are `insert_ohlcv`
(`put_nowait` on a bounded queue, or the row dropped); `WriterGet`, `WriterResume`,
`WriterTimeout`, `WriterWaitEnd`, `WriterDrain` are `_batch_writer` between its
awaits; `Acquire`, `InsertOk`, `InsertFail`, `Retry`, `PublishOne`, `Unwind` are a
batch task; `CloseBegin`, `CloseEnd` are `close()`. A job keeps its recursion depth
and whether it is still in the live `pending_writes` set (the code rebinds that set).
`InsertFail` may have stored the rows all the same: the reply was lost. A cancellation
that meets a finished `get()` is swallowed, as `wait_for` of 3.11 does (`held`).

**Relay** - what the write path promises, without queue, tasks, retries or shutdown:
a row goes one way through new, refused or buffered, writing, settled; it enters the
table only while written and is announced at most once and only when stored.
`WritePipeline!phaseOf` is the refinement mapping, `ImplementsRelay` the property.

**AutoRecovery** - `AutoRecoveryManager`. `SkipCheck`, `BeginCheck`, `CheckHealthy`,
`CheckUnhealthy`, `MonitorRecovered` are the monitoring loop; `ForceRecovery`,
`ForceRecovered`, `ResetComponent`, `StopMonitoring` what requests may do at any of its
awaits; `CooldownEnds` is time. `next` is none, later or past; the exponential delays
themselves are abstracted, their order with everything else is left open.

**ServiceWiring** - `DataService`: which `ClickHouseManager` object the service, the
routes, the collectors and the recovery service hold while `_recover_db` (close, new
object, `initialize`) and `_recover_recovery_service` (stop, sleep, start) run for the
monitor or for requests, and `shutdown()` cancels wherever it finds them. Objects are
slots; `Free` is the garbage collector, so slots never run out for lack of references.

**Collector** - one exchange collector and its manager. A connection task goes through
loop, connecting, listening, closing; `StartRuns`, `StartGathers`, `StartEnds` are
`start()`; `BeginStop`, `CancelNext`, `CloseNext`, `StopReturns`, `AfterStop`,
`PauseEnds` are the callers of `stop_all` and `restart_collector` between awaits,
including the dictionary that changes size while `stop()` iterates over it (`Raises`).
Nothing makes the callers take turns; the history variable `overlaps` counts those that began
while another was at work, and the properties that overlapping callers break say so by it.
`OverflowAt` stands for retry 1024, where `base_delay * 2 ** retry` leaves a float.

**GapFill** - one series, and the round robin that brings its turn: `TakesTurns` are the
slices of the list of symbols from `_symbol_cycle_index` on, `SymbolsChange` moves the symbol
in that list meanwhile. Time is in minutes, the table keeps the row inserted
last for a candle. `CheckGaps`, `GapsFound`, `TakeGap`, `Fetched`, `RowChecked` are the recovery
between awaits, `FeedNext` the WebSocket feed, which delivers or loses a candle, `Flush` the writer;
`RecoverSymbolData` puts the rows of a range asked for by hand on the same queue, unchecked.
The search itself reads nothing. `find_data_gaps` (`clickhouse.py` 513) and `_check_existing_data`
(`recovery.py` 208) read with `client.execute`, and in the `aiochclient` that `requirements.txt`
pins `execute` returns None for a SELECT; `fetch` would return rows. So `GapsFound` reports
the whole window as one gap whatever the table holds, and `RowChecked` inserts every row. With
rows the comparison of their naive times with the bounds, which have a time zone, would
raise `TypeError`, and the answer would be no gap. One consequence: the window of the 1h series,
1440 minutes, is always larger than `max_gap_minutes`, 720, and is never repaired
(`HoursAreRepaired`, section 6).

**HealthReport** - `/api/v1/health` and what it reads. `SkipConnect`, `ConnectOk`,
`ConnectRefused`, `StreamRejected` are the ways `connect()` can end within `startup()`;
`PublishOk`, `PublishFails` are `publish_kline`, `BusChanges` the client that reconnects
by itself; `LoopStarts`, `LoopStops`, `CycleEnds`, `LoopEnds` the recovery loop as its flag
and its last cycle show it. A request is `Asks`, `DatabaseReplies` (the one await of
`get_status`) and `Answers`, which reads the rest and takes the `Verdict`. The branch for
a service that is not running is left out: uvicorn serves requests only between
`startup()` and `shutdown()`.

**CandlePath** - the numbers of a candle: `Normalize`, the operators of `DataValidator`,
`RowOf` and `Payload`, with `WebSocket` and `Rest` as the two ways in. Timestamps come in
milliseconds, which `_validate_timestamp` leaves alone. `Interval` is the map of
`get_historical_klines`: a timeframe that is not in it is fetched as `'5m'`, and the candles
are normalized and labelled as what was asked for (`Parsed`). Values are numbers: the literal
NaN, which `float()` accepts and every comparison of the validator lets through, is
outside the model.

**RateLimiter** - `acquire()`: `Grant` and `Refusal` are one round of its loop, which nothing
interrupts; a request is an identity that ages by `Tick`, and the two lists keep what has
expired until the next call. **ExchangeCollector** extends it: `StartBegins`, `Loaded`,
`StopBegins`, `StopEnds` are `start()` and `stop()` between awaits; a worker is a record of
where it is, which pair it is at and what it has received (`Collects`, `ShouldUpdate`, `Ask`,
`Reply`, `Save`, `UpdateCache`, `CollectFails` for OHLCV; `Quotes`, `QualityCheck`, `Subscribe`
for the others), a watcher likewise. Of a candle the table knows none, a part or all. A reply
is cut at `Limit`, as the exchange does. A `stop()` while `start()` still loads the markets
cancels nothing: that crew ends by `is_running` alone (`Collects`, `Ends`), and the history variable
`interrupted` records that it happened. The module is the earlier collector: nothing
imports it now.

**ConcurrencyController** - the controller kept in `docs/legacy` with its tests. `Submit`,
`PushLate` (the lock was taken), `Waits` (the worker has passed its tests of the flag and the
limit and waits for the lock, and does not test them again), `Takes`, `Blocks`/`Unblocks` (the
worker sleeps with the lock held), `Starts`, `StartsRetry`, `Completes`, `Fails`, `Vanishes`,
`Leaves`, `Adjusts`. A retry runs under an id that has no metrics, so `StartsRetry` is the
exception of line 320 with what has been counted before it. `Vanishes` is a coroutine that ends in
`asyncio.CancelledError`, which `task_wrapper` (lines 327-347) does not catch: the task stays in
`_running_tasks`, its slot and share stay taken and its future never settles (`lost`).

**CandleSeries** - the functions of `DataCleaner` as actions on the one list a caller has:
what each returns is the next series, and `Smooth` works in place, candle by candle, as the
code does because it copies the list and not its members.

**MC\*** modules only add symmetry sets and registration lists for TLC;
the eight modules **\*Proofs** hold the proofs: one for each component, except that the
theorems about `HealthReport` stand in `GapFillProofs`, which takes it as an instance, and
that `CandleProofs` extends both `CandlePath` and `CandleSeries`. Definitions under a
comment "Faulty variant" are plausible bugs of the operator they stand beside; each
makes the property it is paired with in `PROJECT.json` fail.

The modules are composed by interface, not in one state space: `ServiceWiring` has
managers that are connected or not (the inside is `WritePipeline`), handlers that end
either way (their schedule is `AutoRecovery`), collectors that run or not
(`Collector`); the write queue of `GapFill` is that of `WritePipeline` seen by one series.

## 3. The runs

| Run | Instance | What it shows |
|---|---|---|
| Pipeline | 3 rows, queue 2, batch 2, 3 faults, limit 3, one batch at a time | `FirstInFirstOut`: jobs, batch, hand and queue are exactly what was accepted, at every moment, `close()` included; `PublishedIsStored`, `PublishedOnce`, `PublishedInOrder` whatever fails or is retried; `CounterOwned`, `GivesUpLate`: before `close()` nobody spends the retry budget of another batch; `EveryRowSettles`, `CloseEnds` under fairness; `ImplementsRelay` |
| RecoveryMonitor | 2 components, 5 attempts, 3 errors, 1 request, 1 reset, stop | `RecoveringIsPursued` whatever the API does meanwhile; `HealthyIsFresh` until it does something; `MendedIsSeen`, `BrokenIsSeen` |
| Wiring | 5 slots, 3 attempts, 1 request | `RoutesSeeTheLiveManager` and `ReconnectsWithinBudget` although recoveries overlap; `OneManagerConnected`, `ShutdownIsComplete` until a request forces one; `ShutdownEnds` |
| Collector | 1 batch, 3 starts, a request and the monitor, in turn or overlapping at any await | `OneTaskPerClient`: one connection task, and no more than one besides for each overlap; `SocketsAreRegistered`, `StopIsComplete` until callers overlap; `RunningHasAStart`, `EveryClientConnects`, `RecoveryRestarts` whatever overlaps |
| GapRepair | 2-minute candles, a window of 4, gaps up to 4, queue 3, 2 faults, up to 4 other symbols, 2 a round, 1 change | `NobodyWaitsLong`: a symbol has its turn before the rounds had room for the whole list; `LossIsRepaired`: what the feed lost of the window is in the table in the end |
| HealthProbe | failure limit 1, age limit 1 | `SilenceIsReported`, `BreakageIsReported` with the bus, the loop, the database and the sockets changing at any moment of a request |
| CandleRows | timeframes 30, 240 and 43200, 3 values, 2 candles | `RowsAreSound`; `OneKeyPerCandle` for the timeframes that are collected, although candles fetched for others are stored beside them |
| ExchangeRestarts | 1 pair, 2 kinds of worker, 2 crews, 2 callers that start and stop, 3 candles, replies of 2, a minute of 3 ticks with 2 requests, a second of 1 with 1 | `HistoryIsWhole` by OHLCV requests alone until a stop() interrupts a start(); `WithinRate`, where the minute binds as well as the second |
| Exchange | 1 pair, 4 kinds of worker, 1 crew, a starter and a stopper, with and without streams | `NeverJams`, `StopsForGood` |
| Controller | 3 tasks, two of one type, one of them retried, one that may end in CancelledError, limits 3 to 4, threshold 2, 2 workers because start() may come while stop() waits | `SlotsAreReturned`: nothing but running and lost tasks holds a slot; `EveryTaskSettles` for tasks without retries while a worker lives, `StopReturns`, each up to what lost tasks hold |
| Series | all series of up to 3 half-hour candles over 4 times and 2 prices | `SeriesIsSound` after any sequence of functions, `FillIsWhole`, `AggregateIsFaithful` for the targets the code can floor to |
| V_RemainingDataIsWritten | 3 rows | counterexample, section 6 |

Why the bounds are enough: with a queue and a batch of two, three rows let a batch be built
while another is being written and retried, and the queue is full once; three faults exhaust
the limit of three for one batch or raise the counter under a second. Two components show that
the monitor comes round; the limits of the code are used as they are. Three attempts allow a
failed, a swallowed and a successful recovery. Two overlapping callers are what every race
found needs; the third start slot lets the batch be started again after two have overlapped.
The tasks of a batch touch no state of another one, except that `stop()` goes through them one
after the other: the proofs of section 4 are for any number of batches, starts and requests, and
two requests overlap in `V_RestartsDoNotDouble`. Four other
symbols and rounds of two make the index land at each place of the list, before and after a
removal. A limit of one has a value below, at and above it, and ages count Ticks, so one Tick
stands for the 300 s. Among the values of a candle one is rejected, one is a tie of the rounding
and one the largest price. Three candles with replies of two make one reply end before the
newest candle. A minute of three Ticks and a second of one let each of the two windows refuse
what the other would grant. With a limit of three two tasks compete for the one share of `cpu`,
with four both run. A series of three has a middle to smooth, a gap beside a neighbour and a duplicate. `MaxFaults`, `MaxResets`,
`MaxChanges`, `Requests`, `Asked`, `Horizon` and the slots only bound a behaviour; guards that
use them are named for it. Deadlock is not checked where the system really stops: a closed
manager, a stopped service, collector or controller, the quiet end of `HealthReport`, and the
candles of `CandlePath` and `CandleSeries`, which come to an end.

### Fairness

Weak fairness for every task that is ready: the event loop runs each of them. INSERTs,
REST calls and WebSocket connects end because the HTTP session of the code has a total
timeout of 30 s (`clickhouse.py` 84-90) and the libraries have theirs. `/health` is asked again and
again because the healthcheck of `docker-compose.yml` (line 89) does so every 30 s. Nothing obliges
a collector to insert, a caller to close, a connection to drop or a server to come
back. In `ServiceWiring` the recovery of the database is strongly fair: the monitor
returns to the component in every cycle, and the check in between may pass. In
`Collector` no frame need ever arrive. Handlers of the recovery manager are assumed to
return, which the code assumes too: they are awaited without a timeout. In `ExchangeCollector`
a watcher need not receive an update while the exchange is open, but closing the exchange ends
its wait. In `ConcurrencyController` the lock is first come first served (asyncio.Lock), hence
strong fairness for those who wait for it beside a worker that comes back for it again and
again; the tasks themselves end, also in `CancelledError`, and each is submitted once, so that
nothing is said of a task that more and more urgent ones overtake.

## 4. What is proved

TLAPS checks these for every value of the constants (any number of rows, capacity,
batch size, concurrency, retry limit; any components, limits and requests; any number of
workers, tasks, clients and managers).

`WritePipelineProofs`
 - `TypeCorrect`: `Spec => []TypeOK`. The queue stays within its capacity and a row is
   in hand exactly between `get()` and `wait_for`.
 - `PublishAfterInsert`: `Spec => []PublishedIsStored`. Not inductive by itself: the
   step that announces a row must know that it is stored. The invariant `IInv` adds
   `WellFormed` (a publishing job points at one of its own rows) and
   `PublisherSafe` (the rows of a publishing job are in the table). `InsertOk` is the
   only way into publishing and stores the rows in the same step; every other action
   keeps or shrinks the set of publishing jobs, and the table never shrinks.
 - `CounterAlwaysOwned`: `Spec => []CounterOwned`, inductive on top of `IInv`: the
   counter is raised only by the step that puts the job to sleep inside a retry,
   and a job leaves its last retry frame only by the step that zeroes it. It holds for
   every `MaxConcurrent`, also those no run uses.
 - `RowsInOrder`: `Spec => []FirstInFirstOut`, inductive on top of `IInv`; its step is about
   the concatenation of the rows of all batches. `FlattenSeq` is recursive and the induction
   theorems of the library take an operator as a parameter; the induction is done instead
   through the least element that a nonempty set of numbers has (`LeastNatural`, from `WFMin`)
   and the function `FlattenSeq` is the last value of (`Flat`). `FlattenAppend` is what the
   steps of the writer need.
 - `AnnouncedOnce`: `Spec => []PublishedOnce`, for any number of batches written at once.
   `FlattenPlaces` gives every row of a batch its place among the rows accepted, so that by
   `RowsInOrder` a row is in one batch and there once (`RowsDiffer`). `Told` is the
   strengthening: every announced row is one that its batch has passed; the next row of a
   batch has not been passed.
 - `GivenUpLate`: `Spec => GivesUpLate` and `AnnouncedInOrder`: `Spec => []PublishedInOrder`,
   for `MaxConcurrent = 1`, which is the semaphore the code creates (`clickhouse.py` 34-36); with
   two permits both are false. `SerialInv`: until `close()`, every batch before one that is
   not done has ended, every one after it waits, and the failure counter is the depth of the
   batch that runs. `close()` is where it ends: the writer's last flush takes no permit.
 - `PathImplementsRelay`: `Spec => ImplementsRelay`, one lemma per kind of step: an offer, the
   start of a batch (which takes its rows from the buffer), an attempt (a write of its rows,
   whatever comes of it), an announcement, an end; all else is a stutter. A row has one phase
   because it is in one batch (`RowsInOneBatch`).

`AutoRecoveryProofs`
 - `TypeCorrect`: `Spec => []TypeOK`; attempts never pass the limit, by whatever mixture
   of monitor, requests and resets.
 - `AlwaysPursued`: `Spec => []RecoveringIsPursued`, by `IInv` = `TypeOK` and
   `RecoveringIsPursued`, one step per action.
 - `HealthyStartsAfresh`: `Spec => []HealthyIsFresh`. The end of the monitor's handler makes a
   component healthy or counts an error; it is harmless because the component it is about is
   still marked recovering then (`HandlerIsMarked`), and only a request could change that.

`CandleProofs`
 - `NormalizeIsFloor`: for every time and every timeframe up to a day, the branches of
   `_normalize_timestamp` (minutes, the hour, several hours, the day) all compute
   `t - t % m`; one case per timeframe, because the divisor must be a literal.
 - `AlwaysSound`: `Spec => []RowsAreSound`; `AlwaysOneKey`: `Spec => []OneKeyPerCandle`. Both
   from `IInv`: rows are good from the queue on, since `Write` moves them unseen. That an
   admitted candle becomes a good row is `RowIsGood`; it needs that rounding keeps a price
   within the limits (`RoundedInRange`) and that aligned times are kept (`AlignedIsKept`).
 - `SeriesStaysSound`: `SeriesSpec => []SeriesIsSound`, for series of any length, timeframe and
   threshold. The invariant `SeriesInv` is that the series is a sequence of sound candles
   (`Bar`) that open at times of the timeframe. A candle is smoothed
   between a neighbour that has been smoothed and one that has not, so `SmoothType` goes by
   induction along the series; `FillMissingType` goes by induction over `FlattenSeq`;
   a group is never empty because the next one begins after it (`GroupsType`), and then the
   open and the close of an aggregate lie between the extremes of its candles (`GroupIsSound`).
 - `FilledIsWhole`: `SeriesSpec => FillIsWhole`. Sorting is a permutation into order
   (`SortedType`), and `FlattenSeq` puts the stretch of candle i behind those before it
   (`FlattenPlaces`). Counting times in frames, the stretch of a candle at q[i] holds the
   frames from q[i] up to, and without, q[i + 1], and q[i] itself when the next candle
   has the same time (`StretchShape`, `FillShape`). So every frame between the first and the
   last candle is in exactly one stretch, or at the time of received candles and then as often
   as received (`FilledCount`). That candles open at times of the timeframe is needed: without
   it a stretch could end off the frame of the next one.
 - `AggregatesAreFaithful`: `SeriesSpec => []AggregateIsFaithful`. In a series in order the
   periods ascend, so a group, which begins where the period changes, is a run of all the
   candles of one period (`GroupIsRun`) and no period has two (`OneBeginPerPeriod`). First
   open, last close and the extremes are then those of the period (`GroupIsCandle`). Its volume
   is summed by the code along the list and by the property over a set, with candles chosen
   in any order: the two agree because any member of a sum may be taken last
   (`SumTakesAny`, `SameVolume`).

`GapFillProofs`
 - `TurnsComeRound`: `Spec => []NobodyWaitsLong`, for lists, rounds and indices of any size. `OnTheWay`
   is the strengthening: the rounds that went by without the symbol fit between the index and its
   place, around the list. A round that does not reach it brings the index nearer by as many
   symbols as were checked (`NearerByARound`); a change of the list starts the count anew,
   and from any index at most one round of the list lies ahead (`NearAtFirst`).
 - `TypeCorrect`: `Spec => []TypeOK`; a gap is in hand exactly while one is dealt with.
   `AscendingIsSorted`: the candles that REST returns come in order, each once.
 - `VerdictIsWorst`, of `HealthReport`: the verdict of the ladder is that of the worst part,
   although the parts are absorbed one after the other. `HealthTypeCorrect`: its types.

`ServiceWiringProofs`
 - `OneConnected`: `Spec => []OneManagerConnected`; `NothingIsLeft`: `Spec => []ShutdownIsComplete`.
   Both follow from the shape of what is alive: a manager that is connected or closing is the
   one of the service, or the target of the monitor's handler. A forced recovery breaks this for
   good, so that part of `IInv` holds only while there has been none.
 - `RoutesAreTold`: `Spec => []RoutesSeeTheLiveManager`, without that condition: only the
   last step of a recovery connects a manager, and it tells the routes in the same step.

`CollectorProofs`
 - `FlagHasAnOwner`: `Spec => []RunningHasAStart`. Only a `start()` under way sets the flag, and
   it leaves by its finally clause alone; overlapping callers and orphaned tasks change nothing.
 - `TypeCorrect`: `Spec => []TypeOK`, also for callers that overlap. `RetriesLeft` is the
   strengthening: a task that may still fail is below the retry that overflows.
 - `CollectedOnce`: `Spec => [](overlaps = 0 => OneTaskPerClient)`, one task per client until two
   callers overlap; `NoSocketIsLost`: `Spec => []SocketsAreRegistered`; `StoppedIsStopped`:
   `Spec => []StopIsComplete`. They hold for any number of clients, starts and requests and
   without an assumption about the callers; what they say ends with the first overlap, because
   the code has no lock that prevents one and with it they are false (`V_RestartsDoNotDouble`).
   `SerInv` is invariant up to there: a live task is the one its client
   is registered with and nobody else has a socket of that client, an open socket is in
   `websocket_clients`, a task that awaits the close of its cleanup has none left, a `start()`
   that has not begun finds nothing running, and one caller at most is at work, with as much
   cancelled and closed as its place in `stop()` says. That every overlap costs at most
   one more task is model-checked only.

`ExchangeCollectorProofs`
 - `RateIsKept`: `Spec => []WithinRate`. `RecentIsListed` is the strengthening: although the
   lists are purged late, whatever is younger than a window is in its list when a permit is
   given, for any number of workers, any rates and any windows.
 - `HistoryStaysWhole`: `Spec => []HistoryIsWhole`, for any limit of a reply, any number of callers
   and crews, whatever fails, restarts or is cancelled. The property itself ends with a `stop()`
   that meets a `start()` still loading the markets (`interrupted`). Until then the code does
   keep to one crew, though no lock says so: `OneCrew`, in the invariant `CrewInv`, is that only the
   crew of `tasks`, which `stop()` cancels, collects, that it does so while `is_running`, and that
   while somebody loads the markets nobody does. `HistInv`: the request under way starts at
   the last candle stored or at the beginning of the history, and its reply continues it
   (`SavedIsWhole`); without streams nobody else writes. The one hypothesis, `CollectsHistory`,
   is that the worker in question exists, which it does in every crew of the code.

`ConcurrencyControllerProofs`
 - `NoSlotLeaks`: `Spec => []SlotsAreReturned`: the slots and shares taken are those of the tasks that
   run and of those that ended in `CancelledError`. `IInv` adds that a task has one entry until it is
   started (`EntriesAreSingle`), since starting it twice would count two slots for one.
 - `BreakerOpensLate`: the breaker opens only after `failure_threshold` failures in a row (a
   history variable counts them). `TypeCorrect`: `Spec => []TypeOK`.

Assumptions are the named `ASSUME`s of the modules, which TLC evaluates in the runs. The
theorems about `HealthReport`, an instance, carry those of their module as a hypothesis
(`HealthLimits`); `MaxConcurrent = 1` and `CollectsHistory` are hypotheses of their theorems alone,
true of the code and of the runs `Pipeline` and `ExchangeRestarts`. Where the code lets callers
interfere, the property carries the condition: on a history variable that no guard reads
(`overlaps`, `interrupted`), or on what requests have done so far (`Unforced` in `ServiceWiring`).

Only model-checked: everything that is about liveness under fairness (it needs ENABLED and
induction over a well-founded measure), the two properties of `HealthReport` among them.
Every invariant and every action property that a passing run checks is a theorem, except
`OneTaskPerClient` after an overlap.

## 5. What is not modelled, and why

 - Read queries of `clickhouse.py` and the read endpoints: no state. (`get_ohlcv_data` puts
   the times of a bounded query into the SQL text without quotes, so such a query fails and
   the endpoint answers with an empty list.) Schema creation, TTL, OPTIMIZE and statistics
   likewise. Those that read with `client.execute` get None from the pinned driver and answer as if
   the table were empty: `get_latest_timestamp`, `get_ohlcv_data`, `get_symbols_stats`; the endpoint
   for gaps (`api/routes.py` 249) and `analyze_missing_data` report the whole range as one gap.
   `health_check` needs no result, and `api/freqtrade.py` uses `fetch`.
 - `compact_ohlcv.py`: imported by nothing and synchronous throughout. Its binary form cannot
   be used as it stands: the format of `pack_binary` (line 137) has six `d` and five prices are
   passed, so that every record raises `struct.error` and becomes `b''`.
 - The technical indicators of the cleaner: arithmetic over one window.
 - The log manager: files only. loguru rotates at 50 MB, before the 50 MiB of `LogManager`.
 - `detect_anomalies` of the validator (no caller), symbol discovery, funding rate and open
   interest of `binance.py` (plain REST reads); configuration and declarations.
 - The rest of `docs/legacy` (collectors whose imports are gone), `docs/reference` (a validator kept for reading), `scripts`,
   `pine-strategies`, `templates`: not part of the service.
 - The text of messages and logs, SQL text, statistics nobody decides by.

## 6. Where the code differs from its comments and documents

One disagreement is a run with a counterexample:

 - `V_RemainingDataIsWritten` (`storage/clickhouse.py:285`): rows on the queue when
   `close()` cancels the writer are never written, although the comment says "Write
   remaining data before cancelling"; only the local batch is.

The other files `V_*.cfg` are kept for the same purpose: each checks a property that a
comment or document states and the code does not have, and TLC ends with a trace. They
are not among the runs. A file named after a module lists several properties, to be
uncommented one at a time; the others are named after their property.

| Property | Configuration (module) | Quoted from | What the trace shows |
|---|---|---|---|
| `StoppedWriterIsClean` | `V_WritePipeline` (WritePipeline) | `storage/clickhouse.py:252` | A cancellation that meets a finished get() is swallowed by wait_for, and the writer stops with rows in its batch or with writes still pending. |
| `WritesDoNotOverlap` | the same | `storage/clickhouse.py:288` | The write of the cancelled writer runs beside a batch that holds the semaphore. |
| `StartsWithinLimit` | the same | `storage/clickhouse.py:283` | The writer goes on starting batch tasks while the first one is still pending. |
| `ResetOnlyOnSuccess` | the same | `storage/clickhouse.py:397` | The failure counter is zeroed after a retry that failed. |
| `FailedBatchIsRetried` | the same | `storage/clickhouse.py:390` | A batch is given up at its first failure because the counter is shared. |
| `OneRecoveryAtATime` | `V_OneRecoveryAtATime` (MCAutoRecovery) | `utils/recovery_manager.py:126` | A force_recovery and the monitor run the handler of one component at the same time. |
| `ResetIsClean` | `V_ResetIsClean` (MCAutoRecovery) | `utils/recovery_manager.py:306` | A reset that meets a running handler leaves a healthy component in cooldown. |
| `OverallIsHonest` | `V_OverallIsHonest` (MCAutoRecovery) | `utils/recovery_manager.py:280` | The overall health is 'healthy' while a failed recovery waits for its next attempt. |
| `CollectorsAreReconnected` | `V_ServiceWiring` (ServiceWiring) | `main.py:170` | After `_recover_db` the collectors and the gap recovery hold the closed manager, whose queue takes rows nobody writes. |
| `PublisherIsAttached` | the same | `main.py:163` | After a recovery of the database the new manager has no publisher. |
| `RecoveryServiceIsDormant` | the same | `main.py:214` | The auto-recovery starts the recovery service that startup leaves disabled. |
| `OneGapLoop` | `V_ServiceWiringRequests` (ServiceWiring) | `main.py:212` | Two restarts leave two loops of the recovery service running. |
| `CleanupIsComplete` | the same | `main.py:237` | After overlapping force_recovery requests a connected manager outlives shutdown(). |
| `StoppedMonitorRecoversNothing` | `V_StoppedMonitorRecoversNothing` (ServiceWiring) | `main.py:153` | A monitor cancelled inside the health check starts a recovery during shutdown. |
| `RetriesForEver` | `V_RetriesForEver` (Collector) | `collectors/base.py:280` | A connection task dies of the overflow of its backoff. |
| `ConnectedIsOpen` | `V_Collector` (Collector) | `collectors/base.py:268` | A client stays in websocket_clients after its socket was dropped. |
| `AllOpenIsOk` | the same | `collectors/binance.py:240` | The probe is degraded for ever although every socket is open. |
| `SilentIsReconnected` | the same | `collectors/base.py:391` | A socket on which no frame arrives is never replaced. |
| `RestartsDoNotDouble` | `V_RestartsDoNotDouble` (Collector) | `collectors/manager.py:103` | Two overlapping restarts leave two connection tasks for one batch of symbols. |
| `RecoveredIsRunning` | `V_RecoveredIsRunning` (Collector) | `collectors/manager.py:116` | The manager counts as running while no start() task exists. |
| `RowsAreClosed` | `V_RowsAreClosed` (GapFill) | `collectors/binance.py:316` | Recovery fetches the candle that is still open and announces it as closed. |
| `DuplicatesAreHarmless` | `V_DuplicatesAreHarmless` (GapFill) | `services/recovery.py:185` | A partial candle fetched by REST replaces the final one from the feed; rows have no version. |
| `HoursAreRepaired` | `V_HoursAreRepaired` (GapFill) | `services/recovery.py:124` | The window of the 1h series is reported as one gap, larger than `max_gap_minutes`, and is left alone for ever. |
| `NothingInTwice` | `V_NothingInTwice` (GapFill) | `services/recovery.py:188` | A row whose final candle is in the table is inserted again: the check for it never finds one. |
| `NoneIsReplaced` | `V_CandlePath` (CandlePath) | `collectors/binance.py:302` | Half an hour is fetched as six 5-minute candles that get one key and replace each other. |
| `OutageIsForgotten` | `V_HealthReport` (HealthReport) | `openspec/specs/nats-event-bus/spec.md:89` | After an outage that cost more than 100 publishes the sub-probe is degraded for ever. |
| `NoDatabaseNoSuccess` | the same | `README.md:95`, `openspec/specs/baseline-infrastructure/spec.md:60` | `/health` answers 200 while ClickHouse does not answer. |
| `BusIsClosed` | the same | `main.py:223` | When `add_stream()` fails, the connection to the bus outlives `shutdown()`. |
| `StartsAreAlone` | `V_StartsAreAlone` (ExchangeCollector) | `collectors/exchange_collector.py:86` | A stop() and a start() while the first start() loads the markets leave two crews, and a late partial candle replaces the whole one. |
| `OneWatcherPerPair` | `V_OneWatcherPerPair` (ExchangeCollector) | `collectors/exchange_collector.py:273` | The watchers are made anew every hour and the old ones go on. |
| `MissingIsCounted` | `V_MissingIsCounted` (ExchangeCollector) | `collectors/exchange_collector.py:320` | The number saved as missing is not the number of holes. |
| `EndedTasksFreeTheirSlots` | `V_ConcurrencyController` (ConcurrencyController) | `docs/legacy/tests/unit/test_smart_concurrency_controller.py:72` | A coroutine ends in CancelledError and keeps its slot. |
| `StopAlwaysReturns` | the same | `smart_concurrency_controller.py:192` | stop() waits for the future of such a task, or of one that is retried, for ever. |
| `RunningHasAWorker` | the same | `smart_concurrency_controller.py:277` | A start() while stop() waits is undone when stop() goes on: the flag says running and no worker is left. |
| `LimitCanGrow` | the same | `smart_concurrency_controller.py:488` | 120 % of a limit below five, rounded down, is the limit itself. |
| `EveryEntryIsStarted` | the same | `test_smart_concurrency_controller.py:333` | A retry is taken from the queue and raises before it is started. |
| `GapsAreSeen` | `V_CandleSeries` (CandleSeries) | `data/cleaner.py:239` | A single missing one-minute candle lies within the tolerance of a minute. |
| `OneCandlePerPeriod` | the same | `data/cleaner.py:272` | A timeframe other than 1h, 4h and 1d is not floored, and every candle becomes a period of its own. |
| `NoSpikeIsLeft` | `V_NoSpikeIsLeft` (CandleSeries) | `data/cleaner.py:130` | Each candle is compared with a neighbour already smoothed, and a spike remains. |

## 7. What is left

 1. The liveness properties by proof, should the prover come to support ENABLED.
 2. A composition of `ServiceWiring` with two `WritePipeline` instances, to follow a row
    from a collector through a replaced manager.
 3. The pool of `compact_ohlcv.py` and the indicators of the cleaner, should a part of the
    service come to use them.
