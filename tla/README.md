# A TLA+ model of TradingPilot Core

These modules model the path of a TradingView alert through TradingPilot Core:
from the webhook through the stream to a worker, through the steps of the
pipeline to the positions table, and out again to the dashboard.  They check and
prove what that path guarantees when workers die, messages are delivered twice,
transactions overlap, the exchange fails and old rows are purged.  Two more
models follow the ML model of a market: which bars it is trained and asked on,
and how its file gets from the trainer to the process that uses it.  Paths below
are relative to the repository.

| file | what it is |
|---|---|
| `EventPipeline.tla` | webhook, outbox, Redis stream, consumer group, workers, inbox, purge |
| `EffectivelyOnce.tla` | what `EventPipeline` promises, in three actions |
| `EventPipelineProofs.tla` | inductive invariant and theorems of `EventPipeline` |
| `ModuleOrder.tla` | enabled modules: validation, topological sort, startup, shutdown |
| `ModuleOrderProofs.tla` | inductive invariant and theorems of `ModuleOrder` |
| `Pipeline.tla` | the steps of a pipeline transaction, composed with `ModuleOrder`; market bars, backfill |
| `PipelineProofs.tla` | inductive invariant and theorems of `Pipeline` |
| `Trading.tla` | risk gate, execution, positions loop, runtime settings on one table |
| `TradingProofs.tla` | inductive invariant and theorems of `Trading` |
| `PositionBook.tla` | what `Trading` promises about positions, in three actions |
| `UiBroadcast.tla` | the shared reader of `ui_updates`, client queues, websocket handlers |
| `UiBroadcastProofs.tla` | inductive invariants and theorems of `UiBroadcast` |
| `LossyFeed.tla` | what a client of the dashboard may rely on, in two actions |
| `Features.tla`, `Training.tla` | features by the bars they read; labels, folds, backtest, decision |
| `TrainingProofs.tla` | inductive invariant and theorems of `Training` |
| `ModelLifecycle.tla` | training runs, the model file, the model registry |
| `ModelLifecycleProofs.tla` | inductive invariant and theorems of `ModelLifecycle` |
| `FiniteInduction.tla` | lemmas for the proofs: inductions over numbers and finite sets, sums, maxima, recursive functions |
| `MC*.tla` | definitions the configurations give to constants; symmetry sets |
| `MC*.cfg` | one configuration per run |
| `PROJECT.json` | components, runs, mutants, source map, findings, hazards, theorems |

Check a run with `tlc -config MCLiveness.cfg MCEventPipeline`, the proofs with
`tlapm EventPipelineProofs.tla`.

## 1. Inventory

One API process (`app/application.py`) and any number of worker processes
(`workers/pipeline_worker.py`) share a PostgreSQL database and a Redis server.
Inside a process everything is one asyncio event loop, so a step is what happens
between two awaits; the interesting interleavings are between tasks of one
worker, between workers, and between a worker and the database.

| component | state | operations | what must hold |
|---|---|---|---|
| webhook (`app/modules/tradingview`) | rows of `tradingview_events`, `event_outbox` | `receive_webhook` | an accepted event is stored with its outbox row or not at all; a key in use is a duplicate |
| outbox, inbox, purge (`app/core/events/reliable.py`) | `event_outbox`, `pipeline_inbox` | `flush_outbox`, `record_inbox`, `purge_history` | published at least once; executed at most once although the markers are purged |
| bus (`app/core/events/bus.py`) | stream, group, pending list | `publish_many`, `_ensure_group`, `consume_batch`, `claim_pending`, `ack` | what is not acknowledged comes back |
| worker (`workers/pipeline_worker.py`, `workers/loop.py`) | where its loops and tasks stand | `consume_forever`, `reclaim_pending`, `process_pipeline_message`, `_handle_message`, `pump_outbox`, `purge_expired_history` | acknowledge only after the order; a failure is retried; every executable event is executed |
| risk engine (`app/modules/risk_engine`) | none; reads settings and positions | `evaluate` | the limits hold, up to what its unlocked reads allow |
| execution (`app/modules/execution`) | `orders`, `positions` | `execute`, `_upsert_position` | every fill is in exactly one position; none in a closed one |
| positions loop (`app/modules/positions`) | `positions` | `reconcile` | closes what the price has hit, once and for all |
| runtime settings (`app/modules/settings`) | one key of the store | get, update | the kill switch stops trading |
| market data (`app/modules/market_data`) | bar cache, latest price per symbol | `build_snapshot`, `_get_bars` | bars made up when the exchange fails decide no live order |
| dashboard (`app/modules/dashboard`) | one reader, a bounded queue per client | `subscribe`, `unsubscribe`, `_read_forever`, `close` | a client gets an ordered part of the stream without repeats, and loses only the head of a full queue; slow clients do not hold up others |
| model registry (`app/modules/ml_strategy`) | loaded models and their file times | `get`, `load_all`, `reset` | a model is used soon after its file is replaced, never a half-written one |
| training runs (`workers/ml_train.py`, `runs.py`) | `ml_training_runs`, the model file | `run`, `update_training_run`, `training_run_status` | the final status is final; a dead run is shown stale |
| market bars (`ml_strategy/store.py`) | `market_bars` | `upsert_bars`, `load_bars`, `backfill_bars` | a model reads bars up to its event's snapshot; a backfill leaves no hole |
| ML numerics (`features.py`, `labels.py`, `training.py`, `backtest.py`) | none | features, triple barrier, purged splits, thresholds, `simulate` | causal features; no label of a training row meets one of its test fold; one trade at a time |
| signal engine, `combine_decisions` | none | indicators, modes | the signal the gate approves is the one executed |
| module registry (`app/core/registry.py`) | modules in dependency order | `discover`, `startup`, `shutdown` | a module is up only while what it depends on is; a cycle is refused |
| auth, sessions, store (`app/security.py`, `app/modules/auth`) | sessions, attempt counters with expiry | `login`, `logout`, middleware | attempts are counted within a window |
| markets (`app/modules/markets`) | a cache per asset class | `get_top_lists` | a payload is no older than its time to live |

How they interact: `receive_webhook` writes two tables in one commit; a worker's
pump copies outbox rows to the stream; the group hands entries to the workers;
a task runs every pipeline step of every enabled module
(`market_snapshot` 10, `bars_persist` 15, `signal_evaluate` 20, `ml_signal` 25,
`risk_gate` 30, `execute_order` 40) in one database transaction that starts with
the inbox marker; after the commit it publishes to `ui_updates` and acknowledges.
The positions loop of every worker and the settings endpoint of the API touch
the same positions and the same settings at any time.

The behaviours that are hard to test are listed as `hazards` in `PROJECT.json`,
each at its line, with the properties that watch it or the reason why none does yet.

## 2. EventPipeline

**State.**  The tables as committed (`tvEvents`, `unpublished` and `published`
rows of the outbox, `inbox`), the number of `orders` per event, the Redis
`stream` with its group (`groupExists`, `lastDelivered`, `pel`, `idle`), the
number of `uiUpdates` per event, and per worker where `consume_forever` stands
(`pc`), which outbox rows its pump has locked and already sent, and for every
task (worker, loop, entry) its `phase` in `_handle_message`.  Uncommitted work
is a phase, never a row: a crash returns the task to `"none"` and that is the
rollback.

**Actions.**  `ReceiveWebhook`; `PumpSelect`, `PumpPublish` (one XADD: the
pipeline is not a Redis transaction), `PumpCommit`; `EnsureGroup`,
`ConsumeBatch`, `IdleTimeout`, `ReclaimPending`; `AcquireSemaphore`,
`RecordInbox`, `LoadEvent`, `CommitPipeline`, `RejectEvent`, `PublishUi`,
`AckMessage`; `PurgeHistory`, `Tick`; and the faults `Crash`, `Restart`,
`TaskFails` and `CommitAnswerLost`.  `record_inbox` follows the unique index of
`pipeline_inbox`: a committed row with the key is a duplicate, a row of an open
transaction makes the insert wait.

**Abstractions.**

- The pipeline steps between the inbox marker and the commit are one choice:
  commit, or raise.  `Rejected` events raise at every attempt (a rejected risk
  decision or a HOLD raises in `execute`); any other event may raise as a
  budgeted fault.  What the steps do is
  `Pipeline`, and what they do to the positions `Trading`.
- A dedupe key identifies alerts; `KeyOf` lets two rows carry the same key,
  which happens when the first row has been purged and the alert comes again.
- `received_at`, `published_at` and `processed_at` are ticks of one clock: the
  processes are assumed synchronised, and an inbox row is stamped when it is
  inserted, not when it is committed, as in the code.
- A loop starts a batch only when the tasks of its last one have ended
  (`asyncio.gather`).  When one task of `gather` raises, its siblings run on in
  the code until the process ends; the model's `Crash` ends them at any point.
- XAUTOCLAIM's scan limit and the trimming or loss of Redis data are not modelled.
- The purge also deletes `signals`, which no step reads.

**Bounds.**  `MaxEntries` (length of the stream), `MaxFaults`, `MaxTime`.
Nothing else is bounded; the proofs do not use the size of any of them.

### The promise

`EffectivelyOnce` has three variables and three actions: accept an event, execute
it once, notify once after that.  `EventPipeline` implements it with the identity
mapping on `accepted`, `orders` and `uiUpdates`: `ImplementsPromise`.

### Runs

| run | instance | shows |
|---|---|---|
| `retention` | 1 worker, 2 events with one key, stream of 3, clock to 2, window 1, no group at the start; 147 k states | `AtMostOnce`, `ImplementsPromise` |
| `liveness` | 2 workers, 1 event, 1 fault, fairness; 184 k states | `TypeOK`, `NoSilentLoss`, `AckAfterOrder`, `EventuallyExecuted`, `PendingDrains` |
| `starvation` | 1 worker, 2 events of which one is rejected, batch of 1 | `PendingDrains` fails |
| `groupstart` | 1 worker, 1 event, no group | `NoSilentLoss` fails |

Why these bounds are enough to be interesting: two workers make two claims of
one entry, two pumps and a surviving worker possible; one fault allows a crash
at every step, between publishing and commit among them, so an event is in the
stream twice; in `retention` two events of one key and three entries make
redelivery, duplicate and purge meet, and a clock that passes the window by two
ticks purges the marker while the entry is pending.  Two workers with two events
are not a run of their own: the theorems below cover any number of either for
every property but the liveness ones.

In `liveness` there is one event and one fault, so the stream never reaches
`MaxEntries` and the pump is never held up by the bound.

**Fairness** (`FairSpec`).  Weak fairness of a live worker's main loop, of
`EnsureGroup`, of `ReclaimPending`, of time making an entry claimable and of the
steps of each task.  The code justifies it: the loops never end, `run_loop`
catches everything but a cancellation, the event loop runs every task that is
ready, and a claim is made every `pending_claim_idle_seconds`.  Not fair are
`Restart` (docker-compose.yml gives the worker no restart policy: a dead worker
may stay dead), the purge and all faults.  `EventuallyExecuted` therefore says
that one surviving worker is enough.

### What the failing runs say

- `starvation`: the claim scans from the start of the pending list, takes one
  batch, and runs exactly as often as entries become claimable.  A batch of
  events that are rejected at every attempt, which the risk gate makes of every
  event it refuses, keeps an executable entry behind it pending for ever.  It
  needs no crash of a second worker; an entry of a dead task is enough.
- `groupstart`: on the very first start, what is published before any loop's
  first read of the group is never delivered.  `consume_forever`, `reclaim_pending`
  and `report_metrics` all make sure of the group, each at its own first turn, so the
  window is short, but nothing orders it before the first `pump_outbox`.

Two more disagreements were met while modelling and have no run of their own.
`purge_history` says it deletes "processed/archived rows", but deletes
`tradingview_events` by age alone, so an event that still waits in the outbox or
the pending list goes as well.  And a rejected decision is an exception: it rolls
back the signal row with everything else and nothing is published, where
`tests/test_worker.py:126-183` expects both from a pipeline without the execution
module.

### Proofs

`EventPipelineProofs` proves for all values of the constants that satisfy the
assumptions in `EventPipeline`:

- `InvHolds`: `Spec => []Inv`, with one lemma per group of actions.
- `TypeCorrect`, `AtMostOnceHolds`, `ImplementsPromiseHolds`.
- `NoSilentLossHolds` and `AckAfterOrderHolds`, both under `GroupReady = TRUE`;
  the run `groupstart` shows that they need it.

The argument for `AtMostOnce`.  A second order needs a transaction that has
inserted a marker for the key and loaded the event's row.  While the row exists,
a marker that is no older exists (`MarkerOutlivesRow`): the marker was stamped
after the row (`Stamps`), and the purge deletes by one cutoff in one transaction,
so the marker never goes first.  With that marker in place no transaction
can insert another (`TxExclusive`).  A transaction that has already loaded the
row when both are purged is covered by `LoadedIsFresh`: it found the event
without an order, and no other transaction with the key can be open.
`ShortWindow`, the mutant that purges markers earlier than events, breaks exactly this.

For `NoSilentLoss`, `NoLossInv` adds that a marker and a handled task mean the
key has an order, and that what a pump has sent but not committed is in the
stream.  Its per-key reading is deliberate: an alert that comes again after its
event was purged, while its marker survives, is dropped as a duplicate.

Liveness is only model-checked.

## 3. Trading

**State.**  The committed rows of `positions` in commit order, the stored
`settings`, the day, and per pipeline transaction ("handler") its `stage`,
`signal`, the settings its gate has `seen`, the rows its locking read `found`
and the row it has `loaded`; per positions loop the `snapshot` it has read.
`orders` counts the orders of a symbol and bounds them; `filled`, `released` and
`sinceKill` are history.

**Actions.**  The three reads of `RiskService.evaluate`, `ReadSettings`,
`CountOpen`, `Approve`; `SelectOpen` and `LockRows`, the two halves of
`SELECT ... FOR UPDATE` under READ COMMITTED (find the rows, wait, look again);
`CommitFill`; `Rollback`; `ReadPositions` and `CommitClosings` of the positions
loop; `UpdateSettings`; `Midnight`.

**Abstractions.**

- `cost` stands for `entry_price * quantity`; the rounding of
  `Numeric(18,8)` in the average price is left out.
- Prices, quantities, costs and levels are integers of any sign, and a level may be
  absent (`None`).  The webhook declares `price` and `quantity` without a range
  (`app/modules/tradingview/__init__.py:28-29`), `build_snapshot_step` passes the
  quantity on as it comes, and no later step looks at a sign; a level is the price
  less or plus a band, so it may be zero or negative too.  Infinite values and NaN
  are left out: comparisons with NaN raise and `NUMERIC(18,8)` takes no infinity, so
  such an order ends as a `Rollback`.
- A combined quantity of zero makes the division of the average price raise
  (`Divisible`); the order is gone with the transaction.
- A HOLD or rejected decision raises in `execute`: both are `Rollback`.
- The paper broker fills at once, at the asked price; the `orders` row is the
  variable `filled`, its commit is the transaction's.
- The positions loop may find any price in the store for any subset of the symbols.
- With `ml_persist_bars` and real bars, `bars_persist` makes two transactions of
  one symbol and one timeframe wait for each other before the gate.  Two
  timeframes of a symbol, synthetic bars or the setting turned off do not, and
  that is what the handlers of the model are.

**Bounds.**  `MaxOrders` stops a symbol's orders, `MaxDay` the calendar.
`PositionsCap` is the largest `max_positions` an administrator stores, at least
1 because the gate compares the count only when there are open positions.

### Runs

| run | instance | shows |
|---|---|---|
| `fills` | 2 handlers, 2 loops, 1 symbol, both sides, quantities 1 and -1, a level of 0, 3 orders, 2 days; 0.4 M states | `FillsConserved`, `ClosedKeepsItsFills`, `ImplementsBook` |
| `limits` | 2 handlers, 1 loop, 2 symbols, costs of 4, -8 and 16, settings that change, 2 orders a symbol; 1.1 M states | `TypeOK`, `OpenBound`, `ExposureBound`, `KillSwitchDrains` |
| `oneposition` | 2 handlers, 1 symbol | `OnePositionPerSymbol` fails |

The gate reads without a lock, so `max_positions` and `exposure_cap` are not
invariants.  `OpenBound` and `ExposureBound` say what is: every other
transaction in flight can exceed the limit by one position, or by the cost of
the largest order.  Both bounds are reached in the instance; with anything
subtracted from them TLC finds a violation.

`ExposureBound` has a third term because costs have signs.  A position of negative
cost makes room under the cap for an order that is still open when that position
is closed, so the exposure rises without any order.  `released` is how much
closings have given back in this way; the gate clears it when it lets an order
through that adds to the exposure, because that order was compared with a sum in
which everything given back so far is counted.  When no cost is negative it is 0 and
the bound is the cap and the orders in flight.

So `exposure_cap` is not a limit of the open positions even for one transaction at a
time and a cap that never moves: BUY -1 at 8 opens at -8, BUY 2 at 8 passes a cap of 8
as -8 + 16 (`app/modules/risk_engine/__init__.py:58-60`), and when the positions
loop closes the first, 16 are open.  With one handler and `released` left out of the
bound TLC finds exactly this.  `test_risk_engine_rejects_exposure_cap`
(`tests/test_risk_engine.py:158-176`) asks only that an order above the cap is
refused when it comes, which the code does.

`oneposition` shows that the row
lock protects an existing position only: two first orders of a symbol make two.

`ImplementsBook` is a refinement of `PositionBook`, where orders and closings are
carried out one at a time: an order with both levels opens a position or adds
what it buys to an open one of its symbol and side, a closing ends positions and
changes nothing else.  An entry of the book is a row without its result and its
day.  Steps of the gate, of the locking read and of the read of the positions
loop leave the book as it is.  What the book leaves out is what the code does not
promise: one position per symbol (`oneposition`), the limits, that a closing
looks at the latest levels or quantity when it computes the result.

Three orders are enough for a position that is opened, increased by a
transaction that waited, and closed in between by either loop.

### Proofs

`TradingProofs` proves `TypeCorrect`, `OpenBoundHolds`, `ExposureBoundHolds`,
`KillSwitchDrainsHolds`, `FillsConservedHolds`, `ClosedKeepsItsFillsHolds` and
`ImplementsBookHolds` from the inductive invariant `Inv`, for any number of symbols,
signals, settings, handlers (finitely many, at least one) and reconcilers:

- `CountInv`: open positions *and transactions that have passed the count*
  together stay within the bound.  A transaction passes while fewer positions
  than the cap are open and itself is not yet counted among the passed.
- `KillInv`: orders since the kill switch *and transactions in flight* together
  stay within the number of handlers: one commits and leaves, none joins.
- `LocksInv`: the rows a transaction has locked are open, and the row it
  increases is one of them; the positions loop waits for those locks.

- `ExposureInv`: the exposure *and an order of the largest size for each
  transaction that has passed the gate and will add to it* (`Adding`) together stay
  within the bound (`ExposureLimit`), except that the one that counted last has its
  own order in the count already.  An order of negative cost only lowers the
  exposure, whether it is committed or not.  A closing raises the exposure by no
  more than it adds to `released` (`ClosingsRelease`).  `ExposureCap` and `OrderCap`
  bound from above the settings an administrator stores and the cost of an order;
  `ExposureAssumption` says no more, and `SignalsAssumption` says nothing of signs.
- `OwnRowsInv`: the rows a transaction has found are of its symbol, and the row it
  has loaded is still what it has loaded.  So the fill it commits changes one
  row, by what it fills, and `FillsConserved` is inductive with it: a closing
  changes the status of rows and no quantity.
- `OrdersInv`: an order past the gate has both levels, and the row it increases is
  of its side and keeps a quantity.  With `OwnRowsInv` a commit is the step `Open` or `Add` of the book
  on the row as it is then, although it was loaded before.

Exposure and quantities are sums over the rows of the table.  How a sum changes
when one row changes or one is added is in `FiniteInduction` (section 9).

## 4. ModuleOrder and Pipeline

**ModuleOrder** is `ModuleRegistry`.  `modules` is the list of enabled modules,
`waiting` the dependencies that keep a module out of the queue (its in-degree),
`ready` the deque, `ordered` the order found so far, `started` how many modules
are up.  `Validate`, `PopModule`, `FinishSort` are `discover`; `StartModule` and
`StopModule` walk the list forwards and backwards; either may raise, which ends
the process.  A list with a missing dependency, a cycle or a repeated name is refused.

**Pipeline** extends it with the transactions of one market in one worker:
per task the step it is `at`, the calls to the exchange it has made (`fetch`),
its `PipelineContext` (`ctx`) and the newest candle it has upserted (`written`);
and the snapshot `cache`, the table `bars` as committed, the `clock` (the newest
candle of the exchange, still forming) and the `trainer` that backfills.  Which
steps there are follows from the started modules (`Steps`), which comes next from
their order numbers (`NextStep`), as `pipeline_steps` does it.

`CacheHit`, `CallExchange`, `ExchangeAnswers`, `ExchangeFails`, `FallBack` are
`_get_bars`; `PersistBarsStep`, `EvaluateSignal`, `MlDecides`, `NoModel`,
`RiskGate`, `ExecuteOrder`, `Rejected` the other steps; `Commit`, `StepFails` the
end of the transaction.  `FetchPage`, `StorePage`, `TrainerFails` are
`backfill_bars`.  A task that is cancelled when the process stops is rolled back.

**Abstractions.**  A candle is its number and whether it is known as forming or
final.  A list of bars from the exchange is the `BarLimit` candles up to its
newest.  Candle 0 stands for the open times of synthetic bars.  A strategy may
decide on any action, except that the rule decides HOLD on a single flat bar and
the model without `MinBars` bars.  What the gate compares is `Trading`.  An
`ON CONFLICT DO UPDATE` waits for a transaction that has written one of its rows,
so two transactions of one symbol and timeframe are one after the other from
`bars_persist` to the commit.  An empty list of bars is cached like any other.
Market and exchange are one process each; other markets share nothing here.

| run | instance | shows |
|---|---|---|
| `pipeline` | 2 tasks, a trainer, 4 candles, 2 faults, both modes in which a model decides, live or not, 5 lists of modules; 1.8 M states | `TypeOK`, `NoSyntheticTrade`, `ApprovedIsExecuted`, `DecidesOnSnapshot`, `BackfillContiguous`, `StepsFindTheirInput`, `DependenciesAreUp` |
| `corpus` | 1 task, shadow mode | `SnapshotReachesCorpus` fails |

The lists are the default one, the reverse of it (which the sort must undo), one
without the ML strategy, one that must be refused because execution lacks its
gate, and one with a module twice.  Two faults exhaust the one retry, or fail the
exchange once and the database once.  Snapshots of two of four candles, a clock
that moves while a call is open and a cache of one tick let a task decide on a
snapshot older than the table; a backfill of three candles in pages of two has a
full page and a short one.

What the models of this section show beside the properties: the retry fallback is
all that `enable_live_trading` changes, the broker is the paper broker either
way; a transaction may set a final candle back to forming, when its snapshot is
older than the table; a model decides on a candle that is still forming; in
`confirm` mode a market without a model trades on the rule alone, where
README.md:32 says both must agree; and modules that are started stay up when a
later one fails to start, as `startup` is outside the `try`.

In `corpus`, `execute_order` raises for a decision that is not approved, HOLD
included, and the bars of the snapshot are rolled back with the rest: only the
events that lead to an order add to `market_bars`, where README.md:23 says every
snapshot does.

### Proofs

`ModuleOrderProofs` holds for every set of modules, every dependency relation and
every list.  `RegistryInv` says that in-degrees count exactly the dependencies
that are not ordered yet and that a module in the queue has none left; so what is
appended to `ordered` comes after what it depends on, the list that is started
has its dependencies first (`DependenciesFirst`), and any prefix of it is closed
under dependencies: `DependenciesAreUp`, at startup and shutdown alike.

`PipelineProofs` holds for any number of tasks, any limits and any list of modules, under
`TheApplication`: the modules are those of `app/modules` and depend on each other
as they declare.  `PipelineInv` ties the context of a task to the step it is at:
below 30 nothing is approved, above it what is approved is the signal, above 40
the order is that.  `NoSyntheticTrade` needs what the signal rests on
(`Grounds`): a flat bar makes the rule HOLD, a synthetic snapshot exists only
without live trading, and no transaction ever writes row 0 of `market_bars`.
`BackfillContiguous` is `TrainerInv`: the next page ends where the stored ones begin.
Proved: `PipelineDependencies`, `PipelineTypeOK`, `ApprovedIsExecutedHolds`,
`NoSyntheticTradeHolds`, `StepsFindTheirInputHolds`, `BackfillContiguousHolds`,
`DecidesOnSnapshotHolds`.  The last needs `InformedInv`: after `bars_persist`
the newest candle a task has written is the top of its snapshot, and the rows it
loads are the newest of the table with its own writes, whatever others have
committed; so one that is no older than the snapshot is among them.  It assumes `InferenceBars > 0`, as the default of 400 is: with 0 the
query loads no row, and the decision of the model is a HOLD on nothing.

## 5. UiBroadcast

`published` is the length of `ui_updates`; `reader`, `lastId`, `after`, `upto`
the reader task in `iter_broadcast`; per client the state of its handler, its
`queue` and the message `inHand`; `handed` and `received` are history.  `Xread`
asks for what is behind `lastId`, where `$` is the end of the stream at each
call, and blocks; `Publish` answers it; `BlockTimeout` makes it ask again.
`HandOut` puts an answer in every queue, without an await in between; a full
queue loses its oldest.  `Subscribe` starts a reader when there is none or the
last one is done; `ReaderFails`, `SendFails` and the two halves of `close` are
the ways things end.

**Abstractions.**  One worker's messages and one server process; other servers
have readers of their own.  A client that reconnects does so under its old name,
so `received` runs over all its connections.  A reader cancelled by `close` may
be followed by a new one, as a test or a second lifespan would have it.

**Fairness** (`FairSpec`).  The reader's calls, the hand-out, and the handlers of
attentive clients: the event loop runs what is ready, and an attentive browser
takes what it is sent.  Nobody has to publish, connect or stay.

| run | instance | shows |
|---|---|---|
| `updates` | 2 clients of which one is attentive, queue of 2, stream of 4, 1 reader fault; 409 k states | `TypeOK`, `OnlyOldestDropped`, `SlowClientsDoNotStall`, `ImplementsFeed` |

`ImplementsFeed` is a refinement of `LossyFeed`: whatever readers come and go, a
client's messages are newer each time.  The mapping takes the last message a
client has received.  Queues of two with answers of two overflow in one hand-out
and in several.  The liveness property ends when the reader fails or the client
leaves: a failed reader is started again only by the next subscription, and the
clients that are connected wait for it.  Nothing promises delivery: between two
blocked calls with `$` (`app/core/events/bus.py:182-188`) a message may be
published that no client sees.

### Proofs

`UiBroadcastProofs` holds for any number of clients, any `QueueSize`, any `Count`
and any length of the stream.  `OrderInv` orders what exists of a client's
messages: the last it received, the one in its handler's hand, its queue rising,
and all of that up to `Mark`, behind which everything is that may still be handed
out.  `Mark` is `after` while a call of XREAD is open, `lastId` between two calls,
and the end of the stream when there is no id or no reader: a new reader starts
from `$`, and this is why a second reader never repeats what the first has handed
out.  `FeedInv` adds that a queue is the end of what was handed to its client.
Proved: `OrderInvHolds`, `TypeCorrect`, `ImplementsFeedHolds`, `FeedInvHolds`,
`OnlyOldestDroppedHolds`.

## 6. Features and Training

**Features** has no state.  A feature series is the newest bar that goes into the
value of a row, relative to the row, and the first row that is a number; shifts,
rolling windows and running averages are operators on such series, and
`FeatureSeries` is `compute_features` written with them.  `FirstComplete` against
`WARMUP_BARS` is the off-by-one that matters to training and inference.

**Training** is `train_strategy` from the bars to the thresholds, and the first
decision of the model: `BuildDataset` (triple-barrier labels, valid rows),
`FitFold` and `SkipFold` (purged, embargoed folds, `TrainRows`),
`SelectThresholds` (with `Simulate`, the backtest), `Predict`.

**Abstractions.**  Prices are whole steps and the volatility is one step, so the
barriers are fixed widths.  LightGBM may forecast anything.  The Sharpe ratio that
picks a threshold is left open: any one with enough trades may win, and without
one the code's fallback does.  The default embargo, the label horizon, is used.
With bars that are all numbers the valid rows are contiguous, so in the run rows
and bars count alike; where they differ, the theorems below are what there is.  Folds train on the
rows after the test fold too, past the embargo, as the code does.

| run | instance | shows |
|---|---|---|
| `training` | 9 rows after 64 bars, labels up to 3 bars, 1, 3 or 5 folds, every path with at most one swing, and a history that is too short; 4.2 M states | `TypeOK`, `NoLabelOverlap`, `EveryRowScoredOnce`, `OneTradeAtATime`, `FeaturesPrecedeLabels`, `OnlyCompleteRows` |

Five rows behind the first four make folds of five, of two, two and one, and of
one row each; labels of three bars reach over a whole fold; some folds
are too thin to train on and are skipped, so the backtest counts the horizon over
a gap.  Live tables of 0, 64, 65 and 68 bars are none, one short of the minimum, the
minimum, and more.  `OnlyCompleteRows` holds because the slowest series is a
number at row 50 of the 64; a window of 66 breaks it, since `predict_latest` asks
for any number in a row and `build_dataset` for all.

What the model shows beside the properties: the levels of a live SELL mirror
those of a BUY (`app/modules/ml_strategy/model.py:161-163`), while labels are made for
one side only, so README.md:25's "the risk gate sees exactly what the model was
trained to predict" holds for a BUY.

### Proofs

`TrainingProofs` holds for every history, horizon, barrier width, number of
folds, `MinTrain`, grid and forecast.  `Inv` has four parts:

- `RowsInv`: rows ascend with their bars, and the label of a row ends within the
  horizon and within the history.  So rows are no further apart than their bars
  (`BarsApart`), which is what an embargo and a backtest that count in rows rely on.
- `FoldsInv`: what the folds so far were asked about ends where the next one
  starts.  `FoldsCoverRows` is the arithmetic of `array_split`: the folds follow
  each other from row `MinTrain` to the last, whatever the rest of the division.
  `PurgeClears` and `FoldClear` are the two sides of a fold: a row that is not
  purged has its label before the fold's first bar, a row past the embargo starts
  after the fold's last label.
- `BacktestInv`: what is traded is a horizon apart, in rows.  `RunInv` is the
  invariant of the loop of `simulate`: the last trade is over at the first signal
  that may be taken.  It counts scored rows only, and `BarsApart` carries it to bars.
- `DecisionInv`: a BUY or SELL is decided on a bar past the warm-up.

Of the features, `WarmedUp` shows that each operator on series keeps a series
that looks back and starts in time, and `FeaturesInTime` goes through
`FeatureSeries` with it; `NothingAhead` and `CompleteInTime` follow.  Proved:
`InvHolds`, `TypeCorrect`, `NoLabelOverlapHolds`, `EveryRowScoredOnceHolds`,
`OneTradeAtATimeHolds`, `FeaturesPrecedeLabelsHolds`, `OnlyCompleteRowsHolds`: every
property of the run.  Purging is by searchsorted over the valid rows, and the
theorems do not use that valid rows are contiguous.

## 7. ModelLifecycle

A trainer is a process of `workers.ml_train`: `pc` is where `run()` stands,
`thread` is `train_strategy` in its thread, `queue` and `flusher` are
`progress_queue` and `progress_task`, `row` its row of `ml_training_runs`.
`CreateRun`, `Prepare` and `StartTraining` lead to the training;
`ReportProgress`, `TakeProgress` and `WriteProgress` are the way of a progress
from the thread to the row; `AwaitThread` and `AwaitFlusher` are the `finally`
around them; `Saving`, `OpenTmp`, `WriteTmp` and `Replace` the save; `Finish`,
`PrintReport` and `Fail` the end.  A call of the `try` may raise before its effect
(`CallRaises`) or after it (`GoOn`), and a process may be killed at any step (`Kill`).

The two file names of a market are `tmp` and `path`; an inode is named by the
trainer that created it and has a `content` and an `mtime`.  `write_text` is two
steps, because it truncates first.  `ModelRegistry.get` is `StatFile` and
`LoadFile`, because trainers are other processes; the code of one process does
not run in between.  `FallSilent` is the time after which a run is shown stale.

**Abstractions.**  The stages that come from the thread are one stage,
`fitting`; the progress number, bars and metrics are left out.  `empty` stands
for any text that is not yet complete.  Every write gets an `mtime` of its own:
two writes within the clock granularity of the file system are not modelled, and
neither is an operator who removes a file.  The row is created outside the `try`,
and an interrupt is not an `Exception`: both are a `Kill`, which leaves the run
`running`.

**Fairness.**  Weak fairness of `run()`, of the flusher, of the end of the
training and of time: the event loop runs what is ready, `train_strategy` loops
over finite folds and rounds, and a clock goes on.  Nobody has to start a trainer
or ask for a model.

| run | instance | shows |
|---|---|---|
| `models` | 2 trainers in turn, 1 registry, 2 progress calls, 2 faults; 0.35 M states | `TypeOK`, `AnswersFromFile`, `RecordedModelIsSaved`, `FinishedStays`, `ModelStays`, `EveryRunEnds`, `GoneIsShown` |

`OneAtATime` is the way the README of the repository uses the trainer, one
`docker compose run` after the other.  Two trainers are enough for a file that is
replaced and for a temporary file that a dead trainer left behind; two progress
calls for one that is still queued while another is written; two faults for a
dead trainer and a failed call in the next.  `AnswersFromFile` holds although the
file may be replaced between the look at its time and its load: the registry then
remembers the older time with the newer model, and loads once more.  A failed
write of a progress makes a successful training a failed run, and a run can fail
after it was recorded as succeeded, when its report cannot be printed; in both
cases the run ends and says so.

Two trainers of one market at once, which nothing in the code prevents, share the
temporary file: the second truncates it between the first's write and replace, so
what the first puts in place is not its model and its row says `succeeded` with
the path.  With `OneAtATime` taken away from the instance TLC finds it.

### Proofs

`ModelLifecycleProofs` holds for any number of trainers, registries, progress
calls and faults.  `RunInv`: a flusher that is waiting or writing belongs to a
`run()` that is training or draining, and a finished row to one that is past its
last write but that of a failure; `FinishedStays` follows.  `FileInv`: an inode is
created once, the file and the temporary file are two with times of their own, and
no registry knows the time of the temporary one; so the file that a `Replace` puts
in place is always one the registry has to look at, and `AnswersFromFile` follows
without any assumption on trainers.  `SoloInv` assumes `OneAtATime = TRUE`: the
temporary file is the one the only trainer has opened, and its model is under
`path` before the row says so; `RecordedModelIsSaved` and `ModelStays` follow.
Proved: `ModelInvHolds`, `TypeCorrect`, `AnswersFromFileHolds`,
`FinishedStaysHolds`, `RecordedModelIsSavedHolds`, `ModelStaysHolds`.

## 8. Properties and mutants

Every property of a passing run has a mutant in the module itself, a plausible
slip in the code it models (an acknowledged failure, an insert that does not
wait, a locking read that does not look again, a closing that writes the whole
row, a purge window of its own for the inbox, an embargo forgotten, an ML step
placed after the gate), under which TLC finds the property violated in the same
configuration.

## 9. What is only model-checked, what is not modelled, and the plan

Only model-checked: everything about liveness (`EventuallyExecuted`,
`PendingDrains`, `EveryRunEnds`, `GoneIsShown`, `SlowClientsDoNotStall`), which
needs ENABLED, out of the prover's reach.  Every invariant, action property and
refinement of a passing run is also a theorem.

Sums over rows, the newest candle of a set, `array_split` and the loop of
`simulate` need induction over data, and the induction theorems of the library
take a predicate as a parameter, which the provers cannot instantiate.
`FiniteInduction` states induction over *sets* instead: a set of naturals that
holds 0 and with each number its successor holds all (`AllNumbers`); a family of
subsets that holds the empty one and with each subset those with one element more
holds the whole (`AllSubsets`).  Both follow from the least number principle,
which is `WFMin` of the library for `<` on the naturals.  From them come the laws
of `SumFunctionOnSet` (`SumAdds`, `SumChanges`, `SumOfParts`), `MaxBelow` and
`MinAbove`, and `StepByStep`: a function may be defined by its first value and the
step to the next.

Not modelled yet, in the order planned:

1. `PriceFeed`: the latest price with its time to live and the fallback to
   process state, composed with the positions loop; liveness of closing.
2. `LoginWindow`: the attempt counter, its expiry in two calls, concurrent logins.
3. The rounding of `NUMERIC(18,8)` in the average price.
4. `markets`: a cache of external payloads that nothing in the pipeline reads.

Left out for good: the floating-point values of indicators and features, LightGBM, HTTP
calls to Binance and Yahoo, rendering, logging and metrics, migrations, the
in-memory bus and store used by tests, and SQLite.
