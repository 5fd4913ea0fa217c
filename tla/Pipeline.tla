------------------------------ MODULE Pipeline ------------------------------
(***************************************************************************)
(* The steps of a pipeline transaction, from the market snapshot to the    *)
(* order, for one symbol and timeframe in one worker process, with the     *)
(* bars it leaves in market_bars and the trainer that fills the same table *)
(* from the exchange.  The steps come from the modules ModuleOrder starts. *)
(*                                                                         *)
(* Candles are numbered; the exchange has the candles up to the clock, and *)
(* the newest one is still forming.  A list of bars from the exchange is   *)
(* named by its newest candle: it holds the limit candles up to that one.  *)
(***************************************************************************)
EXTENDS ModuleOrder

CONSTANTS
  Tasks,           \* messages a worker handles at a time
  Modes,           \* values of ml_strategy_mode to consider
  LiveTrading,     \* values of enable_live_trading to consider
  PersistBars,     \* ml_persist_bars
  Actions,         \* the actions a strategy can decide on
  CacheTtl,        \* market_data_cache_ttl_seconds, in ticks of the clock
  Retries,         \* SnapshotService.retries
  BarLimit,        \* market_data_bar_limit
  InferenceBars,   \* ml_inference_bars
  MinBars,         \* StrategyModel.min_bars
  Backfill,        \* --backfill of the trainer
  PageLimit,       \* BINANCE_MAX_LIMIT
  FirstTime,       \* the clock at the start: there are candles to go back to
  MaxTime,         \* bound: the clock
  MaxFaults        \* bound: failures of the exchange and of the database

ASSUME DecisionsAssumption ==
  /\ Modes \subseteq {"shadow", "primary", "confirm"}
  /\ LiveTrading \subseteq BOOLEAN /\ PersistBars \in BOOLEAN
  /\ "HOLD" \in Actions
ASSUME LimitsAssumption ==
  /\ BarLimit \in Nat \ {0} /\ PageLimit \in Nat \ {0} /\ MinBars \in Nat \ {0}
  /\ CacheTtl \in Nat /\ Retries \in Nat /\ InferenceBars \in Nat /\ Backfill \in Nat
  /\ FirstTime \in Nat \ {0} /\ MaxTime \in Nat /\ FirstTime <= MaxTime /\ MaxFaults \in Nat

VARIABLES
  mode, live,      \* the settings
  clock,           \* the newest candle of the exchange
  cache,           \* SnapshotService._cache: when it was filled, with what
  bars,            \* market_bars as committed: what is known of each candle
  at,              \* the order of the step a task is in, 0 without a message
  fetch,           \* its calls to the exchange: since when one is open, how many failed
  ctx,             \* its PipelineContext
  written,         \* the newest candle its transaction has upserted, 0 for none
  trainer,         \* backfill_bars: where it stands, and the page it has fetched
  faults

settingVars == << mode, live >>
taskVars == << at, fetch, ctx, written >>
vars == << registryVars, settingVars, clock, cache, bars, taskVars, trainer, faults >>

\* Row 0 of market_bars stands for the open times of bars that are synthetic.
Candles == 0 .. MaxTime
AtLeast1(n) == IF n < 1 THEN 1 ELSE n
Window(top, limit) == AtLeast1(top - limit + 1) .. top
MinOf(S) == CHOOSE x \in S : \A y \in S : x <= y
MaxOf(S) == CHOOSE x \in S : \A y \in S : y <= x

\* What a list of bars whose newest candle is top says of candle c.
Says(c, top) == IF c = top THEN "forming" ELSE "final"

NoDecision == [action |-> "none", by |-> "none"]
NoSnapshot == [kind |-> "none", top |-> 0]
EmptyContext == [snapshot |-> NoSnapshot, rule |-> NoDecision, ml |-> NoDecision,
                 mlBars |-> {}, signal |-> NoDecision, approved |-> NoDecision,
                 order |-> NoDecision]
NoFetch == [asked |-> 0, failed |-> 0]

PipelineInit ==
  /\ RegistryInit
  /\ mode \in Modes /\ live \in LiveTrading
  /\ clock = FirstTime
  /\ cache = [filled |-> 0, top |-> 0]
  /\ bars = [c \in Candles |-> "none"]
  /\ at = [t \in Tasks |-> 0]
  /\ fetch = [t \in Tasks |-> NoFetch]
  /\ ctx = [t \in Tasks |-> EmptyContext]
  /\ written = [t \in Tasks |-> 0]
  /\ trainer = [stage |-> "start", end |-> 0, top |-> 0, stored |-> 0]
  /\ faults = 0

-----------------------------------------------------------------------------
(* ModuleRegistry.pipeline_steps: the steps of the enabled modules by their  *)
(* order.                                                                    *)
StepsOf(m) ==
  CASE m = "market_data" -> {"market_snapshot"}
    [] m = "signal_engine" -> {"signal_evaluate"}
    [] m = "ml_strategy" -> {"bars_persist", "ml_signal"}
    [] m = "risk_engine" -> {"risk_gate"}
    [] m = "execution" -> {"execute_order"}
    [] OTHER -> {}

\* depends_on of these modules.  Mutant: execution does without the gate.
UngatedDepends == [market_data |-> {}, settings |-> {}, signal_engine |-> {"market_data"},
                   ml_strategy |-> {"market_data", "signal_engine"},
                   risk_engine |-> {"settings", "signal_engine"},
                   execution |-> {"signal_engine"}, positions |-> {"execution"}]
AppDependsOn == [market_data |-> {}, settings |-> {}, signal_engine |-> {"market_data"},
                 ml_strategy |-> {"market_data", "signal_engine"},
                 risk_engine |-> {"settings", "signal_engine"},
                 execution |-> {"risk_engine"}, positions |-> {"execution"}]

\* The modules whose state, or whose part of the context, a step uses.
Uses == [market_snapshot |-> {"market_data"}, bars_persist |-> {"market_data"},
         signal_evaluate |-> {"market_data"}, ml_signal |-> {"market_data", "ml_strategy"},
         risk_gate |-> {"market_data", "signal_engine", "settings", "risk_engine"},
         execute_order |-> {"market_data", "signal_engine", "risk_engine", "execution"}]

\* Mutants of StepOrder: the ML steps come after what should read them.
MlAfterTheGate == [market_snapshot |-> 10, bars_persist |-> 15, signal_evaluate |-> 20,
                   ml_signal |-> 35, risk_gate |-> 30, execute_order |-> 40]
BarsAfterMl == [market_snapshot |-> 10, bars_persist |-> 26, signal_evaluate |-> 20,
                ml_signal |-> 25, risk_gate |-> 30, execute_order |-> 40]
StepOrder == [market_snapshot |-> 10, bars_persist |-> 15, signal_evaluate |-> 20,
              ml_signal |-> 25, risk_gate |-> 30, execute_order |-> 40]

Steps == UNION {StepsOf(m) : m \in Listed}
Done == 100        \* behind the last step: the commit
StepsAfter(n) == {StepOrder[s] : s \in {s \in Steps : StepOrder[s] > n}} \cup {Done}
NextStep(n) == MinOf(StepsAfter(n))
In(t, step) == step \in Steps /\ at[t] = StepOrder[step]

Advance(t) == at' = [at EXCEPT ![t] = NextStep(at[t])]

\* The transaction ends and the message is answered or left for a retry.
Finish(t) ==
  /\ at' = [at EXCEPT ![t] = 0]
  /\ fetch' = [fetch EXCEPT ![t] = NoFetch]
  /\ ctx' = [ctx EXCEPT ![t] = EmptyContext]
  /\ written' = [written EXCEPT ![t] = 0]

\* process_pipeline_message, once the inbox row is inserted.
Begin(t) ==
  /\ app = "running"
  /\ at[t] = 0
  /\ Advance(t)
  /\ UNCHANGED << registryVars, settingVars, clock, cache, bars, fetch, ctx, written, trainer, faults >>

\* A step raises or the database fails: rollback, and the handler returns False.
Rollback(t) ==
  /\ Finish(t)
  /\ UNCHANGED << registryVars, settingVars, clock, cache, bars, trainer >>

StepFails(t) ==
  /\ app = "running"
  /\ at[t] # 0
  /\ faults < MaxFaults
  /\ faults' = faults + 1
  /\ Rollback(t)

-----------------------------------------------------------------------------
(* market_snapshot: SnapshotService.build_snapshot.                          *)
SetSnapshot(t, kind, top) ==
  /\ ctx' = [ctx EXCEPT ![t].snapshot = [kind |-> kind, top |-> top]]
  /\ fetch' = [fetch EXCEPT ![t] = NoFetch]
  /\ Advance(t)

CacheHit(t) ==
  /\ In(t, "market_snapshot") /\ fetch[t].asked = 0 /\ fetch[t].failed = 0
  /\ cache.filled > 0 /\ clock - cache.filled < CacheTtl
  /\ SetSnapshot(t, IF cache.top = 0 THEN "flat" ELSE "real", cache.top)
  /\ UNCHANGED << registryVars, settingVars, clock, cache, bars, written, trainer, faults >>

CallExchange(t) ==
  /\ In(t, "market_snapshot") /\ fetch[t].asked = 0 /\ fetch[t].failed <= Retries
  /\ fetch[t].failed > 0 \/ cache.filled = 0 \/ clock - cache.filled >= CacheTtl
  /\ fetch' = [fetch EXCEPT ![t].asked = clock]
  /\ UNCHANGED << registryVars, settingVars, clock, cache, bars, at, ctx, written, trainer, faults >>

\* The exchange answers with the candles it has had since the call, or with none
\* at all; the cache is filled when the answer is there, whatever it holds by then.
\* No bars: the snapshot gets one flat bar of the event's price.
ExchangeAnswers(t) ==
  /\ In(t, "market_snapshot") /\ fetch[t].asked > 0
  /\ \E top \in {0} \cup fetch[t].asked .. clock :
       /\ cache' = [filled |-> clock, top |-> top]
       /\ SetSnapshot(t, IF top = 0 THEN "flat" ELSE "real", top)
  /\ UNCHANGED << registryVars, settingVars, clock, bars, written, trainer, faults >>

ExchangeFails(t) ==
  /\ In(t, "market_snapshot") /\ fetch[t].asked > 0
  /\ faults < MaxFaults
  /\ faults' = faults + 1
  /\ fetch' = [fetch EXCEPT ![t] = [asked |-> 0, failed |-> @.failed + 1]]
  /\ UNCHANGED << registryVars, settingVars, clock, cache, bars, at, ctx, written, trainer >>

\* Mutant of HasFallback: the synthetic provider is wired whatever the setting.
AlwaysFallback == TRUE
HasFallback == ~live

FallBack(t) ==
  /\ In(t, "market_snapshot") /\ fetch[t].failed > Retries
  /\ \/ /\ HasFallback
        /\ SetSnapshot(t, "synthetic", 0)
        /\ UNCHANGED << registryVars, settingVars, clock, cache, bars, written, trainer, faults >>
     \/ ~HasFallback /\ Rollback(t) /\ UNCHANGED faults

-----------------------------------------------------------------------------
(* bars_persist: upsert_bars.  The rows are overwritten as they are; ON      *)
(* CONFLICT waits for a transaction that has written one of them.            *)

\* Mutant of PersistedTop: bars that are synthetic are not left out.
TopOfAll(snapshot) == IF snapshot.kind = "none" THEN 0 ELSE AtLeast1(snapshot.top)

\* The newest bar that is not synthetic, 0 when there is none.
PersistedTop(snapshot) == IF snapshot.kind = "real" THEN snapshot.top ELSE 0

\* The table as transaction t sees it, and leaves it when it commits.
Upserted(table, rows, top) == [c \in Candles |-> IF c \in rows THEN Says(c, top) ELSE table[c]]
RowsOf(t) == IF ctx[t].snapshot.kind = "real" THEN Window(written[t], BarLimit) ELSE {0}
BarsSeenBy(t) == IF written[t] = 0 THEN bars ELSE Upserted(bars, RowsOf(t), written[t])

Blocked(t, rows) ==
  \E u \in Tasks \ {t} : written[u] > 0 /\ RowsOf(u) \cap rows # {}

PersistBarsStep(t) ==
  LET top == PersistedTop(ctx[t].snapshot)
      rows == IF ctx[t].snapshot.kind = "real" THEN Window(top, BarLimit) ELSE {0}
  IN  /\ In(t, "bars_persist")
      /\ IF PersistBars /\ top > 0
         THEN ~Blocked(t, rows) /\ written' = [written EXCEPT ![t] = top]
         ELSE UNCHANGED written
      /\ Advance(t)
      /\ UNCHANGED << registryVars, settingVars, clock, cache, bars, fetch, ctx, trainer, faults >>

-----------------------------------------------------------------------------
(* signal_evaluate: the rule strategy decides on the snapshot.  One flat bar *)
(* has no trend.                                                             *)
RuleActions(snapshot) == IF snapshot.kind = "flat" THEN {"HOLD"} ELSE Actions

EvaluateSignal(t) ==
  /\ In(t, "signal_evaluate")
  /\ \E action \in RuleActions(ctx[t].snapshot) :
       LET rule == [action |-> action, by |-> "rule"]
       IN  ctx' = [ctx EXCEPT ![t].rule = rule, ![t].signal = rule]
  /\ Advance(t)
  /\ UNCHANGED << registryVars, settingVars, clock, cache, bars, fetch, written, trainer, faults >>

-----------------------------------------------------------------------------
(* ml_signal: load_bar_arrays takes the newest rows, the model decides, and  *)
(* combine_decisions resolves the two decisions.                             *)
Loaded(t) ==
  LET rows == {c \in Candles : BarsSeenBy(t)[c] # "none"}
  IN  {c \in rows : Cardinality({d \in rows : d > c}) < InferenceBars}

MlActions(rows) == IF Cardinality(rows) < MinBars THEN {"HOLD"} ELSE Actions

Combined(rule, ml) ==
  CASE mode = "primary" -> ml
    [] mode = "confirm" -> IF rule.action = ml.action /\ ml.action # "HOLD"
                           THEN [action |-> ml.action, by |-> "both"]
                           ELSE [action |-> "HOLD", by |-> "both"]
    [] OTHER -> rule

\* There is a model for the market: its decision is combined with the rule's.
MlDecides(t) ==
  /\ In(t, "ml_signal")
  /\ \E action \in MlActions(Loaded(t)) :
       LET ml == [action |-> action, by |-> "ml"]
       IN  ctx' = [ctx EXCEPT ![t].ml = ml, ![t].mlBars = Loaded(t),
                              ![t].signal = Combined(ctx[t].rule, ml)]
  /\ Advance(t)
  /\ UNCHANGED << registryVars, settingVars, clock, cache, bars, fetch, written, trainer, faults >>

\* There is none: the step returns and leaves the signal as it is.
NoModel(t) ==
  /\ In(t, "ml_signal")
  /\ Advance(t)
  /\ UNCHANGED << registryVars, settingVars, clock, cache, bars, fetch, ctx, written, trainer, faults >>

-----------------------------------------------------------------------------
(* risk_gate and execute_order: what Trading does in detail.  HOLD is no     *)
(* executable signal, and whatever the gate does not approve raises.         *)
RiskGate(t) ==
  /\ In(t, "risk_gate")
  /\ \/ /\ ctx[t].signal.action \notin {"none", "HOLD"}
        /\ ctx' = [ctx EXCEPT ![t].approved = ctx[t].signal]
     \/ UNCHANGED ctx
  /\ Advance(t)
  /\ UNCHANGED << registryVars, settingVars, clock, cache, bars, fetch, written, trainer, faults >>

ExecuteOrder(t) ==
  /\ In(t, "execute_order")
  /\ ctx[t].approved # NoDecision
  /\ ctx' = [ctx EXCEPT ![t].order = IF ctx[t].signal.action \in {"none", "HOLD"}
                                     THEN NoDecision ELSE ctx[t].signal]
  /\ Advance(t)
  /\ UNCHANGED << registryVars, settingVars, clock, cache, bars, fetch, written, trainer, faults >>

Rejected(t) ==
  /\ In(t, "execute_order")
  /\ ctx[t].approved = NoDecision
  /\ Rollback(t)
  /\ UNCHANGED faults

Commit(t) ==
  /\ app = "running"
  /\ at[t] = Done
  /\ bars' = BarsSeenBy(t)
  /\ Finish(t)
  /\ UNCHANGED << registryVars, settingVars, clock, cache, trainer, faults >>

-----------------------------------------------------------------------------
(* ml_train, backfill_bars: pages backwards from the newest candle, each     *)
(* page in a transaction of its own.                                         *)
\* Mutant of PageSize: every page is a full one.
FullPage == PageLimit
PageSize == IF Backfill - trainer.stored < PageLimit THEN Backfill - trainer.stored ELSE PageLimit

\* The exchange leaves out what comes after end_time, and has nothing before 1.
FetchPage ==
  LET top == IF trainer.stage = "start" THEN clock ELSE trainer.end
  IN  /\ trainer.stage \in {"start", "paging"}
      /\ IF trainer.stored < Backfill /\ top > 0
         THEN trainer' = [trainer EXCEPT !.stage = "fetched", !.end = top,
                                         !.top = IF trainer.stage = "start" THEN clock ELSE @]
         ELSE trainer' = [trainer EXCEPT !.stage = "done"]
      /\ UNCHANGED << registryVars, settingVars, clock, cache, bars, taskVars, faults >>

Page == Window(trainer.end, PageSize)

\* Mutant of NextEnd: the page before starts one candle too early.
SkipsOne == MinOf(Page) - 2
NextEnd == MinOf(Page) - 1

StorePage ==
  /\ trainer.stage = "fetched"
  /\ \A t \in Tasks : written[t] = 0 \/ RowsOf(t) \cap Page = {}
  /\ bars' = [c \in Candles |-> IF c \in Page THEN Says(c, trainer.top) ELSE bars[c]]
  /\ trainer' = [trainer EXCEPT !.stage = IF Cardinality(Page) < PageSize THEN "done" ELSE "paging",
                                !.stored = @ + Cardinality(Page), !.end = NextEnd]
  /\ UNCHANGED << registryVars, settingVars, clock, cache, taskVars, faults >>

\* The exchange or the database fails, or the trainer is killed.
TrainerFails ==
  /\ trainer.stage \in {"start", "paging", "fetched"}
  /\ faults < MaxFaults
  /\ faults' = faults + 1
  /\ trainer' = [trainer EXCEPT !.stage = "done"]
  /\ UNCHANGED << registryVars, settingVars, clock, cache, bars, taskVars >>

Tick ==
  /\ app = "running"
  /\ clock < MaxTime
  /\ clock' = clock + 1
  /\ UNCHANGED << registryVars, settingVars, cache, bars, taskVars, trainer, faults >>

-----------------------------------------------------------------------------
\* The transactions that are open when the process is stopped are rolled back.
BootOrStop ==
  /\ Boot \/ ShutDown
  /\ IF app' = "stopping"
     THEN /\ at' = [t \in Tasks |-> 0] /\ fetch' = [t \in Tasks |-> NoFetch]
          /\ ctx' = [t \in Tasks |-> EmptyContext] /\ written' = [t \in Tasks |-> 0]
     ELSE UNCHANGED taskVars
  /\ UNCHANGED << settingVars, clock, cache, bars, trainer, faults >>

Step(t) ==
  \/ Begin(t) \/ StepFails(t)
  \/ CacheHit(t) \/ CallExchange(t) \/ ExchangeAnswers(t) \/ ExchangeFails(t) \/ FallBack(t)
  \/ PersistBarsStep(t) \/ EvaluateSignal(t) \/ MlDecides(t) \/ NoModel(t)
  \/ RiskGate(t) \/ ExecuteOrder(t) \/ Rejected(t) \/ Commit(t)

\* The trainer is a process of its own; it is followed while the worker is up.
Next ==
  \/ BootOrStop
  \/ \E t \in Tasks : Step(t)
  \/ app = "running" /\ (FetchPage \/ StorePage \/ TrainerFails)
  \/ Tick

Spec == PipelineInit /\ [][Next]_vars

-----------------------------------------------------------------------------
Decisions == [action : Actions \cup {"none"}, by : {"none", "rule", "ml", "both"}]

TypeOK ==
  /\ RegistryTypeOK
  /\ mode \in Modes /\ live \in LiveTrading
  /\ clock \in Nat
  /\ cache \in [filled : Nat, top : Nat]
  /\ bars \in [Candles -> {"none", "forming", "final"}]
  /\ at \in [Tasks -> {0, Done} \cup {StepOrder[s] : s \in Steps}]
  /\ \A t \in Tasks : fetch[t].asked <= clock /\ fetch[t].failed <= Retries + 1
  /\ ctx \in [Tasks -> [snapshot : [kind : {"none", "real", "synthetic", "flat"}, top : Nat],
                        rule : Decisions, ml : Decisions, mlBars : SUBSET Candles,
                        signal : Decisions, approved : Decisions, order : Decisions]]
  /\ written \in [Tasks -> Candles]
  /\ trainer.stage \in {"start", "paging", "fetched", "done"}
  /\ trainer.stored \in 0 .. Backfill
  /\ faults \in 0 .. MaxFaults

\* market_data: "Never trade live on synthetic data".  With live trading enabled
\* no order rests on the rule's reading of a synthetic snapshot, nor on a model's
\* reading of synthetic bars that got into market_bars.
NoSyntheticTrade ==
  \A t \in Tasks : live /\ ctx[t].order # NoDecision =>
    /\ ctx[t].order.by \in {"rule", "both"} => ctx[t].snapshot.kind = "real"
    /\ ctx[t].order.by \in {"ml", "both"} => 0 \notin ctx[t].mlBars

\* The order is the one the risk gate has approved: no step changes the signal
\* between the gate and the order, for any list of modules that is accepted.
ApprovedIsExecuted ==
  \A t \in Tasks : ctx[t].order # NoDecision => ctx[t].order = ctx[t].approved

\* A model decides on bars that reach to the snapshot of its own event, or
\* further: the upsert comes first, in the transaction the bars are read in.
DecidesOnSnapshot ==
  \A t \in Tasks :
    ctx[t].ml # NoDecision /\ PersistBars /\ ctx[t].snapshot.kind = "real" =>
      \E c \in ctx[t].mlBars : c >= ctx[t].snapshot.top

\* The pages of a backfill leave no hole: from the newest candle it has stored
\* to the oldest, market_bars has every candle, wherever the trainer stopped.
BackfillContiguous ==
  trainer.stored > 0 => \A c \in trainer.top - trainer.stored + 1 .. trainer.top : bars[c] # "none"

\* A step finds what it reads, for any list of modules that is accepted: the
\* modules it uses are started and the fields of the context it uses are set.
StepsFindTheirInput ==
  \A t \in Tasks : at[t] > 0 =>
    /\ \A s \in Steps : Uses[s] \subseteq StartedModules
    /\ \A s \in Steps \ {"market_snapshot"} : In(t, s) => ctx[t].snapshot # NoSnapshot
    /\ In(t, "risk_gate") => ctx[t].signal # NoDecision

\* README: "bars_persist upserts every snapshot's OHLCV candles into market_bars,
\* so the training corpus grows as webhooks arrive".
SnapshotReachesCorpus ==
  [][\A t \in Tasks : written[t] > 0 /\ written'[t] = 0 /\ app' = "running" =>
       \A c \in RowsOf(t) : bars'[c] # "none"]_vars
=============================================================================
