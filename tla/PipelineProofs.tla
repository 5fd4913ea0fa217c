---------------------------- MODULE PipelineProofs ----------------------------
(***************************************************************************)
(* Theorems about Pipeline, for every number of tasks and all settings:    *)
(* with the modules of the application and the dependencies they declare,  *)
(* whatever list of them is enabled, a step finds what it reads, an order  *)
(* is the one the gate has approved, and none rests on synthetic bars when *)
(* trading is live.  A backfill leaves no hole, and a model decides on the *)
(* bars of its own event.                                                  *)
(***************************************************************************)
EXTENDS Pipeline, ModuleOrderProofs, FiniteInduction

\* The modules of app.modules that take part, with the dependencies they declare.
TheApplication == Modules = DOMAIN AppDependsOn /\ DependsOn = AppDependsOn

\* Once the modules run, all of them are started.
AllStarted == app = "running" => started = Len(modules)

Times == {10, 15, 20, 25, 30, 40, Done}
Kinds == {"none", "real", "synthetic", "flat"}
ContextType == [snapshot : [kind : Kinds, top : Candles], rule : Decisions, ml : Decisions,
                mlBars : SUBSET Candles, signal : Decisions, approved : Decisions,
                order : Decisions]

\* Where a task stands bounds what its context holds: no step has run before
\* its order, and none was passed over.
Progress(t) ==
  /\ at[t] \in {0, Done} \cup {StepOrder[s] : s \in Steps}
  /\ at[t] > 0 => app = "running"
  /\ at[t] > 10 /\ "market_snapshot" \in Steps => ctx[t].snapshot.kind # "none"
  /\ at[t] <= 15 => written[t] = 0
  /\ at[t] <= 20 => ctx[t].rule = NoDecision /\ ctx[t].signal = NoDecision
  /\ at[t] > 20 /\ "signal_evaluate" \in Steps =>
       ctx[t].rule # NoDecision /\ ctx[t].signal # NoDecision

\* The signal after the gate is the one approved, and what is executed is that.
Gated(t) ==
  /\ ctx[t].approved # NoDecision =>
       at[t] > 30 /\ ctx[t].approved = ctx[t].signal /\ ctx[t].signal.action \notin {"none", "HOLD"}
  /\ ctx[t].order # NoDecision => at[t] > 40 /\ ctx[t].order = ctx[t].approved

\* What a signal rests on, and what a transaction has upserted.
Grounds(t) ==
  /\ ctx[t].snapshot.kind = "synthetic" => ~live
  /\ ctx[t].snapshot.kind = "flat" => ctx[t].rule.action \in {"none", "HOLD"}
  /\ ctx[t].snapshot.kind = "real" => ctx[t].snapshot.top > 0
  /\ ctx[t].rule # NoDecision => ctx[t].snapshot.kind # "none"
  /\ ctx[t].signal.by \in {"rule", "both"} => ctx[t].signal.action \in {"HOLD", ctx[t].rule.action}
  /\ 0 \notin ctx[t].mlBars
  /\ written[t] > 0 => ctx[t].snapshot.kind = "real"

Fetching(t) ==
  /\ fetch[t].asked <= clock /\ fetch[t].failed <= Retries + 1
  /\ fetch[t].asked > 0 => fetch[t].failed <= Retries

TaskInv(t) == Progress(t) /\ Gated(t) /\ Grounds(t) /\ Fetching(t)

TaskTypes ==
  /\ at \in [Tasks -> {0} \cup Times]
  /\ fetch \in [Tasks -> [asked : Nat, failed : Nat]]
  /\ ctx \in [Tasks -> ContextType]
  /\ written \in [Tasks -> Candles]

BarsInv ==
  /\ bars \in [Candles -> {"none", "forming", "final"}]
  /\ bars[0] = "none"

WorkerInv ==
  /\ mode \in Modes /\ live \in LiveTrading
  /\ clock \in 1 .. MaxTime
  /\ cache \in [filled : Nat, top : 0 .. clock]
  /\ faults \in 0 .. MaxFaults

\* The pages stored so far reach from the newest candle down to the next page.
TrainerInv ==
  /\ trainer \in [stage : {"start", "paging", "fetched", "done"}, end : Nat, top : Candles,
                  stored : 0 .. Backfill]
  /\ trainer.stored <= trainer.top
  /\ trainer.stage = "start" => trainer.stored = 0
  /\ trainer.stage \in {"paging", "fetched"} => trainer.end = trainer.top - trainer.stored
  /\ trainer.stage = "fetched" => trainer.end > 0 /\ trainer.stored < Backfill
  /\ \A c \in trainer.top - trainer.stored + 1 .. trainer.top : bars[c] # "none"

PipelineInv ==
  /\ RegistryInv /\ AllStarted
  /\ WorkerInv /\ TaskTypes /\ BarsInv /\ TrainerInv
  /\ \A t \in Tasks : TaskInv(t)

\* What a model decides on: the snapshot is upserted when bars_persist has run,
\* and stays in the transaction's view of the table.
Informed(t) ==
  /\ at[t] <= 25 => ctx[t].ml = NoDecision
  /\ at[t] > 15 /\ "bars_persist" \in Steps /\ PersistBars /\ ctx[t].snapshot.kind = "real" =>
       written[t] = ctx[t].snapshot.top
  /\ ctx[t].ml # NoDecision /\ PersistBars /\ ctx[t].snapshot.kind = "real" =>
       \E c \in ctx[t].mlBars : c >= ctx[t].snapshot.top

InformedInv == \A t \in Tasks : Informed(t)

-----------------------------------------------------------------------------
(* The steps and their order.                                                *)

LEMMA StepNames == Steps \subseteq DOMAIN StepOrder
BY DEF Steps, StepsOf, StepOrder

LEMMA StepTimes == \A s \in Steps : StepOrder[s] \in Times \ {Done}
BY StepNames DEF StepOrder, Times, Done

\* A set of step times has a least one.
LEMMA LeastTime ==
  ASSUME NEW S \in SUBSET Times, S # {}
  PROVE  MinOf(S) \in S /\ \A y \in S : MinOf(S) <= y
<1>1. \E x \in S : \A y \in S : x <= y
  <2>1. CASE 10 \in S
    BY <2>1 DEF Times, Done
  <2>2. CASE 10 \notin S /\ 15 \in S
    BY <2>2 DEF Times, Done
  <2>3. CASE S \cap {10, 15} = {} /\ 20 \in S
    BY <2>3 DEF Times, Done
  <2>4. CASE S \cap {10, 15, 20} = {} /\ 25 \in S
    BY <2>4 DEF Times, Done
  <2>5. CASE S \cap {10, 15, 20, 25} = {} /\ 30 \in S
    BY <2>5 DEF Times, Done
  <2>6. CASE S \cap {10, 15, 20, 25, 30} = {} /\ 40 \in S
    BY <2>6 DEF Times, Done
  <2>7. CASE S \subseteq {Done}
    <3>1. S = {Done}
      BY <2>7
    <3>2. Done <= Done
      BY DEF Done
    <3> QED
      BY <3>1, <3>2
  <2> QED
    BY <2>1, <2>2, <2>3, <2>4, <2>5, <2>6, <2>7 DEF Times
<1> QED
  BY <1>1 DEF MinOf

\* The next step is behind the last one, and none is passed over.
LEMMA NextStepFacts ==
  ASSUME NEW n \in {0} \cup (Times \ {Done})
  PROVE  /\ NextStep(n) \in {Done} \cup {StepOrder[s] : s \in Steps}
         /\ NextStep(n) \in Times
         /\ NextStep(n) > n
         /\ \A s \in Steps : StepOrder[s] > n => NextStep(n) <= StepOrder[s]
<1> DEFINE S == StepsAfter(n)
<1>1. S \subseteq Times /\ Done \in S
  BY StepTimes DEF StepsAfter, Times, Done
<1>2. NextStep(n) \in S /\ \A y \in S : NextStep(n) <= y
  BY <1>1, LeastTime DEF NextStep
<1>3. \A y \in S : y > n
  BY DEF StepsAfter, Times, Done
<1> QED
  BY <1>1, <1>2, <1>3 DEF StepsAfter

\* Whatever step is enabled, so are the modules it uses.
LEMMA StepsHaveTheirModules ==
  ASSUME TheApplication, RegistryInv, AllStarted, app = "running"
  PROVE  /\ StartedModules = Listed
         /\ \A m \in Listed : AppDependsOn[m] \subseteq Listed
<1>1. /\ started = Len(modules) /\ Len(modules) \in Nat /\ DOMAIN modules = 1 .. Len(modules)
      /\ DependenciesFirst(modules)
  BY DEF AllStarted, RegistryInv, RegistryTypeOK
<1>2. StartedModules = Listed
  BY <1>1 DEF StartedModules, Listed, Elements
<1>3. ASSUME NEW m \in Listed PROVE AppDependsOn[m] \subseteq Listed
  <2>1. PICK i \in DOMAIN modules : m = modules[i]
    BY DEF Listed, Elements
  <2>2. DependsOn[m] \subseteq Before(modules, i)
    BY <1>1, <2>1 DEF DependenciesFirst
  <2> QED
    BY <1>1, <2>2 DEF TheApplication, Before, Listed, Elements
<1> QED
  BY <1>2, <1>3

\* The modules behind the enabled steps.
LEMMA EnabledSteps ==
  ASSUME TheApplication, RegistryInv, AllStarted, app = "running"
  PROVE  /\ \A s \in Steps : Uses[s] \subseteq Listed
         /\ Steps # {} => "market_snapshot" \in Steps
         /\ Steps \cap {"ml_signal", "risk_gate", "execute_order"} # {} =>
              "signal_evaluate" \in Steps
<1> USE StepsHaveTheirModules
<1>1. Steps = UNION {StepsOf(m) : m \in Listed}
  BY DEF Steps
<1>2. /\ "signal_engine" \in Listed => "market_data" \in Listed
      /\ "ml_strategy" \in Listed => {"market_data", "signal_engine"} \subseteq Listed
      /\ "risk_engine" \in Listed => {"settings", "signal_engine"} \subseteq Listed
      /\ "execution" \in Listed => "risk_engine" \in Listed
  BY DEF AppDependsOn
<1>3. /\ "market_snapshot" \in Steps <=> "market_data" \in Listed
      /\ "signal_evaluate" \in Steps <=> "signal_engine" \in Listed
      /\ "bars_persist" \in Steps <=> "ml_strategy" \in Listed
      /\ "ml_signal" \in Steps <=> "ml_strategy" \in Listed
      /\ "risk_gate" \in Steps <=> "risk_engine" \in Listed
      /\ "execute_order" \in Steps <=> "execution" \in Listed
  BY <1>1 DEF StepsOf
<1>4. \A s \in Steps : s \in {"market_snapshot", "signal_evaluate", "bars_persist", "ml_signal",
                              "risk_gate", "execute_order"}
  BY StepNames DEF StepOrder
<1>5. \A s \in Steps : Uses[s] \subseteq Listed
  BY <1>2, <1>3, <1>4 DEF Uses
<1> QED
  BY <1>2, <1>3, <1>4, <1>5

-----------------------------------------------------------------------------
(* The inductive invariant.                                                  *)

LEMMA NoDecisions == NoDecision \in Decisions /\ NoDecision.action = "none" /\ NoDecision.by = "none"
BY DEF NoDecision, Decisions

LEMMA InitPipeline == PipelineInit => PipelineInv
<1> SUFFICES ASSUME PipelineInit PROVE PipelineInv
  OBVIOUS
<1>1. RegistryInv
  BY InitRegistry DEF PipelineInit
<1>2. app = "discovered"
  BY DEF PipelineInit, RegistryInit
<1>3. WorkerInv
  BY LimitsAssumption DEF PipelineInit, WorkerInv
<1>4. EmptyContext \in ContextType
  BY NoDecisions, LimitsAssumption DEF EmptyContext, NoSnapshot, ContextType, Kinds, Candles
<1>5. TaskTypes
  BY <1>4, LimitsAssumption DEF PipelineInit, TaskTypes, NoFetch, Candles
<1>6. BarsInv
  BY LimitsAssumption DEF PipelineInit, BarsInv, Candles
<1>7. TrainerInv
  BY LimitsAssumption DEF PipelineInit, TrainerInv, Candles
<1>8. ASSUME NEW t \in Tasks PROVE TaskInv(t)
  <2>1. /\ at[t] = 0 /\ ctx[t] = EmptyContext /\ written[t] = 0 /\ fetch[t] = NoFetch
        /\ clock \in Nat
    BY <1>8, LimitsAssumption DEF PipelineInit
  <2>2. Progress(t) /\ Gated(t)
    BY <2>1 DEF Progress, Gated, EmptyContext
  <2>3. Grounds(t)
    BY <2>1, NoDecisions DEF Grounds, EmptyContext, NoSnapshot
  <2>4. Fetching(t)
    BY <2>1, LimitsAssumption DEF Fetching, NoFetch
  <2> QED
    BY <2>2, <2>3, <2>4 DEF TaskInv
<1> QED
  BY <1>1, <1>2, <1>3, <1>5, <1>6, <1>7, <1>8 DEF PipelineInv, AllStarted

\* A step of one task leaves the others as they are.
LEMMA OneTask ==
  ASSUME PipelineInv, NEW t \in Tasks,
         UNCHANGED << registryVars, settingVars, clock, trainer >>,
         WorkerInv', TaskTypes', BarsInv', TaskInv(t)',
         \A c \in Candles : bars[c] # "none" => bars'[c] # "none",
         \A u \in Tasks \ {t} : /\ at'[u] = at[u] /\ fetch'[u] = fetch[u]
                                /\ ctx'[u] = ctx[u] /\ written'[u] = written[u]
  PROVE  PipelineInv'
<1>1. RegistryInv' /\ AllStarted'
  BY RegistryStepKeeps DEF PipelineInv, registryVars, AllStarted, sortVars
<1>2. TrainerInv'
  <2>1. \A c \in trainer.top - trainer.stored + 1 .. trainer.top : c \in Candles
    BY LimitsAssumption DEF PipelineInv, TrainerInv, Candles
  <2> QED
    BY <2>1 DEF PipelineInv, TrainerInv
<1>3. Steps' = Steps
  BY DEF Steps, Listed, registryVars, sortVars
<1>4. ASSUME NEW u \in Tasks \ {t} PROVE TaskInv(u)'
  <2>1. /\ at'[u] = at[u] /\ fetch'[u] = fetch[u] /\ ctx'[u] = ctx[u] /\ written'[u] = written[u]
        /\ app' = app /\ live' = live /\ clock' = clock /\ TaskInv(u)
    BY <1>4 DEF PipelineInv, registryVars, settingVars
  <2>2. Progress(u)' /\ Gated(u)'
    BY <1>3, <2>1 DEF TaskInv, Progress, Gated
  <2>3. Grounds(u)' /\ Fetching(u)'
    BY <1>3, <2>1 DEF TaskInv, Grounds, Fetching
  <2> QED
    BY <2>2, <2>3 DEF TaskInv
<1> QED
  BY <1>1, <1>2, <1>4 DEF PipelineInv

-----------------------------------------------------------------------------
(* The steps of a task.                                                      *)

\* A transaction that has ended leaves a task without a message.
LEMMA FinishKeeps ==
  ASSUME PipelineInv, NEW t \in Tasks, Finish(t),
         UNCHANGED << registryVars, settingVars, clock, cache, trainer >>,
         faults' \in 0 .. MaxFaults, BarsInv',
         \A c \in Candles : bars[c] # "none" => bars'[c] # "none"
  PROVE  PipelineInv'
<1>1. TaskTypes /\ WorkerInv /\ Retries \in Nat
  BY LimitsAssumption DEF PipelineInv
<1>2. EmptyContext \in ContextType
  BY NoDecisions, LimitsAssumption DEF EmptyContext, NoSnapshot, ContextType, Kinds, Candles
<1>3. NoFetch \in [asked : Nat, failed : Nat] /\ 0 \in Candles
  BY LimitsAssumption DEF NoFetch, Candles
<1>4. /\ at' = [at EXCEPT ![t] = 0] /\ fetch' = [fetch EXCEPT ![t] = NoFetch]
      /\ ctx' = [ctx EXCEPT ![t] = EmptyContext] /\ written' = [written EXCEPT ![t] = 0]
  BY DEF Finish
<1>5. TaskTypes'
  BY <1>1, <1>2, <1>3, <1>4 DEF TaskTypes
<1>6. /\ at'[t] = 0 /\ fetch'[t] = NoFetch /\ ctx'[t] = EmptyContext /\ written'[t] = 0
      /\ \A u \in Tasks \ {t} : /\ at'[u] = at[u] /\ fetch'[u] = fetch[u]
                                /\ ctx'[u] = ctx[u] /\ written'[u] = written[u]
  BY <1>1, <1>4 DEF TaskTypes
<1>7. WorkerInv'
  BY <1>1 DEF WorkerInv, settingVars
<1>8. Progress(t)' /\ Gated(t)'
  BY <1>6 DEF Progress, Gated, EmptyContext
<1>9. Grounds(t)'
  BY <1>6, NoDecisions DEF Grounds, EmptyContext, NoSnapshot
<1>10. Fetching(t)'
  BY <1>1, <1>6, <1>7 DEF Fetching, NoFetch, WorkerInv
<1>11. TaskInv(t)'
  BY <1>8, <1>9, <1>10 DEF TaskInv
<1> QED
  BY <1>5, <1>6, <1>7, <1>11, OneTask

\* A task that advances reaches its next step or the commit.
LEMMA AdvanceFacts ==
  ASSUME PipelineInv, NEW t \in Tasks, Advance(t), at[t] # Done
  PROVE  /\ at' = [at EXCEPT ![t] = NextStep(at[t])] /\ at' \in [Tasks -> {0} \cup Times]
         /\ at'[t] = NextStep(at[t]) /\ at'[t] > at[t] /\ at[t] >= 0
         /\ at'[t] \in {0, Done} \cup {StepOrder[s] : s \in Steps}
         /\ \A s \in Steps : StepOrder[s] > at[t] => at'[t] <= StepOrder[s]
<1>1. at \in [Tasks -> {0} \cup Times]
  BY DEF PipelineInv, TaskTypes
<1>2. at[t] \in {0} \cup (Times \ {Done}) /\ at[t] >= 0
  BY <1>1 DEF Times, Done
<1>3. at' = [at EXCEPT ![t] = NextStep(at[t])]
  BY DEF Advance
<1> QED
  BY <1>1, <1>2, <1>3, NextStepFacts

\* The stages of a task that advances and keeps its context.
LEMMA PlainAdvance ==
  ASSUME PipelineInv, NEW t \in Tasks, Advance(t), app = "running", at[t] # Done,
         at[t] = 10 => "market_snapshot" \notin Steps,
         at[t] = 20 => "signal_evaluate" \notin Steps,
         at[t] >= 15 \/ written'[t] = written[t],
         UNCHANGED << registryVars, ctx >>
  PROVE  Progress(t)' /\ Gated(t)'
<1>1. /\ at'[t] > at[t] /\ at[t] >= 0 /\ at'[t] \in {0} \cup Times /\ at[t] \in {0} \cup Times
      /\ at'[t] \in {0, Done} \cup {StepOrder[s] : s \in Steps}
      /\ \A s \in Steps : StepOrder[s] > at[t] => at'[t] <= StepOrder[s]
  BY AdvanceFacts DEF PipelineInv, TaskTypes
<1>2. Steps' = Steps /\ app' = app /\ ctx'[t] = ctx[t]
  BY DEF Steps, Listed, registryVars, sortVars
<1>3. Progress(t) /\ Gated(t)
  BY DEF PipelineInv, TaskInv
<1>4. StepOrder["market_snapshot"] = 10 /\ StepOrder["signal_evaluate"] = 20
  BY DEF StepOrder
<1>5. Gated(t)'
  BY <1>1, <1>2, <1>3 DEF Gated, Times, Done
<1>6. at'[t] > 10 /\ "market_snapshot" \in Steps => at[t] > 10
  BY <1>1, <1>4 DEF Times, Done
<1>7. at'[t] > 20 /\ "signal_evaluate" \in Steps => at[t] > 20
  BY <1>1, <1>4 DEF Times, Done
<1>8. (at'[t] <= 20 => at[t] <= 20) /\ (at'[t] <= 15 => at[t] < 15)
  BY <1>1 DEF Times, Done
<1>9. at'[t] <= 15 => written'[t] = 0
  BY <1>1, <1>3, <1>8 DEF Progress, Times, Done
<1> QED
  BY <1>1, <1>2, <1>3, <1>5, <1>6, <1>7, <1>8, <1>9 DEF Progress

\* A task in a step belongs to a process that runs.
LEMMA InAStep ==
  ASSUME PipelineInv, NEW t \in Tasks, NEW s \in Steps, In(t, s)
  PROVE  at[t] = StepOrder[s] /\ at[t] # Done /\ at[t] > 0 /\ app = "running"
<1>1. at[t] = StepOrder[s] /\ StepOrder[s] \in Times \ {Done}
  BY StepTimes DEF In
<1>2. at[t] > 0
  BY <1>1 DEF Times, Done
<1> QED
  BY <1>1, <1>2 DEF PipelineInv, TaskInv, Progress

LEMMA BeginKeeps == ASSUME PipelineInv, NEW t \in Tasks, Begin(t) PROVE PipelineInv'
<1>1. /\ app = "running" /\ at[t] = 0 /\ Advance(t) /\ at[t] # Done
      /\ UNCHANGED << registryVars, settingVars, clock, cache, bars, fetch, ctx, written, trainer, faults >>
  BY DEF Begin, Done
<1>2. Progress(t)' /\ Gated(t)'
  BY <1>1, PlainAdvance
<1>3. Steps' = Steps
  BY <1>1 DEF Steps, Listed, registryVars, sortVars
<1>4. TaskInv(t)'
  BY <1>1, <1>2, <1>3 DEF PipelineInv, TaskInv, Grounds, Fetching, settingVars
<1>5. /\ at' \in [Tasks -> {0} \cup Times] /\ at' = [at EXCEPT ![t] = NextStep(at[t])]
  BY <1>1, AdvanceFacts
<1>6. TaskTypes' /\ WorkerInv' /\ BarsInv'
  BY <1>1, <1>5 DEF PipelineInv, TaskTypes, WorkerInv, BarsInv, settingVars
<1>7. \A u \in Tasks \ {t} : at'[u] = at[u]
  BY <1>5 DEF PipelineInv, TaskTypes
<1> QED
  BY <1>1, <1>4, <1>6, <1>7, OneTask

\* Whatever snapshot a task gets, it has no decision yet.
LEMMA SnapshotKeeps ==
  ASSUME PipelineInv, NEW t \in Tasks, In(t, "market_snapshot"),
         NEW kind \in Kinds \ {"none"}, NEW top \in Candles,
         kind = "synthetic" => ~live, kind = "real" => top > 0,
         SetSnapshot(t, kind, top),
         UNCHANGED << registryVars, settingVars, clock, bars, written, trainer, faults >>,
         cache' \in [filled : Nat, top : 0 .. clock]
  PROVE  PipelineInv'
<1>1. /\ "market_snapshot" \in Steps /\ at[t] = 10 /\ at[t] # Done /\ app = "running"
  BY InAStep DEF In, StepOrder
<1>2. /\ Advance(t) /\ fetch' = [fetch EXCEPT ![t] = NoFetch]
      /\ ctx' = [ctx EXCEPT ![t].snapshot = [kind |-> kind, top |-> top]]
  BY DEF SetSnapshot
<1>3. TaskTypes /\ TaskInv(t) /\ WorkerInv /\ BarsInv /\ Retries \in Nat
  BY LimitsAssumption DEF PipelineInv
<1>4. /\ at'[t] > 10 /\ at' \in [Tasks -> {0} \cup Times] /\ at' = [at EXCEPT ![t] = NextStep(at[t])]
      /\ at'[t] \in {0, Done} \cup {StepOrder[s] : s \in Steps}
      /\ \A s \in Steps : StepOrder[s] > 10 => at'[t] <= StepOrder[s]
  BY <1>1, <1>2, AdvanceFacts
<1>5. /\ ctx[t].rule = NoDecision /\ ctx[t].signal = NoDecision /\ ctx[t].approved = NoDecision
      /\ ctx[t].order = NoDecision /\ 0 \notin ctx[t].mlBars /\ written[t] = 0
  BY <1>1, <1>3 DEF TaskInv, Progress, Gated, Grounds
<1>6. TaskTypes'
  BY <1>2, <1>3, <1>4 DEF TaskTypes, ContextType, NoFetch
<1>7. /\ ctx'[t].snapshot = [kind |-> kind, top |-> top] /\ fetch'[t] = NoFetch /\ written'[t] = 0
      /\ ctx'[t].rule = NoDecision /\ ctx'[t].signal = NoDecision
      /\ ctx'[t].approved = NoDecision /\ ctx'[t].order = NoDecision /\ 0 \notin ctx'[t].mlBars
  BY <1>2, <1>3, <1>5 DEF TaskTypes, ContextType
<1>8. Steps' = Steps /\ app' = app
  BY DEF Steps, Listed, registryVars, sortVars
<1>9. "signal_evaluate" \in Steps => at'[t] <= 20
  BY <1>4 DEF StepOrder
<1>10. Progress(t)'
  <2>1. at'[t] \in {0} \cup Times
    BY <1>4
  <2> QED
    BY <1>1, <1>4, <1>7, <1>8, <1>9, <2>1 DEF Progress, Times, Done
<1>11. Gated(t)'
  BY <1>7 DEF Gated
<1>12. Grounds(t)'
  BY <1>7, NoDecisions DEF Grounds, settingVars
<1>13. Fetching(t)'
  BY <1>3, <1>7 DEF Fetching, NoFetch, WorkerInv
<1>14. WorkerInv' /\ BarsInv'
  BY <1>3 DEF WorkerInv, BarsInv, settingVars
<1>15. \A u \in Tasks \ {t} : at'[u] = at[u] /\ fetch'[u] = fetch[u] /\ ctx'[u] = ctx[u]
  BY <1>2, <1>3, <1>4 DEF TaskTypes
<1> QED
  BY <1>6, <1>10, <1>11, <1>12, <1>13, <1>14, <1>15, OneTask DEF TaskInv

\* A candle of the exchange is one of the model's.
LEMMA TopIsCandle == ASSUME PipelineInv, NEW top \in 0 .. clock PROVE top \in Candles
BY LimitsAssumption DEF PipelineInv, WorkerInv, Candles

LEMMA CacheHitKeeps == ASSUME PipelineInv, NEW t \in Tasks, CacheHit(t) PROVE PipelineInv'
<1>1. cache \in [filled : Nat, top : 0 .. clock] /\ cache.top \in 0 .. clock /\ clock \in Nat
  BY LimitsAssumption DEF PipelineInv, WorkerInv
<1>2. cache.top \in Candles
  BY <1>1, TopIsCandle
<1>3. CASE cache.top = 0
  <2>1. SetSnapshot(t, "flat", cache.top)
    BY <1>3 DEF CacheHit
  <2> QED
    BY <1>1, <1>2, <2>1, SnapshotKeeps DEF CacheHit, Kinds
<1>4. CASE cache.top # 0
  <2>1. SetSnapshot(t, "real", cache.top) /\ cache.top > 0
    BY <1>1, <1>4 DEF CacheHit
  <2> QED
    BY <1>1, <1>2, <2>1, SnapshotKeeps DEF CacheHit, Kinds
<1> QED
  BY <1>3, <1>4

LEMMA ExchangeAnswersKeeps ==
  ASSUME PipelineInv, NEW t \in Tasks, ExchangeAnswers(t) PROVE PipelineInv'
<1>1. fetch[t].asked \in Nat /\ clock \in Nat
  BY LimitsAssumption DEF PipelineInv, TaskTypes, WorkerInv
<1>2. PICK top \in {0} \cup fetch[t].asked .. clock :
        /\ cache' = [filled |-> clock, top |-> top]
        /\ SetSnapshot(t, IF top = 0 THEN "flat" ELSE "real", top)
  BY DEF ExchangeAnswers
<1>3. top \in 0 .. clock /\ cache' \in [filled : Nat, top : 0 .. clock]
  BY <1>1, <1>2
<1>4. top \in Candles
  BY <1>3, TopIsCandle
<1>5. CASE top = 0
  BY <1>2, <1>3, <1>4, <1>5, SnapshotKeeps DEF ExchangeAnswers, Kinds
<1>6. CASE top # 0
  <2>1. SetSnapshot(t, "real", top) /\ top > 0
    BY <1>1, <1>2, <1>3, <1>6
  <2> QED
    BY <1>3, <1>4, <2>1, SnapshotKeeps DEF ExchangeAnswers, Kinds
<1> QED
  BY <1>5, <1>6

\* A call changes nothing but what is known of the call.
LEMMA CallKeeps ==
  ASSUME PipelineInv, NEW t \in Tasks, In(t, "market_snapshot"), CallExchange(t) \/ ExchangeFails(t)
  PROVE  PipelineInv'
<1>1. TaskTypes /\ TaskInv(t) /\ WorkerInv /\ BarsInv /\ Retries \in Nat /\ clock \in Nat
  BY LimitsAssumption DEF PipelineInv, WorkerInv
<1>2. /\ UNCHANGED << registryVars, settingVars, clock, cache, bars, at, ctx, written, trainer >>
      /\ faults' \in 0 .. MaxFaults
      /\ fetch[t].asked \in Nat /\ fetch[t].failed \in Nat
  BY <1>1, LimitsAssumption DEF CallExchange, ExchangeFails, WorkerInv, TaskTypes
<1>3. /\ fetch' \in [Tasks -> [asked : Nat, failed : Nat]]
      /\ \A u \in Tasks \ {t} : fetch'[u] = fetch[u]
      /\ fetch'[t].asked <= clock /\ fetch'[t].failed <= Retries + 1
      /\ fetch'[t].asked > 0 => fetch'[t].failed <= Retries
  <2>1. CASE CallExchange(t)
    BY <1>1, <1>2, <2>1 DEF CallExchange, TaskTypes, TaskInv, Fetching
  <2>2. CASE ExchangeFails(t)
    <3>1. /\ fetch' = [fetch EXCEPT ![t] = [asked |-> 0, failed |-> fetch[t].failed + 1]]
          /\ fetch[t].failed <= Retries
      BY <1>1, <2>2 DEF ExchangeFails, TaskInv, Fetching
    <3> QED
      BY <1>1, <1>2, <3>1 DEF TaskTypes
  <2> QED
    BY <2>1, <2>2
<1>4. TaskTypes' /\ WorkerInv' /\ BarsInv'
  BY <1>1, <1>2, <1>3 DEF TaskTypes, WorkerInv, BarsInv, settingVars
<1>5. Steps' = Steps /\ app' = app
  BY <1>2 DEF Steps, Listed, registryVars, sortVars
<1>6. Progress(t)' /\ Gated(t)' /\ Grounds(t)'
  BY <1>1, <1>2, <1>5 DEF TaskInv, Progress, Gated, Grounds, settingVars
<1>7. Fetching(t)'
  BY <1>2, <1>3 DEF Fetching
<1> QED
  BY <1>2, <1>3, <1>4, <1>6, <1>7, OneTask DEF TaskInv

\* A transaction that is rolled back.
LEMMA RollbackKeeps ==
  ASSUME PipelineInv, NEW t \in Tasks, Rollback(t), faults' \in 0 .. MaxFaults
  PROVE  PipelineInv'
<1>1. /\ Finish(t) /\ UNCHANGED << registryVars, settingVars, clock, cache, bars, trainer >>
  BY DEF Rollback
<1>2. BarsInv'
  BY <1>1 DEF PipelineInv, BarsInv
<1> QED
  BY <1>1, <1>2, FinishKeeps

LEMMA FallBackKeeps == ASSUME PipelineInv, NEW t \in Tasks, FallBack(t) PROVE PipelineInv'
<1>1. faults \in 0 .. MaxFaults /\ cache \in [filled : Nat, top : 0 .. clock]
  BY DEF PipelineInv, WorkerInv
<1>2. CASE HasFallback /\ SetSnapshot(t, "synthetic", 0) /\
           UNCHANGED << registryVars, settingVars, clock, cache, bars, written, trainer, faults >>
  <2>1. 0 \in Candles
    BY LimitsAssumption DEF Candles
  <2> QED
    BY <1>1, <1>2, <2>1, SnapshotKeeps DEF FallBack, HasFallback, Kinds
<1>3. CASE Rollback(t) /\ UNCHANGED faults
  BY <1>1, <1>3, RollbackKeeps
<1> QED
  BY <1>2, <1>3 DEF FallBack

\* A step behind the snapshot: what is left to show is about the task's context.
LEMMA MoveKeeps ==
  ASSUME PipelineInv, NEW t \in Tasks, at[t] # Done, Advance(t),
         UNCHANGED << registryVars, settingVars, clock, cache, bars, fetch, trainer, faults >>,
         ctx' \in [Tasks -> ContextType], written' \in [Tasks -> Candles],
         \A u \in Tasks \ {t} : ctx'[u] = ctx[u] /\ written'[u] = written[u],
         Progress(t)', Gated(t)', Grounds(t)'
  PROVE  PipelineInv'
<1>1. TaskTypes /\ WorkerInv /\ BarsInv /\ Fetching(t)
  BY DEF PipelineInv, TaskInv
<1>2. at' \in [Tasks -> {0} \cup Times] /\ at' = [at EXCEPT ![t] = NextStep(at[t])]
  BY AdvanceFacts
<1>3. TaskTypes' /\ WorkerInv' /\ BarsInv' /\ Fetching(t)'
  BY <1>1, <1>2 DEF TaskTypes, WorkerInv, BarsInv, Fetching, settingVars
<1>4. \A u \in Tasks \ {t} : at'[u] = at[u] /\ fetch'[u] = fetch[u]
  BY <1>1, <1>2 DEF TaskTypes
<1> QED
  BY <1>3, <1>4, OneTask DEF TaskInv

\* Where a task stands after a step.
LEMMA AfterStep ==
  ASSUME PipelineInv, NEW t \in Tasks, NEW s \in Steps, In(t, s), Advance(t),
         UNCHANGED registryVars
  PROVE  /\ at[t] = StepOrder[s] /\ at[t] # Done /\ app = "running" /\ app' = app /\ Steps' = Steps
         /\ at'[t] \in {0} \cup Times /\ at'[t] > at[t]
         /\ at'[t] \in {0, Done} \cup {StepOrder[r] : r \in Steps}
         /\ \A r \in Steps : StepOrder[r] > at[t] => at'[t] <= StepOrder[r]
<1>1. at[t] = StepOrder[s] /\ at[t] # Done /\ app = "running"
  BY InAStep
<1>2. Steps' = Steps /\ app' = app
  BY DEF Steps, Listed, registryVars, sortVars
<1> QED
  BY <1>1, <1>2, AdvanceFacts

LEMMA PersistBarsKeeps ==
  ASSUME PipelineInv, NEW t \in Tasks, PersistBarsStep(t) PROVE PipelineInv'
<1> DEFINE top == PersistedTop(ctx[t].snapshot)
<1>1. /\ In(t, "bars_persist") /\ "bars_persist" \in Steps /\ Advance(t)
      /\ UNCHANGED << registryVars, settingVars, clock, cache, bars, fetch, ctx, trainer, faults >>
  BY DEF PersistBarsStep, In
<1>2. at[t] = 15 /\ at[t] # Done /\ app = "running" /\ Steps' = Steps
  BY <1>1, AfterStep DEF StepOrder
<1>3. TaskTypes /\ Grounds(t)
  BY DEF PipelineInv, TaskInv
<1>4. 0 \in Candles
  BY LimitsAssumption DEF Candles
<1>5. top \in Candles /\ (top > 0 => ctx[t].snapshot.kind = "real")
  <2>1. ctx[t].snapshot.top \in Candles
    BY <1>3 DEF TaskTypes, ContextType
  <2> QED
    BY <1>4, <2>1 DEF PersistedTop
<1>6. UNCHANGED written \/ (top > 0 /\ written' = [written EXCEPT ![t] = top])
  BY DEF PersistBarsStep
<1>7. /\ written' \in [Tasks -> Candles] /\ \A u \in Tasks \ {t} : written'[u] = written[u]
      /\ written'[t] > 0 => ctx[t].snapshot.kind = "real"
  BY <1>3, <1>5, <1>6 DEF TaskTypes, Grounds
<1>8. Progress(t)' /\ Gated(t)'
  BY <1>1, <1>2, PlainAdvance
<1>9. Grounds(t)'
  BY <1>1, <1>2, <1>3, <1>7 DEF Grounds, settingVars
<1> QED
  BY <1>1, <1>2, <1>3, <1>7, <1>8, <1>9, MoveKeeps DEF TaskTypes

LEMMA EvaluateSignalKeeps ==
  ASSUME PipelineInv, TheApplication, NEW t \in Tasks, EvaluateSignal(t) PROVE PipelineInv'
<1>1. /\ In(t, "signal_evaluate") /\ "signal_evaluate" \in Steps /\ Advance(t)
      /\ UNCHANGED << registryVars, settingVars, clock, cache, bars, fetch, written, trainer, faults >>
  BY DEF EvaluateSignal, In
<1>2. PICK action \in RuleActions(ctx[t].snapshot) :
        ctx' = [ctx EXCEPT ![t].rule = [action |-> action, by |-> "rule"],
                           ![t].signal = [action |-> action, by |-> "rule"]]
  BY DEF EvaluateSignal
<1> DEFINE rule == [action |-> action, by |-> "rule"]
<1>3. /\ at[t] = 20 /\ at[t] # Done /\ app = "running" /\ Steps' = Steps /\ app' = app
      /\ at'[t] \in {0} \cup Times /\ at'[t] > 20
      /\ at'[t] \in {0, Done} \cup {StepOrder[r] : r \in Steps}
  BY <1>1, AfterStep DEF StepOrder
<1>4. TaskTypes /\ Grounds(t) /\ Gated(t) /\ Progress(t) /\ RegistryInv /\ AllStarted
  BY DEF PipelineInv, TaskInv
<1>5. rule \in Decisions /\ rule # NoDecision /\ (ctx[t].snapshot.kind = "flat" => action = "HOLD")
  BY DecisionsAssumption DEF RuleActions, Decisions, NoDecision
<1>6. /\ ctx' \in [Tasks -> ContextType] /\ \A u \in Tasks \ {t} : ctx'[u] = ctx[u]
      /\ ctx'[t].rule = rule /\ ctx'[t].signal = rule /\ ctx'[t].snapshot = ctx[t].snapshot
      /\ ctx'[t].approved = ctx[t].approved /\ ctx'[t].order = ctx[t].order
      /\ ctx'[t].mlBars = ctx[t].mlBars
  BY <1>2, <1>4, <1>5 DEF TaskTypes, ContextType
<1>7. ctx[t].snapshot.kind # "none" /\ ctx[t].approved = NoDecision /\ ctx[t].order = NoDecision
  BY <1>1, <1>3, <1>4, EnabledSteps DEF Progress, Gated
<1>8. Progress(t)'
  BY <1>1, <1>3, <1>5, <1>6, <1>7 DEF Progress, Times, Done
<1>9. Gated(t)'
  BY <1>6, <1>7 DEF Gated
<1>10. Grounds(t)'
  BY <1>1, <1>3, <1>4, <1>5, <1>6, <1>7 DEF Grounds, settingVars
<1> QED
  BY <1>1, <1>3, <1>4, <1>6, <1>8, <1>9, <1>10, MoveKeeps DEF TaskTypes

\* The bars a task loads are rows that some snapshot or page has left.
LEMMA LoadedBars ==
  ASSUME PipelineInv, NEW t \in Tasks
  PROVE  /\ BarsSeenBy(t) \in [Candles -> {"none", "forming", "final"}]
         /\ BarsSeenBy(t)[0] = "none"
         /\ \A c \in Candles : bars[c] # "none" => BarsSeenBy(t)[c] # "none"
         /\ 0 \notin Loaded(t) /\ Loaded(t) \subseteq Candles
<1>1. BarsInv /\ Grounds(t) /\ written[t] \in Candles /\ 0 \in Candles
  BY LimitsAssumption DEF PipelineInv, TaskInv, TaskTypes, Candles
<1>2. /\ BarsSeenBy(t) \in [Candles -> {"none", "forming", "final"}]
      /\ BarsSeenBy(t)[0] = "none"
      /\ \A c \in Candles : bars[c] # "none" => BarsSeenBy(t)[c] # "none"
  <2>1. CASE written[t] = 0
    BY <1>1, <2>1 DEF BarsSeenBy, BarsInv
  <2>2. CASE written[t] # 0
    <3>1. RowsOf(t) = Window(written[t], BarLimit)
      BY <1>1, <2>2 DEF RowsOf, Grounds, Candles
    <3>2. 0 \notin RowsOf(t)
      BY <1>1, <3>1, LimitsAssumption DEF Window, AtLeast1, Candles
    <3>3. BarsSeenBy(t) = [c \in Candles |-> IF c \in RowsOf(t) THEN Says(c, written[t]) ELSE bars[c]]
      BY <2>2 DEF BarsSeenBy, Upserted
    <3> QED
      BY <1>1, <3>2, <3>3 DEF Says, BarsInv
  <2> QED
    BY <2>1, <2>2
<1> QED
  BY <1>2 DEF Loaded

LEMMA MlDecidesKeeps ==
  ASSUME PipelineInv, TheApplication, NEW t \in Tasks, MlDecides(t) PROVE PipelineInv'
<1>1. /\ In(t, "ml_signal") /\ "ml_signal" \in Steps /\ Advance(t)
      /\ UNCHANGED << registryVars, settingVars, clock, cache, bars, fetch, written, trainer, faults >>
  BY DEF MlDecides, In
<1>2. PICK action \in MlActions(Loaded(t)) :
        ctx' = [ctx EXCEPT ![t].ml = [action |-> action, by |-> "ml"], ![t].mlBars = Loaded(t),
                           ![t].signal = Combined(ctx[t].rule, [action |-> action, by |-> "ml"])]
  BY DEF MlDecides
<1> DEFINE ml == [action |-> action, by |-> "ml"]
           signal == Combined(ctx[t].rule, ml)
<1>3. /\ at[t] = 25 /\ at[t] # Done /\ app = "running" /\ Steps' = Steps /\ app' = app
      /\ at'[t] \in {0} \cup Times /\ at'[t] > 25
      /\ at'[t] \in {0, Done} \cup {StepOrder[r] : r \in Steps}
  BY <1>1, AfterStep DEF StepOrder
<1>4. TaskTypes /\ Grounds(t) /\ Gated(t) /\ Progress(t) /\ RegistryInv /\ AllStarted
  BY DEF PipelineInv, TaskInv
<1>5. "signal_evaluate" \in Steps /\ "market_snapshot" \in Steps
  BY <1>1, <1>3, <1>4, EnabledSteps
<1>6. ctx[t].rule # NoDecision /\ ctx[t].rule \in Decisions
  BY <1>3, <1>4, <1>5 DEF Progress, TaskTypes, ContextType
<1>7. ml \in Decisions /\ ml # NoDecision
  BY DecisionsAssumption DEF MlActions, Decisions, NoDecision
<1>8. /\ signal \in Decisions /\ signal # NoDecision
      /\ signal.by \in {"rule", "both"} => signal.action \in {"HOLD", ctx[t].rule.action}
  BY <1>6, <1>7, DecisionsAssumption DEF Combined, Decisions, NoDecision
<1>9. /\ ctx' \in [Tasks -> ContextType] /\ \A u \in Tasks \ {t} : ctx'[u] = ctx[u]
      /\ ctx'[t].rule = ctx[t].rule /\ ctx'[t].signal = signal
      /\ ctx'[t].snapshot = ctx[t].snapshot /\ ctx'[t].approved = ctx[t].approved
      /\ ctx'[t].order = ctx[t].order /\ 0 \notin ctx'[t].mlBars
  BY <1>2, <1>4, <1>7, <1>8, LoadedBars DEF TaskTypes, ContextType
<1>10. ctx[t].snapshot.kind # "none" /\ ctx[t].approved = NoDecision /\ ctx[t].order = NoDecision
  BY <1>3, <1>4, <1>5 DEF Progress, Gated
<1>11. Progress(t)'
  BY <1>3, <1>6, <1>8, <1>9, <1>10 DEF Progress, Times, Done
<1>12. Gated(t)'
  BY <1>9, <1>10 DEF Gated
<1>13. Grounds(t)'
  BY <1>1, <1>3, <1>4, <1>8, <1>9, <1>10 DEF Grounds, settingVars
<1> QED
  BY <1>1, <1>3, <1>4, <1>9, <1>11, <1>12, <1>13, MoveKeeps DEF TaskTypes

LEMMA NoModelKeeps == ASSUME PipelineInv, NEW t \in Tasks, NoModel(t) PROVE PipelineInv'
<1>1. /\ In(t, "ml_signal") /\ "ml_signal" \in Steps /\ Advance(t)
      /\ UNCHANGED << registryVars, settingVars, clock, cache, bars, fetch, ctx, written, trainer, faults >>
  BY DEF NoModel, In
<1>2. at[t] = 25 /\ at[t] # Done /\ app = "running" /\ Steps' = Steps
  BY <1>1, AfterStep DEF StepOrder
<1>3. TaskTypes /\ Grounds(t)
  BY DEF PipelineInv, TaskInv
<1>4. Progress(t)' /\ Gated(t)'
  BY <1>1, <1>2, PlainAdvance
<1>5. Grounds(t)'
  BY <1>1, <1>2, <1>3 DEF Grounds, settingVars
<1> QED
  BY <1>1, <1>2, <1>3, <1>4, <1>5, MoveKeeps DEF TaskTypes

\* The gate and the execution change neither the signal nor what it rests on.
LEMMA GateOrOrder ==
  ASSUME PipelineInv, NEW t \in Tasks, NEW s \in {"risk_gate", "execute_order"}, In(t, s), Advance(t),
         UNCHANGED << registryVars, settingVars, clock, cache, bars, fetch, written, trainer, faults >>,
         NEW c \in ContextType, ctx' = [ctx EXCEPT ![t] = c],
         c.snapshot = ctx[t].snapshot, c.rule = ctx[t].rule, c.signal = ctx[t].signal,
         c.mlBars = ctx[t].mlBars,
         c.approved # NoDecision => c.approved = c.signal /\ c.signal.action \notin {"none", "HOLD"},
         c.order # NoDecision => c.order = c.approved /\ s = "execute_order"
  PROVE  PipelineInv'
<1>1. s \in Steps /\ StepOrder[s] \in {30, 40} /\ (s = "execute_order" => StepOrder[s] = 40)
  BY DEF In, StepOrder
<1>2. /\ at[t] = StepOrder[s] /\ at[t] # Done /\ app = "running" /\ Steps' = Steps /\ app' = app
      /\ at'[t] \in {0} \cup Times /\ at'[t] > at[t]
      /\ at'[t] \in {0, Done} \cup {StepOrder[r] : r \in Steps}
  BY <1>1, AfterStep
<1>3. TaskTypes /\ Grounds(t) /\ Progress(t)
  BY DEF PipelineInv, TaskInv
<1>4. /\ ctx' \in [Tasks -> ContextType] /\ ctx'[t] = c
      /\ \A u \in Tasks \ {t} : ctx'[u] = ctx[u]
  BY <1>3 DEF TaskTypes
<1>5. at'[t] > 30 /\ (s = "execute_order" => at'[t] > 40) /\ at[t] > 20
  BY <1>1, <1>2 DEF Times, Done
<1>6. Progress(t)'
  BY <1>1, <1>2, <1>3, <1>4, <1>5 DEF Progress, Times, Done
<1>7. Gated(t)'
  BY <1>4, <1>5 DEF Gated
<1>8. Grounds(t)'
  BY <1>2, <1>3, <1>4 DEF Grounds, settingVars
<1> QED
  BY <1>2, <1>3, <1>4, <1>6, <1>7, <1>8, MoveKeeps DEF TaskTypes

LEMMA RiskGateKeeps == ASSUME PipelineInv, NEW t \in Tasks, RiskGate(t) PROVE PipelineInv'
<1>1. /\ In(t, "risk_gate") /\ "risk_gate" \in Steps /\ Advance(t)
      /\ UNCHANGED << registryVars, settingVars, clock, cache, bars, fetch, written, trainer, faults >>
  BY DEF RiskGate, In
<1>2. at[t] = 30
  BY <1>1, AfterStep DEF StepOrder
<1>3. /\ ctx \in [Tasks -> ContextType] /\ ctx[t] \in ContextType
      /\ ctx[t].approved = NoDecision /\ ctx[t].order = NoDecision
  BY <1>2 DEF PipelineInv, TaskTypes, TaskInv, Gated
<1>4. CASE /\ ctx[t].signal.action \notin {"none", "HOLD"}
           /\ ctx' = [ctx EXCEPT ![t].approved = ctx[t].signal]
  <2> DEFINE c == [ctx[t] EXCEPT !.approved = ctx[t].signal]
  <2>1. /\ c \in ContextType /\ c.snapshot = ctx[t].snapshot /\ c.rule = ctx[t].rule
        /\ c.signal = ctx[t].signal /\ c.mlBars = ctx[t].mlBars /\ c.order = NoDecision
        /\ c.approved = ctx[t].signal
    BY <1>3 DEF ContextType
  <2>2. ctx' = [ctx EXCEPT ![t] = c]
    BY <1>3, <1>4
  <2> QED
    BY <1>1, <1>4, <2>1, <2>2, GateOrOrder
<1>5. CASE UNCHANGED ctx
  <2>1. ctx' = [ctx EXCEPT ![t] = ctx[t]]
    BY <1>3, <1>5
  <2> QED
    BY <1>1, <1>3, <2>1, GateOrOrder
<1> QED
  BY <1>4, <1>5 DEF RiskGate

LEMMA ExecuteOrderKeeps == ASSUME PipelineInv, NEW t \in Tasks, ExecuteOrder(t) PROVE PipelineInv'
<1> DEFINE order == IF ctx[t].signal.action \in {"none", "HOLD"} THEN NoDecision ELSE ctx[t].signal
           c == [ctx[t] EXCEPT !.order = order]
<1>1. /\ In(t, "execute_order") /\ "execute_order" \in Steps /\ Advance(t)
      /\ ctx[t].approved # NoDecision
      /\ ctx' = [ctx EXCEPT ![t].order = order]
      /\ UNCHANGED << registryVars, settingVars, clock, cache, bars, fetch, written, trainer, faults >>
  BY DEF ExecuteOrder, In
<1>2. /\ ctx \in [Tasks -> ContextType] /\ ctx[t] \in ContextType
      /\ ctx[t].approved = ctx[t].signal /\ ctx[t].signal.action \notin {"none", "HOLD"}
  BY <1>1 DEF PipelineInv, TaskTypes, TaskInv, Gated
<1>3. order \in Decisions
  BY <1>2, NoDecisions DEF ContextType
<1>4. /\ c \in ContextType /\ c.snapshot = ctx[t].snapshot /\ c.rule = ctx[t].rule
      /\ c.signal = ctx[t].signal /\ c.mlBars = ctx[t].mlBars /\ c.order = order
      /\ c.approved = ctx[t].approved
  BY <1>2, <1>3 DEF ContextType
<1>5. ctx' = [ctx EXCEPT ![t] = c]
  BY <1>1, <1>2
<1>6. /\ c.approved # NoDecision => c.approved = c.signal /\ c.signal.action \notin {"none", "HOLD"}
      /\ c.order # NoDecision => c.order = c.approved
  BY <1>2, <1>4
<1> HIDE DEF c, order
<1> QED
  BY <1>1, <1>4, <1>5, <1>6, GateOrOrder

LEMMA EndKeeps ==
  ASSUME PipelineInv, NEW t \in Tasks, StepFails(t) \/ Rejected(t) \/ Commit(t)
  PROVE  PipelineInv'
<1>1. faults \in 0 .. MaxFaults /\ MaxFaults \in Nat /\ BarsInv
  BY LimitsAssumption DEF PipelineInv, WorkerInv
<1>2. CASE StepFails(t) \/ Rejected(t)
  <2>1. Rollback(t) /\ faults' \in 0 .. MaxFaults
    BY <1>1, <1>2 DEF StepFails, Rejected
  <2> QED
    BY <2>1, RollbackKeeps
<1>3. CASE Commit(t)
  <2>1. BarsInv' /\ \A c \in Candles : bars[c] # "none" => bars'[c] # "none"
    BY <1>1, <1>3, LoadedBars DEF Commit, BarsInv
  <2> QED
    BY <1>1, <1>3, <2>1, FinishKeeps DEF Commit
<1> QED
  BY <1>2, <1>3

LEMMA StepKeeps == ASSUME PipelineInv, TheApplication, NEW t \in Tasks, Step(t) PROVE PipelineInv'
<1>1. CallExchange(t) \/ ExchangeFails(t) => In(t, "market_snapshot")
  BY DEF CallExchange, ExchangeFails
<1> QED
  BY <1>1, BeginKeeps, EndKeeps, CacheHitKeeps, CallKeeps, ExchangeAnswersKeeps, FallBackKeeps,
     PersistBarsKeeps, EvaluateSignalKeeps, MlDecidesKeeps, NoModelKeeps, RiskGateKeeps,
     ExecuteOrderKeeps DEF Step

-----------------------------------------------------------------------------
(* The process, the trainer and the clock.                                   *)

\* Starting and stopping the process: no task has a message unless it runs.
LEMMA BootOrStopKeeps == ASSUME PipelineInv, BootOrStop PROVE PipelineInv'
<1>1. RegistryInv'
  BY RegistryStepKeeps DEF PipelineInv, BootOrStop
<1>2. AllStarted'
  <2>1. CASE app = "starting" /\ StartModule
    BY <2>1 DEF StartModule, AllStarted, PipelineInv, RegistryInv, RegistryTypeOK, sortVars
  <2>2. CASE ~StartModule
    BY <2>2 DEF BootOrStop, Boot, ShutDown, Validate, Refuse, PopModule, FinishSort, StartModule,
       StartFails, BeginShutdown, StopModule, StopFails, AllStarted, PipelineInv, RegistryInv
  <2> QED
    BY <2>1, <2>2 DEF StartModule
<1>3. UNCHANGED << settingVars, clock, cache, bars, trainer, faults >>
  BY DEF BootOrStop
<1>4. WorkerInv' /\ BarsInv' /\ TrainerInv'
  BY <1>3 DEF PipelineInv, WorkerInv, BarsInv, TrainerInv, settingVars
<1>5. CASE app' = "stopping"
  <2>1. /\ at' = [t \in Tasks |-> 0] /\ fetch' = [t \in Tasks |-> NoFetch]
        /\ ctx' = [t \in Tasks |-> EmptyContext] /\ written' = [t \in Tasks |-> 0]
    BY <1>5 DEF BootOrStop
  <2>2. EmptyContext \in ContextType
    BY NoDecisions, LimitsAssumption DEF EmptyContext, NoSnapshot, ContextType, Kinds, Candles
  <2>3. TaskTypes'
    BY <2>1, <2>2, LimitsAssumption DEF TaskTypes, NoFetch, Candles
  <2>4. ASSUME NEW t \in Tasks PROVE TaskInv(t)'
    <3>1. at'[t] = 0 /\ fetch'[t] = NoFetch /\ ctx'[t] = EmptyContext /\ written'[t] = 0
      BY <2>1
    <3>2. Progress(t)' /\ Gated(t)'
      BY <3>1 DEF Progress, Gated, EmptyContext
    <3>3. Grounds(t)'
      BY <3>1, NoDecisions DEF Grounds, EmptyContext, NoSnapshot
    <3>4. Fetching(t)'
      BY <1>4, <3>1, LimitsAssumption DEF Fetching, NoFetch, WorkerInv
    <3> QED
      BY <3>2, <3>3, <3>4 DEF TaskInv
  <2> QED
    BY <1>1, <1>2, <1>4, <2>3, <2>4 DEF PipelineInv
<1>6. CASE app' # "stopping"
  <2>1. UNCHANGED taskVars
    BY <1>6 DEF BootOrStop
  <2>2. app # "running"
    BY <1>6 DEF BootOrStop, Boot, ShutDown, Validate, Refuse, PopModule, FinishSort, StartModule,
       StartFails, BeginShutdown, StopModule, StopFails
  <2>3. TaskTypes'
    BY <2>1 DEF PipelineInv, TaskTypes, taskVars
  <2>4. ASSUME NEW t \in Tasks PROVE TaskInv(t)'
    <3>1. TaskInv(t) /\ at[t] \in {0} \cup Times /\ UNCHANGED << at, fetch, ctx, written, live, clock >>
      BY <1>3, <2>1 DEF PipelineInv, TaskTypes, taskVars, settingVars
    <3>2. at[t] = 0
      BY <2>2, <3>1 DEF TaskInv, Progress, Times, Done
    <3>3. ctx[t].rule = NoDecision /\ ctx[t].signal = NoDecision
      BY <3>1, <3>2 DEF TaskInv, Progress
    <3>4. Progress(t)' /\ Gated(t)'
      BY <3>1, <3>2 DEF TaskInv, Progress, Gated
    <3>5. Grounds(t)' /\ Fetching(t)'
      BY <3>1, <3>3 DEF TaskInv, Grounds, Fetching
    <3> QED
      BY <3>4, <3>5 DEF TaskInv
  <2> QED
    BY <1>1, <1>2, <1>4, <2>3, <2>4 DEF PipelineInv
<1> QED
  BY <1>5, <1>6

\* The least and the number of the candles of a window.
LEMMA WindowFacts ==
  ASSUME NEW top \in Nat \ {0}, NEW limit \in Nat \ {0}
  PROVE  LET first == AtLeast1(top - limit + 1)
         IN  /\ first \in 1 .. top /\ Window(top, limit) = first .. top
             /\ MinOf(Window(top, limit)) = first
             /\ Cardinality(Window(top, limit)) = top - first + 1
             /\ top - first + 1 <= limit
<1> DEFINE first == AtLeast1(top - limit + 1)
<1>1. first \in 1 .. top /\ top - first + 1 <= limit
  BY DEF AtLeast1
<1>2. Window(top, limit) = first .. top
  BY DEF Window
<1>3. MinOf(Window(top, limit)) = first
  BY <1>1, <1>2 DEF MinOf
<1>4. Cardinality(first .. top) = top - first + 1
  BY <1>1, FS_Interval
<1> QED
  BY <1>1, <1>2, <1>3, <1>4

\* What the trainer does leaves the worker and its tasks alone.
LEMMA TrainerOnly ==
  ASSUME PipelineInv, UNCHANGED << registryVars, settingVars, cache, taskVars >>,
         clock' \in clock .. MaxTime, faults' \in 0 .. MaxFaults, BarsInv', TrainerInv'
  PROVE  PipelineInv'
<1>1. RegistryInv' /\ AllStarted' /\ Steps' = Steps
  BY RegistryStepKeeps DEF PipelineInv, registryVars, AllStarted, sortVars, Steps, Listed
<1>2. clock \in Nat /\ clock' \in Nat /\ clock <= clock' /\ clock \in 1 .. MaxTime
  BY LimitsAssumption DEF PipelineInv, WorkerInv
<1>3. WorkerInv'
  BY <1>2, LimitsAssumption DEF PipelineInv, WorkerInv, settingVars
<1>4. TaskTypes'
  BY DEF PipelineInv, TaskTypes, taskVars
<1>5. ASSUME NEW t \in Tasks PROVE TaskInv(t)'
  <2>1. /\ TaskInv(t) /\ UNCHANGED << at, fetch, ctx, written, live, app >>
        /\ fetch[t].asked \in Nat
    BY DEF PipelineInv, TaskTypes, taskVars, settingVars, registryVars
  <2>2. Progress(t)' /\ Gated(t)' /\ Grounds(t)'
    BY <1>1, <2>1 DEF TaskInv, Progress, Gated, Grounds
  <2>3. Fetching(t)'
    BY <1>2, <2>1 DEF TaskInv, Fetching
  <2> QED
    BY <2>2, <2>3 DEF TaskInv
<1> QED
  BY <1>1, <1>3, <1>4, <1>5 DEF PipelineInv

LEMMA FetchPageKeeps == ASSUME PipelineInv, FetchPage PROVE PipelineInv'
<1>1. /\ UNCHANGED << registryVars, settingVars, clock, cache, bars, taskVars, faults >>
      /\ trainer.stage \in {"start", "paging"}
  BY DEF FetchPage
<1>2. /\ TrainerInv /\ WorkerInv /\ BarsInv /\ MaxTime \in Nat /\ Backfill \in Nat
      /\ clock \in Nat \ {0} /\ clock <= MaxTime
  BY LimitsAssumption DEF PipelineInv, WorkerInv
<1> DEFINE Fields == [stage : {"start", "paging", "fetched", "done"}, end : Nat, top : Candles,
                      stored : 0 .. Backfill]
           top == IF trainer.stage = "start" THEN clock ELSE trainer.end
<1>3. /\ trainer \in Fields /\ trainer.end \in Nat /\ trainer.stored \in Nat /\ trainer.top \in Nat
      /\ clock \in Candles
  BY <1>2 DEF TrainerInv, Candles
<1>4. CASE trainer.stored < Backfill /\ top > 0
  <2>1. trainer' = [trainer EXCEPT !.stage = "fetched", !.end = top,
                                   !.top = IF trainer.stage = "start" THEN clock ELSE trainer.top]
    BY <1>4 DEF FetchPage
  <2>2. ASSUME trainer.stage = "start" PROVE TrainerInv'
    <3>1. /\ trainer' \in Fields /\ trainer'.stage = "fetched" /\ trainer'.end = clock
          /\ trainer'.top = clock /\ trainer'.stored = 0
      BY <1>2, <1>3, <2>1, <2>2 DEF TrainerInv
    <3>2. \A c \in trainer'.top - trainer'.stored + 1 .. trainer'.top : bars'[c] # "none"
      BY <1>2, <3>1
    <3>3. trainer'.end > 0 /\ trainer'.stored < Backfill /\ trainer'.end = trainer'.top - trainer'.stored
          /\ trainer'.stored <= trainer'.top
      BY <1>2, <1>4, <2>2, <3>1 DEF TrainerInv
    <3> QED
      BY <3>1, <3>2, <3>3 DEF TrainerInv
  <2>3. ASSUME trainer.stage = "paging" PROVE TrainerInv'
    <3>1. /\ trainer' \in Fields /\ trainer'.stage = "fetched" /\ trainer'.end = trainer.end
          /\ trainer'.top = trainer.top /\ trainer'.stored = trainer.stored
      BY <1>3, <2>1, <2>3
    <3>2. trainer'.end > 0 /\ trainer'.stored < Backfill /\ trainer'.end = trainer'.top - trainer'.stored
          /\ trainer'.stored <= trainer'.top
      BY <1>2, <1>4, <2>3, <3>1 DEF TrainerInv
    <3>3. \A c \in trainer'.top - trainer'.stored + 1 .. trainer'.top : bars'[c] # "none"
      BY <1>1, <1>2, <3>1 DEF TrainerInv
    <3> QED
      BY <3>1, <3>2, <3>3 DEF TrainerInv
  <2>4. TrainerInv'
    BY <1>1, <2>2, <2>3
  <2>5. BarsInv' /\ clock' \in clock .. MaxTime /\ faults' \in 0 .. MaxFaults
    BY <1>1, <1>2 DEF BarsInv, WorkerInv
  <2> QED
    BY <1>1, <2>4, <2>5, TrainerOnly
<1>5. CASE ~(trainer.stored < Backfill /\ top > 0)
  <2>1. trainer' = [trainer EXCEPT !.stage = "done"]
    BY <1>5 DEF FetchPage
  <2>2. /\ trainer' \in Fields /\ trainer'.stage = "done"
        /\ trainer'.top = trainer.top /\ trainer'.stored = trainer.stored
    BY <1>3, <2>1
  <2>3. TrainerInv'
    BY <1>1, <1>2, <2>2 DEF TrainerInv
  <2>4. BarsInv' /\ clock' \in clock .. MaxTime /\ faults' \in 0 .. MaxFaults
    BY <1>1, <1>2 DEF BarsInv, WorkerInv
  <2> QED
    BY <1>1, <2>3, <2>4, TrainerOnly
<1> QED
  BY <1>4, <1>5

LEMMA StorePageKeeps == ASSUME PipelineInv, StorePage PROVE PipelineInv'
<1>1. /\ trainer.stage = "fetched"
      /\ bars' = [c \in Candles |-> IF c \in Page THEN Says(c, trainer.top) ELSE bars[c]]
      /\ trainer' = [trainer EXCEPT !.stage = IF Cardinality(Page) < PageSize THEN "done" ELSE "paging",
                                    !.stored = trainer.stored + Cardinality(Page), !.end = NextEnd]
      /\ UNCHANGED << registryVars, settingVars, clock, cache, taskVars, faults >>
  BY DEF StorePage
<1>2. TrainerInv /\ WorkerInv /\ BarsInv /\ MaxTime \in Nat /\ Backfill \in Nat /\ clock \in Nat
  BY LimitsAssumption DEF PipelineInv, WorkerInv
<1> DEFINE end == trainer.end
           first == AtLeast1(end - PageSize + 1)
<1>3. /\ end \in Nat \ {0} /\ trainer.stored \in Nat /\ trainer.stored < Backfill
      /\ trainer.top \in Nat /\ end = trainer.top - trainer.stored /\ trainer.top <= MaxTime
  BY <1>1, <1>2 DEF TrainerInv, Candles
<1>4. PageSize \in Nat \ {0} /\ PageSize <= Backfill - trainer.stored
  BY <1>3, LimitsAssumption DEF PageSize
<1>5. /\ first \in 1 .. end /\ Page = first .. end /\ MinOf(Page) = first
      /\ Cardinality(Page) = end - first + 1 /\ end - first + 1 <= PageSize
  BY <1>3, <1>4, WindowFacts DEF Page
<1>6. BarsInv'
  <2>1. 0 \notin Page
    BY <1>3, <1>5
  <2> QED
    BY <1>1, <1>2, <2>1 DEF BarsInv, Says, Candles
<1> HIDE DEF first
<1>7. /\ trainer'.stored = trainer.stored + (end - first + 1) /\ trainer'.end = first - 1
      /\ trainer'.top = trainer.top /\ trainer'.stage \in {"done", "paging"}
      /\ trainer' \in [stage : {"start", "paging", "fetched", "done"}, end : Nat, top : Candles,
                       stored : 0 .. Backfill]
  <2>1. trainer.stored + (end - first + 1) \in 0 .. Backfill /\ first - 1 \in Nat
    BY <1>2, <1>3, <1>4, <1>5
  <2>2. trainer' = [trainer EXCEPT !.stage = IF Cardinality(Page) < PageSize THEN "done" ELSE "paging",
                                   !.stored = trainer.stored + (end - first + 1), !.end = first - 1]
    BY <1>1, <1>5 DEF NextEnd
  <2> QED
    BY <1>2, <2>1, <2>2 DEF TrainerInv
<1>8. ASSUME NEW c \in trainer'.top - trainer'.stored + 1 .. trainer'.top PROVE bars'[c] # "none"
  <2>1. trainer'.top - trainer'.stored + 1 = first
    <3>1. first \in Nat
      BY <1>3, <1>5
    <3> QED
      BY <1>3, <1>7, <3>1
  <2>4. c \in first .. trainer.top /\ c \in Candles
    BY <1>2, <1>3, <1>5, <1>7, <1>8, <2>1 DEF Candles
  <2>2. CASE c \in Page
    BY <1>1, <2>2, <2>4 DEF Says
  <2>3. CASE c \notin Page
    <3>1. c \in trainer.top - trainer.stored + 1 .. trainer.top
      BY <1>3, <1>5, <2>3, <2>4
    <3> QED
      BY <1>1, <1>2, <2>3, <2>4, <3>1 DEF TrainerInv
  <2> QED
    BY <2>2, <2>3
<1>9. TrainerInv'
  BY <1>3, <1>5, <1>7, <1>8 DEF TrainerInv
<1> QED
  BY <1>1, <1>2, <1>6, <1>9, TrainerOnly DEF WorkerInv

LEMMA TrainerFailsKeeps == ASSUME PipelineInv, TrainerFails PROVE PipelineInv'
<1>1. TrainerInv /\ WorkerInv /\ BarsInv /\ MaxTime \in Nat /\ MaxFaults \in Nat /\ clock \in Nat
  BY LimitsAssumption DEF PipelineInv, WorkerInv
<1>2. /\ trainer' = [trainer EXCEPT !.stage = "done"] /\ faults' \in 0 .. MaxFaults
      /\ UNCHANGED << registryVars, settingVars, clock, cache, bars, taskVars >>
  BY <1>1 DEF TrainerFails, WorkerInv
<1>3. TrainerInv'
  BY <1>1, <1>2 DEF TrainerInv
<1> QED
  BY <1>1, <1>2, <1>3, TrainerOnly DEF WorkerInv, BarsInv

LEMMA TickKeeps == ASSUME PipelineInv, Tick PROVE PipelineInv'
<1>1. clock \in Nat /\ MaxTime \in Nat /\ faults \in 0 .. MaxFaults
  BY LimitsAssumption DEF PipelineInv, WorkerInv
<1>2. /\ clock' \in clock .. MaxTime
      /\ UNCHANGED << registryVars, settingVars, cache, bars, taskVars, trainer, faults >>
  BY <1>1 DEF Tick
<1>3. BarsInv' /\ TrainerInv'
  BY <1>2 DEF PipelineInv, BarsInv, TrainerInv
<1> QED
  BY <1>1, <1>2, <1>3, TrainerOnly

LEMMA NextKeeps == ASSUME PipelineInv, TheApplication, [Next]_vars PROVE PipelineInv'
<1>1. CASE Next
  BY <1>1, BootOrStopKeeps, StepKeeps, FetchPageKeeps, StorePageKeeps, TrainerFailsKeeps, TickKeeps
     DEF Next
<1>2. CASE UNCHANGED vars
  <2>1. BarsInv' /\ TrainerInv' /\ clock' \in clock .. MaxTime /\ faults' \in 0 .. MaxFaults
    BY <1>2, LimitsAssumption DEF PipelineInv, BarsInv, TrainerInv, WorkerInv, vars
  <2> QED
    BY <1>2, <2>1, TrainerOnly DEF vars
<1> QED
  BY <1>1, <1>2

-----------------------------------------------------------------------------
(* The bars a model decides on.                                              *)

LEMMA InformedWithoutContext ==
  ASSUME NEW t \in Tasks, ctx'[t] = EmptyContext
  PROVE  Informed(t)'
BY DEF Informed, EmptyContext, NoSnapshot

\* A step that changes neither the snapshot nor what the model has decided.
LEMMA InformedAdvance ==
  ASSUME PipelineInv, NEW t \in Tasks, Informed(t), Advance(t), UNCHANGED registryVars,
         at[t] # Done, at[t] = 15 => "bars_persist" \notin Steps,
         ctx'[t].snapshot = ctx[t].snapshot, ctx'[t].ml = ctx[t].ml,
         ctx'[t].mlBars = ctx[t].mlBars, written'[t] = written[t]
  PROVE  Informed(t)'
<1>1. /\ at'[t] > at[t] /\ at[t] >= 0 /\ at'[t] \in {0} \cup Times /\ at[t] \in {0} \cup Times
      /\ \A s \in Steps : StepOrder[s] > at[t] => at'[t] <= StepOrder[s]
  BY AdvanceFacts DEF PipelineInv, TaskTypes
<1>2. Steps' = Steps
  BY DEF Steps, Listed, registryVars, sortVars
<1>3. at'[t] <= 25 => at[t] <= 25
  BY <1>1 DEF Times, Done
<1>4. at'[t] > 15 /\ "bars_persist" \in Steps => at[t] > 15
  BY <1>1 DEF StepOrder, Times, Done
<1> QED
  BY <1>2, <1>3, <1>4 DEF Informed

LEMMA InformedBySnapshot ==
  ASSUME PipelineInv, NEW t \in Tasks, Informed(t), In(t, "market_snapshot"),
         NEW kind, NEW top, SetSnapshot(t, kind, top), UNCHANGED registryVars
  PROVE  Informed(t)'
<1>1. Advance(t) /\ ctx' = [ctx EXCEPT ![t].snapshot = [kind |-> kind, top |-> top]]
  BY DEF SetSnapshot
<1>2. "market_snapshot" \in Steps /\ at[t] = 10 /\ at[t] # Done
  BY InAStep DEF In, StepOrder
<1>3. Steps' = Steps
  BY DEF Steps, Listed, registryVars, sortVars
<1>4. at'[t] \in {0} \cup Times /\ ("bars_persist" \in Steps => at'[t] <= 15)
  BY <1>1, <1>2, AdvanceFacts DEF StepOrder
<1>5. ctx'[t].ml = ctx[t].ml /\ ctx[t].ml = NoDecision
  BY <1>1, <1>2 DEF Informed, PipelineInv, TaskTypes
<1> QED
  BY <1>3, <1>4, <1>5 DEF Informed, Times, Done

\* bars_persist upserts the snapshot up to its newest candle.
LEMMA InformedByPersist ==
  ASSUME PipelineInv, NEW t \in Tasks, Informed(t), PersistBarsStep(t)
  PROVE  Informed(t)'
<1>1. In(t, "bars_persist") /\ Advance(t) /\ UNCHANGED << registryVars, ctx >>
  BY DEF PersistBarsStep
<1>2. at[t] = 15 /\ Steps' = Steps /\ at'[t] \in {0} \cup Times
  BY <1>1, AfterStep DEF In, StepOrder
<1>3. ctx'[t] = ctx[t] /\ ctx[t].ml = NoDecision
  BY <1>1, <1>2 DEF Informed
<1>4. ASSUME PersistBars, ctx[t].snapshot.kind = "real" PROVE written'[t] = ctx[t].snapshot.top
  <2>1. PersistedTop(ctx[t].snapshot) = ctx[t].snapshot.top /\ ctx[t].snapshot.top > 0
    BY <1>4 DEF PersistedTop, PipelineInv, TaskInv, Grounds
  <2> QED
    BY <1>4, <2>1 DEF PersistBarsStep, PipelineInv, TaskTypes
<1> QED
  BY <1>2, <1>3, <1>4 DEF Informed

\* The newest rows a task loads hold the newest of all it sees.
LEMMA LoadedReachesTop ==
  ASSUME PipelineInv, InferenceBars > 0, NEW t \in Tasks,
         ctx[t].snapshot.kind = "real", written[t] = ctx[t].snapshot.top
  PROVE  \E c \in Loaded(t) : c >= ctx[t].snapshot.top
<1> DEFINE top == ctx[t].snapshot.top
           rows == {c \in Candles : BarsSeenBy(t)[c] # "none"}
<1>1. top \in Candles /\ top > 0 /\ top \in Nat /\ InferenceBars \in Nat /\ BarLimit \in Nat \ {0}
  BY LimitsAssumption DEF PipelineInv, TaskTypes, ContextType, TaskInv, Grounds, Candles
<1>2. top \in rows
  <2>1. top \in RowsOf(t)
    BY <1>1 DEF RowsOf, Window, AtLeast1
  <2>2. BarsSeenBy(t)[top] = Says(top, top)
    BY <1>1, <2>1 DEF BarsSeenBy, Upserted
  <2> QED
    BY <1>1, <2>2 DEF Says
<1>3. rows \subseteq Int /\ rows \subseteq Candles /\ IsFiniteSet(rows)
  <2>1. Candles \subseteq Int /\ IsFiniteSet(Candles)
    BY LimitsAssumption, FS_Interval DEF Candles
  <2> QED
    BY <2>1, FS_Subset
<1> HIDE DEF rows
<1>4. PICK newest \in rows : \A x \in rows : x <= newest
  BY <1>2, <1>3, Greatest
<1>5. {d \in rows : d > newest} = {}
  <2>1. newest \in Int
    BY <1>3
  <2>2. \A d \in rows : d \in Int /\ ~(d > newest)
    BY <1>3, <1>4, <2>1
  <2> QED
    BY <2>2
<1>6. Cardinality({d \in rows : d > newest}) < InferenceBars
  BY <1>1, <1>5, FS_EmptySet
<1>7. newest \in Loaded(t)
  BY <1>4, <1>6 DEF Loaded, rows
<1>8. newest >= top
  BY <1>1, <1>2, <1>3, <1>4
<1> QED
  BY <1>7, <1>8

LEMMA InformedByModel ==
  ASSUME PipelineInv, InferenceBars > 0, NEW t \in Tasks, Informed(t), MlDecides(t)
  PROVE  Informed(t)'
<1>1. In(t, "ml_signal") /\ Advance(t) /\ UNCHANGED << registryVars, written >>
  BY DEF MlDecides
<1>2. /\ at[t] = 25 /\ Steps' = Steps /\ at'[t] \in {0} \cup Times /\ at'[t] > 25
      /\ "ml_signal" \in Steps
  BY <1>1, AfterStep DEF In, StepOrder
<1>3. "bars_persist" \in Steps
  BY <1>2 DEF Steps, StepsOf
<1>4. ctx'[t].snapshot = ctx[t].snapshot /\ ctx'[t].mlBars = Loaded(t) /\ written'[t] = written[t]
  BY <1>1 DEF MlDecides, PipelineInv, TaskTypes, ContextType
<1>5. ASSUME PersistBars, ctx[t].snapshot.kind = "real" PROVE written[t] = ctx[t].snapshot.top
  BY <1>2, <1>3, <1>5 DEF Informed
<1>6. ASSUME PersistBars, ctx[t].snapshot.kind = "real"
      PROVE  \E c \in ctx'[t].mlBars : c >= ctx[t].snapshot.top
  BY <1>4, <1>5, <1>6, LoadedReachesTop
<1> QED
  BY <1>2, <1>4, <1>5, <1>6 DEF Informed, Times, Done

LEMMA InformedByStep ==
  ASSUME PipelineInv, InferenceBars > 0, NEW t \in Tasks, Informed(t), Step(t)
  PROVE  Informed(t)'
<1>1. TaskTypes
  BY DEF PipelineInv
<1>2. CASE StepFails(t) \/ Rejected(t) \/ Commit(t) \/ (FallBack(t) /\ Rollback(t))
  <2>1. Finish(t)
    BY <1>2 DEF StepFails, Rejected, Commit, FallBack, Rollback
  <2>2. ctx'[t] = EmptyContext
    BY <1>1, <2>1 DEF Finish, TaskTypes
  <2> QED
    BY <2>2, InformedWithoutContext
<1>3. CASE Begin(t)
  <2>1. /\ Advance(t) /\ at[t] = 0 /\ at[t] # Done
        /\ UNCHANGED << registryVars, ctx, written >>
    BY <1>3 DEF Begin, Done
  <2> QED
    BY <2>1, InformedAdvance
<1>4. CASE \/ CacheHit(t) \/ ExchangeAnswers(t)
           \/ FallBack(t) /\ HasFallback /\ SetSnapshot(t, "synthetic", 0) /\ UNCHANGED registryVars
  <2>1. In(t, "market_snapshot") /\ UNCHANGED registryVars
    BY <1>4 DEF CacheHit, ExchangeAnswers, FallBack
  <2>2. \E kind, top : SetSnapshot(t, kind, top)
    BY <1>4 DEF CacheHit, ExchangeAnswers, FallBack
  <2> QED
    BY <2>1, <2>2, InformedBySnapshot
<1>5. CASE CallExchange(t) \/ ExchangeFails(t)
  <2>1. UNCHANGED << registryVars, at, ctx, written >>
    BY <1>5 DEF CallExchange, ExchangeFails
  <2> QED
    BY <2>1 DEF Informed, Steps, Listed, registryVars, sortVars
<1>6. CASE EvaluateSignal(t) \/ NoModel(t) \/ RiskGate(t) \/ ExecuteOrder(t)
  <2>1. /\ Advance(t) /\ UNCHANGED << registryVars, written >>
        /\ \E s \in {"signal_evaluate", "ml_signal", "risk_gate", "execute_order"} : In(t, s)
    BY <1>6 DEF EvaluateSignal, NoModel, RiskGate, ExecuteOrder
  <2>2. at[t] # Done /\ at[t] # 15
    BY <2>1 DEF In, StepOrder, Done
  <2>3. /\ ctx'[t].snapshot = ctx[t].snapshot /\ ctx'[t].ml = ctx[t].ml
        /\ ctx'[t].mlBars = ctx[t].mlBars
    <3>1. ctx \in [Tasks -> ContextType]
      BY <1>1 DEF TaskTypes
    <3>2. CASE EvaluateSignal(t)
      BY <3>1, <3>2 DEF EvaluateSignal, ContextType
    <3>3. CASE NoModel(t)
      BY <3>3 DEF NoModel
    <3>4. CASE RiskGate(t)
      BY <3>1, <3>4 DEF RiskGate, ContextType
    <3>5. CASE ExecuteOrder(t)
      BY <3>1, <3>5 DEF ExecuteOrder, ContextType
    <3> QED
      BY <1>6, <3>2, <3>3, <3>4, <3>5
  <2> QED
    BY <2>1, <2>2, <2>3, InformedAdvance
<1>7. FallBack(t) => \/ Rollback(t)
                     \/ HasFallback /\ SetSnapshot(t, "synthetic", 0) /\ UNCHANGED registryVars
  BY DEF FallBack
<1> QED
  BY <1>2, <1>3, <1>4, <1>5, <1>6, <1>7, InformedByPersist, InformedByModel DEF Step

LEMMA InformedKeeps ==
  ASSUME PipelineInv, InferenceBars > 0, InformedInv, [Next]_vars
  PROVE  InformedInv'
<1> SUFFICES ASSUME NEW u \in Tasks PROVE Informed(u)'
  BY DEF InformedInv
<1>1. Informed(u) /\ TaskTypes
  BY DEF InformedInv, PipelineInv
<1>2. ASSUME NEW t \in Tasks, Step(t) PROVE Informed(u)'
  <2>1. CASE u = t
    BY <1>1, <1>2, <2>1, InformedByStep
  <2>2. CASE u # t
    <3>1. UNCHANGED registryVars
      BY <1>2 DEF Step, Begin, StepFails, CacheHit, CallExchange, ExchangeAnswers, ExchangeFails,
         FallBack, PersistBarsStep, EvaluateSignal, MlDecides, NoModel, RiskGate, ExecuteOrder,
         Rejected, Commit, Rollback
    <3>2. at'[u] = at[u]
      BY <1>1, <1>2, <2>2 DEF Step, Begin, StepFails, CacheHit, CallExchange, ExchangeAnswers,
         ExchangeFails, FallBack, PersistBarsStep, EvaluateSignal, MlDecides, NoModel, RiskGate,
         ExecuteOrder, Rejected, Commit, Rollback, Finish, SetSnapshot, Advance, TaskTypes
    <3>3. ctx'[u] = ctx[u]
      BY <1>1, <1>2, <2>2 DEF Step, Begin, StepFails, CacheHit, CallExchange, ExchangeAnswers,
         ExchangeFails, FallBack, PersistBarsStep, EvaluateSignal, MlDecides, NoModel, RiskGate,
         ExecuteOrder, Rejected, Commit, Rollback, Finish, SetSnapshot, TaskTypes
    <3>4. written'[u] = written[u]
      BY <1>1, <1>2, <2>2 DEF Step, Begin, StepFails, CacheHit, CallExchange, ExchangeAnswers,
         ExchangeFails, FallBack, PersistBarsStep, EvaluateSignal, MlDecides, NoModel, RiskGate,
         ExecuteOrder, Rejected, Commit, Rollback, Finish, SetSnapshot, TaskTypes
    <3> QED
      BY <1>1, <3>1, <3>2, <3>3, <3>4 DEF Informed, Steps, Listed, registryVars, sortVars
  <2> QED
    BY <2>1, <2>2
<1>3. CASE BootOrStop /\ app' = "stopping"
  BY <1>3, InformedWithoutContext DEF BootOrStop
<1>4. CASE BootOrStop /\ app' # "stopping"
  <2>1. UNCHANGED << at, ctx, written >>
    BY <1>4 DEF BootOrStop, taskVars
  <2>2. app # "running"
    BY <1>4 DEF BootOrStop, Boot, ShutDown, Validate, Refuse, PopModule, FinishSort, StartModule,
       StartFails, BeginShutdown, StopModule, StopFails
  <2>3. at[u] = 0
    BY <1>1, <2>2 DEF PipelineInv, TaskInv, Progress, TaskTypes, Times, Done
  <2> QED
    BY <1>1, <2>1, <2>3 DEF Informed
<1>5. CASE FetchPage \/ StorePage \/ TrainerFails \/ Tick \/ UNCHANGED vars
  <2>1. UNCHANGED << registryVars, at, ctx, written >>
    BY <1>5 DEF FetchPage, StorePage, TrainerFails, Tick, vars, taskVars
  <2> QED
    BY <1>1, <2>1 DEF Informed, Steps, Listed, registryVars, sortVars
<1> QED
  BY <1>2, <1>3, <1>4, <1>5 DEF Next

-----------------------------------------------------------------------------
(* The theorems.                                                             *)

\* With the dependencies of the application every reachable state satisfies the
\* invariant: what a task holds agrees with the step it is in.
THEOREM PipelineInvHolds ==
  ASSUME TheApplication
  PROVE  Spec => []PipelineInv
<1>1. PipelineInit => PipelineInv
  BY InitPipeline
<1>2. PipelineInv /\ [Next]_vars => PipelineInv'
  BY NextKeeps
<1> QED
  BY <1>1, <1>2, PTL DEF Spec

\* In every reachable state of the pipeline a module is up only while those it
\* depends on are.
THEOREM PipelineDependencies ==
  ASSUME TheApplication
  PROVE  Spec => []DependenciesAreUp
<1>1. PipelineInv => DependenciesAreUp
  BY InvGivesDependencies DEF PipelineInv
<1> QED
  BY <1>1, PipelineInvHolds, PTL

\* The pipeline is type correct.
THEOREM PipelineTypeOK ==
  ASSUME TheApplication
  PROVE  Spec => []TypeOK
<1>1. PipelineInv => TypeOK
  <2> SUFFICES ASSUME PipelineInv PROVE TypeOK
    OBVIOUS
  <2>1. /\ RegistryTypeOK /\ WorkerInv /\ TaskTypes /\ BarsInv /\ TrainerInv
        /\ \A t \in Tasks : Progress(t) /\ Fetching(t)
    BY DEF PipelineInv, RegistryInv, TaskInv
  <2>2. MaxTime \in Nat /\ Candles \subseteq Nat
    BY LimitsAssumption DEF Candles
  <2>3. clock \in Nat /\ cache \in [filled : Nat, top : Nat] /\ faults \in 0 .. MaxFaults
        /\ mode \in Modes /\ live \in LiveTrading
    BY <2>1, <2>2 DEF WorkerInv
  <2>4. at \in [Tasks -> {0, Done} \cup {StepOrder[s] : s \in Steps}]
    BY <2>1 DEF TaskTypes, Progress
  <2>5. ctx \in [Tasks -> [snapshot : [kind : Kinds, top : Nat], rule : Decisions, ml : Decisions,
                           mlBars : SUBSET Candles, signal : Decisions, approved : Decisions,
                           order : Decisions]]
    BY <2>1, <2>2 DEF TaskTypes, ContextType
  <2>6. trainer.stage \in {"start", "paging", "fetched", "done"} /\ trainer.stored \in 0 .. Backfill
    BY <2>1 DEF TrainerInv
  <2> QED
    BY <2>1, <2>3, <2>4, <2>5, <2>6 DEF TypeOK, TaskTypes, BarsInv, Fetching, Kinds
<1> QED
  BY <1>1, PipelineInvHolds, PTL

\* What is executed is the signal the gate has approved.
THEOREM ApprovedIsExecutedHolds ==
  ASSUME TheApplication
  PROVE  Spec => []ApprovedIsExecuted
<1>1. PipelineInv => ApprovedIsExecuted
  BY DEF PipelineInv, TaskInv, Gated, ApprovedIsExecuted
<1> QED
  BY <1>1, PipelineInvHolds, PTL

\* With live trading enabled no order rests on synthetic bars, whether they are in
\* the snapshot of the event or in market_bars.
THEOREM NoSyntheticTradeHolds ==
  ASSUME TheApplication
  PROVE  Spec => []NoSyntheticTrade
<1>1. PipelineInv => NoSyntheticTrade
  <2> SUFFICES ASSUME PipelineInv, NEW t \in Tasks, live, ctx[t].order # NoDecision
               PROVE  /\ ctx[t].order.by \in {"rule", "both"} => ctx[t].snapshot.kind = "real"
                      /\ ctx[t].order.by \in {"ml", "both"} => 0 \notin ctx[t].mlBars
    BY DEF NoSyntheticTrade
  <2>1. /\ Progress(t) /\ Gated(t) /\ Grounds(t) /\ RegistryInv /\ AllStarted
        /\ ctx[t] \in ContextType /\ at[t] \in {0} \cup Times
    BY DEF PipelineInv, TaskInv, TaskTypes
  <2>2. /\ at[t] > 40 /\ ctx[t].order = ctx[t].signal
        /\ ctx[t].signal.action \notin {"none", "HOLD"}
    BY <2>1 DEF Gated
  <2>3. ctx[t].signal.by \in {"rule", "both"} =>
          ctx[t].rule.action = ctx[t].signal.action /\ ctx[t].rule # NoDecision
    BY <2>1, <2>2, NoDecisions DEF Grounds
  <2> QED
    BY <2>1, <2>2, <2>3 DEF Grounds, ContextType, Kinds
<1> QED
  BY <1>1, PipelineInvHolds, PTL

\* Every step finds the modules it uses started and the part of the context it
\* reads filled in.
THEOREM StepsFindTheirInputHolds ==
  ASSUME TheApplication
  PROVE  Spec => []StepsFindTheirInput
<1>1. PipelineInv => StepsFindTheirInput
  <2> SUFFICES ASSUME PipelineInv, NEW t \in Tasks, at[t] > 0
               PROVE  /\ \A s \in Steps : Uses[s] \subseteq StartedModules
                      /\ \A s \in Steps \ {"market_snapshot"} :
                           In(t, s) => ctx[t].snapshot # NoSnapshot
                      /\ In(t, "risk_gate") => ctx[t].signal # NoDecision
    BY DEF StepsFindTheirInput
  <2>1. Progress(t) /\ RegistryInv /\ AllStarted /\ app = "running" /\ at[t] \in {0} \cup Times
    BY DEF PipelineInv, TaskInv, TaskTypes, Progress
  <2>2. \A s \in Steps : Uses[s] \subseteq StartedModules
    BY <2>1, EnabledSteps, StepsHaveTheirModules
  <2>3. ASSUME NEW s \in Steps \ {"market_snapshot"}, In(t, s) PROVE ctx[t].snapshot # NoSnapshot
    <3>1. at[t] = StepOrder[s] /\ s \in DOMAIN StepOrder /\ "market_snapshot" \in Steps
      BY <2>1, <2>3, EnabledSteps, StepNames DEF In
    <3>2. at[t] > 10
      BY <2>3, <3>1 DEF StepOrder
    <3> QED
      BY <2>1, <3>1, <3>2 DEF Progress, NoSnapshot
  <2>4. ASSUME In(t, "risk_gate") PROVE ctx[t].signal # NoDecision
    <3>1. at[t] = 30 /\ "signal_evaluate" \in Steps
      BY <2>1, <2>4, EnabledSteps DEF In, StepOrder
    <3> QED
      BY <2>1, <3>1 DEF Progress
  <2> QED
    BY <2>2, <2>3, <2>4
<1> QED
  BY <1>1, PipelineInvHolds, PTL

\* The pages of a backfill leave no hole, wherever the trainer stopped.
THEOREM BackfillContiguousHolds ==
  ASSUME TheApplication
  PROVE  Spec => []BackfillContiguous
<1>1. PipelineInv => BackfillContiguous
  BY DEF PipelineInv, TrainerInv, BackfillContiguous
<1> QED
  BY <1>1, PipelineInvHolds, PTL

\* A model decides on bars that reach to the snapshot of its own event: the rows
\* it loads are the newest, and the newest of them is not older than the snapshot
\* (ml_signal_step; with ml_inference_bars = 0 it loads none, and decides HOLD).
THEOREM DecidesOnSnapshotHolds ==
  ASSUME TheApplication, InferenceBars > 0
  PROVE  Spec => []DecidesOnSnapshot
<1>1. PipelineInit => InformedInv
  BY DEF PipelineInit, InformedInv, Informed, EmptyContext, NoSnapshot
<1>2. PipelineInv /\ InformedInv /\ [Next]_vars => InformedInv'
  BY InformedKeeps
<1>3. InformedInv => DecidesOnSnapshot
  BY DEF InformedInv, Informed, DecidesOnSnapshot
<1> QED
  BY <1>1, <1>2, <1>3, PipelineInvHolds, PTL DEF Spec
=============================================================================
