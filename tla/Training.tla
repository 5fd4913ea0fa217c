------------------------------ MODULE Training ------------------------------
(***************************************************************************)
(* Training a strategy model and deciding with it: the triple-barrier      *)
(* labels of the rows, the purged and embargoed folds, the thresholds      *)
(* chosen by a backtest on the forecasts of the folds, the final fit, and  *)
(* the decision of the saved model on the newest bar.                      *)
(*                                                                         *)
(* Prices are whole steps and the volatility is one step, so the barriers  *)
(* are TakeProfit steps above and StopLoss steps below the close of a row. *)
(* LightGBM is external: it may forecast anything.  A forecast is the side *)
(* it favours and how sure it is; a threshold, how sure it must be.        *)
(***************************************************************************)
EXTENDS Features, Sequences, Functions

CONSTANTS
  Histories,    \* the bars after the warm-up: sequences of [high, low, close]
  Horizon,      \* LabelConfig.horizon
  TakeProfit,   \* LabelConfig.take_profit_mult, in steps of one volatility
  StopLoss,     \* LabelConfig.stop_loss_mult, likewise
  FoldCounts,   \* values of TrainingConfig.n_folds to consider
  MinTrain,     \* TrainingConfig.min_train_size
  MinTrades,    \* TrainingConfig.min_trades_for_threshold
  Forecasts,    \* what a model may say of a row: [side, sure]
  Grid,         \* the thresholds select_thresholds tries, in its order
  LiveBars      \* numbers of bars the table may hold at a decision

ASSUME WidthsAssumption == Horizon \in Nat \ {0} /\ TakeProfit \in Nat \ {0} /\ StopLoss \in Nat \ {0}
ASSUME FoldsAssumption == FoldCounts \subseteq Nat \ {0} /\ MinTrain \in Nat /\ MinTrades \in Nat
ASSUME GridAssumption ==
  /\ Grid \in Seq(Nat) /\ Len(Grid) > 0
  /\ \A f \in Forecasts : f.side \in {-1, 0, 1} /\ f.sure \in Nat
ASSUME BarsAssumption ==
  /\ LiveBars \subseteq Nat
  /\ Histories \subseteq Seq([high : Int, low : Int, close : Int])
  /\ \A h \in Histories : \A i \in DOMAIN h : h[i].low <= h[i].close /\ h[i].close <= h[i].high

VARIABLES
  bars,         \* the history: bar WARMUP_BARS + i - 1 of the series is bars[i]
  data,         \* the rows of the dataset: their bars, and the bars their labels end at
  nFolds,       \* TrainingConfig.n_folds
  phase,        \* where train_strategy stands, and then the life of its model
  fold,         \* the number of the next fold
  fits,         \* what each model of a fold was fitted on and asked about
  forecast,     \* oos_probs: the forecast of each row that has one
  thresholds,   \* the thresholds chosen, 0 before
  taken,        \* the rows whose signal the backtest takes, under those
  decision      \* the decision on the newest bar

vars == << bars, data, nFolds, phase, fold, fits, forecast, thresholds, taken, decision >>

NoDecision == [row |-> -1, action |-> "none", stop_loss |-> 0, take_profit |-> 0]

\* The elements of a set of numbers, ascending, counted from 0.
Ascending(S) ==
  [i \in 0 .. Cardinality(S) - 1 |-> CHOOSE x \in S : Cardinality({y \in S : y < x}) = i]

---------------------------------------------------------------------------
(* triple_barrier_labels and build_dataset *)

NBars == WARMUP_BARS + Len(bars)
BarAt(index) == bars[index - WARMUP_BARS + 1]

Entry(index) == BarAt(index).close
HitsUp(index, step) == BarAt(step).high >= Entry(index) + TakeProfit
HitsDown(index, step) == BarAt(step).low <= Entry(index) - StopLoss

\* The bar at which the label of a row is known.
Touches(index) == {step \in index + 1 .. index + Horizon : HitsUp(index, step) \/ HitsDown(index, step)}
ExitIndex(index) == IF Touches(index) = {} THEN index + Horizon ELSE Min(Touches(index))

\* Both barriers inside one bar are the stop.
LabelOf(index) ==
  CASE Touches(index) = {} -> 0
    [] Touches(index) # {} /\ HitsDown(index, ExitIndex(index)) -> -1
    [] OTHER -> 1

\* The bars with a label and a complete row of features are the rows of the
\* dataset, counted from 0.
Labelled(index) == index + Horizon < NBars
ValidBars == {index \in WARMUP_BARS .. NBars - 1 : Labelled(index) /\ Complete(index)}
Dataset ==
  LET valid == Ascending(ValidBars)
  IN  [bar |-> valid, exit |-> [row \in DOMAIN valid |-> ExitIndex(valid[row])]]

Rows == DOMAIN data.bar
NRows == Cardinality(Rows)

\* searchsorted: the first row at or after the bar a label is known at.
ExitRow(row) == Cardinality({r \in Rows : data.bar[r] < data.exit[row]})

---------------------------------------------------------------------------
(* purged_walk_forward_splits *)

\* array_split: the first folds get the rows that are left over.
\* (Mutants of FoldSize: the rows left over are tested by no fold, or every
\* fold is as large as the first.)
FloorSize(k) == (NRows - MinTrain) \div nFolds
CeilSize(k) == (NRows - MinTrain + nFolds - 1) \div nFolds
FoldSize(k) ==
  (NRows - MinTrain) \div nFolds + (IF k < (NRows - MinTrain) % nFolds THEN 1 ELSE 0)
TestStart(k) == MinTrain + SumFunctionOnSet([i \in 0 .. nFolds - 1 |-> FoldSize(i)], 0 .. k - 1)
TestRows(k) == TestStart(k) .. TestStart(k) + FoldSize(k) - 1

\* (NoEmbargo is a mutant of Embargo.)
Purged(row, start) == ExitRow(row) >= start
NoEmbargo == 0
Embargo == Horizon

TrainRows(k) ==
  LET start == TestStart(k)
      end == start + FoldSize(k) - 1
  IN  {row \in 0 .. start - 1 : ~Purged(row, start)} \cup (end + 1 + Embargo .. NRows - 1)

---------------------------------------------------------------------------
(* positions_from_probabilities and simulate *)

Position(f, threshold) == IF f.sure >= threshold THEN f.side ELSE 0

Scored == DOMAIN forecast

\* The signals of the scored rows are counted without the rows between them.
\* (OneBarLess is a mutant of NextFree: the next signal is free while the
\* trade may still be open.)
OneBarLess(index) == index + Horizon - 1
NextFree(index) == index + Horizon
AfterSignal(run, index, threshold) ==
  LET row == Ascending(Scored)[index]
  IN  IF index < run.free \/ Position(forecast[row], threshold) = 0 THEN run
      ELSE [free |-> NextFree(index), taken |-> run.taken \cup {row}]
Simulate(threshold) ==
  LET run[n \in 0 .. Cardinality(Scored)] ==
        IF n = 0 THEN [free |-> 0, taken |-> {}] ELSE AfterSignal(run[n - 1], n - 1, threshold)
  IN  run[Cardinality(Scored)].taken

Trades(i) == Cardinality(Simulate(Grid[i]))
Enough == {i \in DOMAIN Grid : Trades(i) >= MinTrades}
MostTrades == {i \in DOMAIN Grid : \A j \in DOMAIN Grid : Trades(i) >= Trades(j)}

---------------------------------------------------------------------------
Init ==
  /\ bars \in Histories
  /\ data = [bar |-> << >>, exit |-> << >>]
  /\ nFolds \in FoldCounts
  /\ phase = "bars"
  /\ fold = 0
  /\ fits = << >>
  /\ forecast = << >>
  /\ thresholds = 0
  /\ taken = {}
  /\ decision = NoDecision

BuildDataset ==
  /\ phase = "bars"
  /\ data' = Dataset
  /\ phase' = "folds"
  /\ UNCHANGED << bars, nFolds, fold, fits, forecast, thresholds, taken, decision >>

\* InsufficientDataError before the first fold, or after folds that were all skipped.
TooFewRows ==
  /\ phase = "folds" /\ NRows < MinTrain + nFolds
  /\ phase' = "failed"
  /\ UNCHANGED << bars, data, nFolds, fold, fits, forecast, thresholds, taken, decision >>

NextFold ==
  /\ phase = "folds" /\ NRows >= MinTrain + nFolds /\ fold < nFolds
  /\ fold' = fold + 1
  /\ UNCHANGED << bars, data, nFolds, phase, thresholds, taken, decision >>

\* train_idx.size < config.min_train_size // 2
FewToTrain(k) == Cardinality(TrainRows(k)) < MinTrain \div 2

SkipFold ==
  /\ NextFold
  /\ FewToTrain(fold)
  /\ UNCHANGED << fits, forecast >>

FitFold ==
  /\ NextFold
  /\ ~FewToTrain(fold)
  /\ fits' = Append(fits, [train |-> TrainRows(fold), test |-> TestRows(fold)])
  /\ \E f \in [TestRows(fold) -> Forecasts] :
       forecast' = [row \in TestRows(fold) \cup Scored |->
                      IF row \in TestRows(fold) THEN f[row] ELSE forecast[row]]

NoFolds ==
  /\ phase = "folds" /\ fold = nFolds /\ fits = << >>
  /\ phase' = "failed"
  /\ UNCHANGED << bars, data, nFolds, fold, fits, forecast, thresholds, taken, decision >>

\* Of the thresholds with enough trades the one with the best Sharpe ratio,
\* whichever that is; without one, the first with the most trades.
SelectThresholds ==
  /\ phase = "folds" /\ fold = nFolds /\ fits # << >>
  /\ \E i \in (IF Enough # {} THEN Enough ELSE {Min(MostTrades)}) :
       /\ thresholds' = Grid[i]
       /\ taken' = Simulate(Grid[i])
  /\ phase' = "trained"
  /\ UNCHANGED << bars, data, nFolds, fold, fits, forecast, decision >>

---------------------------------------------------------------------------
(* predict_latest and decide, with stored bars in the table *)

MinBars == WARMUP_BARS + 1

\* The levels are steps from the price.
Decided(index, position) ==
  CASE position = 0 ->
         [row |-> index, action |-> "HOLD", stop_loss |-> 0, take_profit |-> 0]
    [] position > 0 ->
         [row |-> index, action |-> "BUY", stop_loss |-> - StopLoss, take_profit |-> TakeProfit]
    [] position < 0 ->
         [row |-> index, action |-> "SELL", stop_loss |-> StopLoss, take_profit |-> - TakeProfit]

\* The model is asked about the newest of the stored bars.
Predict(stored) ==
  /\ phase = "trained"
  /\ \/ /\ stored < MinBars \/ ~Partial(stored - 1)
        /\ decision' = Decided(stored - 1, 0)
     \/ /\ stored >= MinBars /\ Partial(stored - 1)
        /\ \E f \in Forecasts :
             decision' = Decided(stored - 1, Position(f, thresholds))
  /\ phase' = "decided"
  /\ UNCHANGED << bars, data, nFolds, fold, fits, forecast, thresholds, taken >>

Next ==
  \/ BuildDataset
  \/ TooFewRows
  \/ SkipFold
  \/ FitFold
  \/ NoFolds
  \/ SelectThresholds
  \/ \E stored \in LiveBars : Predict(stored)

Spec == Init /\ [][Next]_vars

---------------------------------------------------------------------------
(* Types *)

\* The report, the thresholds and the decision are there when they are due,
\* and nothing is scored or traded but rows of the dataset.
TypeOK ==
  /\ nFolds \in FoldCounts
  /\ Rows = 0 .. NRows - 1
  /\ \A row \in Rows : data.bar[row] < data.exit[row] /\ data.exit[row] < NBars
  /\ phase \in {"bars", "folds", "failed", "trained", "decided"}
  /\ fold \in 0 .. nFolds /\ Len(fits) <= fold
  /\ \A i \in DOMAIN fits : fits[i].train \subseteq Rows /\ fits[i].test \subseteq Rows
  /\ Scored \subseteq Rows /\ \A row \in Scored : forecast[row] \in Forecasts
  /\ taken \subseteq Scored
  /\ thresholds \in Range(Grid) \cup {0}
  /\ decision.action \in {"none", "HOLD", "BUY", "SELL"}
  /\ (phase = "decided") <=> (decision.action # "none")

---------------------------------------------------------------------------
(* Properties *)

\* The bars that decide the label of a row are never among those that decide
\* the label of a row its model is scored on: purging and embargo are in rows,
\* the labels in bars (training.py 117-136, 208).
LabelWindow(row) == data.bar[row] + 1 .. data.exit[row]
NoLabelOverlap ==
  \A i \in DOMAIN fits : \A r \in fits[i].train, t \in fits[i].test :
    LabelWindow(r) \cap LabelWindow(t) = {}

\* Every row after the first MinTrain is scored, and by one model, unless a
\* fold was skipped (training.py 126, 227).
EveryRowScoredOnce ==
  /\ \A i, j \in DOMAIN fits : i # j => fits[i].test \cap fits[j].test = {}
  /\ phase = "trained" /\ Len(fits) = nFolds => Scored = MinTrain .. NRows - 1

\* The backtest holds one trade at a time: no row is traded before the label
\* of the trade before it is known, also across rows that were not scored
\* (backtest.py 79-98).
OneTradeAtATime ==
  \A r, s \in taken : r < s => data.exit[r] <= data.bar[s]

\* What a model is fitted on, scored on or asked about knows no bar of its own
\* label: the features end with the bar of the row (features.py 3-5).
FeaturesPrecedeLabels ==
  /\ \A i \in DOMAIN fits : \A row \in fits[i].train \cup fits[i].test :
       NewestBarRead(data.bar[row]) \notin LabelWindow(row)
  /\ decision.action \in {"BUY", "SELL"} => NewestBarRead(decision.row) <= decision.row

\* The model is asked only about rows that are complete, as all it was fitted
\* on were, although predict_latest looks for one number in the row where
\* build_dataset wants all (model.py 136, training.py 169).
OnlyCompleteRows ==
  decision.action \in {"BUY", "SELL"} => Complete(decision.row)

---------------------------------------------------------------------------
(* The inductive invariant of the proofs in TrainingProofs *)

\* What the rest relies on of the dataset: its rows are numbered from 0, their
\* bars ascend, and the label of a row ends within the horizon and the history.
RowsInv ==
  /\ NRows \in Nat /\ Rows = 0 .. NRows - 1
  /\ \A row \in Rows :
       /\ data.bar[row] \in Int /\ data.exit[row] \in Int
       /\ data.bar[row] < data.exit[row] /\ data.exit[row] <= data.bar[row] + Horizon
       /\ data.exit[row] < NBars
  /\ \A r, s \in Rows : r < s => data.bar[r] < data.bar[s]

\* The folds so far end where the next one starts, and what is forecast is what
\* they were asked about.
FoldsInv ==
  /\ bars \in Histories /\ nFolds \in FoldCounts
  /\ fold \in 0 .. nFolds /\ (fold > 0 => NRows >= MinTrain + nFolds)
  /\ phase = "bars" => fold = 0 /\ fits = << >> /\ Scored = {}
  /\ phase = "trained" => fold = nFolds
  /\ fits \in Seq([train : SUBSET Rows, test : SUBSET Rows]) /\ Len(fits) <= fold
  /\ \A i \in DOMAIN fits : fits[i].test \subseteq MinTrain .. TestStart(fold) - 1
  /\ \A i, j \in DOMAIN fits : i # j => fits[i].test \cap fits[j].test = {}
  /\ NoLabelOverlap
  /\ Scored \subseteq Rows \cap (MinTrain .. TestStart(fold) - 1)
  /\ Len(fits) = fold => Scored = MinTrain .. TestStart(fold) - 1
  /\ \A row \in Scored : forecast[row] \in Forecasts

\* Rows that are traded are a horizon apart, in rows; so are their bars then.
Spaced(T) == \A r, s \in T : r < s => r + Horizon <= s
BacktestInv == taken \subseteq Scored /\ Spaced(taken)

DecisionInv ==
  /\ phase \in {"bars", "folds", "failed", "trained", "decided"}
  /\ thresholds \in Range(Grid) \cup {0}
  /\ phase # "decided" => decision = NoDecision
  /\ phase = "decided" => decision.action \in {"HOLD", "BUY", "SELL"}
  /\ decision.action \in {"BUY", "SELL"} => decision.row \in Int /\ decision.row >= WARMUP_BARS

Inv == RowsInv /\ FoldsInv /\ BacktestInv /\ DecisionInv
=============================================================================
