\* Nine rows after a warm-up of 64 bars, labels of up to three bars, one fold to five.
CONSTANTS
  Histories <- AllHistories
  Horizon = 3
  TakeProfit = 2
  StopLoss = 1
  FoldCounts = {1, 3, 5}
  MinTrain = 4
  MinTrades = 2
  Forecasts <- Sides
  Grid <- TwoThresholds
  LiveBars = {0, 64, 65, 68}
SPECIFICATION Spec
INVARIANTS
  TypeOK NoLabelOverlap EveryRowScoredOnce OneTradeAtATime FeaturesPrecedeLabels OnlyCompleteRows
\* Training ends.
CHECK_DEADLOCK FALSE
