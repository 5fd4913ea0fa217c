\* Two tasks, a trainer, four candles of which two are in a snapshot.
CONSTANTS
  t1 = t1  t2 = t2
  Modules <- AppModules
  DependsOn <- AppDependsOn
  NameRank <- ByName
  Lists <- AllLists
  Tasks = {t1, t2}
  Modes = {"primary", "confirm"}
  LiveTrading = {TRUE, FALSE}
  PersistBars = TRUE
  Actions = {"BUY", "HOLD"}
  CacheTtl = 1
  Retries = 1
  BarLimit = 2
  InferenceBars = 3
  MinBars = 2
  Backfill = 3
  PageLimit = 2
  FirstTime = 3
  MaxTime = 4
  MaxFaults = 2
SPECIFICATION Spec
SYMMETRY TaskSymmetry
INVARIANTS
  TypeOK NoSyntheticTrade ApprovedIsExecuted DecidesOnSnapshot
  BackfillContiguous StepsFindTheirInput DependenciesAreUp
\* The system stops when it is shut down or refused.
CHECK_DEADLOCK FALSE
