\* One task in shadow mode, nothing fails.
CONSTANTS
  t1 = t1  t2 = t2
  Modules <- AppModules
  DependsOn <- AppDependsOn
  NameRank <- ByName
  Lists <- DefaultList
  Tasks = {t1}
  Modes = {"shadow"}
  LiveTrading = {FALSE}
  PersistBars = TRUE
  Actions = {"BUY", "HOLD"}
  CacheTtl = 1
  Retries = 1
  BarLimit = 2
  InferenceBars = 3
  MinBars = 2
  Backfill = 3
  PageLimit = 2
  FirstTime = 3
  MaxTime = 4
  MaxFaults = 0
SPECIFICATION Spec
PROPERTY SnapshotReachesCorpus
\* The system stops when it is shut down or refused.
CHECK_DEADLOCK FALSE
