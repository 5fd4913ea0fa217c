\* As many rejected events pending as a claim takes.
CONSTANTS
  k1 = k1  k2 = k2  w1 = w1  w2 = w2
  Events = {1, 2}
  Keys = {k1, k2}
  KeyOf <- OwnKeys
  Rejected = {1}
  Workers = {w1}
  OutboxLimit = 2
  BatchSize = 1
  Concurrency = 1
  Retention = 1
  GroupReady = TRUE
  MaxEntries = 2
  MaxFaults = 1
  MaxTime = 0
SPECIFICATION FairSpec
PROPERTY PendingDrains
\* The system stops when every event is handled and the bounds are reached.
CHECK_DEADLOCK FALSE
