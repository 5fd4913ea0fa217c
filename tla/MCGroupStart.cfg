\* The consumer group does not exist yet.
CONSTANTS
  k1 = k1  k2 = k2  w1 = w1  w2 = w2
  Events = {1}
  Keys = {k1, k2}
  KeyOf <- OwnKeys
  Rejected = {}
  Workers = {w1}
  OutboxLimit = 2
  BatchSize = 2
  Concurrency = 1
  Retention = 1
  GroupReady = FALSE
  MaxEntries = 2
  MaxFaults = 0
  MaxTime = 0
SPECIFICATION Spec
INVARIANT NoSilentLoss
\* The system stops when every event is handled and the bounds are reached.
CHECK_DEADLOCK FALSE
