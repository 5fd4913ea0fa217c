\* One worker, two events with one dedupe key, a clock and purge_history, and a
\* consumer group that the first read creates.
CONSTANTS
  k1 = k1  k2 = k2  w1 = w1  w2 = w2
  Events = {1, 2}
  Keys = {k1, k2}
  KeyOf <- SharedKey
  Rejected = {}
  Workers = {w1}
  OutboxLimit = 2
  BatchSize = 2
  Concurrency = 1
  Retention = 1
  GroupReady = FALSE
  MaxEntries = 3
  MaxFaults = 1
  MaxTime = 2
SPECIFICATION Spec
INVARIANT AtMostOnce
PROPERTY ImplementsPromise
\* The system stops when every event is handled and the bounds are reached.
CHECK_DEADLOCK FALSE
