\* One client that takes what it is sent and one that may stop, a queue of two.
CONSTANTS
  c1 = c1  c2 = c2
  Clients = {c1, c2}
  Attentive = {c1}
  QueueSize = 2
  Count = 2
  MaxPublished = 4
  MaxFaults = 1
SPECIFICATION FairSpec
INVARIANTS TypeOK OnlyOldestDropped
PROPERTIES SlowClientsDoNotStall ImplementsFeed
\* The system stops when the reader is closed and the stream is full.
CHECK_DEADLOCK FALSE
