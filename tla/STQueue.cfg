CONSTANTS
  Keys = {k1, k2, k3, k4}
  ProtocolKeys = {k1, k2, k3}
  Priorities = {1, 2, 3, 4}
  Deadlines = {1, 2}
  Mechanisms = {"FIFO", "DDL", "DDL_CDF_NonBlock", "PRQ"}
  OrderDequeues = 2
  MaxInt64 = 3
  QueueBound = 4
SPECIFICATION MixedSpec
INVARIANTS
  TypeOK
  IndexMatchesQueues
  QueueLengthExact
  PlacedAtMostOneEarly
  FifoAmongEquals
PROPERTY ImplementsPool
