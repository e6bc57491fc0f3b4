CONSTANTS
  Keys = {k1, k2}
  Priorities = {1}
  Deadlines = {1}
  Mechanisms = {"FIFO", "DDL_CDF_NonBlock"}
  MaxInt64 = 3
  QueueBound = 3
SPECIFICATION AnyCallSpec
INVARIANT IndexMatchesQueues
