CONSTANTS
  Keys = {k1, k2, k3, k4}
  Priorities = {1, 2, 3, 4}
  Deadlines = {0}
  Mechanisms = {"PRQ"}
  MaxInt64 = 1
  QueueBound = 4
SPECIFICATION Spec
INVARIANT MainQueueSorted
