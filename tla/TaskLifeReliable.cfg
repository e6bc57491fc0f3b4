CONSTANTS
  Tasks = {t1, t2}
  Nodes = {n1, n2}
  SubCoordinators = {}
  InitiallyKnown = {n1, n2}
  agg = agg
  Replies = {"accepted"}
  Failing = {n1}
  MaxRepeats = 0
  MaxLost = 0
SPECIFICATION FairSpec
INVARIANTS BusyExactlyWhenServing ServedOnce
PROPERTIES NeverBackToIncomplete TaskCompletes
CHECK_DEADLOCK FALSE
