CONSTANTS
  Tasks = {t1}
  Nodes = {n1, n2}
  SubCoordinators = {}
  InitiallyKnown = {}
  agg = agg
  Replies = {"accepted"}
  Failing = {}
  MaxRepeats = 0
  MaxLost = 0
SPECIFICATION Spec
PROPERTY NeverBackToIncomplete
CHECK_DEADLOCK FALSE
