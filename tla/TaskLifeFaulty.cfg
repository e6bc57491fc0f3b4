CONSTANTS
  Tasks = {t1}
  Nodes = {n1, n2}
  SubCoordinators = {n2}
  InitiallyKnown = {}
  agg = agg
  Replies = {"accepted", "rejected"}
  Failing = {n2}
  MaxRepeats = 1
  MaxLost = 1
SPECIFICATION Spec
INVARIANTS TypeOK ResponseOnlyWhenAllDone WorkersAfterAcceptance  BusyHasCause
CHECK_DEADLOCK FALSE
