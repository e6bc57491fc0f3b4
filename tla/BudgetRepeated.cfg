CONSTANTS
  Tasks = {t1}
  Mechanisms = {"DDL_CDF_Block", "DDL_CDF_NonBlock"}
  Neighbors = {n1, n2}
  self = self
  MaxRepeats = 1
  MaxLost = 0
SPECIFICATION Spec
INVARIANT ConfirmMissMeansServed
\* Every task negotiated and every queue served: the system stops.
CHECK_DEADLOCK FALSE
