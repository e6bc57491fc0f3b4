CONSTANTS
  Tasks = {t1}
  Mechanisms = {"DDL_CDF_Block", "DDL_CDF_NonBlock"}
  Neighbors = {n1, n2, n3}
  self = self
  MaxRepeats = 0
  MaxLost = 1
SPECIFICATION FairSpec
INVARIANTS TypeOK MainOnlyWhenNegotiated ConfirmMissMeansServed ServedOnce
PROPERTY NegotiationEnds
\* Every task negotiated and every queue served: the system stops.
CHECK_DEADLOCK FALSE
