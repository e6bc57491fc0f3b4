CONSTANTS
  x = x
  y = y
  m = m
  w = w
  None = None
  Apps <- MCApps
  Nodes <- MCNodes
  Master <- m
  Types <- MCTypes
  CalmDown = 1
  MaxUint64 = 100
  MaxClock = 3
  MaxMessages = 2
  MaxRequests = 2
SPECIFICATION MCSpec
INVARIANTS TypeOK InActionHasCause
PROPERTIES CalmDownKept ActionEnds
CHECK_DEADLOCK FALSE
