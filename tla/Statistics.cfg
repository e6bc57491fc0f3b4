CONSTANTS
  Values = {1, 2, 3, 4, 5, 6}
  Nil = Nil
  NoItem = NoItem
  QueueSize = 5
  Percentiles = {50, 90}
  SampleCounts = {1}
  Tasks = {1, 2, 3, 4}
  Categories = {"x", "y"}
  Tag <- MCTag
  SliceLength = 2
  ClockModulus = 4
  Amounts = {2}
  Windows = {1}
  MaxResends = 1
  Resendable = {3, 4}
  Classes = {p99}
  MatrixLength = 2
  WindowSizes = {2, 8, 10}
  MaxTicks = 7
  MaxEvents = 2
  ResendClock = 1
  PipeEvents = 1
  SumTicks = 4
SPECIFICATION StatisticsSpec
INVARIANTS
  TypesOK
  TreeOrdered
  CountsExact
  WindowMatchesTree
  SearchExact
  TrackedCountExact
  WindowMatchesCategories
  CumulativeExact
  PipeInOrder
PROPERTY ExpiryRespectsWindow
CHECK_DEADLOCK FALSE
