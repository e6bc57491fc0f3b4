SPECIFICATION HistogramSpec
CONSTANTS
  Values = {1, 2, 3}
  NoItem = NoItem
  QueueSize = 4
  Percentiles = {50, 90}
  SampleCounts = {1}
INVARIANT PercentileNotExceeded
