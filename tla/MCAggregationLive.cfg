CONSTANTS
  Workers = {w1, w2}
  NoRecord = NoRecord
  LeaseDuration = 2
  MaxClock = 2
  MaxRevision = 3
  RuntimeReplays = FALSE
  Events <- LiveEvents
  Start <- LiveStart
  Dims <- LiveDims
  WindowSize = 2
  InitialStart = 0
  Lateness = 1
  PageSize = 1
  MaxSources = 3
  Watermarks = {2}
  Correlation <- LiveCorrelation
  Overrun = FALSE
  EventualReads = FALSE
  MaxFaults = 1
  Survivor = w1
SPECIFICATION LiveSpec
CHECK_DEADLOCK FALSE
INVARIANT OneRunAtATime
PROPERTIES
  RunsEnd
  CatchesUp
