CONSTANTS
  Workers = {w1, w2}
  NoRecord = NoRecord
  LeaseDuration = 1
  MaxClock = 1
  MaxRevision = 3
  RuntimeReplays = FALSE
  Events <- MCEvents
  Start <- MCStart
  Dims <- MCDims
  WindowSize = 2
  InitialStart = 1
  Lateness = 2
  PageSize = 2
  MaxSources = 3
  Watermarks = {3, 4}
  Correlation <- MCCorrelation
  Overrun = TRUE
  EventualReads = FALSE
  MaxFaults = 0
SPECIFICATION Spec
CHECK_DEADLOCK FALSE
SYMMETRY WorkerSymmetry
INVARIANT RevisionsOnlyAdd
