CONSTANTS
  Workers = {w1, w2}
  NoRecord = NoRecord
  LeaseDuration = 2
  MaxClock = 2
  MaxRevision = 4
  RuntimeReplays = FALSE
  Events <- MCEvents
  Start <- MCStart
  Dims <- MCDims
  WindowSize = 2
  InitialStart = 0
  Lateness = 0
  PageSize = 2
  MaxSources = 3
  Watermarks = {2}
  Correlation <- MCCorrelation
  Overrun = FALSE
  EventualReads = FALSE
  MaxFaults = 1
SPECIFICATION Spec
CHECK_DEADLOCK FALSE
SYMMETRY WorkerSymmetry
PROPERTY RetriesAreRun
