CONSTANTS
  Workers = {w1, w2}
  NoRecord = NoRecord
  LeaseDuration = 1
  MaxClock = 1
  MaxRevision = 4
  RuntimeReplays = FALSE
  Events <- LateEvents
  Start <- LateStart
  Dims <- LateDims
  WindowSize = 2
  InitialStart = 1
  Lateness = 2
  PageSize = 1
  MaxSources = 1
  Watermarks = {4}
  Correlation <- MCCorrelation
  Overrun = TRUE
  EventualReads = TRUE
  MaxFaults = 1
SPECIFICATION Spec
CHECK_DEADLOCK FALSE
SYMMETRY WorkerSymmetry
INVARIANTS
  VersionChain
  NoRedundantRevision
