CONSTANTS
  Workers = {w1, w2}
  NoRecord = NoRecord
  MeterRefs = {1}
  m1 = m1
  m2 = m2
  a = a
  b = b
  x = x
  y = y
  MeterContents <- MCMeters
  EventIds <- MCEventIds
  Requests <- Uncorrelated
  Admits <- UncorrelatedAdmits
  Given = {}
  Traces <- MCTraces
  NoTrace = NoTrace
  EventualReads = FALSE
  RuntimeReplays = TRUE
SPECIFICATION Spec
SYMMETRY WorkerSymmetry
INVARIANT RetriesReplay
