CONSTANTS
  Workers = {w1, w2}
  NoRecord = NoRecord
  MeterRefs = {1}
  m1 = m1
  m2 = m2
  a = a
  b = b
  x = x
  y = y
  MeterContents <- MCMeters
  EventIds <- MCEventIds
  Requests <- MCRequests
  Admits <- MCAdmits
  Given <- MCGiven
  Traces <- MCTraces
  NoTrace = NoTrace
  EventualReads = FALSE
  RuntimeReplays = TRUE
SPECIFICATION Spec
SYMMETRY WorkerSymmetry
INVARIANTS
  TypeOK
  CorrectionsGrounded
  CorrectionsAcyclic
  StoredUnderMeter
  RetriesReplay
