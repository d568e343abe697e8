CONSTANTS
  Workers = {w1, w2, w3}
  NoRecord = NoRecord
  RuntimeReplays = TRUE
  LeaseDuration = 2
  MaxClock = 4
  MaxRevision = 5
  Times = {1, 2}
  MaxCheckpoints = 3
  Keys = {k1, k2}
  Contents = {c1, c2}
  EventualReads = FALSE
SPECIFICATION Spec
CHECK_DEADLOCK FALSE
SYMMETRY CoordinationSymmetry
INVARIANTS
  TypeOK
  LeaseExclusion
  LeaseInForceIsStored
  WinnersAgree
  WonIsDurable
  AcceptedIsStored
  ConflictIsReal
PROPERTIES
  ClaimIsLease
  WatermarkNeverRegresses
  RecordsAreFacts
