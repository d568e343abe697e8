CONSTANTS
  MaxDigits = 4
  StoreInteger = 2
  StoreScale = 2
  Meters <- MCMeters
  Transforms <- MCTransforms
  Inputs <- MCInputs
  MaxRecords = 3
  MinPrecision = 1
  Slack = 1
  SumPrecision = 4
  Instants <- MCInstants
  Versions = {v1, v2}
  NoVersion = NoVersion
  Never = Never
  Tolerance = 1
  Size = 2
  MaxAccepted = 2
  Events <- MCEvents
  Scopes = {11, 12}
  Starts = {1, 2, 3}
  Values = {1, 2}
  Empty = Empty
  Wheres <- MCWheres
  Windows <- MCWindows
  Limit = 1
  MaxPages = 3
  MaxFaults = 1
  Numbers <- MCNumbers
  Quantities <- MCQuantities
  NoNumber = NoNumber
  NoDigest = NoDigest
  Contents = {1, 2}
SPECIFICATION Spec
CHECK_DEADLOCK FALSE
SYMMETRY VersionSymmetry
INVARIANTS
  TypeOK
  ArithmeticIsExact
  OverflowIsReal
  NormalizedOnce
  CountedOnce
  ScanIsComplete
  ScanIsSound
  ReturnsWhatWasWritten
  SearchSucceeds
