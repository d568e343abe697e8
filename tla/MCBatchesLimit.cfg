CONSTANTS
  Workers = {w1, w2}
  NoRecord = NoRecord
  a = a
  b = b
  k = k
  l = l
  Publisher = w1
  EventIds = {a, b}
  Domains = {1}
  Values = {1, 2}
  BatchIds = {k, l}
  Requests <- PlainRequests
  MaxBatch = 2
  MaxList = 1
  EventualReads = FALSE
  ItemFaults = FALSE
  MaxFaults = 0
SPECIFICATION Spec
SYMMETRY WorkerSymmetry
INVARIANT LegalBatchesRun
