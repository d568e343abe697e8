CONSTANTS
  Workers = {w1, w2}
  NoRecord = NoRecord
  a = a
  b = b
  k = k
  l = l
  Publisher = w1
  EventIds = {a, b}
  Domains = {1}
  Values = {1, 2}
  BatchIds = {k, l}
  Requests <- LiveRequests
  MaxBatch = 2
  MaxList = 2
  EventualReads = TRUE
  ItemFaults = TRUE
  MaxFaults = 2
SPECIFICATION LiveSpec
PROPERTY KeptSettles
