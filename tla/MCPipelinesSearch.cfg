SPECIFICATION AllSpec
CONSTANTS
  o1 = o1  o2 = o2  b1 = b1  b2 = b2  c1 = c1  c2 = c2
  Orders = {o1, o2}
  Calls = {c1, c2}
  MaxPayments = 3
  Books = {b1, b2}
  MaxChange = 2
  MaxFaults = 0
  Absent = Absent
  Total = 4
  Embedded = {2}
  Limits = {0, 1}
  PageSize = 2
  BatchSize = 1
  Workers = 2
  ChanSize = 1
  MilvusBatch = 2
  MaxErrors = 2
  FirstPageAttempts = 2
  MaxParts = 2
INVARIANTS SearchAnswers
CHECK_DEADLOCK FALSE
