SPECIFICATION FairSpec
CONSTANTS
  b1 = b1  l1 = l1  l2 = l2  l3 = l3  c1 = c1  c2 = c2
  Books = {b1}
  Locks = {l1, l2}
  Calls = {c1, c2}
  Quantities = {1, 2}
  SetQuantities = {0, 2}
  InitialRows = {}
  InitialQuantity <- TwoOfEach
  ExclusiveSettle = TRUE
  Faulty = TRUE
INVARIANTS TypeOK ReservationsCovered
PROPERTIES StaleEntryEnds
CHECK_DEADLOCK FALSE
