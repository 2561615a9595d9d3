SPECIFICATION Spec
CONSTANTS
  b1 = b1  l1 = l1  l2 = l2  l3 = l3  c1 = c1  c2 = c2
  Books = {b1}
  Locks = {l1, l2, l3}
  Calls = {c1, c2}
  Quantities = {1, 2}
  SetQuantities = {}
  InitialRows = {b1}
  InitialQuantity <- TwoOfEach
  ExclusiveSettle = TRUE
  Faulty = TRUE
INVARIANTS LedgerExact NoOversell StockConserved
PROPERTIES SettledForGood DeductTakesStock ImplementsShelf
CHECK_DEADLOCK FALSE
