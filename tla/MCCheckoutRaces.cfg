SPECIFICATION Spec
CONSTANTS
  b1 = b1  b2 = b2  l1 = l1  l2 = l2  l3 = l3  l4 = l4
  o1 = o1  o2 = o2  o3 = o3  u1 = u1  u2 = u2  k1 = k1  p1 = p1
  Books = {b1, b2}
  Locks = {l1, l2}
  Orders = {o1}
  Items <- CrossedItems
  InitialQuantity <- OneOfEach
  Cancels = {u1, u2}
  Clerks = {k1}
  Consumers = {p1}
  Cancellable = {o1}
  Payable = {o1}
  MaxEvents = 2
  MaxFaults = 2
  LostCommits = TRUE
SYMMETRY Symmetry
INVARIANTS TypeOK PendingHoldsLocks NoOrphanReservation
CHECK_DEADLOCK FALSE
