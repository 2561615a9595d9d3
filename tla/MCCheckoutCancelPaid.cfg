SPECIFICATION Spec
CONSTANTS
  b1 = b1  b2 = b2  l1 = l1  l2 = l2  l3 = l3  l4 = l4
  o1 = o1  o2 = o2  o3 = o3  u1 = u1  u2 = u2  k1 = k1  p1 = p1
  Books = {b1}
  Locks = {l1}
  Orders = {o1}
  Items <- SingleItems
  InitialQuantity <- OneOfEach
  Cancels = {u1}
  Clerks = {}
  Consumers = {p1}
  Cancellable = {o1}
  Payable = {o1}
  MaxEvents = 1
  MaxFaults = 0
  LostCommits = FALSE
PROPERTIES StatusFollowsTransitions
CHECK_DEADLOCK FALSE
