SPECIFICATION FairSpec
CONSTANTS
  o1 = o1  o2 = o2  c1 = c1  c2 = c2
  Orders = {o1, o2}
  Calls = {c1, c2}
  MaxPayments = 1
CHECK_DEADLOCK FALSE
PROPERTIES PaymentReachesOrder
