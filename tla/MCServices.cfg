SPECIFICATION AllSpec
CONSTANTS
  e1 = e1  x1 = x1  x2 = x2  y1 = y1  y2 = y2  c1 = c1  c2 = c2  i1 = i1
  Emails = {e1}
  Codes = {x1, x2}
  Values = {y1, y2}
  Calls = {c1, c2}
  MaxAddresses = 2
  NoCode = NoCode  NoProfile = NoProfile  NoAddress = NoAddress
  Shoppers = {e1}
  Books = {x1, x2}
  Stores = {y1, y2}
  MaxCartItems = 2  MaxAdd = 1  MaxInt = 2  MaxItems = 2
  NoStore = NoStore
  Users = {2, 107}
  ShardCount = 2  SeedUsers = 3  SeedOrders = 3  DefaultPageSize = 1  MaxPageSize = 2
  MaxOrders = 3  MaxSecond = 3
  Anything = Anything
  MaxSummaries = 3
  NoSummary = NoSummary
  Lockers = {1, 2, 3}
  NoToken = NoToken
  Clients = {i1}
  Rate = 1  Burst = 3  IdleTime = 3  MaxTime = 9
  Unknown = Unknown
SYMMETRY Symmetric
CHECK_DEADLOCK FALSE
INVARIANTS AllTypeOK OneDefault ProfileKept CodeStands OneStoreOneLine HoldsWhatWasAsked
  FoundAgain NeverOlder ExclusiveInTime WithinBudget
PROPERTIES DeletedStaysDeleted
