SPECIFICATION Spec
CONSTANTS
  p1 = p1  p2 = p2  c1 = c1  c2 = c2  s1 = s1  s2 = s2  t1 = t1  t2 = t2
  a1 = a1  a2 = a2  i1 = i1  i2 = i2
  Turns = {p1, p2}
  Calls = {c1, c2}
  Sessions = {s1, s2}
  Tools = {t1, t2}
  Args = {a1, a2}
  Actions = {i1, i2}
  MaxTurns = 3
  MaxFaults = 1
SYMMETRY Symmetry
INVARIANTS TypeOK ConfirmedOnly ExecutedOnce HistoryComplete
CHECK_DEADLOCK FALSE
