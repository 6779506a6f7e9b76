SPECIFICATION Spec
CONSTANTS
  Process = {p1, p2}
  Request = {r1, r2, r3}
  Limit = 2
  Reservations = {u1, u2}
  Stamped = {r1}
  MaxBuilds = 2
  Absent = Absent
  Torn = Torn
  Nothing = Nothing
SYMMETRY Symmetry
INVARIANTS
  BudgetCounts
  ExecutorsAgree
  WaitingIsWritten
PROPERTIES
  WrittenOnce
CHECK_DEADLOCK FALSE
