SPECIFICATION Spec
CONSTANTS
  Process = {p1, p2}
  Task = {t1}
  Stage <- BothLadders
  Model = {sync1, sync2}
  BatchModel = {}
  ExplicitTask = {}
  SafeMode = TRUE
  TechnicalRetryLimit = 1
  MaxPaid = 1
  NoModel = NoModel
SYMMETRY Symmetry
INVARIANTS
  RepairPaidOnlyWhenSpent
  LadderInOrder
PROPERTIES
  StrandedNeverPaid
  ImplementsOneShotCalls
CHECK_DEADLOCK FALSE
