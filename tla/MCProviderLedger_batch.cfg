SPECIFICATION FairSpec
CONSTANTS
  Process = {p1, p2, p3}
  Task = {t1}
  Stage <- OriginalOnly
  Model = {sync1, batch1, batch2}
  BatchModel = {batch1, batch2}
  ExplicitTask = {t1}
  SafeMode = FALSE
  TechnicalRetryLimit = 2
  MaxPaid = 1
  NoModel = NoModel
INVARIANTS
  PaidWithinReservation
  BatchSubmittedOnce
PROPERTIES
  EveryCallEnds
CHECK_DEADLOCK FALSE
