SPECIFICATION Spec
CONSTANTS
  Process = {p1, p2}
  MaxReviews = 2
  MaxRequests = 1
SYMMETRY Symmetry
INVARIANTS
  DecisionIsFiled
  HandoffWasDecided
CHECK_DEADLOCK FALSE
