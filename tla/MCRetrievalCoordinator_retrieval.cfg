SPECIFICATION RetrievalSpec
CONSTANTS
  Worker = {p1, p2}
  MaxCommands = 5
SYMMETRY Symmetry
INVARIANTS
  OriginalPaidOnce
  ReplacementIsAuthorized
CHECK_DEADLOCK FALSE
