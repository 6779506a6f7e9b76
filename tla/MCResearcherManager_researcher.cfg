SPECIFICATION Spec
CONSTANTS
  Agent = {a1, a2}
  Weak = {a1}
  Asked = {a2}
  Legacy = {TRUE, FALSE}
  MaxRevisions = 2
  MaxExternal = 1
  MaxCommands = 4
INVARIANTS
  ReviewedAsShown
  ResultsAreTruthful
  ReservationsAreKept
  DecisionsAreOfThisPlan
PROPERTIES
  RevisionCallsAreAuthorized
  CompletedWorkIsReused
CHECK_DEADLOCK FALSE
