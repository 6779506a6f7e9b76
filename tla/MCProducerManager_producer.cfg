SPECIFICATION FairSpec
CONSTANTS
  Last = 3
  BatchAgent = {3}
  Analyst = 1
  Operator = {cli, discord}
  System = system
  MaxRevisions = 1
  MaxUpstream = 2
  MaxCommands = 2
  MaxCalls = 10
INVARIANTS
  CheckpointsFitTogether
  HandoffWasApproved
  RevisionCallsAreAuthorized
  ResultsAreTruthful
CHECK_DEADLOCK FALSE
PROPERTIES
  CompletedWorkIsReused
  CommandsEnd
