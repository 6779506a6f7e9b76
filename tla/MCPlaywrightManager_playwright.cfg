SPECIFICATION Spec
CONSTANTS
  Name <- OneNarrative
  Refers <- ProperlyAtFirst
  Targets = {1, 4}
  Problems = {"structural", "content"}
  MaxRevisions = 2
  MaxHandoffs = 3
  MaxCommands = 5
  MaxTrouble = 2
INVARIANTS
  CheckpointsFitTogether
  DeliveryWasValidated
  CompletedIsDelivered
  ResultsAreTruthful
  PlanIsExecutable
CHECK_DEADLOCK FALSE
