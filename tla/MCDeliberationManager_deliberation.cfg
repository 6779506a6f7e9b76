SPECIFICATION Spec
CONSTANTS
  a1 = a1
  a2 = a2
  a3 = a3
  Primary = {a1, a2, a3}
  Targets <- MCTargets
  MaxRevisions = 2
  MaxUpstream = 1
  MaxConclusion = 1
  MaxCommands = 3
  MaxTrouble = 1
INVARIANTS
  HandoffWasApproved
  CheckpointsFitTogether
  ResultsAreTruthful
PROPERTIES
  AnalysesAreKept
CHECK_DEADLOCK FALSE
