SPECIFICATION Spec
CONSTANTS
  Name <- RepeatedLater
  Impacts = {"unchanged", "reselection_required"}
  MaxRevisions = 2
  MaxReports = 2
  MaxEpoch = 1
  MaxCommands = 5
  MaxTrouble = 1
INVARIANTS
  HandoffWasApproved
  SelectionIsOfThisPackage
  WaitsWithAnApproval
  ResultsAreTruthful
CHECK_DEADLOCK FALSE
