SPECIFICATION Spec
CONSTANTS
  a1 = a1
  a2 = a2
  a3 = a3
  Primary = {a1, a2, a3}
  Targets <- MCTargets
  MaxRevisions = 2
  MaxUpstream = 0
  MaxConclusion = 1
  MaxCommands = 4
  MaxTrouble = 1
INVARIANT
  RecoveryComparesAll
CHECK_DEADLOCK FALSE
