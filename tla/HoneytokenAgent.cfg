SPECIFICATION FairSpec
CONSTANTS
  Pods = {p1}
  ReactivePod = p0
  Placements <- MCPlacements
  ReactivePlacements <- MCReactivePlacements
  Accesses = {a1}
  Contexts <- MCContexts
  IsolationMaxRetries = 1
  IPBlockMaxRetries = 1
  MinimumOutcomeRecords = 1
  InitialAccuracy = 75
  Accuracies = {74, 75}
  MaxCycles = 2
CHECK_DEADLOCK FALSE
INVARIANTS DeployAllOrNothing TriggersCounted ContainedOrEscalated DecisionsOnRecord
PROPERTY WorkEnds
