SPECIFICATION ReloadFairSpec
CONSTANTS
  Contents <- MCContents
  Environments <- MCEnvironments
  MaxVersion = 5
CHECK_DEADLOCK FALSE
INVARIANTS ActiveConfigValid NoReloadLoop
PROPERTY FreshFileAdopted
