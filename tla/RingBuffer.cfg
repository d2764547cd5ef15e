SPECIFICATION FairSpec
CONSTANTS
  Capacity = 2
  MaxRetries = 3
  InitialBackoff = 1
  MaxBackoff = 2
  MaxPush = 3
INVARIANTS OldestFirst Accounted RightEventMarked
PROPERTY EveryEventLeaves
