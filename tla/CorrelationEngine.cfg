SPECIFICATION EngineSpec
CONSTANTS
  Signals <- MCSignals
  Lags = {0,4}
  TimeWindow = 2
  DedupWindow = 2
  Threshold = 82
  ActionEnabled = TRUE
  MaxNow = 3
  MaxIngest = 3
  MaxRounds = 2
CHECK_DEADLOCK FALSE
INVARIANTS IncidentsAreCrossModule NoPairMissed OnePerDedupWindow
  AnotherModuleRaisesConfidence
