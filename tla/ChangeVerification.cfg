SPECIFICATION FairSpec
CONSTANTS
  web = web
  Workloads = {web}
  Aspects <- MCAspects
  Templates <- MCTemplates
  MaxGeneration = 3
  Profiles <- MCProfiles
  Level <- MCLevel
  LastRollout = 1
  MaxRollouts = 2
  Outages <- MCOutages
CHECK_DEADLOCK FALSE
INVARIANTS ReportsAddUp OneVerdictPerReport BreakdownsCaught SteadyServicePasses
PROPERTIES PollCatchesUp ReportsAreJudged
