SPECIFICATION Spec
CONSTANTS
  web = web
  Workloads = {web}
  Aspects <- MCAspects
  Templates <- MCTemplates
  MaxGeneration = 2
  Profiles <- MCProfiles
  Level <- MCLevel
  LastRollout = 1
  MaxRollouts = 1
  Outages <- MCOutages
CHECK_DEADLOCK FALSE
INVARIANT BaselineIsPreDeployment
