SPECIFICATION FairSpec
CONSTANTS
  ew = ew
  eb = eb
  Modules = {ew, eb}
  Requests = {"r1"}
  Events <- MCEvents
  Filters <- MCFilters
  MaxEmits = 2
  MaxSubs = 1
CHECK_DEADLOCK FALSE
INVARIANTS LifecycleComplete HealthOfStartedModules
PROPERTIES HandlersWereAsked SubscribersHear PhasesEnd
