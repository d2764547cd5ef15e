SPECIFICATION AdapterFairSpec
CONSTANTS
  poller = poller
  handler = handler
  Producers = {poller, handler}
  Poller = poller
  Capacity = 2
  MaxRetries = 2
  WebhookEmitMaxRetries = 2
  MaxEvents = 3
  MaxOwnerCalls = 1
CHECK_DEADLOCK FALSE
INVARIANTS Accounted WebhookEventsSaved
PROPERTY ShutdownEnds
