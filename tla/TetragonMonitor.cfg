SPECIFICATION MonitorFairSpec
CONSTANTS
  i1 = i1
  c1 = c1
  c2 = c2
  Event <- MCEvent
  Capacity = 2
  MaxPushed = 3
  RawEvents <- MCRawEvents
  Injectors = {i1}
  Callbacks = {c1, c2}
  Panicking = {c1}
CHECK_DEADLOCK FALSE
INVARIANTS CallbacksTold ConnectionTold
PROPERTIES IsBoundedLog StopEnds
