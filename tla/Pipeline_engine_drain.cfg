SPECIFICATION Spec
CONSTANTS
  InputCapacity = 1
  OutputCapacity = 1
  LatencyCapacity = 2
  LatencyBatch = 2
  StaleViews = FALSE
  MaxMessages = 2
  MaxFills = 0
INVARIANTS EngineDrainsInput
CHECK_DEADLOCK FALSE
