SPECIFICATION StreamSpec
CONSTANTS
  InputCapacity = 1
  OutputCapacity = 2
  LatencyCapacity = 1
  LatencyBatch = 1
  StaleViews = TRUE
  MaxMessages = 2
  MaxFills = 2
  MaxProduced = 2
INVARIANTS NothingLost NoRingAbandoned DropsReported
PROPERTIES Terminates NothingStarves
CHECK_DEADLOCK FALSE
