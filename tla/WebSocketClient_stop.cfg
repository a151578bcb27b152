SPECIFICATION FairSpec
CONSTANTS
  BaseDelay = 1
  MaxDelay = 5
  ShiftCap = 3
  Width = 4
  MaxAttempts = 5
PROPERTIES StopReturns
CHECK_DEADLOCK FALSE
