SPECIFICATION FairSpec
CONSTANTS
  BaseDelay = 1
  MaxDelay = 5
  ShiftCap = 3
  Width = 4
  MaxAttempts = 5
INVARIANTS OneAttempt WriteBufferAlive
PROPERTIES BackoffGrows Reconnects StopUnwinds
CHECK_DEADLOCK FALSE
