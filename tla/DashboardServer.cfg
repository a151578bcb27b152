SPECIFICATION FairSpec
CONSTANTS
  Browsers = {b1, b2}
  MAX_QUEUED = 2
INVARIANTS OneWrite FramesInOrder SessionsWatched
PROPERTIES SlowClientLeaves StopUnwinds
CHECK_DEADLOCK FALSE
