SPECIFICATION HubFairSpec
CONSTANTS
  FILL_KEEP = 3
  MaxUpdates = 2
  MaxFills = 8
INVARIANTS FrameNotTorn TapeExact NoRequestLost
PROPERTIES FramesFresh
