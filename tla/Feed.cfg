SPECIFICATION FairSpec
CONSTANTS
  Prices = {1,2}
  QueueCapacity = 2
  MaxBatch = 3
  MaxSequence = 3
  MaxEvents = 3
  NoOrder = NoOrder
INVARIANTS NoGhosts QuietMeansComplete
PROPERTIES StaleOrdersLeave
