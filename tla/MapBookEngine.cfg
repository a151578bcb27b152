SPECIFICATION Spec
CONSTANTS
  MAX_PRICE_TICKS = 4
  MaxQuantity = 2
  MaxOrders = 4
INVARIANTS CancelsReachOrders
PROPERTIES MirrorsPriceTime
CHECK_DEADLOCK FALSE
