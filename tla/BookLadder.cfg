SPECIFICATION FairSpec
CONSTANTS
  MAX_PRICE_TICKS = 3
  QuantityModulus = 3
  Ids = {i1, i2, i3}
  Slots = {s1, s2}
  Quantities = {0, 1, 2}
  NoOrder = NoOrder
INVARIANTS SlotsAccounted Uncrossed BestPricesExact LadderExact
PROPERTIES ImplementsPriceTime CallsReturn
