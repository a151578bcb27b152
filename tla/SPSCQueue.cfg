SPECIFICATION FairSpec
CONSTANTS
  Capacity = 4
  Items = {a, b, c}
  NoItem = NoItem
  Torn = Torn
INVARIANTS NoSlotRace
PROPERTIES RefusalsAreGenuine ImplementsFifo Progress
