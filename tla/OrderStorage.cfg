SPECIFICATION StorageSpec
CONSTANTS
  PoolSize = 4
  nullptr = nullptr
  Object = Object
  QuantityModulus = 4
  CountModulus = 8
INVARIANTS FreeListIntact ListIntact LinkedAreLive
PROPERTIES KeepsPromise
