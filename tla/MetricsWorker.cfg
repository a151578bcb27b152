SPECIFICATION Spec
CONSTANTS
  SUB_BITS = 2
  MAX_BITS = 4
  UINT64_MAX = 255
  Latencies = {0, 3, 4, 8, 15, 16}
  BUFFER_RECORDS = 2
  MaxWork = 4
INVARIANTS PercentilesTight LogFaithful
CHECK_DEADLOCK FALSE
