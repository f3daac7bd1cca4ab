SPECIFICATION Spec
CONSTANTS
  Key = {k1, k2}
  MaxBatch = 1
  UseCache = TRUE
  MaxLoads = 2
PROPERTY LoadsSettle
CHECK_DEADLOCK FALSE
