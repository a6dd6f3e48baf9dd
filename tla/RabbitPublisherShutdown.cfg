CONSTANTS
  Instance = {i1, i2}
  Message = {m1}
  BufferSize = 1
  MaxRetryPolicy = 2
  MaxDrops = 1
SPECIFICATION FairSpec
PROPERTIES
  ShutdownCompletes
CHECK_DEADLOCK FALSE
