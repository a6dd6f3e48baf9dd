CONSTANTS
  Instance = {i1, i2}
  Message = {m1, m2}
  BufferSize = 1
  MaxRetryPolicy = 2
  MaxDrops = 1
SPECIFICATION FairSpec
INVARIANTS
  TypeOK
  NoDuplicates
  DroppedOnClosed
  OneLatePerChannel
PROPERTIES
  InputDrains
CHECK_DEADLOCK FALSE
