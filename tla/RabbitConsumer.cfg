CONSTANTS
  Instance = {i1}
  Message = {m1, m2}
  Malformed = {m2}
  Zero = zero
  BufferSize = 1
  MaxDrops = 1
SPECIFICATION FairSpec
INVARIANTS
  TypeOK
  AckedIsAccounted
  RedeliveryBound
  UnackedIsHeld
PROPERTIES
  EventuallyTaken
CHECK_DEADLOCK FALSE
