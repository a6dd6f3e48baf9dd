CONSTANTS
  Instance = {i1}
  Message = {m1, m2}
  Malformed = {}
  Zero = zero
  BufferSize = 1
  MaxDrops = 0
SPECIFICATION Spec
INVARIANTS
  StopsGracefully
CHECK_DEADLOCK FALSE
