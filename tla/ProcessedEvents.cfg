CONSTANTS
  Event = {e1, e2, e3, e4}
  Malformed = {e3}
  NoPublisher = {e4}
  EventsSize = 1
  BufferSize = 1
SPECIFICATION FairSpec
INVARIANTS
  TypeOK
  RunningSurvives
PROPERTIES
  EventuallyPublished
  AckedIsPublished
CHECK_DEADLOCK FALSE
