CONSTANTS
  e1 = e1
  e2 = e2
  e3 = e3
  p1 = p1
  p2 = p2
  t1 = t1
  t2 = t2
  None = None
  Process = {p1, p2}
  Event = {e1, e2, e3}
  Task = {t1, t2}
  ID <- TwoTasks
  HandlerOf <- Registered
  MaxCrashes = 1
  MaxExpiries = 1
SPECIFICATION MCSpec
INVARIANTS
  TypeOK
  MutualExclusion
  AtMostOnceDelivery
  SkippedWasSettled
  RedisNotAheadOfRepo
  AttemptsCounted
PROPERTIES
  SettledIsFinal
  EventSettles
  LockIsReleased
CHECK_DEADLOCK FALSE
