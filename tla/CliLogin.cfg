CONSTANTS
  p1 = p1
  p2 = p2
  p3 = p3
  None = None
  Garbage = Garbage
  Message = {m1, m2, m3}
  Garbled = {m3}
  Consumer = {c1, c2}
  ChannelSize = 1
  Client = {c1, c2}
  OutSize = 1
  InputSize = 1
  OutputSize = 1
  Declarer = {s1, s2}
  Opener = {s1, s2}
  Hosts = 2
  LastMigration = 2
  MaxFailures = 2
  MaxLosses = 2
  MaxCalls = 2
  Process = {p1, p2, p3}
  Invocation <- MCInvocation
  SizeOf <- MCSizeOf
  LoginRoute = {"users"}
  NewToken = "long"
  DefaultURL = "default"
SPECIFICATION MCSpec
INVARIANTS
  LoginLogsIn
CHECK_DEADLOCK FALSE
