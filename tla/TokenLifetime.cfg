SPECIFICATION MCSpec
CONSTANTS
  Message = {m1, m2, m3}
  Instance = {i1, i2}
  BufferSize = 1
  MaxAttempts = 2
  r1 = r1
  r2 = r2
  r3 = r3
  l1 = l1
  l2 = l2
  ann = ann
  pw1 = pw1
  pw2 = pw2
  Registration <- MCRegistration
  Login <- MCLogin
  EmailOf <- MCEmailOf
  PasswordOf <- MCPasswordOf
  FormOf <- MCFormOf
  NoUser = NoUser
  AccessDays = 604800
  RefreshDays = 2419200
  MaxFailures = 0
  MaxCrashes = 0
  Owner = {"o1", "owner_id"}
  Name = {"n1", "n2", "source_id"}
  MaxSources = 4
  MaxCalls = 4
  Focus = {"accounts"}
INVARIANTS
  TokensAreUsable
CHECK_DEADLOCK FALSE
