SPECIFICATION FairSpec
CONSTANTS
  b1 = b1
  b2 = b2
  w1 = w1
  c1 = c1
  Branch = {b1, b2}
  Initial <- OneBranch
  Worker = {w1}
  Client = {c1}
  Endpoints <- WholeApi
  Cas = TRUE
  MaxAttempts = 1
  CanExpire = TRUE
  MaxRequests = 2
  MaxCalls = 1
  MaxFailures = 1
  MaxCrashes = 1
INVARIANTS
  XaExclusive
  EndsComplete
CHECK_DEADLOCK FALSE
