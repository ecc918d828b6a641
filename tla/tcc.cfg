SPECIFICATION FairSpec
CONSTANTS
  b1 = b1
  x1 = x1
  w1 = w1
  c1 = c1
  Branch = {b1, x1}
  Initial <- OneBranch
  Worker = {w1}
  Client = {c1}
  Endpoints <- WholeApi
  Cas = TRUE
  MaxAttempts = 1
  CanExpire = TRUE
  MaxRequests = 2
  MaxCalls = 1
  MaxFailures = 1
  MaxCrashes = 1
  External = {x1}
INVARIANTS
  BarrierExclusion
  NoHangingTry
  EndsComplete
  DecisionExclusive
PROPERTIES
  LifecycleSpec
  RegisteredKept
  DecisionsCarriedOut
CHECK_DEADLOCK FALSE
