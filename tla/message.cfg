SPECIFICATION FairSpec
CONSTANTS
  b1 = b1
  b2 = b2
  w1 = w1
  c1 = c1
  Branch = {b1, b2}
  Initial <- TwoBranches
  Worker = {w1}
  Client = {c1}
  Endpoints <- WholeApi
  Cas = TRUE
  MaxAttempts = 1
  CanExpire = TRUE
  MaxRequests = 1
  MaxCalls = 1
  MaxFailures = 2
  MaxCrashes = 1
  Delayed = TRUE
INVARIANTS
  DecisionFirst
  NotBeforeDue
  DeliveryComplete
PROPERTIES
  DeliveryCompletes
CHECK_DEADLOCK FALSE
