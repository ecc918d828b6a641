SPECIFICATION FairSpec
CONSTANTS
  b1 = b1
  b2 = b2
  w1 = w1
  c1 = c1
  Branch = {b1, b2}
  Initial <- TwoBranches
  Worker = {w1}
  Client = {c1}
  Endpoints <- WholeApi
  Cas = FALSE
  MaxAttempts = 1
  CanExpire = TRUE
  MaxRequests = 2
  MaxCalls = 1
  MaxFailures = 2
  MaxCrashes = 1
  Deps <- BackwardChain
INVARIANTS
  WorkflowComplete
  RollbackAccounted
PROPERTIES
  WorkflowTerminates
CHECK_DEADLOCK FALSE
