SPECIFICATION FairSpec
CONSTANTS
  b1 = b1
  x1 = x1
  w1 = w1
  c1 = c1
  Branch = {b1, x1}
  Initial <- OneBranch
  Worker = {w1}
  Client = {c1}
  Endpoints = {"schedule_submit"}
  Cas = TRUE
  MaxAttempts = 1
  CanExpire = TRUE
  MaxRequests = 1
  MaxCalls = 0
  MaxFailures = 0
  MaxCrashes = 0
  External = {}
PROPERTIES
  CommitCarriedOut
CHECK_DEADLOCK FALSE
