SPECIFICATION FairConcurrentSpec
CONSTANTS
  b1 = b1
  b2 = b2
  b3 = b3
  b4 = b4
  w1 = w1
  c1 = c1
  Branch = {b1, b2, b3}
  Initial <- ThreeBranches
  Worker = {w1}
  Client = {c1}
  Endpoints <- WholeApi
  Cas = FALSE
  MaxAttempts = 2
  CanExpire = TRUE
  MaxRequests = 1
  MaxCalls = 1
  MaxFailures = 3
  MaxCrashes = 1
  Graphs <- SomeGraphs
  MaxEvents = 3
INVARIANTS
  LayerOrder
  LayeredUndo
PROPERTIES
  GraphTerminates
CHECK_DEADLOCK FALSE
