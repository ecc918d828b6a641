SPECIFICATION RmSpec
CONSTANTS
  b1 = b1
  b2 = b2
  w1 = w1
  c1 = c1
  p1 = p1
  p2 = p2
  o1 = o1
  o2 = o2
  i1 = i1
  i2 = i2
  Branch = {b1}
  Initial <- NoBranches
  Worker = {w1}
  Client = {c1}
  Endpoints <- XaApi
  Cas = TRUE
  MaxAttempts = 1
  CanExpire = TRUE
  MaxRequests = 1
  MaxCalls = 1
  MaxFailures = 1
  MaxCrashes = 0
  Proc = {p1, p2}
  Operator = {o1, o2}
  Decision = {i1, i2}
INVARIANTS
  CommitComplete
  OrphansExplained
  DecisionsHonest
SYMMETRY Symmetry
CHECK_DEADLOCK FALSE
