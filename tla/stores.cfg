SPECIFICATION Spec
CONSTANTS
  p1 = p1
  p2 = p2
  p3 = p3
  m1 = m1
  m2 = m2
  Backends <- AllBackends
  Proc = {p1, p2, p3}
  Recovery = {p3}
  Mutation = {m1, m2}
  MaxTries = 2
  Retention <- Short
  MaxTime = 3
  MaxOps = 4
  MaxCrashes = 1
  MaxLeases = 1
SYMMETRY Alike
INVARIANTS
  MutationsKept
  BarrierOnce
  NoTryAfterNull
PROPERTIES
  RetentionSafe
CHECK_DEADLOCK FALSE
