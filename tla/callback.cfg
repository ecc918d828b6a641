SPECIFICATION FairSpec
CONSTANTS
  w1 = w1
  w2 = w2
  c1 = c1
  s1 = s1
  v1 = v1
  v2 = v2
  Worker = {w1, w2}
  Client = {c1}
  Redis = TRUE
  MaxExpiries = 1
  Step = {s1}
  Value = {v1, v2}
  Contracts <- ThreeContracts
  CanExpire = TRUE
  MaxRequests = 3
  MaxCrashes = 1
INVARIANTS
  CompletionHonoured
PROPERTIES
  EndIsFinal
  ProgressKept
  EpochOrder
  TimeoutEnds
CHECK_DEADLOCK FALSE
