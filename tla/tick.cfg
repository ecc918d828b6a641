SPECIFICATION FairTickSpec
CONSTANTS
  g1 = g1
  g2 = g2
  w1 = w1
  w2 = w2
  Gid = {g1, g2}
  Tcc = {g1}
  Callback = {g2}
  Worker = {w1, w2}
  Redis = FALSE
  MaxExpiries = 0
  Backoff = 2
  MaxBackoff = 3
  MaxShift = 1
  MaxU64 = 3
  MaxEvents = 1
INVARIANT
  OneWorkerAtATime
PROPERTIES
  BackoffGrows
  NoneStarved
CHECK_DEADLOCK FALSE
