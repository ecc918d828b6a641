SPECIFICATION TopicsSpec
CONSTANTS
  p1 = p1
  p2 = p2
  p3 = p3
  u1 = u1
  u2 = u2
  Proc = {p1, p2, p3}
  Url = {u1, u2}
  MaxTries = 2
  MaxOps = 5
  MaxMessages = 1
INVARIANTS
  SubscribersExact
  ContentionHonest
CHECK_DEADLOCK FALSE
