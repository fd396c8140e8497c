CONSTANTS
  Clients = {c1, c2}
  UsecPerSec = 2
  Relative <- IntervalsAndZero
  Absolute <- None
  Periods <- Short
  ClearsInterval = TRUE
  MaxTime = 2
  MaxDepth = 1
  NULL = NULL
SPECIFICATION FairSpec
PROPERTY ExpiredTimersAreServed
