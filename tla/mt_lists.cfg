CONSTANTS
  Clients = {c1, c2, c3}
  UsecPerSec = 2
  Relative <- Short
  Absolute <- Past
  Periods <- Short
  ClearsInterval = TRUE
  MaxTime = 2
  MaxDepth = 2
  NULL = NULL
SPECIFICATION Spec
SYMMETRY Symmetry
INVARIANTS QueueWellFormed RepeatsOnlyIfAsked
PROPERTIES TimeoutIsNextExpiry RepeatingStaysPending
