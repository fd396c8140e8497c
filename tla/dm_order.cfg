CONSTANTS
  Monitors = {m1}
  Dirs = {d1, d2}
  NoDir = NoDir
  MaxChanges = 3
  MaxOps = 2
  MaxAdds = 2
  UserRemoves = TRUE
  ChangesWhileAdding = TRUE
SPECIFICATION Spec
INVARIANTS EventsAccounted WatchedEventsNamed NoSleeperForgotten
CHECK_DEADLOCK FALSE
