CONSTANTS
  Monitors = {m1}
  Dirs = {d1}
  NoDir = NoDir
  MaxChanges = 1
  MaxOps = 0
  MaxAdds = 1
  UserRemoves = FALSE
  ChangesWhileAdding = TRUE
SPECIFICATION Spec
INVARIANT FileEventsNamed
CHECK_DEADLOCK FALSE
