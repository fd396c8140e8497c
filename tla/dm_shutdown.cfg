CONSTANTS
  Monitors = {m1, m2}
  Dirs = {d1}
  NoDir = NoDir
  MaxChanges = 1
  MaxOps = 2
  MaxAdds = 1
  UserRemoves = TRUE
  ChangesWhileAdding = TRUE
SPECIFICATION FairSpec
PROPERTIES DestructionEnds OperationsEnd 
CHECK_DEADLOCK FALSE
