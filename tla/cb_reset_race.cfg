CONSTANTS
  Data = {d1, d2}
  NULL = NULL
  Junk = Junk
  Max = 3
  UserFlags = {"INTERRUPT_SAFE"}
  HasCleanup = TRUE
  TaskOps = {"enqueue", "dequeue", "peek", "lookup", "reset", "destroy"}
  IsrOps = {"enqueue", "dequeue"}
SPECIFICATION Spec
INVARIANT CountIsEntries
