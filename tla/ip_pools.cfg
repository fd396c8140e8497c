CONSTANTS
  NPorts = 2
  PdClasses <- OneClass
  DefaultPower <- OnePower
  Operated = {1}
  Requests = {0, 2}
  Totals = {2, 5}
  MaxDpmPdPower = 3
  MaxApplied = 1
  MaxOutOfControlCounts = 1
  Debounce = FALSE
SPECIFICATION Spec
INVARIANT PoolSound
PROPERTY ShedsNoMoreThanNeeded
CHECK_DEADLOCK FALSE
