CONSTANTS
  NPorts = 1
  PdClasses <- TwoClasses
  DefaultPower <- TwoPowers
  Operated = {1}
  Requests = {0, 1, 3}
  Totals = {2, 3, 5}
  MaxDpmPdPower = 3
  MaxApplied = 1
  MaxOutOfControlCounts = 1
  Debounce = TRUE
SPECIFICATION FairSpec
INVARIANTS PoweredOnlySafely 
PROPERTY PowerCutReachesPort
CHECK_DEADLOCK FALSE
