SPECIFICATION Spec
CONSTANTS
  cash1 = cash1
  cash2 = cash2
  Cashes <- MCOneCash
  Bills <- MCBills
  MaxTime = 2
  MaxBills = 2
  MaxCrashes = 2
  CutAgain = TRUE
  SameSecond = FALSE
INVARIANT NothingInvented
CHECK_DEADLOCK FALSE
