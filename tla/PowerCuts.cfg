SPECIFICATION Spec
CONSTANTS
  cash1 = cash1
  cash2 = cash2
  Cashes <- MCCashes
  Bills <- MCBills
  MaxTime = 2
  MaxBills = 2
  MaxCrashes = 2
  CutAgain = FALSE
  SameSecond = FALSE
INVARIANTS NothingInvented NothingLost TotalsMatch NumbersConsecutive
PROPERTY ImplementsLedger
CHECK_DEADLOCK FALSE
