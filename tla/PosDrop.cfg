SPECIFICATION Spec
CONSTANTS
  pos = pos
  screen = screen
  Operators <- OnlyPos
  Pos <- OnlyPos
  WarningTime = 0
  MaxDeposits = 2
  MaxBills = 1
  MaxOthers = 1
INVARIANT BillAccounted
CHECK_DEADLOCK FALSE
