SPECIFICATION FairSpec
CONSTANTS
  pos = pos
  screen = screen
  Operators <- PosAndScreen
  Pos <- OnlyPos
  WarningTime = 1
  MaxDeposits = 2
  MaxBills = 1
  MaxOthers = 1
INVARIANTS TypeOK BillAccountedApart StoredOnce AtRest
PROPERTIES CallsReturn DropEnds
CHECK_DEADLOCK FALSE
