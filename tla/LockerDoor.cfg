SPECIFICATION FairSpec
CONSTANTS
  collector = collector
  support = support
  cashier = cashier
  NoUser = NoUser
  Users <- MCCollectorAndCashier
  HasAccessToDoor <- MCCollector
  HasDualAccess = {}
  TimeDelayOverride = {}
  DelayOpenTime = TRUE
  KeyCount = 1
  Sensor = "LOCKER"
PROPERTY Progress
