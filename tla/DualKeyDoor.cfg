SPECIFICATION Spec
CONSTANTS
  collector = collector
  support = support
  cashier = cashier
  NoUser = NoUser
  Users <- MCKeyHolders
  HasAccessToDoor <- MCKeyHolders
  HasDualAccess <- MCDual
  TimeDelayOverride = {}
  DelayOpenTime = TRUE
  KeyCount = 2
  Sensor = "BOTH"
INVARIANTS TypeOK NeverStuck BuzzerMatches DualControl DelayRespected AccountedOpening
