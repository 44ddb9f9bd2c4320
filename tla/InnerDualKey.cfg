SPECIFICATION Spec
CONSTANTS
  collector = collector
  support = support
  NoUser = NoUser
  Users <- MCUsers
  HasAccessToDoor <- MCUsers
  HasDualAccess <- MCDual
  TimeDelayOverride = {}
  DelayOpenTime = TRUE
  InnerKeyCount = 2
  OuterKeyCount = 1
  Targets = {"inner"}
PROPERTY InnerDualControl
