SPECIFICATION FairSpec
CONSTANTS
  t1 = t1
  t2 = t2
  NoTimer = NoTimer
  Timers <- MCTimers
  Periodic <- MCPeriodic
  MaxCtimers = 3
INVARIANTS NeverRefused OneSlot
PROPERTIES NeverEarly ImplementsOneShot Fires
