SPECIFICATION FairSpec
CONSTANTS
  SeqMod = 4
  MaxRetries = 2
  MaxData = 2
  BufSize = 5
  ReadSize = 5
  Sizes = {2, 5}
  MaxMessages = 2
  MaxFaults = 1
  Damages <- AnyDamage
INVARIANTS InOrder AckedIsReceived
PROPERTIES RetransAcked RetriesSuffice CallsEnd
CHECK_DEADLOCK FALSE
