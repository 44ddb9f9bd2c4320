SPECIFICATION FairSpec
CONSTANTS
  p1 = p1
  p2 = p2
  c1 = c1
  c2 = c2
  NoThread = NoThread
  Producers <- MCProducers
  Consumers <- TwoConsumers
  MaxCount = 2
  MaxPushes = 3
INVARIANTS NeverEmpty
PROPERTIES ImplementsFifo DeliveredUnlessFull
CHECK_DEADLOCK FALSE
