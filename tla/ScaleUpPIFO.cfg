SPECIFICATION FairSpec
CONSTANTS
  NumLoadBalancers = 2
  NumPifos = 2
  NumIntervals = 3
  IntervalLength = 8
  SplitThreshold = 2
  AdjustPeriod = 3
  Unit = 2
  CountUnit = 4
  Ranks = {1, 9}
  MaxAdmitted = 5
  FifoLimit = 5
  PifoBuffer = 2
  RefillBatch = 2
  Sizes = {1, 2}
  SendTimes = {0}
  MaxPackets = 5
INVARIANTS
  TypeOK
  PifoSizesExact
  FifoUsageExact
  PifosFit
  BypassBounded
PROPERTIES
  EvictedOnlyWhenFull
  ImplementsQueue
  EveryPacketLeaves
