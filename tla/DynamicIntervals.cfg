\* The load balancers alone: AdjustIntervals after every second admission,
\* four adjustments deep; 3-rank intervals reach the width guard in one split.
SPECIFICATION Spec
CONSTANTS
  NumLoadBalancers = 2
  NumPifos = 3
  NumIntervals = 3
  IntervalLength = 48
  SplitThreshold = 2
  AdjustPeriod = 2
  Unit = 16
  CountUnit = 256
  Ranks = {0, 4, 7, 11}
  MaxAdmitted = 8
INVARIANTS
  TypeOK
  Balanced
  IntervalsWide
  RecountBounded
PROPERTIES
  LastBorderGrows
  LoadConserved
