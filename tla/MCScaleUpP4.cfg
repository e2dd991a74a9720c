SPECIFICATION Spec
CONSTANTS
  NumBuckets = 2
  NumPifos = 2
  CounterModulus = 4
  Ranks = {0, 1, 2}
  SetupBorders <- MCSetupBorders
  NewBorders <- MCNewBorders
  MaxPackets = 5
  MaxUpdates = 2
  MaxUploads = 2
CHECK_DEADLOCK FALSE
INVARIANTS
  Balanced
  RecountBounded
PROPERTIES
  CountedInRange
