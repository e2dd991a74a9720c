SPECIFICATION TopSpec
CONSTANTS
  NumLB = 2
  NumPifo = 1
  MaxIntervals = 3
  InitNumIntervals = 8
  Modulus = 2048
  WideModulus = 65536
  MinLoad = 100
  Words = {0, 150}
  Unreset = {0, 400}
  MaxRounds = 2
INVARIANTS
  LoadConserved
  AscendingKept
  StartNeverLost
PROPERTIES
  ImplementsAdjustment
  RoundsGoOn
