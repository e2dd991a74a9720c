SPECIFICATION FairSpec
CONSTANTS
  Discs = {"packs"}
  NumLanes = 2
  LaneBuffer = 3
  FifoLimit = 5
  RefillBatch = 2
  Granularities <- MCGranularities
  NumLevels = 2
  WindowSize = 2
  Ratio = 2
  Ranks = {0, 1, 3}
  Sizes = {1, 2}
  NumPackets = 5
INVARIANT NoElementsAtExit
CHECK_DEADLOCK FALSE
