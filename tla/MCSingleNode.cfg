SPECIFICATION FairSpec
CONSTANTS
  Discs = {"ideal", "rr", "scaleup", "gearbox", "sppifo", "aifo", "packs", "wfqpcq", "sppcq"}
  NumLanes = 2
  LaneBuffer = 3
  FifoLimit = 5
  RefillBatch = 2
  Granularities <- MCGranularities
  NumLevels = 2
  WindowSize = 2
  Ratio = 2
  Ranks = {0, 1, 3}
  Sizes = {1, 2}
  NumPackets = 5
INVARIANT ListsAgree
PROPERTY RunsToTheEnd
CHECK_DEADLOCK FALSE
