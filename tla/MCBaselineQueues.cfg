SPECIFICATION Spec
CONSTANTS
  Discs = {"ideal", "rr", "sppifo", "aifo", "packs"}
  NumLanes = 2
  Buffer = 6
  WindowSize = 2
  KTenths = 4
  Keys <- MCKeys
  Sizes = {1, 2}
  MaxPackets = 4
INVARIANTS LaneSizesExact BordersDescend
PROPERTIES RefusedOnlyForRoom ImplementsQueue
