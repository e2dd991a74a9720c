SPECIFICATION PushSpec
CONSTANTS
  B = 4
  FIFO_NUM = 2
  FIFO_SIZE = 2
  HighMax = 4
  RankMax = 3
  MaxPushes = 5
  Controls = {FALSE}
  IdleInputs = {0}
  None = 0
  ResetBorders <- MCResetBorders
INVARIANTS
  PushTypeOK
  WaitBounded
  NoDrop
  InOrder
  ExactlyOnce
PROPERTY
  EveryPacketPops
