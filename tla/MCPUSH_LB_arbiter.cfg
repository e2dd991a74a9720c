SPECIFICATION PushSpec
CONSTANTS
  B = 2
  FIFO_NUM = 2
  FIFO_SIZE = 1
  HighMax = 4
  RankMax = 1
  MaxPushes = 2
  Controls = {FALSE}
  IdleInputs = {0}
  None = 0
  ResetBorders <- MCResetBorders
INVARIANT SelectedHasData
