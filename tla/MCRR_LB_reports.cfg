SPECIFICATION Spec
CONSTANTS
  B = 2
  FIFO_NUM = 2
  HighMax = 4
  RankMax = 1
  ResetBorders <- MCResetBorders
  MaxPushes = 4
INVARIANT ReportedOnce
