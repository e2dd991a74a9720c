SPECIFICATION FifoSpec
CONSTANTS
  FIFO_SIZE = 4
  None = None
  Data = {p, q, r}
INVARIANT FifoTypeOK
PROPERTY ImplementsQueue
