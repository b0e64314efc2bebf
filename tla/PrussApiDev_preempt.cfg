SPECIFICATION FairSpec
CONSTANTS
  Procs = {p1, p2}
  MAX_FIFO_MSG = 3
  FIFO_MSG_SIZE = 2
  MsgLens <- LensWithZero
  Preempt = TRUE
  CanFault = TRUE
  MaxMsgs = 3
  MaxReads = 4
PROPERTIES
  BlockedCallReturns
