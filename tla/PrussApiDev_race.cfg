SPECIFICATION Spec
CONSTANTS
  Procs = {p1}
  MAX_FIFO_MSG = 3
  FIFO_MSG_SIZE = 2
  MsgLens <- LensNonZero
  Preempt = TRUE
  CanFault = FALSE
  MaxMsgs = 3
  MaxReads = 3
INVARIANT LengthTableMatchesFifo
