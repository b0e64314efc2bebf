SPECIFICATION FairSpec
CONSTANTS
  Procs = {p1, p2}
  MAX_FIFO_MSG = 3
  FIFO_MSG_SIZE = 2
  MsgLens <- LensWithZero
  Preempt = FALSE
  CanFault = FALSE
  MaxMsgs = 4
  MaxReads = 4
INVARIANTS
  TypeOK
  ExclusiveOpen
  ReadableDoesNotBlock
  LengthTableMatchesFifo
  StoredWhole
  UnseenAreEmpty
  FrameInv
PROPERTIES
  FifoSpec
