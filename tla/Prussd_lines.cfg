SPECIFICATION FairSpec
CONSTANTS
  Threads = {t1, t2}
  Shapes <- Terminated
  Capacity = 2
  MaxMsgs = 3
INVARIANTS
  NothingLost
PROPERTIES
  GetMsgReturns
  EventReported
  
