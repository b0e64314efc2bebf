SPECIFICATION Spec
CONSTANTS
  pru0 = pru0
  pru1 = pru1
  pru2_0 = pru2_0
  Chans <- ChansDef
  Ports = {30, 31}
  Port <- PortDef
  Procs = {p1}
  PRU_MAX_DEVICES = 2
  None = None
  Freed = Freed
INVARIANTS
  TypeOK
  NodeIsOurs
  Unwound
