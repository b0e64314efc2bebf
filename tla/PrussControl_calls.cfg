SPECIFICATION Spec
CONSTANTS
  Clients = {c1}
  Kinds = {"own", "copy"}
  LateThreads = FALSE
INVARIANTS
  TypeOK
  StoppedMeansOff
  OwnShutDownStops
PROPERTY ConstructorStops
