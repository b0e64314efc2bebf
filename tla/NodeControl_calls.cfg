SPECIFICATION FairSpec
CONSTANTS
  Calls = {a1, a2}
  Overlap = FALSE
  LateThreads = FALSE
INVARIANTS
  StateAgrees
  LoadsIntoStoppedCore
PROPERTY
  BootStopsCores
