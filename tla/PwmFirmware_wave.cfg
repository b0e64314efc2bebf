SPECIFICATION Spec
CONSTANTS
  Channels = {1, 2}
  Jobs <- AnalogJobs
  PULSES = 3
  TERM = 150
  Word = 1000
  Top = 16
  Prompt = TRUE
  None = None
PROPERTY WholeWave
CHECK_DEADLOCK FALSE
