SPECIFICATION FairSpec
CONSTANTS
  Channels = {1, 2}
  Jobs <- SampleJobs
  PULSES = 3
  TERM = 150
  Word = 1000
  Top = 16
  Prompt = TRUE
  None = None
PROPERTIES
  SamplesInOrder
  EverySamplePlayed
CHECK_DEADLOCK FALSE
