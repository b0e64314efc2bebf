SPECIFICATION FairSpec
CONSTANTS
  Word = 4
  Commands <- Moves
  Pins = {"cw", "ccw"}
  DefaultPins = "cw"
  Prompt = TRUE
INVARIANTS
  StepsAsAsked
  EventIsFresh
PROPERTIES
  MoveIsExact
  MoveEnds
