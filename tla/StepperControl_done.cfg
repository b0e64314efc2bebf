SPECIFICATION Spec
CONSTANTS
  Word = 4
  Commands <- Moves
  Pins = {"cw", "ccw"}
  DefaultPins = "cw"
  Prompt = TRUE
PROPERTY
  DoneWhenSent
