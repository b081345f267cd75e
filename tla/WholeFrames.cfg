SPECIFICATION Spec
PROPERTY WholeFramesAccepted
CONSTANTS
  N = 3
  Cap = 5
  Block = 2
  Sizes <- MCFrames
  MaxSent = 12
  MaxSem = 2
