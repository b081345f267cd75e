SPECIFICATION Spec
INVARIANTS CodecTypeOK G711Close
PROPERTIES AdpcmFollows DriftShrinks
CHECK_DEADLOCK FALSE
CONSTANTS
  Coders = {"MY_G711U", "MY_G711A", "MY_5350AUDIOENCDEC"}
  Signals <- MCSignals
  MaxFrames = 3
