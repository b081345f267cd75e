SPECIFICATION FairSpec
INVARIANTS TypeOK RecordingIsFresh
PROPERTIES FetchedInOrder RecordingStarts
CONSTANTS
  N = 2
  Cap = 5
  Block = 2
  FrameLen = 1
  MaxSent = 16
  MaxSem = 2
