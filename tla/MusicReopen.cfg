SPECIFICATION SpecR
INVARIANT FlagMeansPlaying
CONSTANTS
  Files <- MCFiles
  Data <- MCData
  Avail <- MCAvail
  Counts <- MCCounts
  None = None
