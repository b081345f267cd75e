SPECIFICATION FairSpec
PROPERTY DeathIsFatal
CONSTANTS
  t1 = t1
  t2 = t2
  t3 = t3
  None = None
  Tracks <- MCTracks
  Fits <- MCFits
  Levels <- MCLevels
  QueueCap = 1
  MaxSkip = 1
  MaxVolume = 0
