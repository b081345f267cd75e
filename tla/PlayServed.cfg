SPECIFICATION FairSpec
PROPERTY PlayIsServed
CONSTANTS
  t1 = t1
  t2 = t2
  t3 = t3
  None = None
  Tracks <- MCTracks
  Fits <- MCFits
  Levels <- MCLevels
  QueueCap = 2
  MaxSkip = 2
  MaxVolume = 0
