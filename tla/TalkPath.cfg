SPECIFICATION FairSpec
INVARIANTS TypeOK InOrder NoLostStart StopSilences HeardInOrder
PROPERTY RingDrains
CONSTANTS
  N = 3
  Cap = 3
  Block = 2
  Sizes <- MCSizes
  MaxSent = 12
  MaxSem = 2
