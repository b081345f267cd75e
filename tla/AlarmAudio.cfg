SPECIFICATION AlarmFairSpec
INVARIANTS TypeOK OneWakeup NoLostRequest CallbackEarned AlarmPrevails
PROPERTIES BoxSpec RequestIsTaken FiniteRequestEnds AlarmStays
CONSTANTS
  Files <- MCFiles
  Data <- MCData
  Avail <- MCAvail
  Counts <- MCCounts
  Types <- MCTypes
  Callers = {t1, t2}
  None = None
