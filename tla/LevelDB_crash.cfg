SPECIFICATION Spec
CONSTANTS
  NumKeys = 2
  MaxSequence = 3
  NumLevels = 3
  MaxMemLevel = 1
  L0Trigger = 2
  OutputSize = 1
  MemLimit = 1
  L0Stop = 2
  MaxWriters = 2
  MaxCrashes = 2
  MaxFails = 1
  MaxReads = 0
  None = None
  Writes <- Pairs
INVARIANTS TypeOK ReadsNewest SyncedSurvives NeededTablesExist
PROPERTIES EveryWriteReturns
CHECK_DEADLOCK FALSE
