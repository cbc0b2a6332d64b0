SPECIFICATION Spec
CONSTANTS
  NumKeys = 3
  MaxSequence = 4
  NumLevels = 3
  MaxMemLevel = 1
  L0Trigger = 2
  OutputSize = 9
  MemLimit = 1
  L0Stop = 2
  MaxWriters = 1
  MaxCrashes = 0
  MaxFails = 1
  MaxReads = 2
  None = None
  Writes <- Spans
INVARIANTS ReadsNewest LevelsDisjoint SmallerLevelIsNewer NeededTablesExist
CHECK_DEADLOCK FALSE
CONSTRAINT Budget
