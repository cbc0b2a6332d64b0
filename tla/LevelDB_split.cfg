SPECIFICATION Spec
CONSTANTS
  NumKeys = 3
  MaxSequence = 4
  NumLevels = 3
  MaxMemLevel = 1
  L0Trigger = 2
  OutputSize = 1
  MemLimit = 1
  L0Stop = 2
  MaxWriters = 1
  MaxCrashes = 0
  MaxFails = 0
  MaxReads = 1
  None = None
  Writes <- Spans
INVARIANTS SmallerLevelIsNewer
CHECK_DEADLOCK FALSE
