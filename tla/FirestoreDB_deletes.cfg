SPECIFICATION Spec
CONSTANTS
  None = None
  MaxDoc = 2
  MaxDeletes = 2
INVARIANT SettledListIsCollection
