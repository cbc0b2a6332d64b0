SPECIFICATION Spec
CONSTANTS
  NumKeys = 3
  Value = {a, b}
  MaxChanges = 3
  None = None
INVARIANTS TypeOK GetIsLatest
PROPERTIES CommitIsLatest NextIsSuccessor
