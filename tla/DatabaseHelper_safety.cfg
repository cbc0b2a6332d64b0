SPECIFICATION Spec
CONSTANTS
  Call = {c1, c2, c3}
  Name = {a}
  MaxId = 2
  None = None
SYMMETRY Symmetry
INVARIANTS TypeOK CloseIsLast OpenIsAlone FailsOnlyByClose
PROPERTIES StepsImplementStore
