SPECIFICATION Spec
CONSTANTS
  Call = {c1, c2}
  Name = {a}
  MaxId = 2
  None = None
PROPERTIES ImplementsStore EveryCallReturns
