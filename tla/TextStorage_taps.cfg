SPECIFICATION Spec
CONSTANTS
  Tap = {t1, t2, t3}
  Char = {a, b}
  MaxLen = 2
  None = None
SYMMETRY Symmetry
INVARIANTS TextTypeOK LastTextIsInFront CleanReadIsWhole
