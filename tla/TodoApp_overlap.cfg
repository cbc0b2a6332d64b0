SPECIFICATION TodoSpec
CONSTANTS
  Call = {c1, c2, c3, c4}
  Page = {p1, p2}
  Name = {blank, a}
  Blank = blank
  MaxId = 2
  None = None
INVARIANTS TodoTypeOK SettledListIsTable QuietIsClosed DeletesTappedRow
PROPERTIES ListOnlyShrinks
