SPECIFICATION TodoSpec
CONSTANTS
  Call = {c1, c2, c3}
  Page = {p1, p2, p3}
  Name = {blank, a}
  Blank = blank
  MaxId = 2
  None = None
INVARIANTS DeletesItemOfList
