SPECIFICATION TodoSpec
CONSTANTS
  Call = {c1, c2, c3}
  Page = {p1, p2}
  Name = {blank}
  Blank = blank
  MaxId = 1
  None = None
PROPERTIES EveryPageLoads
