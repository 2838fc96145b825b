\* One tab on one of the two pages, two handlers at once, one failing request.
SPECIFICATION MCSpec
CONSTANTS
  c1 = c1
  c2 = c2
  i1 = i1
  i2 = i2
  j1 = j1
  r1 = r1
  r2 = r2
  x1 = x1
  x2 = x2
  Resources = {r1, r2}
  Rows = {x1, x2}
  RowOf <- OwnersRow
  Handlers = {h1, h2}
  Nothing = Nothing
  MaxActs = 2
  MaxLost = 1
  Candidates = {c1, c2}
  Present = {c1}
  Erome = {c2}
  FirstOrder <- TwoPacks
  Slots = {h1, h2}
  None = None
  MaxClicks = 3
  MaxEdits = 1
  MaxFaults = 1
  MaxPolls = 2
INVARIANTS
  ApprovesTicked
  PageIsOfOneCandidate
  IdleMeansWritten
  NoticeIsTrue
  FormsAreFiled
  TableIsCurrent
PROPERTIES
  PageComesBack
CHECK_DEADLOCK FALSE
