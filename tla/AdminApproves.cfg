\* The operator does not wait: another candidate is opened under a handler.
SPECIFICATION MCSpec
CONSTANTS
  c1 = c1
  c2 = c2
  i1 = i1
  i2 = i2
  j1 = j1
  r1 = r1
  r2 = r2
  x1 = x1
  x2 = x2
  Resources = {r1, r2}
  Rows = {x1, x2}
  RowOf <- OwnersRow
  Handlers = {h1, h2}
  Nothing = Nothing
  MaxActs = 0
  MaxLost = 0
  Candidates = {c1, c2}
  Present = {c1, c2}
  Erome = {c2}
  FirstOrder <- TwoPacks
  Slots = {h1, h2}
  None = None
  MaxClicks = 4
  MaxEdits = 0
  MaxFaults = 0
  MaxPolls = 2
INVARIANTS
  ApprovesOnlySelected
CHECK_DEADLOCK FALSE
