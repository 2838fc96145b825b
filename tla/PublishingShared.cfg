\* Two assets of one blob share their file.
SPECIFICATION Spec
CONSTANTS
  k1 = k1
  k2 = k2
  a1 = a1
  a2 = a2
  f1 = f1
  f2 = f2
  p1 = p1
  p2 = p2
  Packs = {k1, k2}
  Assets = {a1, a2}
  Files = {f1}
  ItemsOf <- PackEach
  FileOf <- OneFile
  Publications = {p1, p2}
  PackOf <- OneOfEach
  Workers = {w1}
  None = None
  MaxAttempts = 2
  MaxFaults = 0
  MaxCrashes = 0
  MaxClaims = 9
  MaxEdits = 0
INVARIANTS
  KeepsUnvaulted
CHECK_DEADLOCK FALSE
