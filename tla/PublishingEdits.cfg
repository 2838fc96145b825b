\* One worker process, a pack for two destinations, edited while it is published;
\* liveness of the purge.
SPECIFICATION FairSpec
CONSTANTS
  k1 = k1
  k2 = k2
  a1 = a1
  a2 = a2
  f1 = f1
  f2 = f2
  p1 = p1
  p2 = p2
  Packs = {k1}
  Assets = {a1, a2}
  Files = {f1, f2}
  ItemsOf <- PackForTwo
  FileOf <- OwnFiles
  Publications = {p1, p2}
  PackOf <- BothOfOne
  Workers = {w1}
  None = None
  MaxAttempts = 2
  MaxFaults = 1
  MaxCrashes = 1
  MaxClaims = 9
  MaxEdits = 2
INVARIANTS
  DuplicatesNeedFaults
  UnrecordedIsMarked
  PurgeIsSafe
PROPERTIES
  RecordedGetsPurged
CHECK_DEADLOCK FALSE
