\* Two requests beside the worker; two packs share an asset; a fault, an edit.
SPECIFICATION MCSpec
CONSTANTS
  c1 = c1
  c2 = c2
  a1 = a1
  a2 = a2
  b1 = b1
  b2 = b2
  Candidates = {c1, c2}
  Assets = {a1, a2}
  ItemsOf <- Overlapping
  Place <- InOrder
  BlobOf <- OwnBlobs
  Sessions = {s1, s2}
  None = None
  MaxTries = 1
  MaxFaults = 1
  MaxEdits = 1
INVARIANTS
  SerialUnlessOverlapped
  NoVerdictWithoutRecord
  DanglingWasMoved
  CoherentUnlessOverlapped
PROPERTIES
  FinalUnlessOverlapped
SYMMETRY SessionSymmetry
CHECK_DEADLOCK FALSE
