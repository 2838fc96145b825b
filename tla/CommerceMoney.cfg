\* A second confirmation after fulfilment.
SPECIFICATION FairOverlapSpec
CONSTANTS
  o1 = o1
  Orders = {o1}
  Events <- PaidTwice
  Versions = {v1, v2}
  Sessions = {s1}
  Worker = worker
  None = None
  MaxAttempts = 3
  MaxFaults = 1
  MaxRepoints = 1
INVARIANTS
  NoMoneyVanishes
CHECK_DEADLOCK FALSE
