\* Two requests and the worker interleaved.
SPECIFICATION FairOverlapSpec
CONSTANTS
  o1 = o1
  Orders = {o1}
  Events <- Mixed
  Versions = {v1, v2}
  Sessions = {s1, s2}
  Worker = worker
  None = None
  MaxAttempts = 2
  MaxFaults = 2
  MaxRepoints = 1
INVARIANTS
  SerialPaymentMatchesOrder
  AccessWasPaid
  OneEntitlement
  PaidHasJob
PROPERTIES
  SerialOrderNeverRegresses
  ImplementsPurchase
  GrantsWhatIsPaid
CHECK_DEADLOCK FALSE
