\* Two worker processes on one table: what survives the unlocked claim.
SPECIFICATION Spec
CONSTANTS
  Jobs = {k1, k2}
  Workers = {w1, w2}
  NoWorker = NoWorker
  Unhandled = {k2}
  Ambiguous = {k1}
  MaxAttempts = 2
  ScheduleDelays = {0, 2}
  StaleAfter = 2
  RetryDelay = 1
  NoHandlerDelay = 2
  MaxTime = 5
  MaxCrashes = 1
INVARIANTS
  LockMatchesStatus
CHECK_DEADLOCK FALSE
SYMMETRY WorkerSymmetry
