\* One worker process, the deployment the repository describes; its horizon
\* MaxTime is never reached.
SPECIFICATION FairSpec
CONSTANTS
  Jobs = {k1, k2}
  Workers = {w1}
  NoWorker = NoWorker
  Unhandled = {k2}
  Ambiguous = {k1}
  MaxAttempts = 2
  ScheduleDelays = {0, 2}
  StaleAfter = 3
  RetryDelay = 1
  NoHandlerDelay = 2
  MaxTime = 24
  MaxCrashes = 2
INVARIANTS
  HandlerOwnsRow
  AttemptsBounded
  GivenUpLast
PROPERTIES
  FinishedStays
  EveryJobSettles
CHECK_DEADLOCK FALSE
