SPECIFICATION Spec
CONSTANTS
  Sec = 2
  TTL = 60
  Interval = 20
  Margin = 10
  ClaimDelay = 20
  Attempts = 2
  AttemptTimeout = 3
  Backoff = 1
  StopTime = 8
  MaxTime = 160
CHECK_DEADLOCK FALSE
INVARIANTS
  TypeOK
  ProviderHoldsLease
  DeadlineWithinLease
