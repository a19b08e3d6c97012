CONSTANTS
  Callers = {c1, c2}
  Cancelling = {c1}
  PerTry = 2
  BackoffMin = 1
  BackoffMax = 2
  Total = 11
  OpenFor = 12
  MaxFailures = 1
  Retriable = TRUE
  MaxFaults = 3
SPECIFICATION FairSpec
CHECK_DEADLOCK FALSE
INVARIANTS TypeOK CallsEndInTime BreakerKnowsItsCalls
PROPERTIES RetriesAreUsedUp Recovers
