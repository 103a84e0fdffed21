SPECIFICATION RunSpec
CONSTANTS
  Runs = {r1, r2}
  None = None
INVARIANTS
  PublishedComplete
  ReuseMatchesImpact
PROPERTIES
  FailedLatestStays
  LockReleased
CHECK_DEADLOCK FALSE
