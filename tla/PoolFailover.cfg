SPECIFICATION FairSpec
CONSTANTS
  WorkerCount = 2
  BatchSize = 1
  MaxAttempts = 4
  EndpointCount = 3
  Broken = {0, 1}
  Flaky = FALSE
  Counts = {1, 3}
  Runners = {r1, r2}
  OwnersWait = TRUE
  MaxRuns = 3
CHECK_DEADLOCK FALSE
INVARIANTS
  HealthyEndpointIsReached
  DestroyLeavesNothing
PROPERTY
  CallsReturn
