SPECIFICATION Spec
CONSTANTS
  WorkerCount = 2
  BatchSize = 2
  MaxAttempts = 1
  EndpointCount = 1
  Broken = {}
  Flaky = TRUE
  Counts = {1, 5}
  Runners = {r1, r2}
  OwnersWait = FALSE
  MaxRuns = 2
CHECK_DEADLOCK FALSE
INVARIANTS
  WritesAreSafe
PROPERTY
  OkMeansAnswered
