\* Not a run of the project: TLC finds OutKeepsOrder violated (README, section 4).
SPECIFICATION Spec
CONSTANTS
  WorkerCount = 2
  BatchSize = 2
  MaxAttempts = 1
  EndpointCount = 1
  Broken = {}
  Flaky = FALSE
  Counts = {2}
  Runners = {r1}
  OwnersWait = FALSE
  MaxRuns = 1
CHECK_DEADLOCK FALSE
PROPERTY
  OutKeepsOrder
