SPECIFICATION Spec
CONSTANTS
  Size = 2
  Subscribers = {s1}
  Callers = {r1}
  Poller = poller
  IntervalOption = 1
  WarmOption = 1
  IdleOption = 2
  IdleRounds = 2
  FirstDelay = 1
  MaxShift = 2
  DelayCap = 3
  FailureCap = 3
  JitterPart = 3
  MaxFetch = 1
  ApplyCanFail = TRUE
  StartTime = 1
  MaxStreak = 3
  Horizon = 6
INVARIANTS
  TierFollowsQuietPolls
  StopIsPrompt
  PolledOnTime
PROPERTY
  RetryIsBackedOff
CHECK_DEADLOCK FALSE
