SPECIFICATION Spec
CONSTANTS
  UniverseSize = 2
  Values = {v1, v2}
  NoValue = NoValue
  MaxSubscribers = 1
  QueueLimit = 1
  QueueMax = 65536
  HeartbeatOn = FALSE
  Clients = {c1}
  Callers = {}
  Poller = poller
  Stoppers = {}
  PushCanFail = FALSE
  ApplyCanFail = FALSE
  FormatCanFail = TRUE
  MaxRounds = 2
  MaxId = 2
INVARIANT
  NotSilentlyStale
