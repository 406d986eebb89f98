SPECIFICATION ReadingSpec
CONSTANTS
  UniverseSize = 1
  Values = {v1}
  NoValue = NoValue
  MaxSubscribers = 1
  QueueLimit = 1
  QueueMax = 65536
  HeartbeatOn = TRUE
  Clients = {c1, c2}
  Callers = {r1}
  Poller = poller
  Stoppers = {t1, t2}
  PushCanFail = TRUE
  ApplyCanFail = TRUE
  FormatCanFail = TRUE
  MaxRounds = 1
  MaxId = 2
INVARIANTS
  NeverOverflows
  RoundsExclusive
  StopDrains
PROPERTIES
  StopReturns
  LostIsTold
CHECK_DEADLOCK FALSE
