SPECIFICATION Spec
CONSTANTS
  UniverseSize = 2
  Values = {v1, v2}
  NoValue = NoValue
  MaxSubscribers = 2
  QueueLimit = 1
  QueueMax = 65536
  HeartbeatOn = FALSE
  Clients = {c1, c2}
  Callers = {}
  Poller = poller
  Stoppers = {}
  PushCanFail = TRUE
  ApplyCanFail = TRUE
  FormatCanFail = FALSE
  MaxRounds = 2
  MaxId = 2
SYMMETRY Symmetry
INVARIANTS
  QueueDiscipline
  NotSilentlyStale
  IdsUnique
PROPERTY
  ReadsIncrease
