SPECIFICATION FairSpec
CONSTANTS
  Keys = {k1, k2}
  Records = {r1, r2}
  NoRecord = NoRecord
  Nothing = Nothing
  Clients = {c1, c2}
  QueueLimit = 1
INVARIANTS
  NeverStale
  ChangesHaveABase
  NobodyOversleeps
PROPERTY
  EventuallyTold
CHECK_DEADLOCK FALSE
