SPECIFICATION FairSpec
CONSTANTS
  MaxConnections = 2
  Descriptors = {d1, d2, d3}
  NoDescriptor = NoDescriptor
  Stoppers = {t1, t2}
  MaxClients = 3
INVARIANTS
  SlotsAreSound
  StopDrains
PROPERTIES
  ShutdownHitsClients
  JoinedBeforeReuse
  StopReturns
  SlotsComeBack
CHECK_DEADLOCK FALSE
