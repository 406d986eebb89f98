SPECIFICATION FairSpec
CONSTANT
  Handlers = {h1, h2}
INVARIANTS
  NothingFreedInUse
  ReturnsClean
PROPERTY
  CommandReturns
CHECK_DEADLOCK FALSE
