SPECIFICATION FairSpec
CONSTANTS
  Runs = {p1, p2}
  Files = {f1, f2, f3}
  NoFile = NoFile
  Parts = 2
  Endpoints = 1
  MaxVersion = 2
PROPERTIES
  KeepsAGoodCopy
  TemporariesAreOwned
  RunsEnd
CHECK_DEADLOCK FALSE
