SPECIFICATION FairSpec
CONSTANTS
  Keys = {k1, k2}
  Callers = {t1, t2, t3}
  MaxEntries = 1
  MaxFetches = 3
INVARIANTS
  NeverTooMany
  NobodyIsForgotten
  LoadsAreCurrent
PROPERTY
  LoadsReturn
CHECK_DEADLOCK FALSE
