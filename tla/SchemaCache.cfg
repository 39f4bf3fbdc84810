SPECIFICATION FairSpec
CONSTANTS
  c1 = c1
  c2 = c2
  c3 = c3
  k1 = k1
  Callers = {c1, c2, c3}
  Keys = {k1}
  MaxCalls = 4
INVARIANTS
  FetchIsShared
PROPERTIES
  EveryCallReturns
  ImplementsSharedFetch
CHECK_DEADLOCK FALSE
