SPECIFICATION FairSpec
CONSTANTS
  r1 = r1
  r2 = r2
  r3 = r3
  NoRunner = NoRunner
  Runners = {r1, r2, r3}
  MaxFaults = 2
INVARIANTS
  OneDownload
PROPERTIES
  EveryoneServed
CHECK_DEADLOCK FALSE
