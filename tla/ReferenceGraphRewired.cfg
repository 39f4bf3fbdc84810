SPECIFICATION FairSpec
CONSTANTS
  N = 3
  UsageTargets = {}
  Graphs <- ChainOrRing
  Lates <- OnlyThree
  Born <- NoneBorn
  Rewiring = TRUE
  MaxEdits = 2
  MaxErrors = 1
PROPERTIES
  Provisions
CHECK_DEADLOCK FALSE
