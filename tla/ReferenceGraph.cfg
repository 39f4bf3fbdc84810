SPECIFICATION FairSpec
CONSTANTS
  N = 3
  UsageTargets = {2}
  Graphs <- Knots
  Lates <- NoneOrTwo
  Born <- NoneOrAll
  Rewiring = FALSE
  MaxEdits = 3
  MaxErrors = 0
INVARIANTS
  TypeOK
  DependentsGoFirst
PROPERTIES
  TeardownCompletes
CHECK_DEADLOCK FALSE
