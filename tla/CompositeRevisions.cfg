SPECIFICATION FairSpec
CONSTANTS
  c1 = c1
  c2 = c2
  d1 = d1
  d2 = d2
  d3 = d3
  d4 = d4
  d5 = d5
  n1 = n1
  n2 = n2
  NoDef = NoDef
  NoSpec = NoSpec
  Types = {"A", "B"}
  Params = {"x", "y"}
  Render <- MCRender
  HistoryLimit = 2
  Comps = {c1, c2}
  Names = {n1}
  Defs = {d1, d2}
  Broken = {}
  BrokenOutputs = {}
  Firsts = {d1}
  Foreigners = {}
  Policies = {TRUE}
  Pins <- SomePins
  MaxRevs = 3
  MaxEdits = 2
  MaxFaults = 1
INVARIANTS
  RecordedRevisionSurvives
PROPERTIES
  ManualStays
CHECK_DEADLOCK FALSE
