SPECIFICATION FairSpec
CONSTANTS
  c1 = c1
  c2 = c2
  d1 = d1
  d2 = d2
  d3 = d3
  d4 = d4
  d5 = d5
  n1 = n1
  n2 = n2
  NoDef = NoDef
  NoSpec = NoSpec
  Types = {"A", "B"}
  Params = {"x", "y"}
  Render <- MCRender
  HistoryLimit = 2
  Comps = {c1}
  Names = {n1, n2}
  Defs = {d1, d2, d3, d4, d5}
  Broken = {d4}
  BrokenOutputs = {d5}
  Firsts = {d1, NoDef}
  Foreigners = {n2}
  Policies = {FALSE}
  Pins = {}
  MaxRevs = 3
  MaxEdits = 2
  MaxFaults = 0
INVARIANTS
  TypeOK
  SyncedIsRendered
  ForeignUntouched
PROPERTIES
  Settles
  TracksLatest
CHECK_DEADLOCK FALSE
