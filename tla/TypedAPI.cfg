SPECIFICATION FairSpec
CONSTANTS
  d1 = d1
  t1 = t1
  o1 = o1
  NoOwner = NoOwner
  NoParams = NoParams
  Defs = {d1}
  Tokens = {t1}
  Versions = {"v1", "v2"}
  TypedVersion = "v1"
  APIs <- SomeAPIs
  FirstAPIs <- FirstAPI
  Malformed <- Contradictory
  Rejected <- BadSchema
  Strangers = {"none", "unmanaged", "legacy"}
  Objects = {o1}
  Params = {"x", "y"}
  FirstParams = {"x"}
  MaxUids = 3
  MaxEvents = 2
INVARIANTS
  TypeOK
  CRDHasDefinition
  ServedOnce
  DeletionWaitsWhenServed
  ObjectsStayReadable
PROPERTIES
  ForeignKept
  APISettles
  DefinitionsGo
  ObjectsTranslated
