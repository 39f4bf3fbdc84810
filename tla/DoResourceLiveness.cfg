SPECIFICATION FairSpec
CONSTANTS
  i1 = i1
  i2 = i2
  i3 = i3
  i4 = i4
  pA = pA
  pB = pB
  pC = pC
  NoId = NoId
  NoProps = NoProps
  InPlace <- MCInPlace
  FixedId = i1
  ImportId = i1
  Providers <- AllProviders
  Ids = {i1, i2, i3, i4}
  Props = {pA, pC}
  Valid = {pA, pC}
  SecretIds = {pA}
  Oversize = {pC}
  Imports = {"none", "live", "wrong"}
  Faults = {"crash", "timeout", "keepJob", "jobLost", "expire", "provider", "schema", "references", "profile", "drift"}
  MaxFaults = 1
  MaxEdits = 1
INVARIANTS
  SecretFailureIsTerminal
  ReplacementIsFinal
PROPERTIES
  Converges
  DeletionCompletes
CHECK_DEADLOCK FALSE
