SPECIFICATION Spec
CONSTANTS
  i1 = i1
  i2 = i2
  i3 = i3
  i4 = i4
  pA = pA
  pB = pB
  pC = pC
  NoId = NoId
  NoProps = NoProps
  InPlace <- MCInPlace
  FixedId = i1
  ImportId = i1
  Providers <- AllProviders
  Ids = {i1, i2, i3}
  Props = {pA, pB, pC}
  Valid = {pA, pC}
  SecretIds = {}
  Oversize = {pC}
  Imports = {"none"}
  Faults = {"crash", "timeout", "unreadable", "garbled", "keepJob", "jobLost", "expire", "provider", "schema", "references", "profile", "drift"}
  MaxFaults = 1
  MaxEdits = 2
INVARIANTS
  TypeOK
  DestroyNeedsConsent
  FinalizerOutlivesResource
  EveryResourceRecorded
  AppliedHashIsApplied
PROPERTY
  ImplementsLife
CHECK_DEADLOCK FALSE
