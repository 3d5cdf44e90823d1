SPECIFICATION Spec
CONSTANTS
  ServerAfter = 0
  AutoAfter = 1
  WordSize = 2
  MaxRuns = 2
INVARIANTS
  CollectorTypeOK
  OneProbe
  EvidenceFileIsWhole
  FileIsOfTheLatestRun
  ActiveHidesOldEvidence
  NoOldBootAccepted
PROPERTY ImplementsProbeJob
ACTION_CONSTRAINT OneOrder
