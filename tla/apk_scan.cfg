SPECIFICATION Spec
CONSTANTS
  MaxU64 = 7
  MaxRatio = 2
  RatioFloor = 2
  Payloads <- SomePayloads
  MaxZipEntries = 4
  MaxCandidateSoEntries = 2
  MaxSingleSoBytes = 2
  MaxTotalRelevantSoBytes = 3
  MaxInnerZipEntries = 3
  MaxSingleInnerEntryBytes = 2
  MaxTotalInnerEntryBytes = 4
  MaxRecordedDiagnostics = 2
  MaxArchive = 4
INVARIANTS
  Accounted
  HonestStatus
  WithinLimits
  BestElf
CHECK_DEADLOCK FALSE
