SPECIFICATION VerdictSpec
CONSTANTS
  Catalogue <- Kinds
  Considered <- Some
  Repeats = {1, 4}
  Steps = 3
INVARIANTS
  ExplanationsHaveLimits
  IncompleteIsInconclusive
PROPERTY EvidenceNeverExonerates
CHECK_DEADLOCK FALSE
