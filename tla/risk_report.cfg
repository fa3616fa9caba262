CONSTANTS
  Catalogue <- Kinds
  MaxLibraries = 3
SPECIFICATION Spec
INVARIANTS
  LabelMatchesRisk
  ClientsExactly
  ProvidersStand
  NothingLost
CHECK_DEADLOCK FALSE
