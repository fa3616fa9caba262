SPECIFICATION Spec
CONSTANTS
  RegionLists <- Libraries
  MaxSites = 3
  MaxDecoded = 12
  MaxSpan = 5
  Lookback = 2
  Lookahead = 1
INVARIANTS
  FairShare
  SoundCoverage
CHECK_DEADLOCK FALSE
