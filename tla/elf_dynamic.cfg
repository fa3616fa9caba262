SPECIFICATION Spec
CONSTANTS
  Top = 640
  Families <- SomeFamilies
  MaxEntries = 24
  MaxStringTable = 64
  MaxName = 8
  MaxSymbols = 6
  MaxBuckets = 3
  MaxRelocations = 2
  MaxInitArray = 32
INVARIANTS
  AddressesHold
  CountsAreTrue
  RejectedAlone
