SPECIFICATION ReaderSpec
CONSTANTS
  Word = 65536
  Header = 16
  Limit = 212
  Counts <- AllSizes
  Sizes <- AllSizes
  Blocks <- FourBlocks
  Archives <- Catalogue
  Kinds = {"file", "cfile", "memory"}
  IoSizes = {1, 3, 5, 64}
  U16 = 255
  U32 = 4095
  Window = 64
  StateSize = 100
  MaxFaults = 1
INVARIANTS
  WithinBudget
  NothingLeaks
  IndexSound
  EntriesExact
PROPERTIES
  CallsReturn
  CallsAreFinite
CHECK_DEADLOCK FALSE
