SPECIFICATION Spec
CONSTANTS
  Words <- CodeWords
  Excluded = {2}
  Lookback = 3
  MaxWords = 5
INVARIANT OnlyItsBlock
INVARIANT LinkIsDataFlow
INVARIANT DecoysHideNothing
CHECK_DEADLOCK FALSE
