CONSTANTS
  Texts <- SomeTexts
  Names <- SomeNames
  Considered = {}
  Libraries <- SomeLibraries
  Signs <- SomeSigns
  MostFound = 2
  AlsoJumps = {"bl", "blr"}
SPECIFICATION ScoresSpec
INVARIANTS
  RuntimeIsStrongest
  PackingProvesNothing
PROPERTIES
  RiskNeverFalls
  MoreNeverLowers
CHECK_DEADLOCK FALSE
