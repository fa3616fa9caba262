SPECIFICATION DeploySpec
CONSTANTS
  s1 = s1
  s2 = s2
  p1 = p1
  p2 = p2
  p3 = p3
  None = None
  Scripts <- SomeScripts
  Pids <- SomePids
  MaxRuns = 4
  MaxMishaps = 1
SYMMETRY Interchangeable
INVARIANT LostOnlyByMishaps
PROPERTY HealthyIsRecorded
PROPERTY OthersOnlyByReissue
CHECK_DEADLOCK FALSE
