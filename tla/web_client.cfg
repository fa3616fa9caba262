SPECIFICATION PageSpec
CONSTANTS
  Files = {a1, a2, text}
  Apks = {a1, a2}
  NoFile = NoFile
  NoScan = NoScan
  MaxSubmits = 3
INVARIANT ResultsAreCurrent
PROPERTY EveryScanConcludes
