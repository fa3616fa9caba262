SPECIFICATION Spec
CONSTANTS
  Conns = {c1, c2, c3}
  MaxConns = 2
  MaxScans = 1
  MaxUpload = 2
  DiskSize = 5
  Reserve = 1
  MaxFaults = 1
SYMMETRY ConnSymmetry
INVARIANTS
  SlotsConserved
  NothingOutlivesTheSlot
  ResponsesAreWhole
PROPERTY AdmissionSpec
