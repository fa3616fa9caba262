SPECIFICATION FairSpec
CONSTANTS
  Conns = {c1, c2}
  MaxConns = 2
  MaxScans = 2
  MaxUpload = 1
  DiskSize = 6
  Reserve = 3
  MaxFaults = 1
INVARIANT DiskBounded
PROPERTY SlotsReturned
