SPECIFICATION Spec
CONSTANTS
  Students = {s1, s2}
  Boards = {b1}
  None = None
  MaxRequests = 1
  MaxArtifacts = 2
  MaxLeases = 3
  MaxFaults = 2
  Threshold = 1
  Environment = {"monitor", "admin", "timeout", "crash", "board restart", "fpga", "health"}
SYMMETRY Symmetric
INVARIANTS
  TypeOK
  Ownership
  NoLeakedBoard
  ReleasingHasNoWork
PROPERTIES
  PredictsOnOwnArtifact
