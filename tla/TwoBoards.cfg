SPECIFICATION Spec
CONSTANTS
  Students = {s1, s2}
  Boards = {b1, b2}
  None = None
  MaxRequests = 1
  MaxArtifacts = 2
  MaxLeases = 2
  MaxFaults = 1
  Threshold = 1
  Environment = {"monitor", "timeout", "crash", "board restart", "fpga", "health"}
SYMMETRY Symmetric
INVARIANTS
  OwnershipInvariant
PROPERTIES
  ImplementsBoardPool
