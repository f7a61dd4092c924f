SPECIFICATION Spec
CONSTANTS
  Students = {s1, s2}
  Boards = {b1}
  None = None
  MaxRequests = 2
  MaxArtifacts = 2
  MaxLeases = 2
  MaxFaults = 2
  Threshold = 1
  Environment = {"monitor", "timeout", "fpga", "health"}
SYMMETRY Symmetric
INVARIANTS
  ReadyIsReal
  RowsInStep
  OverlayInvariant
  AllocatorInvariant
PROPERTIES
  PredictsOnItsArtifact
  OnlyMonitorStrands
