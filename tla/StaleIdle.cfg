SPECIFICATION Spec
CONSTANTS
  Students = {s1, s2}
  Boards = {b1, b2}
  None = None
  MaxRequests = 2
  MaxArtifacts = 2
  MaxLeases = 2
  MaxFaults = 0
  Threshold = 1
  Environment = {"admin"}
PROPERTIES
  ReclaimsOnlyIdleLeases
