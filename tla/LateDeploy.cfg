SPECIFICATION Spec
CONSTANTS
  Students = {s1}
  Boards = {b1}
  None = None
  MaxRequests = 3
  MaxArtifacts = 3
  MaxLeases = 1
  MaxFaults = 1
  Threshold = 2
  Environment = {"crash"}
PROPERTIES
  PredictsOnItsArtifact
CHECK_DEADLOCK FALSE
