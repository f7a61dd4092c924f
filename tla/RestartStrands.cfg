SPECIFICATION FairSpec
CONSTANTS
  Students = {s1}
  Boards = {b1}
  None = None
  MaxRequests = 2
  MaxArtifacts = 2
  MaxLeases = 2
  MaxFaults = 1
  Threshold = 1
  Environment = {"monitor", "crash"}
PROPERTIES
  ReadyLeaseServesItsQueue
