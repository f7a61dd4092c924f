SPECIFICATION FairSpec
CONSTANTS
  Students = {s1}
  Boards = {b1}
  None = None
  MaxRequests = 1
  MaxArtifacts = 1
  MaxLeases = 6
  MaxFaults = 1
  Threshold = 1
  Environment = {"monitor", "health"}
PROPERTIES
  IdleBoardIsGivenOut
