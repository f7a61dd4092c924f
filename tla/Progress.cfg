SPECIFICATION FairSpec
CONSTANTS
  Students = {s1, s2}
  Boards = {b1}
  None = None
  MaxRequests = 2
  MaxArtifacts = 2
  MaxLeases = 4
  MaxFaults = 0
  Threshold = 1
  Environment = {"admin"}
PROPERTIES
  EveryRequestEnds
  IdleBoardIsGivenOut
  IdleLeaseIsReleased
