SPECIFICATION FairSpec
CONSTANTS
  Students = {s1}
  Boards = {b1}
  None = None
  MaxRequests = 2
  MaxArtifacts = 2
  MaxLeases = 2
  MaxFaults = 2
  Threshold = 2
  Environment = {"monitor", "timeout", "crash", "board restart", "fpga", "health"}
INVARIANTS
  TransientLeaseHasTask
  RunningIffBusy
  CoordinationInvariant
PROPERTIES
  ImplementsRequestService
  ImplementsArtifactUse
  ImplementsLeasedBoards
  FreeBoardRecovers
