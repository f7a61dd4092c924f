SPECIFICATION Spec
CONSTANTS
  Students = {s1}
  Boards = {b1}
  None = None
  MaxRequests = 1
  MaxArtifacts = 1
  MaxLeases = 2
  MaxFaults = 0
  Threshold = 1
  Environment = {"monitor"}
PROPERTIES
  MonitorSparesLiveLeases
