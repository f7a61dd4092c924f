SPECIFICATION FairSpec
CONSTANTS
  Students = {s1}
  Boards = {b1}
  Passwords = {p1, p2}
  Uploaders = {u1}
  None = None
  MaxUploads = 3
  MaxFaults = 1
INVARIANTS
  TypeOK
  DrawnVersionIsFree
  FilesMatchRows
  UsedArtifactIsReady
  StorageInvariant
PROPERTIES
  OneOwnerPerId
  RemovesOnlyUnused
  CleanupEnds

