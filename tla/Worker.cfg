SPECIFICATION FairSpec
CONSTANTS
  Artifacts = {a1, a2}
  Unloadable = {a2}
  None = None
  MaxFaults = 2
  Callers = {c1, c2}
  Leases = {l1, l2}
INVARIANTS
  TypeOK
  BuffersAccountedFor
  FreeBoardHoldsNothing
  ReadyIsLoaded
  StatusIsWhole
  RuntimeInvariant
PROPERTIES
  PredictsOnItsOverlay
  ImplementsLeasedBoard
  EveryCallIsAnswered
CHECK_DEADLOCK FALSE
