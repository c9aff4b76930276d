CONSTANTS
  N = 4
  Edges <- MCEdges
  Thresholds = {0, 1, 4}
SPECIFICATION Spec
INVARIANTS
  DeltasAreDisjoint
  ScanMatchesLookup
  PendingIsBounded
  ArraysFollowTheGraph
  ScansSkipTombstones
PROPERTIES
  ImplementsGraphStore
