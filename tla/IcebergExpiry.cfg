CONSTANTS
  Days = {0}
  MergeMins = {0}
  MaxSeq = 3
SPECIFICATION Spec
INVARIANT KeptSnapshotsCanBePlanned
