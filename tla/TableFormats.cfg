CONSTANTS
  Days = {0, 1}
  MergeMins = {0, 2}
  MaxSeq = 4
  Intervals = {0, 2}
  MaxVersions = 4
SPECIFICATION BothSpec
INVARIANTS
  LatestPlansAgree
  TimeTravelAgrees
