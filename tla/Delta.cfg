CONSTANTS
  Days = {0, 1}
  Intervals = {0, 1, 2, 3}
  MaxVersions = 5
SPECIFICATION Spec
INVARIANTS
  PlansReplayTheLog
  CheckpointBoundsReplay
