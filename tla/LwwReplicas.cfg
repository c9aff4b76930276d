\* Three replicas; the lane uses the first two.
CONSTANTS
    Replicas = {1, 2, 3}
    Keys = {"x", "y"}
    MaxRounds = 4
    MaxTs = 2
    MaxWrites = 4
    MaxSnapshots = 2
SPECIFICATION Spec
INVARIANTS
    ClocksAreHistories
    MapIsTheWinners
    LossesAreCounted
CHECK_DEADLOCK FALSE
