CONSTANTS
    Second <- MCSecond
    Configs <- MCConfigs
SPECIFICATION SimSpec
INVARIANTS
    ServerIsFifo
    RetriesFollowTimeouts
    HiddenCapacity
CHECK_DEADLOCK FALSE
