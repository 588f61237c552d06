CONSTANTS
    NumLanes = 2
    Native = 3
    Decade = 2
    FirstStride = 1
    FirstThreshold = 4
    IntMax = 15
    LastStride = 1
    None = None
    Configs <- MCConfigs
SPECIFICATION FairSpec
INVARIANTS
    JudgedLikeSolo
    LaneBaselines
    LateWithinBatch
    OwnLimits
PROPERTIES
    GroupTermination
    ImplementsMembers
