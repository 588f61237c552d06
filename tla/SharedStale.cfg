CONSTANTS
    NumLanes = 2
    Native = 3
    Decade = 2
    FirstStride = 1
    FirstThreshold = 4
    IntMax = 15
    LastStride = 1
    None = None
    Configs <- MCAudited
SPECIFICATION Spec
INVARIANTS
    BestFullyEvaluated
