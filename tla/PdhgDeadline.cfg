CONSTANTS
    FeasTol = 1
    OptTol = 1
    SatFloor = 99
    SatTie = 1
    NonFinite = NonFinite
    NoPoint = NoPoint
    Invalid = Invalid
    Inf = 1000
    Decade = 2
    FirstStride = 1
    FirstThreshold = 6
    IntMax = 31
    LastStride = 1
    One = 100
    Instances <- DeadlineInstances
SPECIFICATION Spec
INVARIANTS
    TimeLimitAfterCertificates
