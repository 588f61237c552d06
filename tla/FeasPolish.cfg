CONSTANTS
    FeasTol = 100
    OptTol = 100
    SatFloor = 990000
    SatTie = 1
    NonFinite = NonFinite
    NaN = NaN
    NoPoint = NoPoint
    One = 1000000
    PolishTol = 1
    HostGate = 10000
    IterLimit = 5
    Freq = 2
    ZeroX = "loose"
    ZeroD = "zero"
    Primals <- MCPrimals
    Duals <- MCDuals
    Device <- MCDevice
    Audited <- MCAudited
    XPath <- MCXPath
    DPath <- MCDPath
    Configs <- MCConfigs
SPECIFICATION Spec
INVARIANTS
    RestoredAtRest
    NeverWorse
    OptimalMeetsTolerances
    PhaseBudget
