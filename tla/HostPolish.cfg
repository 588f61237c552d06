CONSTANTS
    FeasTol = 100
    OptTol = 100
    SatFloor = 990000
    SatTie = 1
    NonFinite = NonFinite
    One = 1000000
    PolishTol = 1
    Limit = 8
    Freq = 3
    NeutralCap = 3
    MaxMisses = 1
    MaxHalvings = 1
    Primals <- MCPrimals
    Duals <- MCDuals
    Measure <- MCMeasure
    Clamped <- MCClamped
    BoundViolation <- MCBoundViolation
    Exact <- MCExact
    Violation <- MCViolation
    Stationarity <- MCStationarity
    DeviceReadings <- MCDeviceReadings
SPECIFICATION FairSpec
INVARIANTS
    SharedBudget
    HeldPrimalIsIncumbent
    RetainedNoWorse
    ReportedDescribesResult
PROPERTIES
    GivesUpOnlySpent
    ExtractionReturns
