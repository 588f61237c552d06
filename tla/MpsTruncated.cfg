CONSTANTS
    Inf = 1000
    Limit = 4
    Files <- MCFiles
    Numerals <- MCNumerals
    Initials <- MCInitials
    Coordinates <- MCCoordinates
SPECIFICATION Spec
INVARIANTS
    FailureReturnsNull
