CONSTANTS
    Rows <- MCRows
    Cols <- MCCols
    Factors <- MCFactors
    GlobalFactors <- MCGlobalFactors
    Lanes <- MCLanes
    MaxRuiz = 2
SPECIFICATION Spec
INVARIANTS
    UnitsAgree
    ReportsInOriginalUnits
