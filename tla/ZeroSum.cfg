SPECIFICATION SimplexSpec
CONSTANTS
    MaxIterations = 4
    MaxRows = 3
    MaxCols = 3
    Payoffs <- Outcomes
INVARIANTS
    SaddlePoint
PROPERTY
    NeverBack
CHECK_DEADLOCK FALSE
