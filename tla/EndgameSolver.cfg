SPECIFICATION SolverSpec
CONSTANTS
    Position <- MCPosition
    Terminal <- MCTerminal
    Moves <- MCMoves
    Requests <- MCRequests
    MaxDepth = 3
    MaxSolves = 2
INVARIANTS
    LabelsHold
    DeepAsClaimed
PROPERTIES
    AbortUnwinds
CHECK_DEADLOCK FALSE
