SPECIFICATION Spec
CONSTANTS
    Size <- Three
    Moves <- SwapMoves
    Button <- Nobody
    Card <- Nobody
    Exit <- Nobody
    Chaser <- P2Second
    MaxKO = 1
    MaxTurns = 1
INVARIANTS
    ActionsFollowMons
    Positions
PROPERTIES
    SweepTakesPicks
    TurnEnds
CHECK_DEADLOCK FALSE
