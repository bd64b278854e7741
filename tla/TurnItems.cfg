SPECIFICATION Spec
CONSTANTS
    Size <- ThreeAndTwo
    Moves <- ItemMoves
    Button <- P1Lead
    Card <- P2Second
    Exit <- Leads
    Chaser <- P2Second
    MaxKO = 1
    MaxTurns = 2
INVARIANTS
    ActionsFollowMons
    PicksUsed
    StopsAskSomeone
    OverWhenOut
    Positions
CHECK_DEADLOCK FALSE
