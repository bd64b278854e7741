SPECIFICATION FairSpec
CONSTANTS
    N = 2
    Mons = 4
    Slots = 2
    Picked = 3
    CancelMod = TRUE
    Situations <- MCSituations
    Inputs <- MCInputs
CHECK_DEADLOCK FALSE
INVARIANTS
    OnFileIsLegal
    FinalMeansAnswered
PROPERTIES
    NoFreeProbe
    DefaultIsAnswered
