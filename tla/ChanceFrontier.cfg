SPECIFICATION FrontierSpec
CONSTANTS
    Keys = {"a", "b"}
    Den = 3
    MaxDraws = 3
    Turns <- MCTurns
    Streams <- AllStreams
    Caps = {1, 2}
    MaxCombos = 16
INVARIANTS
    PriorsAreRight
    EachPassDeeper
CHECK_DEADLOCK FALSE
