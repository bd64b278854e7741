SPECIFICATION Spec
CONSTANTS
    RowCount = 3
    ColCount = 3
    Games <- AllGames
    Seeds <- SeedSets
    Weight = 6
INVARIANTS
    ConvergedIsNash
    CapNeverBinds
CHECK_DEADLOCK FALSE
