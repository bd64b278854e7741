SPECIFICATION Spec
CONSTANTS
    Speeds = {1, 2}
    Priorities = {0, 1}
    Fractions <- Claw
    Rounders <- Singers
    Kinds = {"afteryou", "quash", "allyswitch"}
    Changes = {"speed", "room", "priority", "faint", "replace"}
    MaxEvents = 2
INVARIANTS
    NextIsDue
    EachOnce
    TiesAreFair
CHECK_DEADLOCK FALSE
