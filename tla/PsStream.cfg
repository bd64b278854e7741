SPECIFICATION StreamSpec
CONSTANTS
    Player <- MCPlayer
    Script <- MCScript
    OwnLine <- MCOwnLine
    Options <- MCOptions
    MaxInput = 5
    MaxOut = 8
    MaxTalk = 1
INVARIANTS
    ReadersGetItOnce
    LogCarriesBattle
    RequestsArrive
CHECK_DEADLOCK FALSE
