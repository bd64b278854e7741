SPECIFICATION Spec
CONSTANTS
    Slots = 2
    MaxPP = 2
    Status = {0}
    Sound = {1}
    Heal = {0}
    Twice = {1}
    Baton = {0}
    Shared = {1}
    Kits <- MCKits
    Deeds = {"encore", "taunt", "disable", "chop", "heal", "spite", "room", "imprison",
             "item", "ability", "cure", "torment", "drag", "curse"}
    MaxDeeds = 3
INVARIANTS
    LocksCached
    MenusAgree
    OneMoveEach
PROPERTIES
    EncoreBinds
    LocksCostTheSame
