SPECIFICATION Spec
CONSTANTS
    root = root
    t = t
    e = e
    Keys = {root}
    Root = root
    Events = {}
    Parts <- TwoPartRoot
    Owner = "user"
    Drains = {"alarm", "now"}
    Limit = 1
    MaxStreak = 2
    ArmsCut = TRUE
    MaxWrites = 2
    MaxFaults = 1
    NoCall = NoCall
CHECK_DEADLOCK FALSE
PROPERTY ImplementsMirror
