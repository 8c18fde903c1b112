SPECIFICATION FairSpec
CONSTANTS
    root = root
    t = t
    e = e
    Keys = {root, t}
    Root = root
    Events = {e}
    Parts <- TwoPartRoot
    Owner = "org"
    Drains = {"alarm"}
    Limit = 2
    MaxStreak = 2
    ArmsCut = FALSE
    MaxWrites = 2
    MaxFaults = 2
    NoCall = NoCall
CHECK_DEADLOCK FALSE
INVARIANTS TypeOK MarkKept AlarmCovers ArmedIsArmed PurgedRootGone
PROPERTIES ImplementsMirror CatchesUp
