SPECIFICATION Spec
CONSTANTS
    Senders = {s1}
    Hands = {h1}
    Lease = 3
    Second = 2
    Fallback = 2
    InOrder = TRUE
    MaxRuns = 1
    MaxUsage = 0
    MaxTime = 4
    MaxFaults = 0
INVARIANTS EndedShownIdle
CHECK_DEADLOCK FALSE
