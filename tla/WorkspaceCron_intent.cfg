SPECIFICATION Spec
CONSTANTS
    Prompts = {p1}
    Autos = {}
    Callers = {c1}
    NoJob = NoJob
    Recheck = 1
    MaxTime = 2
    MaxCalls = 2
    MaxFaults = 0
INVARIANT OwnerIntentKept
CHECK_DEADLOCK FALSE
