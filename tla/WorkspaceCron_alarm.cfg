SPECIFICATION FairSpec
CONSTANTS
    Prompts = {p1}
    Autos = {a1}
    Callers = {c1}
    NoJob = NoJob
    Recheck = 1
    MaxTime = 2
    MaxCalls = 2
    MaxFaults = 1
INVARIANTS TypeOK AlarmCovers OncePerOccurrence ShownByItsRun
PROPERTIES DueIsHandled
CHECK_DEADLOCK FALSE
