SPECIFICATION FairSpec
CONSTANTS
    Threads = {t1, t2}
    Steps = {s1, s2}
    PageSize = 2
    Workers = 2
    Lease = 1
    Breaker = 1
    GiveUp = 2
    MaxSweeps = 1
    MaxEvents = 1
    MaxFaults = 1
INVARIANTS TypeOK AllAccountedFor OneStepAtATime
PROPERTIES SweepEnds
CHECK_DEADLOCK FALSE
