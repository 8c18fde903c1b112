SPECIFICATION FairSpec
CONSTANTS
    Senders = {s1}
    Hands = {h1, h2}
    Lease = 1
    Second = 1
    Fallback = 3
    InOrder = FALSE
    MaxRuns = 2
    MaxUsage = 1
    MaxTime = 2
    MaxFaults = 1
INVARIANTS TypeOK MarkHasAlarm ShownIsRow
PROPERTIES CompletionKept ShownIdleInTheEnd
CHECK_DEADLOCK FALSE
