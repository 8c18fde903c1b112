SPECIFICATION Spec
CONSTANTS
    c1 = c1
    c2 = c2
    Messages = 2
    Slots = {c1, c2}
    Sweepers = {"cron"}
    MaxRetries = 1
    DlqRetries = 1
    LateAnswers = TRUE
    Expiry = FALSE
    MaxFaults = 0
    None = None
CHECK_DEADLOCK FALSE
INVARIANT NextIsCarried
