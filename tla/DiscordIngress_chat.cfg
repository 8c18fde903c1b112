SPECIFICATION FairSpec
CONSTANTS
    c1 = c1
    c2 = c2
    Messages = 2
    Slots = {c1, c2}
    Sweepers = {"cron"}
    MaxRetries = 1
    DlqRetries = 1
    LateAnswers = FALSE
    Expiry = TRUE
    MaxFaults = 1
    None = None
CHECK_DEADLOCK FALSE
INVARIANTS TypeOK HandedInOrder NextIsCarried LeaseIsExclusive
PROPERTIES Settles ImplementsInbox
