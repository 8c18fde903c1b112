SPECIFICATION FairSpec
CONSTANTS
    Leases = {l1}
    Direct = direct_agent
    None = none
    Origin = "old"
    MaxCalls = 2
PROPERTY MoveEnds
PROPERTY NoAgentLeft
CHECK_DEADLOCK FALSE
