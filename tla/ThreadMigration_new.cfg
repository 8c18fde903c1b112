SPECIFICATION Spec
CONSTANTS
    Leases = {l1}
    Direct = direct_agent
    None = none
    Origin = "new"
    MaxCalls = 2
INVARIANT MovingAgentSafe
INVARIANT ClaimsAgree
CHECK_DEADLOCK FALSE
