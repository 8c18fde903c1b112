SPECIFICATION Spec
CONSTANTS
    Leases = {l1, l2}
    Direct = direct_agent
    None = none
    Origin = "old"
    MaxCalls = 2
SYMMETRY Symmetry
INVARIANT TypeOK
INVARIANT RowAgentSafe
INVARIANT MovingAgentSafe
INVARIANT ClaimsAgree
INVARIANT MovedHasAgent
PROPERTY ImplementsHome
PROPERTY CommitStands
PROPERTY LeftoversKept
CHECK_DEADLOCK FALSE
