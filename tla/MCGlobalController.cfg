SPECIFICATION Spec
CONSTANTS
    Calls = {c1, c2, c3}
    NoLimit = NoLimit
    Policies <- MCPolicies
    MaxAllocation = 2
    MaxUsage = 3
    MaxLatency = 2
    MaxElapsed = 3
    MaxTools = 1
CHECK_DEADLOCK FALSE
INVARIANTS TypeOK SpendCovered CallsAccounted CompletedRun
PROPERTIES TerminalFrozen GrantsFitDeadline
