SPECIFICATION MiddlewareSpec
CONSTANTS
    Calls = {c1, c2}
    NoCall = NoCall
    NoLimit = NoLimit
    Policies <- MCPolicies
    MaxAllocation = 1
    MaxUsage = 2
    MaxLatency = 1
    MaxElapsed = 2
    MaxTools = 2
CHECK_DEADLOCK FALSE
INVARIANTS AttemptedIsCharged ReservationsOwned
PROPERTIES RunIsClosed
