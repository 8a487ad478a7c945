SPECIFICATION DemoSpec
CONSTANTS
    Calls = {c1, c2}
    Models = {m1, m2, m3}
    NoModel = NoModel
    Price <- MCPrice
    NoLimit = NoLimit
    Policies <- MCPolicies
    MaxAllocation = 2
    MaxUsage = 2
    MaxLatency = 1
    MaxElapsed = 0
    MaxTools = 0
CHECK_DEADLOCK FALSE
INVARIANTS RelayedIsResolved SpendIsRecorded
PROPERTIES RequestsEnd
