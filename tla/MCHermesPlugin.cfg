SPECIFICATION Spec
CONSTANTS
    c1 = c1
    c2 = c2
    Calls <- MCCalls
    Served <- MCServed
    NoLog = NoLog
    Grain = 2
    FeeDivisor = 2
    MaxAttempts = 2
    MaxSpend = 4
    Budgets <- MCBudgets
    MaxSetups = 2
    Spends <- MCSpends
    MaxRepeats = 1
CHECK_DEADLOCK FALSE
INVARIANTS UsageSummed WithinGrant DeliveredIsLogged
