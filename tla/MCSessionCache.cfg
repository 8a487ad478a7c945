SPECIFICATION Spec
CONSTANTS
    c1 = c1
    c2 = c2
    m1 = m1
    m2 = m2
    alpha = alpha
    beta = beta
    None = None
    Kept = 1
    RouterKept = 2
    HardCost = TRUE
    MinCompactable = 2
    MaxTokens = 4
    MaxPressure = 2
    Calls <- MCCalls
    Intents <- MCIntents
    Routes <- MCRoutes
    Budgets <- MCBudgets
    Usages <- MCUsages
CHECK_DEADLOCK FALSE
INVARIANTS RecordedWasSent DiscountIsKept ReductionIsExact
