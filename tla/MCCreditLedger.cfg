SPECIFICATION Spec
CONSTANTS
    Workers = {w1, w2}
    Sessions = {s1}
    NoPayment = NoPayment
    MaxWindow = 2
    AutoTopUp = TRUE
    ThresholdUsd = 1
    TopUpUsd = 2
    SessionUsd = 1
    SpendUsd = 1
    MaxUsages = 1
    MaxDuplicates = 2
    MaxFailures = 1
CHECK_DEADLOCK FALSE
SYMMETRY WorkerSymmetry
INVARIANTS TypeOK OnlyPaidCredited BalanceMatches SessionCreditedOnce
