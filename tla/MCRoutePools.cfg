SPECIFICATION Spec
CONSTANTS
    coding = coding
    writing_ = writing_
    m1 = m1
    m2 = m2
    alpha = alpha
    beta = beta
    s1 = s1
    s2 = s2
    u1 = u1
    q1 = q1
    Catalog = Catalog
    Routes <- MCRoutes
    Models <- MCModels
    Provider <- MCProvider
    MinRoutes = 1
    MinCandidates = 1
    Wanted = 2
    j1 = j1
    j2 = j2
    NoJob = NoJob
    Jobs <- MCJobs
    MaxCandidates = 2
    Required <- MCRequired
    MaxOccurrences = 1
    Exempt <- MCExempt
    Setups <- MCSetups
    Waiting <- MCWaiting
    Updates <- MCUpdates
    Requests <- MCRequests
    NoModel = NoModel
    Quality <- MCQuality
    Rank <- MCRank
    ExpectedDebit <- MCDebit
    CacheSavings <- MCSavings
    RequestWeight = 2
    LearningRate = 8
    PriceMin = 0
    PriceMax = 5
    Huge = 1000
    Grants = {3}
    Predicted = {5}
    Stated = {8}
    Prices = {3}
SYMMETRY MCSymmetry
CHECK_DEADLOCK FALSE
INVARIANTS SettledIsStored AnswerIsNamed OverspendMakesCheaper
