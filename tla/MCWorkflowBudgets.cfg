SPECIFICATION WorkflowSpec
CONSTANTS
    Scopes = {root, child}
    Root = root
    Calls = {c1, c2}
    MaxUsd = 2
    MaxClaims = 2
SYMMETRY CallSymmetry
CHECK_DEADLOCK FALSE
INVARIANTS TypeOK WithinMaximum LedgerMatches RunWithinMaximum
PROPERTIES OutcomeIsFinal
