SPECIFICATION Spec
CONSTANTS
    root = root
    child = child
    user = user
    run1 = run1
    t1 = t1
    Closer = Closer
    NoSpan = NoSpan
    NoUser = NoUser
    NoRun = NoRun
    Remote = Remote
    Spans <- MCSpans
    Users <- MCUsers
    Trace <- MCTrace
    Parent <- MCParent
    Under <- MCUnder
    Within <- MCWithin
    Name <- MCName
    EndedCap = 1
CHECK_DEADLOCK FALSE
INVARIANTS SpansCounted RunsPaired
PROPERTIES ShutdownEndsRuns TracedRunsEnd
