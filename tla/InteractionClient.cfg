SPECIFICATION Spec
CONSTANTS
    Callers = {c1, c2}
    IdSpace = 5
    MaxCalls = 4
INVARIANTS PendingUnderWay ClosedReachesWaiting
PROPERTY ImplementsContract
CHECK_DEADLOCK FALSE
