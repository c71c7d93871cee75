SPECIFICATION FairSessionSpec
CONSTANTS
    Callers = {c1}
    IdSpace = 4
    MaxCalls = 1
    Renewers = {r1, r2}
    UsedIds = {2}
    AckId = 3
    ControlIds = {1}
INVARIANTS RenewedIsInstalled RenewedIsServed
PROPERTY UndisturbedSucceeds
CHECK_DEADLOCK FALSE
