SPECIFICATION Spec
CONSTANTS
    Attrs = {a}
    Values = {v0, v1}
    InitialValue = v0
    Comparable = {v0, v1}
    Writers = {w}
    Setters = TRUE
    Requests <- Shortest
    DefaultMin = 1
    DefaultMax = 1
    MaxSubscriptions = 2
    MaxIds = 3
    MaxWrites = 1
    MaxAge = 2
INVARIANTS SubscriptionsAgree ClosedUnlessOverlap
CHECK_DEADLOCK FALSE
