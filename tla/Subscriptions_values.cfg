SPECIFICATION FairSpec
CONSTANTS
    Attrs = {a, b}
    Values = {v0, v1}
    InitialValue = v0
    Comparable = {v0, v1}
    Writers = {w}
    Setters = FALSE
    Requests <- ValidAndRefused
    DefaultMin = 1
    DefaultMax = 2
    MaxSubscriptions = 2
    MaxIds = 1
    MaxWrites = 2
    MaxAge = 3
INVARIANTS CurrentUnlessOverlap HeartbeatUnlessBounce
PROPERTIES ChangesSpaced ChangesDelivered
CHECK_DEADLOCK FALSE
