SPECIFICATION FairSpec
CONSTANTS
    Conns = {c1, c2}
    Callers = {p1}
    ZoneTypes = {GRID, LOCAL}
    MaxZones = 2
    MaxEpoch = 2
    MaxAttempts = 3
    NoType = NoType
INVARIANT WindowConsistentUnlessClash MutualExclusion ZoneLimits
PROPERTY LockReleased WindowClosesUnlessClash
