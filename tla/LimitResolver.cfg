SPECIFICATION FairSpec
CONSTANTS
    Zones = {z1, z2}
    TestZones = {}
    Directions = {"consumption"}
    Limits <- NegativeToTooHigh
    Capacity = 2
    MaxDuration = 1
    Durations = {0, 1, 2}
    IndexCount = 2
    Timers = {t1, t2}
    NoTimer = NoTimer
    NoLimit = NoLimit
    NoIndex = NoIndex
    NoZone = NoZone
INVARIANTS EffectiveIsResolved TimedLimitBacked NoEarlyClearUnlessStale
PROPERTY TimedLimitEnds
