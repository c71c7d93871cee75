SPECIFICATION FairSpec
CONSTANTS
    Zones = {z1, z2}
    IndexCount = 3
    Commanders = {z1}
    Expiring = {z1}
    MaxRestarts = 1
    MaxSaves = 2
    NoIndex = NoIndex
    NoZone = NoZone
    NoState = NoState
    Torn = Torn
CHECK_DEADLOCK FALSE
INVARIANTS IndexesDistinct FailsafeBacked DiskCurrentUnlessOverlap
PROPERTY FailsafeEventually
