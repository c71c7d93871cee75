SPECIFICATION Spec
CONSTANTS
    Zones = {z1, z2, t}
    TestZones = {t}
    Conns = {c1, c2, c3}
    MaxZones = 1
    EnableKey = TRUE
    NoConn = NoConn
    NoZone = NoZone
SYMMETRY Symmetry
INVARIANTS SlotsCounted SessionsAttended
PROPERTY OnlyOwnerCloses
