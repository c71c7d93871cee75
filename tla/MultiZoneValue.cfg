SPECIFICATION ResolutionSpec
CONSTANTS
    Zones = {z1, z2, z3}
    SettableValues <- MixedValues
    NoValue = NoValue
    NoZone = NoZone
SYMMETRY ZoneSymmetry
INVARIANT LimitIsMostRestrictive
PROPERTY SetpointFollowsPriority
