CONSTANTS
    Controllers = {k1, k2}
    Browses = {b1, b2}
    MaxZones = 2
    StoreLimit = 2
    MaxStored = 2
    RemoveZone = RemoveZone
    Cancelled = Cancelled
    None = None
SPECIFICATION Spec
SYMMETRY Symmetry
INVARIANT MembersAgree
INVARIANT CertsFollowZones
INVARIANT ListensUnlessOverlap
CONSTRAINT StateBound
