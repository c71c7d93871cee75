SPECIFICATION Spec
CONSTANTS
    Devices = {d1}
    Connections = {c1, c2}
    Browses = {b1, b2}
    MaxRestarts = 1
    None = None
    Console = Console
SYMMETRY Symmetry
INVARIANTS DevicesAttended OneConnectionUnlessDisturbed DiskCurrentUnlessOverlap
CHECK_DEADLOCK FALSE
