SPECIFICATION FairSpec
CONSTANTS
    Timers = {t1, t2, t3}
    NoTimer = NoTimer
    NoSnapshot = NoSnapshot
    MinDuration = 2
    MaxDuration = 3
    DefaultDuration = 2
    GracePeriod = 1
INVARIANTS CountdownIsBacked NoEarlyFailsafeWithoutRace
PROPERTY CountdownEnds
