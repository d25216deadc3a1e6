\* Time runs out at MaxNow.
SPECIFICATION Spec
CHECK_DEADLOCK FALSE
CONSTANTS
    Timings <- MCTimings
    MaxNow = 9
INVARIANTS
    HealthyPeerKept
    ZombieIsDropped
PROPERTY
    OnlyIdleIsDropped
