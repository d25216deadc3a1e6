SPECIFICATION Spec
CONSTANTS
    TicksPerSecond = 3
    Conns = {"c1", "c2"}
    Tenants = {"acme"}
    TenantOf <- MCTenantOf
    Rate = 1
    Burst = 2
    TenantRate = 2
    TenantBurst = 3
    MaxNow = 5
    MaxFrames = 4
INVARIANTS
    TypeOK
    TenantRateHolds
    TenantExact
    LimitedExactly
\* The clock and the frames run out.
CHECK_DEADLOCK FALSE
