SPECIFICATION Spec
CONSTANTS
    TicksPerSecond = 1
    Requests = {"r1", "r2", "r3"}
    Ips = {"ip1", "ip2"}
    IpOf <- TwoAddresses
    MaxConcurrent = 1
    RateConfigured = TRUE
    Rate = 1
    Burst = 2
    IdleTtl = 1
    ReapBatch = 1
    MaxNow = 4
    MaxTries = 4
INVARIANTS
    TypeOK
    CountIsPermits
    RateHolds
PROPERTY
    ImplementsPools
\* The clock and the tries run out.
CHECK_DEADLOCK FALSE
