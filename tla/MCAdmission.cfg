SPECIFICATION FairSpec
CONSTANTS
    Requests = {"r1", "r2", "r3", "r4"}
    Ips = {"ip1", "ip2"}
    Tenants = {"acme", "bmce"}
    IpOf <- MCIpOf
    TenantOf <- MCTenantOf
    Authentic = {"r1", "r2", "r3"}
    MaxConnections = 2
    IpCap = 2
    TenantCap = 1
    IpRateLimited = TRUE
INVARIANTS
    TypeOK
    PermitsAccounted
    SessionsWithinCaps
    GaugeIsSessions
PROPERTIES
    ImplementsPools
    EveryRequestAnswered
