SPECIFICATION ServerSpec
CONSTANTS
    Chars <- MCChars
    Colon = ":"
    Conns = {c1, c2}
    NoConn = NoConn
    Tenants <- ThreeTenants
    Clients = {"ann"}
    Topics <- TwoTopics
    TenantOf <- OneIdentityTenant
    ClientOf <- OneIdentityClient
    TopicOf <- OneIdentityTopic
    QueueCap = 1
    RingCap = 2
    MaxCalls = 1
    Workload = {"api_direct", "api_publish", "ping", "publish", "reject"}
    Ips = {"ip1"}
    IpOf <- OneAddress
    Authentic = {c1, c2}
    MaxConnections = 2
    IpCap = 2
    TenantCap = 2
    IpRateLimited = FALSE
SYMMETRY
    Interchangeable
INVARIANTS
    TypeOK
    NoStaleHandle
    NoOrphanTask
    TenantIsolation
    PresenceIsPaidFor
    DropsAreVisible
