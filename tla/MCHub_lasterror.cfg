SPECIFICATION Spec
CONSTANTS
    Chars <- MCChars
    Colon = ":"
    Conns = {"c1"}
    NoConn = NoConn
    Tenants <- JustAcme
    Clients = {"ann"}
    Topics <- JustNews
    TenantOf <- OneTenant
    ClientOf <- OneClient
    TopicOf <- OneTopic
    QueueCap = 4
    RingCap = 2
    MaxCalls = 1
    Workload = {"rate_limited"}
INVARIANT
    RateLimitReported
