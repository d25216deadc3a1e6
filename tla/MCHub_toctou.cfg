SPECIFICATION Spec
CONSTANTS
    Chars <- MCChars
    Colon = ":"
    Conns = {"c1", "c2"}
    NoConn = NoConn
    Tenants <- JustAcme
    Clients = {"ann"}
    Topics <- JustNews
    TenantOf <- SameTenant
    ClientOf <- SameClient
    TopicOf <- SameTopic
    QueueCap = 2
    RingCap = 2
    MaxCalls = 0
    Workload = {}
INVARIANT
    NewestReachable
