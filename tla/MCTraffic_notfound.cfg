SPECIFICATION TrafficSpec
CONSTANTS
    Chars <- MCChars
    Colon = ":"
    Conns = {"c1"}
    NoConn = NoConn
    Tenants <- JustAcme
    Clients = {"ann"}
    Topics <- JustNews
    TenantOf <- OneTenant
    ClientOf <- OneClient
    TopicOf <- OneTopic
    QueueCap = 1
    RingCap = 1
    MaxCalls = 1
    Workload = {"api_direct"}
PROPERTY
    NotFoundMeansOffline
