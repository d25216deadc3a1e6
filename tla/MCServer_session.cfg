SPECIFICATION ServerFairSpec
CONSTANTS
    Chars <- MCChars
    Colon = ":"
    Conns = {"c1"}
    NoConn = NoConn
    Tenants <- JustAcme
    Clients = {"ann"}
    Topics <- JustNews
    TenantOf <- OneTenant
    ClientOf <- OneClient
    TopicOf <- OneTopic
    QueueCap = 2
    RingCap = 2
    MaxCalls = 4
    Workload = {"api_publish", "direct", "rate_limited", "silence"}
    Ips = {"ip1"}
    IpOf <- OneAddress
    Authentic = {"c1"}
    MaxConnections = 1
    IpCap = 1
    TenantCap = 1
    IpRateLimited = FALSE
INVARIANTS
    StreamInOrder
    NoSilentGap
    ReadyBeforeBroadcasts
    DropsAreVisible
PROPERTIES
    ImplementsStreams
    SlotsComeBack
    EndedTaskClosesSession
    StreamCatchesUp
