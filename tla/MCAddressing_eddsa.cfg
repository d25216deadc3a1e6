SPECIFICATION Spec
CONSTANTS
    Chars <- MCChars
    Blanks = {" "}
    Slash = "/"
    Colon = ":"
    Public <- MCPublic
    MaxLen = 3
    Nothing = Nothing
    Anonymous = "anonymous"
    Api = "api"
    DefaultTenant <- Default
    Peers = {"p1"}
    Names = {}
    Tokens <- KeyTokens
    Queries <- MCQueries
    Configs <- KeyConfigs
INVARIANT
    GoodTokenAccepted
