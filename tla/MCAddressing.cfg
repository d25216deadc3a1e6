SPECIFICATION Spec
CONSTANTS
    Chars <- MCChars
    Blanks = {" "}
    Slash = "/"
    Colon = ":"
    Public <- MCPublic
    MaxLen = 3
    Nothing = Nothing
    Anonymous = "anonymous"
    Api = "api"
    DefaultTenant <- Default
    Peers = {"p1", "p2"}
    Names <- MCNames
    Tokens <- MCTokens
    Queries <- MCQueries
    Configs <- MCConfigs
INVARIANTS
    DeliveredToOwnTopic
    NamesRoundTrip
    SpellingDoesNotMatter
    BothDoorsAgree
