SPECIFICATION PartsSpec
CONSTANTS
    Hosts <- MCHosts
    Canonical <- MCCanonical
    Loopback <- MCLoopback
    DefaultHost = "api.openai.com"
    Ports <- MCPorts
    MaxRequests = 3
    NoName = NoName
    NoPort = NoPort
    None = None
    Routes <- MCRoutes
    Tokens <- MCTokens
    MaxTokens <- MCMaxTokens
    MemberNames <- MCMemberNames
    Layers = 4
    Strings = {"all"}
    Items = {"a", "b"}
    Kinds = {"scalar_matchers", "verification", "permissions", "tiers"}
    Configs <- MCConfigs
    Foreign <- MCForeign
    Default <- MCDefault
    Resolved <- MCResolved
    MaxSteps = 2
    Absent = Absent
INVARIANTS
    KeysStayHome KeysAreUsedOrReported
    PathsNameTheirObject ImportsAreFaithful
    ConfiguredValuesStay NothingIsLostInConversion
CHECK_DEADLOCK FALSE
