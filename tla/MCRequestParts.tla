--------------------------- MODULE MCRequestParts ---------------------------
EXTENDS RequestParts

\* Two spellings of the default host, a proxy, a host without a canonical name, localhost.
MCHosts == {"api.openai.com", "API.OpenAI.com", "proxy", "broken", "localhost"}
MCCanonical ==
    [h \in MCHosts |->
        CASE h = "API.OpenAI.com" -> "api.openai.com"
          [] h = "broken" -> NoName
          [] OTHER -> h]
MCLoopback == {"localhost"}
MCPorts == {NoPort, 0, 80, 443, 65536}

R == INSTANCE ReadRoutes
MCRoutes == R!ReadRoutes
MCTokens == {"x", "/", ".", " ", "%", "organization"}
MCMaxTokens == [n \in 1..3 |-> IF n < 3 THEN 2 ELSE 1]

MCMemberNames == {"type", "discovery_url", "jwks", "scopes", "extra", "x", "y"}

V == INSTANCE MCAttributeValues
MCConfigs == V!ConfigsOf
MCForeign == V!ForeignOf
MCDefault == V!DefaultOf
MCResolved == V!ResolvedOf

=============================================================================
