------------------------ MODULE ProviderConfiguration ------------------------
(***************************************************************************)
(* Configure of the provider: which credentials it takes from its          *)
(* attributes and from the environment, which base URL it accepts, and     *)
(* where the clients it makes send the credentials, redirects included.    *)
(* The organization and project headers follow the rule of Setting and     *)
(* are left out.                                                           *)
(***************************************************************************)
EXTENDS Integers

CONSTANTS
    Hosts,         \* host names as they can be spelled in a URL
    Canonical,     \* Canonical[h]: the name canonicalAPIOriginHost gives, NoName if it fails
    Loopback,      \* spellings of localhost and of loopback addresses
    DefaultHost,   \* api.openai.com
    Ports,         \* ports as they can be written, NoPort if left out
    MaxRequests,   \* requests of one redirect chain (10 in the code)
    NoName, NoPort, None

ASSUME HostsAssumption ==
    /\ DefaultHost \in Hosts /\ Loopback \subseteq Hosts
    /\ DOMAIN Canonical = Hosts
    /\ \A h \in Loopback \cup {DefaultHost} : Canonical[h] # NoName
    /\ Ports \subseteq Int \cup {NoPort} /\ NoPort \in Ports

ASSUME MaxRequestsAssumption == MaxRequests \in Nat \ {0}

Audiences == {"admin", "project"}

\* sound: url.Parse, IsAbs, no opaque part and validAPIEndpointAuthority.
URLs == [scheme : {"https", "http", "ftp"}, host : Hosts, port : Ports, user : BOOLEAN, sound : BOOLEAN]

DefaultURL == [scheme |-> "https", host |-> DefaultHost, port |-> NoPort, user |-> FALSE, sound |-> TRUE]

VARIABLES
    attribute,     \* attribute[a]: the key attribute of audience a
    environment,   \* environment[a]: OPENAI_ADMIN_KEY, OPENAI_API_KEY
    baseURL,       \* the base_url attribute, None if null or unknown
    pc,            \* "new", "configured", "refused"
    warned,        \* the warning of Configure was given
    clients,       \* clients[a]: where the key of the client of audience a is from
    request        \* the request on its way: its key, URL and number in its redirect chain

inputVars == <<attribute, environment, baseURL>>
vars == <<inputVars, pc, warned, clients, request>>

Init ==
    /\ attribute \in [Audiences -> {"null", "unknown", "blank", "attribute"}]
    /\ environment \in [Audiences -> {"blank", "environment"}]
    /\ baseURL \in URLs \cup {None}
    /\ pc = "new"
    /\ warned = FALSE
    /\ clients = [a \in {} |-> None]
    /\ request = None

(***************************************************************************)
(* Origins                                                                 *)
(***************************************************************************)

effectivePort(url) ==
    IF url.port # NoPort THEN url.port ELSE IF url.scheme = "https" THEN 443 ELSE 80

\* Mutant: an origin is its host.
SameHost(url, other) == Canonical[url.host] # NoName /\ Canonical[url.host] = Canonical[other.host]

sameAPIOrigin(url, other) ==
    /\ Canonical[url.host] # NoName
    /\ url.scheme = other.scheme
    /\ Canonical[url.host] = Canonical[other.host]
    /\ effectivePort(url) = effectivePort(other)

secureScheme(url) == url.scheme = "https" \/ (url.scheme = "http" /\ url.host \in Loopback)

validPort(url) == url.port \in {NoPort} \cup 1..65535

validAPIBaseURL(url) ==
    /\ url.sound /\ ~url.user
    /\ validPort(url)
    /\ secureScheme(url)

(***************************************************************************)
(* Configure                                                               *)
(***************************************************************************)

\* An attribute that is set, even to blanks, hides the environment.
Setting(a) == IF attribute[a] = "null" THEN environment[a] ELSE attribute[a]

Endpoint == IF baseURL = None THEN DefaultURL ELSE baseURL

\* OPENAI_API_KEY is used with the default origin only.
Ignored == Setting("project") = "environment" /\ ~sameAPIOrigin(Endpoint, DefaultURL)

\* Mutant: the key that is ignored is used.
KeyUnchecked(a) == Setting(a)

Key(a) == IF a = "project" /\ Ignored THEN "blank" ELSE Setting(a)

\* Mutant: the ambient key is ignored without a word.
NoWarning == FALSE

Warning == Ignored

Acceptable ==
    /\ \A a \in Audiences : attribute[a] # "unknown"
    /\ validAPIBaseURL(Endpoint)
    /\ \E a \in Audiences : Key(a) # "blank"

Accept ==
    /\ pc = "new"
    /\ Acceptable
    /\ pc' = "configured"
    /\ warned' = Warning
    /\ clients' = [a \in {b \in Audiences : Key(b) # "blank"} |-> Key(a)]
    /\ UNCHANGED <<inputVars, request>>

Refuse ==
    /\ pc = "new"
    /\ ~Acceptable
    /\ pc' = "refused"
    /\ UNCHANGED <<inputVars, warned, clients, request>>

(***************************************************************************)
(* Requests of the clients                                                 *)
(***************************************************************************)

Send(a) ==
    /\ request = None
    /\ a \in DOMAIN clients
    /\ request' = [audience |-> a, key |-> clients[a], url |-> Endpoint, number |-> 1]
    /\ UNCHANGED <<inputVars, pc, warned, clients>>

\* The answer redirects and CheckRedirect lets it; the key goes along.
FollowRedirect(url) ==
    /\ request # None
    /\ sameAPIOrigin(url, Endpoint)
    /\ request.number < MaxRequests
    /\ request' = [request EXCEPT !.url = url, !.number = @ + 1]
    /\ UNCHANGED <<inputVars, pc, warned, clients>>

\* Another answer, or a redirect that CheckRedirect refuses.
End ==
    /\ request # None
    /\ request' = None
    /\ UNCHANGED <<inputVars, pc, warned, clients>>

Next ==
    \/ Accept \/ Refuse \/ End
    \/ \E a \in Audiences : Send(a)
    \/ \E url \in URLs : FollowRedirect(url)

Spec == Init /\ [][Next]_vars

(***************************************************************************)
(* Properties                                                              *)
(***************************************************************************)

\* Wherever redirects lead, a key goes to the configured origin only, in clear text only
\* to this machine, and OPENAI_API_KEY to no origin but the default one; a client has the
\* key of its audience.
KeysStayHome ==
    request # None =>
        /\ request.url = Endpoint \/ sameAPIOrigin(request.url, Endpoint)
        /\ request.url.scheme = "https" \/ \E h \in Loopback : Canonical[request.url.host] = Canonical[h]
        /\ request.audience = "project" /\ request.key = "environment" =>
               request.url.scheme = "https" /\ effectivePort(request.url) = 443
               /\ Canonical[request.url.host] = Canonical[DefaultHost]
        /\ request.key \in {attribute[request.audience], environment[request.audience]} \ {"blank"}

\* A configured provider has a client for every key it was given, and says so when not.
KeysAreUsedOrReported ==
    pc = "configured" =>
        /\ DOMAIN clients # {}
        /\ \A a \in Audiences : Setting(a) # "blank" => a \in DOMAIN clients \/ warned

(***************************************************************************)
(* The inductive invariant                                                 *)
(***************************************************************************)

ClientsAreConfigured ==
    /\ \A a \in DOMAIN clients : a \in Audiences /\ Acceptable /\ Key(a) # "blank" /\ clients[a] = Key(a)
    /\ pc = "configured" =>
           Acceptable /\ warned = Ignored /\ \A a \in Audiences : Key(a) # "blank" => a \in DOMAIN clients

RequestIsOfClient ==
    request # None =>
        /\ request.audience \in DOMAIN clients
        /\ request.key = clients[request.audience]
        /\ request.url \in URLs
        /\ request.url = Endpoint \/ sameAPIOrigin(request.url, Endpoint)

=============================================================================
