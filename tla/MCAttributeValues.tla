------------------------- MODULE MCAttributeValues -------------------------
\* What AttributeRoundTrip is checked on: for each kind of attribute the values it may be
\* configured with and those that others store at the API.
EXTENDS StructuredValues

CONSTANT Kinds

a == String("a")
one == Number("one")
aNumber == Number("a")   \* its text is that of the string a

\* Objects of one or two members, null, unknown and nested ones among them.
JSONConfigs ==
    LET scalars == {a, one, Huge, Null, Unknown}
        members == scalars \cup {Tuple(<<>>), Tuple(<<a, Null>>), Object([x |-> Null])}
        objects == {Object([x |-> m]) : m \in members}
                   \cup {Object([x |-> m, y |-> n]) : m \in {a, one}, n \in {a, Null, Object([x |-> Null])}}
                   \cup {MapOf([x |-> m]) : m \in {a, Null}} \cup {MapOf([x |-> a, y |-> a]), Object([n \in {} |-> Null])}
    IN {Dynamic(v) : v \in objects \cup {a, Null, Tuple(<<a>>)}}

JSONAnswers ==
    {Object([x |-> m]) : m \in {a, one, Huge, Null, Array(<<>>), Array(<<Null, a>>), Object([x |-> Null])}}
    \cup {Object([n \in {} |-> Null]), Object([x |-> a, y |-> Null]), Object([x |-> a, y |-> a])}

ConfigsOf ==
    [k \in Kinds |->
        CASE k = "scalar_matchers" -> JSONConfigs \cup {Dynamic(Unknown)}
          [] k = "verification" ->
                {Null} \cup {Object(f) : f \in
                    [type : {String("discovery"), String("uploaded_jwks")},
                     discovery_url : {Null, Unknown, a}, jwks : JSONConfigs \cup {Null, Unknown}]}
          [] k = "permissions" ->
                {Null} \cup {Object(f) : f \in
                    [type : {String("service_account_default"), String("restricted"), Unknown},
                     scopes : {Null, Unknown, List(<<>>), List(<<a>>), List(<<Null>>), List(<<String("b"), a>>), List(<<Unknown>>)}]}
          [] OTHER ->
                {Dynamic(Unknown), Dynamic(Null), Dynamic(String("all")), Dynamic(a), Dynamic(one)}
                \cup {Dynamic(List(s)) : s \in {<<>>, <<a>>, <<String("b"), a>>, <<a, a>>, <<Null>>, <<Unknown>>}}
                \cup {Dynamic(Tuple(s)) : s \in {<<>>, <<String("b"), a>>, <<a, String("b"), a>>, <<one>>, <<String("c")>>}}]

ForeignOf ==
    [k \in Kinds |->
        CASE k = "scalar_matchers" -> JSONAnswers \cup {Null}
          [] k = "verification" ->
                {Null, a, Object([type |-> String("discovery")]), Object([type |-> String("discovery"), discovery_url |-> a, extra |-> one]),
                 Object([type |-> String("discovery"), discovery_url |-> aNumber]), Object([type |-> one, discovery_url |-> one])}
                \cup {Object([type |-> String("uploaded_jwks"), jwks |-> j]) : j \in JSONAnswers \cup {Null}}
          [] k = "permissions" ->
                {Null, Array(<<>>), Object([type |-> String("service_account_default"), scopes |-> Null]),
                 Object([type |-> String("restricted"), scopes |-> a])}
                \cup {Object([type |-> String("restricted"), scopes |-> Array(s)]) : s \in {<<>>, <<a>>, <<aNumber>>, <<one, a>>, <<a, String("b")>>, <<Null>>}}
          [] OTHER -> {String("all"), a, one, Null} \cup {Array(s) : s \in {<<>>, <<a>>, <<a, String("b")>>, <<a, String("c")>>, <<Null>>}}]

DefaultOf ==
    [k \in Kinds |->
        CASE k = "verification" -> Object([type |-> String("discovery")])
          [] k = "permissions" -> Object([type |-> String("service_account_default")])
          [] OTHER -> Null]

\* Unknown values turn out to be null, or something.
RECURSIVE Substituted(_, _)
Substituted(v, known) ==
    CASE v = Unknown -> known
      [] Is("dynamic", v) -> Dynamic(Substituted(v.dynamic, known))
      [] Is("object", v) ->
            Object([n \in NamesOf(v.object) |->
                Substituted(v.object[n],
                    CASE known # Null /\ v.object[n] = Unknown /\ n = "jwks" -> Dynamic(Object([x |-> known]))
                      [] known # Null /\ v.object[n] = Unknown /\ n = "scopes" -> List(<<known>>)
                      [] OTHER -> known)])
      [] Is("list", v) -> List([i \in DOMAIN v.list |-> Substituted(v.list[i], known)])
      [] Is("tuple", v) -> Tuple([i \in DOMAIN v.tuple |-> Substituted(v.tuple[i], known)])
      [] OTHER -> v

ResolvedOf == [k \in Kinds |-> [c \in ConfigsOf[k] |-> {Substituted(c, known) : known \in {a, Null}}]]
=============================================================================
