------------------------- MODULE AttributeRoundTrip -------------------------
(***************************************************************************)
(* One structured attribute of one resource, from the configuration over   *)
(* the request and the API's answer to the state, while others change it.  *)
(***************************************************************************)
EXTENDS StringOrListValues

CONSTANTS
    Kinds,       \* kinds of attributes
    Configs,     \* Configs[kind]: values a configuration may have
    Resolved,    \* Resolved[kind][value]: what it may be once its unknown members are known
    Foreign,     \* Foreign[kind]: JSON values that others store
    Default,     \* Default[kind]: what the API stores when it is sent none
    MaxSteps,    \* bound: configurations applied and changes by others
    Absent

StringValues == [string : STRING] \cup {Null, Unknown}
ListValues == [list : Seq(StringValues)] \cup {Null, Unknown}
DynamicValues == [dynamic : AllValues] \cup {Null, Unknown}

\* Terraform gives a value the type that the schema declares.
HasSchema(v, kind) ==
    /\ v \in Layered[Layers] /\ \A w \in Within[v] : ~Is("array", w)
    /\ CASE kind = "verification" ->
              \/ v = Null
              \/ /\ Is("object", v) /\ NamesOf(v.object) = NamesOf(VerificationType.object)
                 /\ {v.object["type"], v.object["discovery_url"]} \subseteq StringValues
                 /\ v.object["jwks"] \in DynamicValues
         [] kind = "permissions" ->
              \/ v = Null
              \/ /\ Is("object", v) /\ NamesOf(v.object) = NamesOf(PermissionsType.object)
                 /\ v.object["type"] \in StringValues /\ v.object["scopes"] \in ListValues
         [] OTHER -> Is("dynamic", v)

ASSUME AttributesAssumption ==
    /\ Kinds \subseteq {"scalar_matchers", "verification", "permissions", "tiers"}
    /\ \A k \in Kinds :
          /\ \A c \in Configs[k] : HasSchema(c, k) /\ \A v \in Resolved[k][c] : HasSchema(v, k) /\ FullyKnown(v)
          /\ \A json \in Foreign[k] \cup {Default[k]} : json \in Layered[Layers] /\ IsJSON(json)

VARIABLES
    kind,
    bodyPc,     \* "plan", "apply", "answer", "settled", "refused"
    config,     \* what is configured
    planned,    \* what is planned: config with its unknown members resolved
    remote,     \* JSON at the API
    state,      \* attribute in the state, Absent before the first answer
    foreign,    \* others have changed remote since it was last sent
    current,    \* state is of the present remote
    steps

bodyVars == <<kind, bodyPc, config, planned, remote, state, foreign, current, steps>>

BodyInit ==
    /\ kind \in Kinds
    /\ config \in Configs[kind]
    /\ bodyPc = "plan"
    /\ planned = Absent /\ remote = Absent /\ state = Absent
    /\ foreign = FALSE /\ current = FALSE
    /\ steps = 0

IsTiers == kind = "tiers"

ConfigValidated == IF IsTiers THEN StringOrListValidated(config) ELSE Validated(config, kind)

Computed == kind \in {"verification", "permissions"}   \* the others are required

\* Terraform validates the configuration; when it applies, nothing is unknown any more but
\* a value the API computes because it is not configured.
Plan ==
    /\ bodyPc = "plan"
    /\ \E v \in Resolved[kind][config] :
          IF ConfigValidated /\ (v # Null \/ Computed)
          THEN bodyPc' = "apply" /\ planned' = IF v = Null THEN Unknown ELSE v
          ELSE bodyPc' = "refused" /\ UNCHANGED planned
    /\ UNCHANGED <<kind, config, remote, state, foreign, current, steps>>

HasBody == IF IsTiers THEN HasStringOrListBody(planned) ELSE HasStructuredBody(planned, kind)
Body == IF IsTiers THEN StringOrListStringBody(planned) ELSE StructuredBody(planned, kind)

\* The API keeps what it is sent, and lists without an order in an order of its own.
Stored(json) ==
    IF IsTiers /\ Is("array", json)
    THEN {Array(s) : s \in {t \in UNION {[1..n -> Range(json.array)] : n \in 0..Len(json.array)} : Range(t) = Range(json.array)}}
    ELSE {json}

\* Create and Update send a value that is there.
SendBody ==
    /\ bodyPc = "apply"
    /\ \/ planned = Unknown /\ remote' = (IF remote = Absent THEN Default[kind] ELSE remote) /\ bodyPc' = "answer"
       \/ planned # Unknown /\ HasBody /\ remote' \in Stored(Body) /\ bodyPc' = "answer"
       \/ planned # Unknown /\ ~HasBody /\ bodyPc' = "refused" /\ UNCHANGED remote
    /\ foreign' = (foreign /\ planned = Unknown)
    /\ UNCHANGED <<kind, config, planned, state, current, steps>>

\* An answer has the attribute or leaves it out; tiers must be there.
Answers == {remote, Missing}
CanRead(json) == IF IsTiers THEN StringOrListReadable(json) ELSE Readable(json, TypeOf(kind))
ReadInto(target, json) == IF IsTiers THEN UnorderedApplied(target, json) ELSE Applied(target, json, TypeOf(kind))

\* The answer is applied to what was planned; one that cannot be read is reported.  What
\* was sent is what the API has, whether the answer repeats it or not.
TakeAnswer ==
    /\ bodyPc = "answer"
    /\ \E json \in Answers :
          IF CanRead(json)
          THEN /\ state' = ReadInto(planned, json) /\ bodyPc' = "settled"
               /\ current' = (json # Missing \/ planned # Unknown)
          ELSE bodyPc' = "refused" /\ UNCHANGED <<state, current>>
    /\ UNCHANGED <<kind, config, planned, remote, foreign, steps>>

Refresh ==
    /\ bodyPc = "settled"
    /\ \E json \in Answers :
          IF CanRead(json)
          THEN state' = ReadInto(state, json) /\ current' = (json # Missing \/ current)
          ELSE UNCHANGED <<state, current>>
    /\ UNCHANGED <<kind, bodyPc, config, planned, remote, foreign, steps>>

Others ==
    /\ bodyPc = "settled"
    /\ steps < MaxSteps
    /\ remote' \in Foreign[kind]
    /\ steps' = steps + 1
    /\ foreign' = TRUE /\ current' = FALSE
    /\ UNCHANGED <<kind, bodyPc, config, planned, state>>

Reconfigure ==
    /\ bodyPc = "settled"
    /\ steps < MaxSteps
    /\ config' \in Configs[kind]
    /\ bodyPc' = "plan"
    /\ steps' = steps + 1
    /\ UNCHANGED <<kind, planned, remote, state, foreign, current>>

BodyNext == Plan \/ SendBody \/ TakeAnswer \/ Refresh \/ Others \/ Reconfigure

BodySpec == BodyInit /\ [][BodyNext]_bodyVars

(***************************************************************************)
(* Properties                                                              *)
(***************************************************************************)

\* Terraform finds what it planned, in the very types of the configuration, after the
\* answer and after every refresh, as long as nobody else changed the value.
ConfiguredValuesStay == bodyPc = "settled" /\ ~foreign /\ planned # Unknown => state = planned

\* What the configuration says is what the API is told, and what the API answers is what
\* the state says: nulls, numbers, lists of nothing and lists of one are not confused, and a
\* number answered for a declared string is its text.
NothingIsLostInConversion ==
    bodyPc = "settled" /\ current =>
        IF IsTiers THEN MeansSet(state, remote) ELSE Means[state][remote][TypeOf(kind)]

=============================================================================
