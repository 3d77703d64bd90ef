-------------------------- MODULE StructuredValues --------------------------
(***************************************************************************)
(* Terraform values of several layers, what becomes of them in a request,  *)
(* and what an answer makes of them (verification, permissions and         *)
(* attribute_matchers of the workload identity resources).  A value is a   *)
(* record whose one field names its kind; a JSON value is a null, string,  *)
(* number, object or array of that form; a boolean goes the way of a       *)
(* number.  Sizes are left out; of numbers, only their text and whether    *)
(* they are beyond the supported limits matters.                           *)
(***************************************************************************)
EXTENDS Sequences, Functions, Integers

CONSTANTS
    MemberNames,   \* names of members
    Layers         \* bound: layers of a value that is configured or stored at the API

ASSUME StructuredAssumption ==
    /\ {"type", "discovery_url", "jwks", "scopes"} \subseteq MemberNames
    /\ Layers \in Nat

Null == [null |-> TRUE]
Unknown == [unknown |-> TRUE]
Missing == [missing |-> TRUE]   \* stands for a member that is not there

\* The members f, and no others.
Named(f) == [n \in MemberNames |-> IF n \in DOMAIN f THEN f[n] ELSE Missing]

String(s) == [string |-> s]
Number(n) == [number |-> n]
Object(f) == [object |-> Named(f)]
MapOf(f) == [map |-> Named(f)]
List(s) == [list |-> s]
Tuple(s) == [tuple |-> s]
Dynamic(v) == [dynamic |-> v]
Array(s) == [array |-> s]

Is(kind, v) == kind \in DOMAIN v
IsScalar(v) == Is("string", v) \/ Is("number", v)

Has(members, name) == members[name] # Missing
NamesOf(members) == {n \in MemberNames : Has(members, n)}

\* What a value has immediately within it.
MembersOf(v) ==
    CASE Is("object", v) -> {v.object[n] : n \in NamesOf(v.object)}
      [] Is("map", v) -> {v.map[n] : n \in NamesOf(v.map)}
      [] Is("list", v) -> Range(v.list)
      [] Is("tuple", v) -> Range(v.tuple)
      [] Is("array", v) -> Range(v.array)
      [] Is("dynamic", v) -> {v.dynamic}
      [] OTHER -> {}

ValuesOver(members) ==
    LET named == [MemberNames -> members \cup {Missing}] IN
    {Null, Unknown} \cup [string : STRING] \cup [number : STRING] \cup [dynamic : members]
    \cup [object : named] \cup [map : named]
    \cup [list : Seq(members)] \cup [tuple : Seq(members)] \cup [array : Seq(members)]

\* The values of at most n layers below the outermost.
Layered[n \in 0..Layers + 1] == ValuesOver(IF n = 0 THEN {} ELSE Layered[n - 1])

\* A dynamic type adds a layer to what is stored.
AllValues == Layered[Layers + 1]

\* The value, its members, theirs, and so on.
Within[v \in AllValues] == {v} \cup UNION {Within[m] : m \in MembersOf(v)}

IsJSON(v) == \A w \in Within[v] : w = Null \/ IsScalar(w) \/ Is("object", w) \/ Is("array", w)

(***************************************************************************)
(* Requests                                                                *)
(***************************************************************************)

Huge == Number("huge")   \* beyond validateStructuredNumber

FullyKnown(v) == Unknown \notin Within[v]
Convertible(v) == FullyKnown(v) /\ Huge \notin Within[v]

\* Mutant: null members are left out wherever they are.
KeepsNone(keepNull) == FALSE

Keeps(keepNull) == keepNull

\* The members of an object are left out when null, unless it is JSON of the user's own.
StructuredRequestValue[v \in AllValues] == [keepNull \in BOOLEAN |->
    CASE Is("dynamic", v) -> StructuredRequestValue[v.dynamic][TRUE]
      [] Is("object", v) ->
            LET kept == {n \in NamesOf(v.object) : Keeps(keepNull) \/ v.object[n] # Null} IN
            Object([n \in kept |-> StructuredRequestValue[v.object[n]][keepNull]])
      [] Is("map", v) -> Object([n \in NamesOf(v.map) |-> StructuredRequestValue[v.map[n]][keepNull]])
      [] Is("list", v) -> Array([i \in DOMAIN v.list |-> StructuredRequestValue[v.list[i]][TRUE]])
      [] Is("tuple", v) -> Array([i \in DOMAIN v.tuple |-> StructuredRequestValue[v.tuple[i]][TRUE]])
      [] OTHER -> v]

HasKind(object, k) == object["type"] = String(k)

\* The shapes the API documents for each kind of attribute.
WellShaped(object, kind) ==
    CASE kind = "scalar_matchers" -> \A n \in NamesOf(object) : IsScalar(object[n])
      [] kind = "verification" ->
            \/ HasKind(object, "discovery") /\ ~Has(object, "jwks")
            \/ /\ HasKind(object, "uploaded_jwks") /\ ~Has(object, "discovery_url")
               /\ Has(object, "jwks") /\ Is("object", object["jwks"])
      [] kind = "permissions" ->
            \/ HasKind(object, "service_account_default") /\ ~Has(object, "scopes")
            \/ /\ HasKind(object, "restricted")
               /\ Has(object, "scopes") /\ Is("array", object["scopes"]) /\ object["scopes"].array # <<>>
      [] OTHER -> TRUE

\* validateStructuredValue: values with unknown members pass while planning.
Validated(v, kind) ==
    \/ v = Null \/ ~FullyKnown(v)
    \/ /\ Convertible(v)
       /\ LET request == StructuredRequestValue[v][FALSE] IN
          Is("object", request) /\ WellShaped(request.object, kind)

HasStructuredBody(v, kind) == Validated(v, kind) /\ Convertible(v)

\* StructuredBodyValue
StructuredBody(v, kind) ==
    LET request == StructuredRequestValue[v][FALSE].object IN
    IF kind = "verification" /\ HasKind(request, "discovery") /\ ~Has(request, "discovery_url")
    THEN [object |-> [request EXCEPT !["discovery_url"] = Null]]
    ELSE [object |-> request]

(***************************************************************************)
(* Answers                                                                 *)
(***************************************************************************)

\* Types look like values: an object of types, a list of a type, string or dynamic.
StringType == String("any")
AnyType == Dynamic("any")
VerificationType == Object([type |-> StringType, discovery_url |-> StringType, jwks |-> AnyType])
PermissionsType == Object([type |-> StringType, scopes |-> List(StringType)])
Types == {StringType, AnyType, List(StringType), VerificationType, PermissionsType}

TypeOf(kind) ==
    CASE kind = "verification" -> VerificationType
      [] kind = "permissions" -> PermissionsType
      [] OTHER -> AnyType

\* jsonAttribute finds what it expects.
HasType[json \in AllValues] == [type \in Types |->
    \/ json = Null
    \/ Is("dynamic", type)
    \/ Is("string", type) /\ IsScalar(json)
    \/ Is("list", type) /\ Is("array", json) /\ \A i \in DOMAIN json.array : HasType[json.array[i]][type.list]
    \/ /\ Is("object", type) /\ Is("object", json)
       /\ \A n \in NamesOf(type.object) \cap NamesOf(json.object) : HasType[json.object[n]][type.object[n]]]

\* inferJSONAttribute
Inferred[json \in AllValues] ==
    CASE Is("object", json) -> Object([n \in NamesOf(json.object) |-> Inferred[json.object[n]]])
      [] Is("array", json) -> Tuple([i \in DOMAIN json.array |-> Inferred[json.array[i]]])
      [] OTHER -> json

\* Mutant: a number stays one where the schema declares a string.
AsItIs(json) == json

\* tftypes.ValueFromJSON for a declared string.
AsText(json) == IF Is("number", json) THEN String(json.number) ELSE json

\* jsonAttribute: members an answer leaves out are null, others that it has are dropped.
JSONAttribute[json \in AllValues] == [type \in Types |->
    CASE json = Null -> Null
      [] json # Null /\ Is("dynamic", type) -> Dynamic(Inferred[json])
      [] Is("list", type) /\ Is("array", json) ->
            List([i \in DOMAIN json.array |-> JSONAttribute[json.array[i]][type.list]])
      [] Is("object", type) /\ Is("object", json) ->
            Object([n \in NamesOf(type.object) |->
                IF Has(json.object, n) THEN JSONAttribute[json.object[n]][type.object[n]] ELSE Null])
      [] OTHER -> AsText(json)]

\* structuredResponseValue; an answer may leave the whole attribute out.
Readable(json, type) == json = Missing \/ (Huge \notin Within[json] /\ HasType[json][type])

\* Mutant: the answer's own types replace those of the configuration.
NeverSame(target, value) == FALSE

SameRequest(target, value) ==
    Convertible(target) /\ StructuredRequestValue[target][FALSE] = StructuredRequestValue[value][FALSE]

\* Mutant: an attribute the answer leaves out is null, whatever it was.
NoneIfMissing(target) == Null

\* What an attribute becomes that the answer leaves out.
IfMissing(target) == IF target = Unknown THEN Null ELSE target

\* ApplyObjectResponseField, ApplyDynamicResponseField
Applied(target, json, type) ==
    IF json = Missing THEN IfMissing(target)
    ELSE LET value == JSONAttribute[json][type] IN IF SameRequest(target, value) THEN target ELSE value

(***************************************************************************)
(* What a value means, whatever types Terraform gave it                    *)
(***************************************************************************)

\* What a scalar reads.
Wording(json) == IF Is("string", json) THEN json.string ELSE json.number

\* value says the same as json, where null and absent members of a declared object are
\* the same and members it does not declare are of no interest; where it declares a
\* string, a number is what it reads.
Means[value \in AllValues] == [json \in AllValues |-> [type \in Types |->
    \/ value = Null /\ json = Null
    \/ IsScalar(json) /\ value = (IF Is("string", type) THEN String(Wording(json)) ELSE json)
    \/ Is("dynamic", value) /\ Means[value.dynamic][json][type]
    \/ /\ Is("object", value) /\ Is("object", type) /\ Is("object", json)
       /\ NamesOf(value.object) = NamesOf(type.object)
       /\ \A n \in NamesOf(type.object) :
              Means[value.object[n]][IF Has(json.object, n) THEN json.object[n] ELSE Null][type.object[n]]
    \/ /\ Is("object", value) /\ Is("dynamic", type) /\ Is("object", json)
       /\ NamesOf(value.object) = NamesOf(json.object)
       /\ \A n \in NamesOf(json.object) : Means[value.object[n]][json.object[n]][type]
    \/ /\ Is("map", value) /\ Is("object", json)
       /\ NamesOf(value.map) = NamesOf(json.object)
       /\ \A n \in NamesOf(json.object) : Means[value.map[n]][json.object[n]][type]
    \/ /\ Is("list", value) /\ Is("array", json) /\ DOMAIN value.list = DOMAIN json.array
       /\ \A i \in DOMAIN json.array :
              Means[value.list[i]][json.array[i]][IF Is("list", type) THEN type.list ELSE type]
    \/ /\ Is("tuple", value) /\ Is("array", json) /\ DOMAIN value.tuple = DOMAIN json.array
       /\ \A i \in DOMAIN json.array : Means[value.tuple[i]][json.array[i]][type]]]

=============================================================================
