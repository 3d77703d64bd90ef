------------------------- MODULE StringOrListValues -------------------------
(***************************************************************************)
(* An attribute that is a string or a list of strings whose order the API  *)
(* does not keep (enabled_tiers of a project's service tier settings).     *)
(***************************************************************************)
EXTENDS StructuredValues

CONSTANTS Strings, Items   \* texts allowed alone, and in a list

Inner(v) == IF Is("dynamic", v) THEN v.dynamic ELSE v
IsList(v) == Is("list", v) \/ Is("tuple", v)
ItemsOf(v) == IF Is("list", v) THEN v.list ELSE v.tuple

\* ValidateDynamic: unknown values and elements pass while planning.
StringOrListValidated(v) ==
    LET inner == Inner(v) IN
    \/ v = Null \/ inner = Unknown
    \/ Is("string", inner) /\ inner.string \in Strings
    \/ IsList(inner) /\ \A m \in Range(ItemsOf(inner)) : m = Unknown \/ (Is("string", m) /\ m.string \in Items)

HasStringOrListBody(v) ==
    LET inner == Inner(v) IN
    Is("string", inner) \/ (IsList(inner) /\ \A m \in Range(ItemsOf(inner)) : Is("string", m))

StringOrListStringBody(v) == LET inner == Inner(v) IN IF IsList(inner) THEN Array(ItemsOf(inner)) ELSE inner

StringOrListReadable(json) ==
    Is("string", json) \/ (Is("array", json) /\ \A m \in Range(json.array) : Is("string", m))

\* ApplyStringOrListStringResponseField keeps a configured list a list.
StringOrListAttribute(target, json) ==
    Dynamic(IF Is("string", json) THEN json
            ELSE IF Is("list", Inner(target)) THEN List(json.array) ELSE Tuple(json.array))

\* Mutant: lists of one length are taken for the same.
SameLength(target, json) ==
    /\ HasStringOrListBody(target) /\ IsList(Inner(target)) /\ Is("array", json)
    /\ Len(ItemsOf(Inner(target))) = Len(json.array)

SameMembership(target, json) ==
    /\ HasStringOrListBody(target) /\ IsList(Inner(target)) /\ Is("array", json)
    /\ Range(ItemsOf(Inner(target))) = Range(json.array)

\* ApplyStringOrUnorderedListStringResponseField keeps the configured order.
UnorderedApplied(target, json) == IF SameMembership(target, json) THEN target ELSE StringOrListAttribute(target, json)

\* Both are the one text, or lists of the same texts.
MeansSet(value, json) ==
    LET inner == Inner(value) IN
    \/ Is("string", inner) /\ inner = json
    \/ IsList(inner) /\ Is("array", json) /\ Range(ItemsOf(inner)) = Range(json.array)

=============================================================================
