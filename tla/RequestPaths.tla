---------------------------- MODULE RequestPaths ----------------------------
(***************************************************************************)
(* From the values that name an object, given in the configuration or in   *)
(* an import identifier, to the path of the request that reads it.  A text *)
(* is a sequence of tokens: "/" and what else the functions look for are   *)
(* tokens of their own.                                                    *)
(***************************************************************************)
EXTENDS Sequences, Integers

CONSTANTS
    Routes,   \* records as ReadRoutes lists them
    Tokens,   \* what values are made of, besides the holes of the route
    MaxTokens \* bound: MaxTokens[n]: tokens of a value where n of them name an object

Text(t) == [text |-> t, form |-> "plain"]
Hole(name) == [text |-> name, form |-> "hole"]
Slash == Text("/")

VARIABLES
    route,
    named,     \* named[n]: the value that is meant to be parameter n
    imported,  \* the values came in an import identifier
    values,    \* the attributes of the resource, once it has them
    pending,   \* parameters not yet put into the path
    path,
    pathPc     \* "given", "expanding", "asked", "refused"

pathVars == <<route, named, imported, values, pending, path, pathPc>>

PartsOf(r) == {r.parts[k] : k \in DOMAIN r.parts}

Values(r) ==
    UNION {[1..n -> {Text(t) : t \in Tokens} \cup {Hole(p) : p \in PartsOf(r)}] : n \in 0..MaxTokens[Len(r.parts)]}

\* A text of parts with a separator between them (strings.Join).
Joined(parts, separator) ==
    LET upTo[n \in 0..Len(parts)] ==
            IF n = 0 THEN <<>> ELSE upTo[n - 1] \o (IF n = 1 THEN <<>> ELSE separator) \o parts[n]
    IN  upTo[Len(parts)]

Join(parts) == Joined(parts, <<Slash>>)

\* The parts of a text between slashes (strings.Split).
Split(text) ==
    LET upTo[n \in 0..Len(text)] ==
            IF n = 0 THEN << <<>> >>
            ELSE LET parts == upTo[n - 1] IN
                 IF text[n] = Slash THEN Append(parts, <<>>)
                 ELSE [parts EXCEPT ![Len(parts)] = Append(@, text[n])]
    IN  upTo[Len(text)]

\* strings.ReplaceAll
Replaced(text, hole, value) ==
    Joined([i \in DOMAIN text |-> IF text[i] = hole THEN value ELSE <<text[i]>>], <<>>)

Names == UNION {PartsOf(r) \cup r.params : r \in Routes}

\* The path of a route, a hole for every "{name}".
Template(r) ==
    [k \in DOMAIN r.path |->
        LET holes == {p \in Names : r.path[k] = "{" \o p \o "}"} IN
        IF holes = {} THEN <<Text(r.path[k])>> ELSE <<Hole(CHOOSE p \in holes : TRUE)>>]

\* A route has a path whose holes are among its parameters, which are checked parts of the
\* identifier; their names are none of the words that are escaped.
ASSUME RoutesAssumption ==
    \A r \in Routes :
        /\ r.parts \in Seq(STRING) \ {<<>>} /\ r.path \in Seq(STRING) \ {<<>>}
        /\ MaxTokens[Len(r.parts)] \in Nat
        /\ \A k \in DOMAIN r.path : r.path[k] # "/"
        /\ r.params \subseteq PartsOf(r) \ r.free
        /\ \A k \in DOMAIN r.path : Template(r)[k][1].form = "hole" => Template(r)[k][1].text \in r.params
        /\ PartsOf(r) \cap {"/", "%", " "} = {}

ImportID == Join([k \in DOMAIN route.parts |-> named[route.parts[k]]])

PathInit ==
    /\ route \in Routes
    /\ named \in [PartsOf(route) -> Values(route)]
    /\ imported \in BOOLEAN
    /\ values = <<>>
    /\ pending = {}
    /\ path = Join(Template(route))
    /\ pathPc = "given"

\* ValidatePathParameter: not blank and no dot segment.
Valid(value) ==
    /\ \E i \in DOMAIN value : value[i] # Text(" ")
    /\ value \notin {<<Text(".")>>, <<Text("."), Text(".")>>}

\* The schema's validators see what is configured, not what the API answers.
SchemaAccepts(value, part) ==
    \/ part \in route.answered
    \/ part \in route.free /\ value # <<>>
    \/ part \notin route.free /\ Valid(value)

\* The identifier of a singleton is a fixed word.
ImportAccepts(value, part) ==
    \/ part \in route.free
    \/ part = "singleton_id" /\ value = <<Text("organization")>>
    \/ part # "singleton_id" /\ Valid(value)

Begin(attributes) ==
    /\ values' = attributes
    /\ pending' = route.params
    /\ pathPc' = "expanding"

Configure ==
    /\ pathPc = "given" /\ ~imported
    /\ \A p \in PartsOf(route) : SchemaAccepts(named[p], p)
    /\ Begin(named)
    /\ UNCHANGED <<route, named, imported, path>>

\* Mutant: an identifier with more parts is accepted.
EnoughParts(parts) == Len(parts) >= Len(route.parts)

RightParts(parts) == Len(parts) = Len(route.parts)

ImportState ==
    LET parts == Split(ImportID) IN
    /\ pathPc = "given" /\ imported
    /\ RightParts(parts)
    /\ \A k \in DOMAIN route.parts : ImportAccepts(parts[k], route.parts[k])
    /\ Begin([p \in PartsOf(route) |-> parts[CHOOSE k \in DOMAIN route.parts : route.parts[k] = p]])
    /\ UNCHANGED <<route, named, imported, path>>

RefuseValues ==
    /\ pathPc = "given"
    /\ IF imported
       THEN LET parts == Split(ImportID) IN
            RightParts(parts) => \E k \in DOMAIN route.parts : ~ImportAccepts(parts[k], route.parts[k])
       ELSE \E p \in PartsOf(route) : ~SchemaAccepts(named[p], p)
    /\ pathPc' = "refused"
    /\ UNCHANGED <<route, named, imported, values, pending, path>>

\* Mutant: slashes are left as they are, as in a path of several segments.
KeepSlashes(t) == IF t.form = "hole" \/ t.text \in {"%", " "} THEN [t EXCEPT !.form = "escaped"] ELSE t

\* url.PathEscape
Escape(t) == IF t.form = "hole" \/ t.text \in {"/", "%", " "} THEN [t EXCEPT !.form = "escaped"] ELSE t

Escaped(value) == [i \in DOMAIN value |-> Escape(value[i])]

\* One parameter, in the order of a map: any.
ExpandParameter(p) ==
    /\ pathPc = "expanding"
    /\ p \in pending
    /\ IF Valid(values[p])
       THEN /\ path' = Replaced(path, Hole(p), Escaped(values[p]))
            /\ pending' = pending \ {p}
            /\ UNCHANGED pathPc
       ELSE pathPc' = "refused" /\ UNCHANGED <<path, pending>>
    /\ UNCHANGED <<route, named, imported, values>>

\* A hole that is left is an error.
Ask ==
    /\ pathPc = "expanding"
    /\ pending = {}
    /\ pathPc' = IF \E i \in DOMAIN path : path[i].form = "hole" THEN "refused" ELSE "asked"
    /\ UNCHANGED <<route, named, imported, values, pending, path>>

PathNext ==
    \/ Configure \/ ImportState \/ RefuseValues \/ Ask
    \/ \E p \in pending : ExpandParameter(p)

PathSpec == PathInit /\ [][PathNext]_pathVars

(***************************************************************************)
(* Properties                                                              *)
(***************************************************************************)

\* Whatever the values hold and in whatever order they are put in, a path that is asked for
\* has the segments of its template, each hole filled with the one value that was meant: no
\* other object could be addressed by it.
PathsNameTheirObject ==
    pathPc = "asked" =>
        /\ Len(Split(path)) = Len(route.path)
        /\ \A k \in DOMAIN route.path :
               LET segment == Template(route)[k] IN
               IF segment[1].form = "hole"
               THEN Split(path)[k] = Escaped(named[segment[1].text]) /\ Valid(named[segment[1].text])
               ELSE Split(path)[k] = segment
        /\ \A a, b \in {Text(t) : t \in Tokens} \cup {Hole(p) : p \in PartsOf(route)} : Escape(a) = Escape(b) => a = b

\* An import identifier made of an object's values leads to that object's attributes or is
\* refused, and is refused only for a slash in a value or a value no path may have.
ImportsAreFaithful ==
    imported =>
        /\ pathPc \in {"expanding", "asked"} => values = named
        /\ pathPc = "refused" =>
               \E p \in PartsOf(route) : (\E i \in DOMAIN named[p] : named[p][i] = Slash) \/ ~ImportAccepts(named[p], p)

=============================================================================
