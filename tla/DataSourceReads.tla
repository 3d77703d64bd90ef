--------------------------- MODULE DataSourceReads ---------------------------
(***************************************************************************)
(* Reads of data sources, and of resources in cached lists, through one    *)
(* provider process.  Reads of the same cached list share its answer; what *)
(* happens when they do so at the same time is ResponseCache's subject,    *)
(* here a load is one step.  Lists arrive with all their pages, as         *)
(* Pagination shows.                                                       *)
(***************************************************************************)
EXTENDS Integers, Sequences

CONSTANTS
    Batches,      \* what may be read together: sequences of requests as DataSources lists them
    Args,         \* values of path parameters
    Items,        \* identities of objects
    MaxVersion,   \* bound: changes of what the API has
    Null, None

RequestOf(s) == <<s.path, s.params, s.query>>

\* Reads that share a cache entry ask for the same thing ...
ASSUME SharedEntriesShareRequests ==
    \A b, c \in Batches : \A i \in DOMAIN b, j \in DOMAIN c :
        b[i].cache # "" /\ b[i].cache = c[j].cache => RequestOf(b[i]) = RequestOf(c[j]) /\ b[i].keys = c[j].keys

\* ... and the key of the entry has every path parameter of the request.
ASSUME KeysHaveAllParameters == \A b \in Batches : \A i \in DOMAIN b : b[i].cache # "" => b[i].params \subseteq b[i].keys

\* A batch is one read or several that share entries, and only lists are cached.
ASSUME BatchesAreAloneOrShare ==
    \A b \in Batches : \A i \in DOMAIN b :
        /\ DOMAIN b = {1} \/ b[i].cache # ""
        /\ b[i].request \in {"single", "listing", "pick"}
        /\ b[i].request = "single" => b[i].cache = ""
        /\ b[i].absent \in {"error", "removed"}

VARIABLES
    clients,   \* audiences the provider has a credential for
    source,    \* source[r]: what read r asks for
    arg,       \* arg[r]: the value of its path parameters
    wanted,    \* wanted[r]: the object it is about, unless it lists them all
    held,      \* held[r]: what the fields of the state hold when r begins
    remote,    \* remote[a]: what the API has under path parameter a
    cache,     \* the response cache: entries [key, answer]
    phase,     \* phase[r]: "new", "ready", "answered", "done"
    answer,    \* answer[r]: the answer r works on
    result,    \* result[r]: "state", "error" or "removed" once r is done
    shown      \* shown[r]: the state r has set

readVars == <<phase, answer, result, shown>>
fixedVars == <<clients, source, arg, wanted, held>>
vars == <<fixedVars, remote, cache, readVars>>

Reads == DOMAIN source

(***************************************************************************)
(* JSON values, reduced to what the readers of fields tell apart           *)
(***************************************************************************)

Json == {"text", "true", "flag", "number", "texts", "mixed", "tree", "trees", "null", "missing"}

\* What a field of a type is usually answered with.
Usual(type) ==
    CASE type = "integer" -> "number"
      [] type = "textOrTexts" -> "texts"
      [] type = "objects" -> "trees"
      [] type = "any" -> "tree"
      [] OTHER -> type

\* The values a type accepts.  With exact numbers a number is no longer a string.
Accepted(type, exact) ==
    CASE type = "text" -> {"text", "true", "flag"} \cup (IF exact THEN {} ELSE {"number"})
      [] type = "flag" -> {"flag", "true"}
      [] type = "textOrTexts" -> {"text", "true", "texts"}
      [] type = "any" -> Json
      [] OTHER -> {Usual(type)}

\* Null and None are told apart from what they stand for the lack of.
ASSUME NullIsNoValue == Null \notin Json /\ None \notin {"state", "error", "removed"}

ASSUME FieldsHaveTypes ==
    \A b \in Batches : \A i \in DOMAIN b : \A f \in DOMAIN b[i].fields :
        Usual(b[i].fields[f].type) \in Json

IsAbsent(field, json) == json = "missing" \/ (json = "null" /\ field.type # "objects")

Refuses(field, exact, json) ==
    IF IsAbsent(field, json) THEN field.required ELSE json \notin Accepted(field.type, exact)

\* Mutant: what the answer does not mention becomes null.
NulledIfMissing(field, exact, json, before) ==
    IF IsAbsent(field, json) THEN Null
    ELSE IF field.type \in {"text", "flag"} THEN field.type
    ELSE IF field.type = "textOrTexts" /\ json # "texts" THEN "text" ELSE json

\* The Apply...ResponseField functions: a field that the answer does not mention stays as
\* it was.
Value(field, exact, json, before) ==
    IF json = "missing" THEN before
    ELSE IF IsAbsent(field, json) THEN Null
    ELSE CASE field.type = "text" -> "text"
           [] field.type = "flag" -> "flag"
           [] field.type = "textOrTexts" -> IF json = "texts" THEN "texts" ELSE "text"
           [] OTHER -> json

(***************************************************************************)
(* What the API has: objects, at most one of their fields out of order     *)
(***************************************************************************)

\* The computed attributes of a data source are null when its Read begins; a resource's are
\* what it got from earlier answers. Bound: all fields hold something, or none does, and
\* the latter only when the resource is read alone.
Held == {Null, "held"}
HeldBefore(s) ==
    IF s.absent # "removed" THEN {Null}
    ELSE IF Len(source) = 1 THEN Held ELSE {"held"}

InOrder == [item |-> None, field |-> None, json |-> None]

\* Bound: when reads share a list, fields of one type stand for each other, and a value
\* of the wrong type for all of them.
OddFields(s) ==
    IF Len(source) = 1 THEN DOMAIN s.fields
    ELSE {s.match} \cup {CHOOSE f \in DOMAIN s.fields : s.fields[f] = t : t \in {s.fields[f] : f \in DOMAIN s.fields}}

OutOfOrder(s, items) ==
    {o \in [item : items, field : OddFields(s), json : IF Len(source) = 1 THEN Json ELSE {"missing", "mixed"}] :
         o.json # Usual(s.fields[o.field].type)}

\* whole: every element of the list is an object.
Documents(s, item) ==
    UNION {[version : {0}, whole : {TRUE}, items : {items}, odd : {InOrder} \cup OutOfOrder(s, items)] :
               items \in IF s.request = "single" THEN {{item}} ELSE SUBSET Items}
    \cup IF s.request = "single" THEN {} ELSE [version : {0}, whole : {FALSE}, items : {{}}, odd : {InOrder}]

JsonOf(document, s, item, field) ==
    IF document.odd.item = item /\ document.odd.field = field THEN document.odd.json
    ELSE Usual(s.fields[field].type)

Init ==
    /\ source \in Batches
    /\ clients \in {{source[1].audience}, {"admin", "project"} \ {source[1].audience}}
    /\ arg \in [Reads -> Args]
    /\ wanted \in [Reads -> Items]
    /\ held \in {h \in [Reads -> Held] : \A r \in Reads : h[r] \in HeldBefore(source[r])}
    /\ \E d \in Documents(source[1], wanted[1]) :
           remote = [a \in Args |-> IF a = arg[1] THEN d ELSE [d EXCEPT !.items = {}, !.odd = InOrder, !.whole = TRUE]]
    /\ cache = {}
    /\ phase = [r \in Reads |-> "new"]
    /\ answer = [r \in Reads |-> None]
    /\ result = [r \in Reads |-> None]
    /\ shown = [r \in Reads |-> None]

(***************************************************************************)
(* A read                                                                  *)
(***************************************************************************)

Finish(r, outcome, state) ==
    /\ phase' = [phase EXCEPT ![r] = "done"]
    /\ result' = [result EXCEPT ![r] = outcome]
    /\ shown' = [shown EXCEPT ![r] = state]

\* Configure looks up the client of the audience; without one the read never starts.
Configure(r) ==
    /\ phase[r] = "new"
    /\ \/ /\ source[r].audience \in clients
          /\ phase' = [phase EXCEPT ![r] = "ready"]
          /\ UNCHANGED <<answer, result, shown>>
       \/ /\ source[r].audience \notin clients
          /\ Finish(r, "error", None)
          /\ UNCHANGED answer
    /\ UNCHANGED <<fixedVars, remote, cache>>

Request(r) == [path |-> source[r].path, query |-> source[r].query, args |-> [p \in source[r].params |-> arg[r]]]

\* Mutant: the project is not part of the key.
CacheNameOnly(r) == [name |-> source[r].cache, args |-> [p \in {} |-> arg[r]]]

CacheKey(r) == [name |-> source[r].cache, args |-> [p \in source[r].keys |-> arg[r]]]

Cached(r) == {e \in cache : e.key = CacheKey(r)}

\* The request is sent and answered; an answer to a cached request is kept.
Ask(r) ==
    LET a == [request |-> Request(r), document |-> remote[arg[r]]] IN
    /\ phase[r] = "ready"
    /\ source[r].cache # "" => Cached(r) = {}
    /\ phase' = [phase EXCEPT ![r] = "answered"]
    /\ answer' = [answer EXCEPT ![r] = a]
    /\ cache' = IF source[r].cache = "" THEN cache ELSE cache \cup {[key |-> CacheKey(r), answer |-> a]}
    /\ UNCHANGED <<fixedVars, remote, result, shown>>

\* The request fails; a resource whose list is not found leaves the state.
AskInVain(r) ==
    /\ phase[r] = "ready"
    /\ source[r].cache # "" => Cached(r) = {}
    /\ Finish(r, "error", None) \/ (source[r].absent = "removed" /\ Finish(r, "removed", None))
    /\ UNCHANGED <<fixedVars, remote, cache, answer>>

\* The answer is in the cache.
Reuse(r) ==
    /\ phase[r] = "ready"
    /\ source[r].cache # ""
    /\ \E e \in Cached(r) : answer' = [answer EXCEPT ![r] = e.answer]
    /\ phase' = [phase EXCEPT ![r] = "answered"]
    /\ UNCHANGED <<fixedVars, remote, cache, result, shown>>

\* ResponseObjectByField: objects whose field is missing or something else are passed over.
Matches(document, s, item) ==
    item \in document.items /\ (document.odd.item = item => document.odd.field # s.match)

Subjects(r, document) ==
    IF source[r].request = "listing" THEN document.items ELSE {wanted[r]}

\* Mutant: an object with a field that cannot be read is shown without it.
SomeFieldReadable(s, document, item) ==
    \E f \in DOMAIN s.fields : ~Refuses(s.fields[f], s.exact, JsonOf(document, s, item, f))

Readable(s, document, item) ==
    \A f \in DOMAIN s.fields : ~Refuses(s.fields[f], s.exact, JsonOf(document, s, item, f))

Mapped(s, document, item, before) ==
    [f \in DOMAIN s.fields |-> Value(s.fields[f], s.exact, JsonOf(document, s, item, f), before)]

\* The answer is read field by field; the state is set last, so any field that cannot
\* be read leaves it as it was.
Apply(r) ==
    LET s == source[r]  d == answer[r].document IN
    /\ phase[r] = "answered"
    /\ \/ /\ ~d.whole
          /\ Finish(r, "error", None)
       \/ /\ d.whole
          /\ s.request = "pick"
          /\ ~Matches(d, s, wanted[r])
          /\ Finish(r, s.absent, None)
       \/ /\ d.whole
          /\ s.request = "pick" => Matches(d, s, wanted[r])
          /\ IF \A i \in Subjects(r, d) : Readable(s, d, i)
             THEN Finish(r, "state", [i \in Subjects(r, d) |-> Mapped(s, d, i, held[r])])
             ELSE Finish(r, "error", None)
    /\ UNCHANGED <<fixedVars, remote, cache, answer>>

(***************************************************************************)
(* The rest of the provider and the API                                    *)
(***************************************************************************)

\* A resource mutates a cached collection (ReadAfterWrite).
Invalidate(e) ==
    /\ cache' = cache \ {e}
    /\ UNCHANGED <<fixedVars, remote, readVars>>

Change(a) ==
    /\ cache # {}
    /\ remote[a].version < MaxVersion
    /\ \E items \in SUBSET Items :
           remote' = [remote EXCEPT ![a] = [@ EXCEPT !.version = @ + 1, !.items = items]]
    /\ UNCHANGED <<fixedVars, cache, readVars>>

Read(r) == Configure(r) \/ Ask(r) \/ AskInVain(r) \/ Reuse(r) \/ Apply(r)

Next ==
    \/ \E r \in Reads : Read(r)
    \/ \E e \in cache : Invalidate(e)
    \/ \E a \in Args : Change(a)

Spec == Init /\ [][Next]_vars

(***************************************************************************)
(* Properties                                                              *)
(***************************************************************************)

\* A read works on an answer to its own request, also when another data source or
\* resource put it into the cache.
AnswersAreOwn == \A r \in Reads : answer[r] # None => answer[r].request = Request(r)

\* What a type may be shown as, given what was answered and what was there before.
Faithful(value, json, before) ==
    \/ value = json /\ json # "missing"
    \/ value = "text" /\ json \in {"true", "flag", "number"}
    \/ value = "flag" /\ json = "true"
    \/ value = Null /\ json = "null"
    \/ value = before /\ json = "missing"

Whole(r, document, state) ==
    /\ DOMAIN state = IF source[r].request = "listing" THEN document.items ELSE {wanted[r]} \cap document.items
    /\ \A i \in DOMAIN state, f \in DOMAIN source[r].fields :
           /\ Faithful(state[i][f], JsonOf(document, source[r], i, f), held[r])
           /\ source[r].fields[f].required => state[i][f] # Null

\* A state that was set shows one answer and all of it: exactly the objects asked for,
\* with every field as answered, nothing required missing and nothing malformed as null.
\* Only a field that the answer does not mention is what it was before, null in a data
\* source. Every other outcome leaves no new state behind.
StatesAreWholeAnswers ==
    \A r \in Reads :
        /\ shown[r] # None => result[r] = "state"
        /\ result[r] = "state" => Whole(r, answer[r].document, shown[r])

=============================================================================
