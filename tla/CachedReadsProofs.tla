---------------------------- MODULE CachedReadsProofs ----------------------------
(***************************************************************************)
(* For every table of reads that meets the assumptions of DataSourceReads, *)
(* no read works on the answer to another request and every state is of    *)
(* one whole answer; for any users, pages and projects, the refresh of a   *)
(* project user takes no member for gone unless a 404 says so, and nobody  *)
(* who is gone for a member.                                               *)
(***************************************************************************)
EXTENDS CachedReads, TLAPS, FiniteSetTheorems

(***************************************************************************)
(* Answers are of the read's own request                                   *)
(***************************************************************************)

\* An entry answers the request of every read that would find it.
EntriesAreOwn ==
    \A e \in cache, r \in Reads : source[r].cache # "" /\ CacheKey(r) = e.key => e.answer.request = Request(r)

Sources == source \in Batches /\ DOMAIN answer = Reads

IInv == Sources /\ EntriesAreOwn /\ AnswersAreOwn

\* Equal keys of two reads that share a list, of whatever path parameters, come from
\* equal requests (buildResponseCacheKey and what the handlers pass to it).
LEMMA KeyDeterminesRequest ==
    ASSUME source \in Batches, NEW r \in Reads, NEW s \in Reads,
           source[r].cache # "", CacheKey(r) = CacheKey(s)
    PROVE  Request(r) = Request(s)
<1>1. source[r].cache = source[s].cache /\ [p \in source[r].keys |-> arg[r]] = [p \in source[s].keys |-> arg[s]]
  BY DEF CacheKey
<1>2. RequestOf(source[r]) = RequestOf(source[s]) /\ source[r].keys = source[s].keys
  BY <1>1, SharedEntriesShareRequests DEF Reads
<1>3. source[r].path = source[s].path /\ source[r].params = source[s].params /\ source[r].query = source[s].query
  BY <1>2 DEF RequestOf
<1>4. source[r].params \subseteq source[r].keys
  BY KeysHaveAllParameters DEF Reads
<1>5. \A p \in source[r].params : arg[r] = arg[s]
  <2>1. TAKE p \in source[r].params
  <2>2. p \in source[r].keys /\ p \in source[s].keys
    BY <1>2, <1>4
  <2>3. [q \in source[r].keys |-> arg[r]][p] = arg[r] /\ [q \in source[s].keys |-> arg[s]][p] = arg[s]
    BY <2>2
  <2> QED
    BY <2>3, <1>1
<1>6. [p \in source[r].params |-> arg[r]] = [p \in source[s].params |-> arg[s]]
  BY <1>3, <1>5
<1> QED
  BY <1>3, <1>6 DEF Request

LEMMA RequestsStay ==
    ASSUME source' = source, arg' = arg
    PROVE  Reads' = Reads /\ \A s \in Reads : Request(s)' = Request(s) /\ CacheKey(s)' = CacheKey(s)
BY DEF Reads, Request, CacheKey

\* Entries may go; those that stay or come have to be own ones.
LEMMA EntriesStayOwn ==
    ASSUME source' = source, arg' = arg,
           \A e \in cache', s \in Reads : source[s].cache # "" /\ CacheKey(s) = e.key => e.answer.request = Request(s)
    PROVE  EntriesAreOwn'
BY RequestsStay DEF EntriesAreOwn

LEMMA InitOwn == Init => IInv
BY DEF Init, IInv, Sources, EntriesAreOwn, AnswersAreOwn, Reads

\* Only Ask adds an entry and an answer, and only Reuse hands out one of another read.
LEMMA StepOwn == IInv /\ [Next]_vars => IInv'
<1> SUFFICES ASSUME IInv, [Next]_vars PROVE IInv'
  OBVIOUS
<1> USE DEF IInv, Sources
<1>1. ASSUME NEW r \in Reads, Ask(r) PROVE IInv'
  <2>1. /\ source' = source /\ arg' = arg
        /\ answer' = [answer EXCEPT ![r] = [request |-> Request(r), document |-> remote[arg[r]]]]
        /\ cache' \subseteq cache \cup {[key |-> CacheKey(r), answer |-> [request |-> Request(r), document |-> remote[arg[r]]]]}
        /\ source[r].cache = "" => cache' = cache
    BY <1>1 DEF Ask, fixedVars
  <2>2. Sources'
    BY <2>1 DEF Reads
  <2>3. AnswersAreOwn'
    BY <2>1 DEF AnswersAreOwn, Reads, Request
  <2>4. EntriesAreOwn'
    <3>1. ASSUME NEW e \in cache', NEW s \in Reads, source[s].cache # "", CacheKey(s) = e.key
          PROVE  e.answer.request = Request(s)
      <4>1. CASE e \in cache
        BY <3>1, <4>1 DEF EntriesAreOwn
      <4>2. CASE e \notin cache
        <5>1. e = [key |-> CacheKey(r), answer |-> [request |-> Request(r), document |-> remote[arg[r]]]]
          BY <2>1, <4>2
        <5>2. e.key = CacheKey(r) /\ e.answer.request = Request(r) /\ source[r].cache # ""
          BY <5>1, <4>2, <2>1
        <5> QED
          BY <3>1, <5>2, KeyDeterminesRequest
      <4> QED
        BY <4>1, <4>2
    <3> QED
      BY <2>1, <3>1, EntriesStayOwn
  <2> QED
    BY <2>2, <2>3, <2>4
<1>2. ASSUME NEW r \in Reads, Reuse(r) PROVE IInv'
  <2>1. PICK hit \in Cached(r) : answer' = [answer EXCEPT ![r] = hit.answer]
    BY <1>2 DEF Reuse
  <2>2. hit \in cache /\ hit.key = CacheKey(r) /\ source[r].cache # ""
    BY <1>2, <2>1 DEF Cached, Reuse
  <2>3. hit.answer.request = Request(r)
    BY <2>2 DEF EntriesAreOwn
  <2>4. source' = source /\ arg' = arg /\ cache' = cache
    BY <1>2 DEF Reuse, fixedVars
  <2>5. AnswersAreOwn'
    BY <2>1, <2>3, <2>4 DEF AnswersAreOwn, Reads, Request
  <2>6. EntriesAreOwn'
    BY <2>4, EntriesStayOwn DEF EntriesAreOwn
  <2>7. Sources'
    BY <2>1, <2>4 DEF Reads
  <2> QED
    BY <2>5, <2>6, <2>7
<1>3. ASSUME UNCHANGED <<source, arg, answer>>, cache' \subseteq cache PROVE IInv'
  <2>1. EntriesAreOwn'
    BY <1>3, EntriesStayOwn DEF EntriesAreOwn
  <2> QED
    BY <1>3, <2>1, RequestsStay DEF AnswersAreOwn, Reads
<1>4. ASSUME NEW r \in Reads, Configure(r) \/ AskInVain(r) \/ Apply(r) PROVE IInv'
  BY <1>3, <1>4 DEF Configure, AskInVain, Apply, Finish, fixedVars
<1>5. ASSUME NEW e \in cache, Invalidate(e) PROVE IInv'
  BY <1>3, <1>5 DEF Invalidate, fixedVars, readVars
<1>6. ASSUME NEW a \in Args, Change(a) PROVE IInv'
  BY <1>3, <1>6 DEF Change, fixedVars, readVars
<1>7. CASE UNCHANGED vars
  BY <1>3, <1>7 DEF vars, fixedVars, readVars
<1> QED
  BY <1>1, <1>2, <1>4, <1>5, <1>6, <1>7 DEF Next, Read

(***************************************************************************)
(* States are of whole answers                                             *)
(***************************************************************************)

ReadTypes ==
    /\ source \in Batches
    /\ DOMAIN phase = Reads /\ DOMAIN answer = Reads
    /\ DOMAIN result = Reads /\ DOMAIN shown = Reads

\* What made a state is not touched any more.
StatesAreFinal == \A r \in Reads : result[r] = "state" => phase[r] = "done"

\* The answer to the request for one object is that object.
SinglesAreOne ==
    \A r \in Reads : source[r].request = "single" =>
        /\ cache = {}
        /\ remote[arg[r]].items = {wanted[r]}
        /\ phase[r] = "answered" => answer[r].document.items = {wanted[r]}

WholeInv == ReadTypes /\ StatesAreFinal /\ SinglesAreOne /\ StatesAreWholeAnswers

\* Value, after Refuses: what is shown is what was answered, and is there if it has to be.
LEMMA ReadableIsFaithful ==
    ASSUME NEW field, NEW exact, NEW json, NEW before, ~Refuses(field, exact, json), Usual(field.type) \in Json
    PROVE  /\ Faithful(Value(field, exact, json, before), json, before)
           /\ field.required => Value(field, exact, json, before) # Null
<1>1. CASE IsAbsent(field, json)
  BY <1>1 DEF IsAbsent, Refuses, Value, Faithful
<1>2. CASE ~IsAbsent(field, json)
  <2>0. json # "missing"
    BY <1>2 DEF IsAbsent
  <2>1. json \in Accepted(field.type, exact)
    BY <1>2 DEF Refuses
  <2>2. CASE field.type = "text"
    BY <1>2, <2>0, <2>1, <2>2, NullIsNoValue DEF Accepted, Value, Faithful, Json
  <2>3. CASE field.type = "flag"
    BY <1>2, <2>0, <2>1, <2>3, NullIsNoValue DEF Accepted, Value, Faithful, Json
  <2>4. CASE field.type = "textOrTexts"
    BY <1>2, <2>0, <2>1, <2>4, NullIsNoValue DEF Accepted, Value, Faithful, Json
  <2>5. CASE field.type \notin {"text", "flag", "textOrTexts"}
    <3>1. Value(field, exact, json, before) = json
      BY <1>2, <2>0, <2>5 DEF Value
    <3>2. json \in Json
      BY <2>1, <2>5 DEF Accepted
    <3> QED
      BY <2>0, <3>1, <3>2, NullIsNoValue DEF Faithful
  <2> QED
    BY <2>2, <2>3, <2>4, <2>5
<1> QED
  BY <1>1, <1>2

LEMMA WholeAnswersRemain ==
    ASSUME UNCHANGED fixedVars,
           \A r \in Reads :
               /\ shown'[r] # None => result'[r] = "state"
               /\ result'[r] = "state" => Whole(r, answer'[r].document, shown'[r])
    PROVE  StatesAreWholeAnswers'
<1>1. source' = source /\ wanted' = wanted /\ held' = held /\ Reads' = Reads
  BY DEF fixedVars, Reads
<1>2. ASSUME NEW r \in Reads, result'[r] = "state"
      PROVE  Whole(r, answer[r].document, shown[r])'
  <2>1. Whole(r, answer'[r].document, shown'[r])
    BY <1>2
  <2> QED
    BY <1>1, <2>1 DEF Whole
<1> QED
  BY <1>1, <1>2 DEF StatesAreWholeAnswers

\* Apply sets such states.
LEMMA AppliedIsWhole ==
    ASSUME NEW r \in Reads, source \in Batches, NEW document,
           source[r].request # "listing" => wanted[r] \in document.items,
           \A i \in Subjects(r, document) : Readable(source[r], document, i)
    PROVE  Whole(r, document, [i \in Subjects(r, document) |-> Mapped(source[r], document, i, held[r])])
<1> DEFINE state == [i \in Subjects(r, document) |-> Mapped(source[r], document, i, held[r])]
<1>1. DOMAIN state = IF source[r].request = "listing" THEN document.items ELSE {wanted[r]} \cap document.items
  BY DEF Subjects
<1>2. ASSUME NEW i \in DOMAIN state, NEW f \in DOMAIN source[r].fields
      PROVE  /\ Faithful(state[i][f], JsonOf(document, source[r], i, f), held[r])
             /\ source[r].fields[f].required => state[i][f] # Null
  <2>1. state[i][f] = Value(source[r].fields[f], source[r].exact, JsonOf(document, source[r], i, f), held[r])
    BY <1>2 DEF Mapped
  <2>2. ~Refuses(source[r].fields[f], source[r].exact, JsonOf(document, source[r], i, f))
    BY <1>2 DEF Readable
  <2>3. Usual(source[r].fields[f].type) \in Json
    BY FieldsHaveTypes DEF Reads
  <2> HIDE DEF state
  <2> QED
    BY <2>1, <2>2, <2>3, ReadableIsFaithful
<1> QED
  BY <1>1, <1>2 DEF Whole

LEMMA InitWhole == Init => WholeInv
<1> SUFFICES ASSUME Init PROVE WholeInv
  OBVIOUS
<1>1. ReadTypes /\ StatesAreFinal /\ StatesAreWholeAnswers
  BY NullIsNoValue DEF Init, ReadTypes, StatesAreFinal, StatesAreWholeAnswers, Reads
<1>2. ASSUME NEW r \in Reads, source[r].request = "single"
      PROVE  cache = {} /\ remote[arg[r]].items = {wanted[r]} /\ phase[r] # "answered"
  <2>1. source \in Batches /\ cache = {} /\ phase[r] = "new" /\ arg \in [Reads -> Args]
    BY <1>2 DEF Init
  <2>2. r = 1
    BY <1>2, <2>1, BatchesAreAloneOrShare DEF Reads
  <2>3. PICK d \in Documents(source[1], wanted[1]) :
            remote = [a \in Args |-> IF a = arg[1] THEN d ELSE [d EXCEPT !.items = {}, !.odd = InOrder, !.whole = TRUE]]
    BY DEF Init
  <2>4. d.items = {wanted[1]}
    BY <1>2, <2>2, <2>3 DEF Documents
  <2>5. arg[1] \in Args
    BY <1>2, <2>1, <2>2
  <2>6. remote[arg[1]] = d
    BY <2>3, <2>5
  <2> QED
    BY <2>1, <2>2, <2>4, <2>6
<1> QED
  BY <1>1, <1>2 DEF WholeInv, SinglesAreOne

\* A read that fails, or finds nothing, leaves no state.
LEMMA FinishesWithoutState ==
    ASSUME WholeInv, NEW r \in Reads, NEW outcome \in {"error", "removed"}, Finish(r, outcome, None),
           UNCHANGED <<fixedVars, remote, cache, answer>>
    PROVE  WholeInv'
<1> USE DEF WholeInv, ReadTypes, Finish, fixedVars
<1>1. ReadTypes'
  BY DEF Reads
<1>2. StatesAreFinal'
  BY DEF StatesAreFinal, Reads
<1>3. SinglesAreOne'
  BY DEF SinglesAreOne, Reads
<1>4. \A s \in Reads :
          /\ shown'[s] # None => result'[s] = "state"
          /\ result'[s] = "state" => Whole(s, answer'[s].document, shown'[s])
  BY DEF StatesAreWholeAnswers
<1>5. StatesAreWholeAnswers'
  BY <1>4, WholeAnswersRemain
<1> QED
  BY <1>1, <1>2, <1>3, <1>5

\* Steps before a read is done, and steps of others.
LEMMA NothingIsFinished ==
    ASSUME WholeInv, UNCHANGED <<fixedVars, result, shown>>,
           DOMAIN phase' = Reads, DOMAIN answer' = Reads,
           \A r \in Reads : phase[r] = "done" => phase'[r] = "done" /\ answer'[r] = answer[r],
           SinglesAreOne'
    PROVE  WholeInv'
<1> USE DEF WholeInv, ReadTypes, fixedVars
<1>1. ReadTypes'
  BY DEF Reads
<1>2. StatesAreFinal'
  BY DEF StatesAreFinal, Reads
<1>3. \A s \in Reads : result[s] = "state" => answer'[s] = answer[s]
  BY DEF StatesAreFinal
<1>4. StatesAreWholeAnswers'
  BY <1>3, WholeAnswersRemain DEF StatesAreWholeAnswers
<1> QED
  BY <1>1, <1>2, <1>4

\* There is one read if it is for one object, and nothing is cached.
LEMMA SinglesAreAlone ==
    ASSUME source \in Batches, NEW r \in Reads, source[r].request = "single"
    PROVE  Reads = {r} /\ source[r].cache = ""
BY BatchesAreAloneOrShare DEF Reads

LEMMA AskKeepsWhole ==
    ASSUME WholeInv, NEW r \in Reads, Ask(r)
    PROVE  WholeInv'
<1> USE DEF WholeInv, ReadTypes
<1>1. /\ phase[r] = "ready" /\ phase' = [phase EXCEPT ![r] = "answered"]
      /\ answer' = [answer EXCEPT ![r] = [request |-> Request(r), document |-> remote[arg[r]]]]
      /\ source[r].cache = "" => cache' = cache
      /\ UNCHANGED <<fixedVars, remote, result, shown>>
  BY DEF Ask
<1>2. SinglesAreOne'
  <2> SUFFICES ASSUME NEW s \in Reads, source[s].request = "single"
               PROVE  /\ cache' = {}
                      /\ remote[arg[s]].items = {wanted[s]}
                      /\ answer'[s].document.items = {wanted[s]}
    BY <1>1 DEF SinglesAreOne, Reads, fixedVars
  <2>1. s = r /\ source[r].cache = ""
    BY SinglesAreAlone
  <2>2. cache = {} /\ remote[arg[s]].items = {wanted[s]}
    BY DEF SinglesAreOne
  <2>3. answer'[s].document = remote[arg[s]]
    BY <1>1, <2>1
  <2> QED
    BY <1>1, <2>1, <2>2, <2>3
<1> QED
  BY <1>1, <1>2, NothingIsFinished

LEMMA ReuseKeepsWhole ==
    ASSUME WholeInv, NEW r \in Reads, Reuse(r)
    PROVE  WholeInv'
<1> USE DEF WholeInv, ReadTypes
<1>1. PICK e \in Cached(r) : answer' = [answer EXCEPT ![r] = e.answer]
  BY DEF Reuse
<1>2. /\ phase[r] = "ready" /\ phase' = [phase EXCEPT ![r] = "answered"]
      /\ source[r].cache # ""
      /\ UNCHANGED <<fixedVars, remote, cache, result, shown>>
  BY DEF Reuse
<1>3. \A s \in Reads : source[s].request # "single"
  BY <1>2, SinglesAreAlone
<1>4. SinglesAreOne'
  BY <1>2, <1>3 DEF SinglesAreOne, Reads, fixedVars
<1> QED
  BY <1>1, <1>2, <1>4, NothingIsFinished

LEMMA ConfigureKeepsWhole ==
    ASSUME WholeInv, NEW r \in Reads, Configure(r)
    PROVE  WholeInv'
<1> USE DEF WholeInv, ReadTypes
<1>1. CASE /\ phase[r] = "new" /\ phase' = [phase EXCEPT ![r] = "ready"]
           /\ UNCHANGED <<answer, result, shown, fixedVars, remote, cache>>
  <2>1. SinglesAreOne'
    BY <1>1 DEF SinglesAreOne, Reads, fixedVars
  <2> QED
    BY <1>1, <2>1, NothingIsFinished
<1>2. CASE Finish(r, "error", None) /\ UNCHANGED <<answer, fixedVars, remote, cache>>
  BY <1>2, FinishesWithoutState
<1> QED
  BY <1>1, <1>2 DEF Configure

LEMMA ApplyKeepsWhole ==
    ASSUME WholeInv, NEW r \in Reads, Apply(r)
    PROVE  WholeInv'
<1> USE DEF WholeInv, ReadTypes
<1> DEFINE s == source[r]
           d == answer[r].document
           state == [i \in Subjects(r, d) |-> Mapped(s, d, i, held[r])]
<1>1. phase[r] = "answered" /\ UNCHANGED <<fixedVars, remote, cache, answer>>
  BY DEF Apply
<1>2. s.request \in {"single", "listing", "pick"} /\ s.absent \in {"error", "removed"}
  BY BatchesAreAloneOrShare DEF Reads
<1>3. CASE Finish(r, "error", None)
  BY <1>1, <1>3, FinishesWithoutState
<1>4. CASE Finish(r, s.absent, None)
  BY <1>1, <1>2, <1>4, FinishesWithoutState
<1>5. CASE /\ s.request = "pick" => Matches(d, s, wanted[r])
           /\ \A i \in Subjects(r, d) : Readable(s, d, i)
           /\ Finish(r, "state", state)
  <2>1. s.request # "listing" => wanted[r] \in d.items
    <3>1. CASE s.request = "pick"
      BY <1>5, <3>1 DEF Matches
    <3>2. CASE s.request = "single"
      BY <1>1, <3>2 DEF SinglesAreOne
    <3> QED
      BY <1>2, <3>1, <3>2
  <2>2. Whole(r, d, state)
    BY <1>5, <2>1, AppliedIsWhole
  <2> HIDE DEF state
  <2>3. /\ phase' = [phase EXCEPT ![r] = "done"]
        /\ result' = [result EXCEPT ![r] = "state"]
        /\ shown' = [shown EXCEPT ![r] = state]
    BY <1>5 DEF Finish
  <2>4. ReadTypes'
    BY <1>1, <2>3 DEF Reads, fixedVars
  <2>5. StatesAreFinal'
    BY <1>1, <2>3 DEF StatesAreFinal, Reads, fixedVars
  <2>6. SinglesAreOne'
    BY <1>1, <2>3 DEF SinglesAreOne, Reads, fixedVars
  <2>7. \A t \in Reads :
            /\ shown'[t] # None => result'[t] = "state"
            /\ result'[t] = "state" => Whole(t, answer[t].document, shown'[t])
    BY <2>2, <2>3 DEF StatesAreWholeAnswers
  <2>8. StatesAreWholeAnswers'
    BY <1>1, <2>7, WholeAnswersRemain
  <2> QED
    BY <2>4, <2>5, <2>6, <2>8
<1> QED
  BY <1>3, <1>4, <1>5 DEF Apply

LEMMA StepWhole == WholeInv /\ [Next]_vars => WholeInv'
<1> SUFFICES ASSUME WholeInv, [Next]_vars PROVE WholeInv'
  OBVIOUS
<1> USE DEF WholeInv, ReadTypes
<1>1. ASSUME NEW r \in Reads, Read(r) PROVE WholeInv'
  <2>1. CASE AskInVain(r)
    BY <2>1, FinishesWithoutState DEF AskInVain
  <2> QED
    BY <1>1, <2>1, ConfigureKeepsWhole, AskKeepsWhole, ReuseKeepsWhole, ApplyKeepsWhole DEF Read
<1>2. ASSUME NEW e \in cache, Invalidate(e) PROVE WholeInv'
  <2>1. UNCHANGED <<fixedVars, remote, readVars>> /\ \A s \in Reads : source[s].request # "single"
    BY <1>2 DEF Invalidate, SinglesAreOne
  <2>2. SinglesAreOne'
    BY <2>1 DEF SinglesAreOne, Reads, fixedVars
  <2> QED
    BY <2>1, <2>2, NothingIsFinished DEF readVars
<1>3. ASSUME NEW a \in Args, Change(a) PROVE WholeInv'
  <2>1. UNCHANGED <<fixedVars, cache, readVars>> /\ \A s \in Reads : source[s].request # "single"
    BY <1>3 DEF Change, SinglesAreOne
  <2>2. SinglesAreOne'
    BY <2>1 DEF SinglesAreOne, Reads, fixedVars
  <2> QED
    BY <2>1, <2>2, NothingIsFinished DEF readVars
<1>4. CASE UNCHANGED vars
  <2>1. SinglesAreOne'
    BY <1>4 DEF SinglesAreOne, Reads, vars, fixedVars, readVars
  <2> QED
    BY <1>4, <2>1, NothingIsFinished DEF vars, readVars
<1> QED
  BY <1>1, <1>2, <1>3, <1>4 DEF Next

(***************************************************************************)
(* Lookups of project users are true                                       *)
(***************************************************************************)

UserTypes ==
    /\ committed \in [Collections -> Nat]
    /\ confirmed \in [Collections -> Nat]
    /\ latest \in [Collections -> Nat]
    /\ members \in [Collections -> Seq(SUBSET Users)]
    /\ gone \in [Collections -> BOOLEAN]
    /\ target \in [Readers -> Collections]
    /\ sought \in [Readers -> Users]
    /\ since \in [Readers -> Nat]
    /\ DOMAIN response = Readers /\ DOMAIN lookup = Readers /\ DOMAIN astray = Readers

\* Every version of the members is on record, and what is confirmed is one of them.
VersionsAreRecorded ==
    \A k \in Collections : confirmed[k] <= committed[k] /\ Len(members[k]) = committed[k] + 1

\* A refresh begins with what was confirmed then.
SinceIsConfirmed == \A r \in Readers : since[r] <= confirmed[target[r]]

UserInv == UserTypes /\ VersionsAreRecorded /\ SinceIsConfirmed /\ ProjectUsers!LookupsAreTrue

LEMMA SameCardinality ==
    ASSUME NEW S
    PROVE  ProjectUsers!Cardinality(S) = Cardinality(S)
BY DEF ProjectUsers!Cardinality, Cardinality, ProjectUsers!IsFiniteSet, IsFiniteSet

\* Whoever is not on the first page, of a project without further pages, is no member.
LEMMA OnlyPageIsFirst ==
    ASSUME NEW m \in SUBSET Users, ~ProjectUsers!HasMore(m), NEW u \in m
    PROVE  u \in ProjectUsers!FirstPage(m)
<1> DEFINE before == {w \in m : w < u}
<1>1. IsFiniteSet(m) /\ u \in Nat
  BY UsersAssumption, FS_Subset
<1>2. before \subseteq m /\ u \notin before
  BY <1>1
<1> HIDE DEF before
<1>3. /\ IsFiniteSet(before) /\ Cardinality(before) <= Cardinality(m)
      /\ Cardinality(before) # Cardinality(m)
  BY <1>1, <1>2, FS_Subset
<1>4. Cardinality(before) \in Nat /\ Cardinality(m) \in Nat
  BY <1>1, <1>3, FS_CardinalityType
<1>5. Cardinality(m) <= PageLimit
  BY <1>4, SameCardinality, PageLimitAssumption DEF ProjectUsers!HasMore
<1>6. Cardinality(before) < PageLimit
  BY <1>3, <1>4, <1>5, PageLimitAssumption
<1> QED
  BY <1>6, SameCardinality DEF ProjectUsers!FirstPage, before

\* A version that justifies the outcome of a refresh.
Justified(r, v) ==
    /\ lookup[r] = "dropped" => astray[r] \/ gone[target[r]] \/ sought[r] \notin ProjectUsers!MembersAt(target[r], v)
    /\ lookup[r] = "kept" => sought[r] \in ProjectUsers!MembersAt(target[r], v)

LEMMA TrueLookups ==
    ASSUME UserTypes, VersionsAreRecorded, SinceIsConfirmed
    PROVE  ProjectUsers!LookupsAreTrue <=>
               \A r \in Readers : \E v \in since[r]..committed[target[r]] : Justified(r, v)
<1> SUFFICES ASSUME NEW r \in Readers
             PROVE  (/\ lookup[r] = "dropped" =>
                            astray[r] \/ gone[target[r]] \/ \E m \in ProjectUsers!Since(r) : sought[r] \notin m
                     /\ lookup[r] = "kept" => \E m \in ProjectUsers!Since(r) : sought[r] \in m)
                    <=> \E v \in since[r]..committed[target[r]] : Justified(r, v)
  BY DEF ProjectUsers!LookupsAreTrue
<1>1. since[r] \in Nat /\ committed[target[r]] \in Nat /\ since[r] <= committed[target[r]]
  BY DEF UserTypes, VersionsAreRecorded, SinceIsConfirmed
<1>2. since[r] \in since[r]..committed[target[r]]
  BY <1>1
<1> QED
  BY <1>2 DEF Justified, ProjectUsers!Since

\* What is on record stays, so what justified an outcome still does.
LEMMA JustifiedStays ==
    ASSUME UserInv, UserTypes', VersionsAreRecorded', SinceIsConfirmed',
           \A k \in Collections : /\ committed[k] <= committed'[k]
                                  /\ gone[k] => gone'[k]
                                  /\ \A v \in 1..Len(members[k]) : members'[k][v] = members[k][v],
           \A r \in Readers :
               \/ /\ lookup'[r] = lookup[r] /\ target'[r] = target[r]
                  /\ sought'[r] = sought[r] /\ since'[r] = since[r] /\ astray'[r] = astray[r]
               \/ \E v \in since'[r]..committed'[target'[r]] : Justified(r, v)'
    PROVE  UserInv'
<1> USE DEF UserInv
<1>1. ASSUME NEW r \in Readers PROVE \E v \in since'[r]..committed'[target'[r]] : Justified(r, v)'
  <2>1. CASE /\ lookup'[r] = lookup[r] /\ target'[r] = target[r]
             /\ sought'[r] = sought[r] /\ since'[r] = since[r] /\ astray'[r] = astray[r]
    <3>1. PICK v \in since[r]..committed[target[r]] : Justified(r, v)
      BY TrueLookups
    <3>2. target[r] \in Collections /\ since[r] \in Nat /\ committed[target[r]] \in Nat /\ committed'[target[r]] \in Nat
      BY DEF UserTypes
    <3>3. v \in since'[r]..committed'[target'[r]] /\ v + 1 \in 1..Len(members[target[r]])
      BY <2>1, <3>1, <3>2 DEF VersionsAreRecorded
    <3>4. members'[target[r]][v + 1] = members[target[r]][v + 1] /\ (gone[target[r]] => gone'[target[r]])
      BY <3>2, <3>3
    <3>5. Justified(r, v)'
      BY <2>1, <3>1, <3>4 DEF Justified, ProjectUsers!MembersAt
    <3> QED
      BY <3>3, <3>5
  <2> QED
    BY <2>1
<1>2. ASSUME NEW r \in Readers
      PROVE  /\ lookup'[r] = "dropped" => astray'[r] \/ gone'[target'[r]] \/ \E m \in ProjectUsers!Since(r)' : sought'[r] \notin m
             /\ lookup'[r] = "kept" => \E m \in ProjectUsers!Since(r)' : sought'[r] \in m
  <2>1. PICK v \in since'[r]..committed'[target'[r]] : Justified(r, v)'
    BY <1>1
  <2>2. ProjectUsers!MembersAt(target[r], v)' \in ProjectUsers!Since(r)'
    BY DEF ProjectUsers!Since
  <2> QED
    BY <2>1, <2>2 DEF Justified
<1>3. ProjectUsers!LookupsAreTrue'
  BY <1>2 DEF ProjectUsers!LookupsAreTrue
<1> QED
  BY <1>3

LEMMA UserInit == ProjectUsers!LookupInit => UserInv
<1> SUFFICES ASSUME ProjectUsers!LookupInit PROVE UserInv
  OBVIOUS
<1> USE DEF ProjectUsers!LookupInit, ProjectUsers!Init
<1>1. PICK first \in [Collections -> SUBSET Users] : members = [k \in Collections |-> <<first[k]>>]
  <2>1. members \in [Collections -> {<<m>> : m \in SUBSET Users}]
    OBVIOUS
  <2>2. \A k \in Collections : \E m \in SUBSET Users : members[k] = <<m>>
    BY <2>1
  <2> DEFINE first == [k \in Collections |-> CHOOSE m \in SUBSET Users : members[k] = <<m>>]
  <2>3. \A k \in Collections : first[k] \in SUBSET Users /\ members[k] = <<first[k]>>
    BY <2>2
  <2>4. members = [k \in Collections |-> <<first[k]>>] /\ first \in [Collections -> SUBSET Users]
    BY <2>1, <2>3
  <2> QED
    BY <2>4
<1>2. UserTypes
  BY <1>1 DEF UserTypes
<1>3. VersionsAreRecorded /\ SinceIsConfirmed
  BY <1>1 DEF VersionsAreRecorded, SinceIsConfirmed
<1>4. ProjectUsers!LookupsAreTrue
  BY DEF ProjectUsers!LookupsAreTrue
<1> QED
  BY <1>2, <1>3, <1>4 DEF UserInv

\* Steps that leave the collections and what is on record of them alone.
LEMMA RefreshKeeps ==
    ASSUME UserInv, UNCHANGED <<committed, confirmed, members, gone>>,
           latest' \in [Collections -> Nat], DOMAIN response' = Readers, DOMAIN lookup' = Readers,
           DOMAIN astray' = Readers, UNCHANGED <<target, sought, since>>,
           \A r \in Readers : (lookup'[r] = lookup[r] /\ astray'[r] = astray[r]) \/ \E v \in since[r]..committed[target[r]] : Justified(r, v)'
    PROVE  UserInv'
<1>1. UserTypes'
  BY DEF UserInv, UserTypes
<1>2. VersionsAreRecorded' /\ SinceIsConfirmed'
  BY DEF UserInv, VersionsAreRecorded, SinceIsConfirmed
<1>3. \A k \in Collections : committed[k] <= committed'[k]
  BY DEF UserInv, UserTypes
<1> QED
  BY <1>1, <1>2, <1>3, JustifiedStays

LEMMA BeginKeeps ==
    ASSUME UserInv, NEW r \in Readers, NEW k \in Collections, ProjectUsers!Begin(r, k)
    PROVE  UserInv'
<1>1. /\ UNCHANGED <<committed, confirmed, latest, members, gone>>
      /\ target' = [target EXCEPT ![r] = k]
      /\ response' = [response EXCEPT ![r] = [response |-> 0, err |-> "nil"]]
      /\ since' = [since EXCEPT ![r] = confirmed[k]]
      /\ lookup' = [lookup EXCEPT ![r] = "page"]
      /\ astray' = [astray EXCEPT ![r] = FALSE]
  BY DEF ProjectUsers!Begin, ProjectUsers!StartRead, ProjectUsers!Ends
<1>2. PICK u \in Users : sought' = [sought EXCEPT ![r] = u]
  BY DEF ProjectUsers!Begin
<1>3. UserTypes'
  BY <1>1, <1>2 DEF UserInv, UserTypes
<1>4. VersionsAreRecorded'
  BY <1>1 DEF UserInv, VersionsAreRecorded
<1>5. SinceIsConfirmed'
  BY <1>1 DEF UserInv, UserTypes, SinceIsConfirmed
<1>6. confirmed[k] \in since'[r]..committed'[target'[r]] /\ Justified(r, confirmed[k])'
  BY <1>1 DEF UserInv, UserTypes, VersionsAreRecorded, Justified
<1>7. \A s \in Readers \ {r} : /\ lookup'[s] = lookup[s] /\ target'[s] = target[s]
                               /\ sought'[s] = sought[s] /\ since'[s] = since[s] /\ astray'[s] = astray[s]
  BY <1>1, <1>2 DEF UserInv, UserTypes
<1>8. \A c \in Collections : committed[c] <= committed'[c]
  BY <1>1 DEF UserInv, UserTypes
<1> QED
  BY <1>1, <1>3, <1>4, <1>5, <1>6, <1>7, <1>8, JustifiedStays

\* The page is of a version that was there since the refresh began, and decides unless
\* there are more.
LEMMA PageArrivesKeeps ==
    ASSUME UserInv, NEW r \in Readers, ProjectUsers!PageArrives(r)
    PROVE  UserInv'
<1>1. PICK v \in ProjectUsers!Newest(confirmed[target[r]], latest[target[r]]) .. committed[target[r]] :
          /\ latest' = [latest EXCEPT ![target[r]] = v]
          /\ response' = [response EXCEPT ![r] = [response |-> v, err |-> "nil"]]
          /\ UNCHANGED <<committed, confirmed, live, target>>
  BY DEF ProjectUsers!PageArrives, ProjectUsers!Succeed
<1>2. UNCHANGED <<members, gone, sought, since, astray>>
  BY DEF ProjectUsers!PageArrives
<1>3. target[r] \in Collections /\ confirmed[target[r]] \in Nat /\ latest[target[r]] \in Nat
      /\ committed[target[r]] \in Nat /\ since[r] \in Nat /\ since[r] <= confirmed[target[r]]
  BY DEF UserInv, UserTypes, SinceIsConfirmed
<1>4. v \in Nat /\ v \in since[r]..committed[target[r]]
  BY <1>1, <1>3 DEF ProjectUsers!Newest
<1> DEFINE m == ProjectUsers!MembersAt(target[r], v)
<1>5. m \in SUBSET Users
  BY <1>3, <1>4 DEF UserInv, UserTypes, VersionsAreRecorded, ProjectUsers!MembersAt
<1>6. response'[r].response = v
  BY <1>1 DEF UserInv, UserTypes
<1>7. \/ lookup' = [lookup EXCEPT ![r] = IF sought[r] \in ProjectUsers!FirstPage(m) THEN "kept"
                                         ELSE IF ProjectUsers!HasMore(m) THEN "fallback" ELSE "dropped"]
      \/ lookup' = [lookup EXCEPT ![r] = "error"]
  BY <1>6 DEF ProjectUsers!PageArrives, ProjectUsers!Ends, ProjectUsers!FallbackCondition
<1>8. /\ sought[r] \in ProjectUsers!FirstPage(m) => sought[r] \in m
      /\ sought[r] \in m /\ ~ProjectUsers!HasMore(m) => sought[r] \in ProjectUsers!FirstPage(m)
  BY <1>5, OnlyPageIsFirst DEF ProjectUsers!FirstPage
<1>9. ProjectUsers!MembersAt(target[r], v)' = m
  BY <1>1, <1>2 DEF ProjectUsers!MembersAt
<1> HIDE DEF m
<1>10. Justified(r, v)'
  BY <1>1, <1>2, <1>7, <1>8, <1>9 DEF Justified, UserInv, UserTypes
<1>11. \A s \in Readers \ {r} : lookup'[s] = lookup[s] /\ astray'[s] = astray[s]
  BY <1>2, <1>7 DEF UserInv, UserTypes
<1>12. /\ latest' \in [Collections -> Nat] /\ DOMAIN response' = Readers /\ DOMAIN lookup' = Readers
       /\ DOMAIN astray' = Readers
  BY <1>1, <1>2, <1>3, <1>4, <1>7 DEF UserInv, UserTypes
<1> QED
  BY <1>1, <1>2, <1>4, <1>10, <1>11, <1>12, RefreshKeeps

LEMMA PageFailsKeeps ==
    ASSUME UserInv, NEW r \in Readers, ProjectUsers!PageFails(r)
    PROVE  UserInv'
<1>1. /\ UNCHANGED <<committed, confirmed, latest, target, members, gone, sought, since>>
      /\ DOMAIN response' = Readers
  BY DEF ProjectUsers!PageFails, ProjectUsers!Fail, UserInv, UserTypes
<1>2. \/ lookup' = [lookup EXCEPT ![r] = "error"] /\ astray' = astray
      \/ lookup' = [lookup EXCEPT ![r] = "dropped"] /\ astray' = [astray EXCEPT ![r] = ~gone[target[r]]]
  BY DEF ProjectUsers!PageFails, ProjectUsers!Ends, ProjectUsers!NotFound
<1>3. since[r] \in since[r]..committed[target[r]]
  BY DEF UserInv, UserTypes, SinceIsConfirmed, VersionsAreRecorded
<1>4. Justified(r, since[r])'
  BY <1>1, <1>2 DEF Justified, UserInv, UserTypes
<1>5. \A s \in Readers \ {r} : lookup'[s] = lookup[s] /\ astray'[s] = astray[s]
  BY <1>2 DEF UserInv, UserTypes
<1>6. latest' \in [Collections -> Nat] /\ DOMAIN lookup' = Readers /\ DOMAIN astray' = Readers
  BY <1>1, <1>2 DEF UserInv, UserTypes
<1> QED
  BY <1>1, <1>3, <1>4, <1>5, <1>6, RefreshKeeps

\* The second request sees the members of now, which are at least as new.
LEMMA FallbackKeeps ==
    ASSUME UserInv, NEW r \in Readers, ProjectUsers!Fallback(r)
    PROVE  UserInv'
<1> DEFINE now == committed[target[r]]
<1>1. UNCHANGED <<committed, confirmed, latest, target, response, members, gone, sought, since>>
  BY DEF ProjectUsers!Fallback, ProjectUsers!vars
<1> DEFINE there == ~gone[target[r]] /\ sought[r] \in ProjectUsers!MembersAt(target[r], now)
<1>2. \/ there /\ lookup' = [lookup EXCEPT ![r] = "kept"] /\ astray' = astray
      \/ lookup' = [lookup EXCEPT ![r] = "error"] /\ astray' = astray
      \/ lookup' = [lookup EXCEPT ![r] = "dropped"] /\ astray' = [astray EXCEPT ![r] = there]
  BY DEF ProjectUsers!Fallback, ProjectUsers!Ends, ProjectUsers!NotFound, ProjectUsers!MembersNow
<1>3. now \in since[r]..now
  BY DEF UserInv, UserTypes, SinceIsConfirmed, VersionsAreRecorded
<1>4. ProjectUsers!MembersAt(target[r], now)' = ProjectUsers!MembersAt(target[r], now)
  BY <1>1 DEF ProjectUsers!MembersAt
<1>5. Justified(r, now)'
  BY <1>1, <1>2, <1>4 DEF Justified, UserInv, UserTypes
<1>6. \A s \in Readers \ {r} : lookup'[s] = lookup[s] /\ astray'[s] = astray[s]
  BY <1>2 DEF UserInv, UserTypes
<1>7. /\ latest' \in [Collections -> Nat] /\ DOMAIN lookup' = Readers /\ DOMAIN response' = Readers
      /\ DOMAIN astray' = Readers
  BY <1>1, <1>2 DEF UserInv, UserTypes
<1> QED
  BY <1>1, <1>3, <1>5, <1>6, <1>7, RefreshKeeps

LEMMA ChangeMemberKeeps ==
    ASSUME UserInv, NEW k \in Collections, ProjectUsers!ChangeMember(k)
    PROVE  UserInv'
<1>1. /\ committed' = [committed EXCEPT ![k] = @ + 1]
      /\ UNCHANGED <<confirmed, latest, target, response, gone, lookup, sought, since, astray>>
  BY DEF ProjectUsers!ChangeMember, ProjectUsers!Commit
<1>2. PICK n \in SUBSET Users : members' = [members EXCEPT ![k] = Append(@, n)]
  <2>1. ProjectUsers!MembersNow(k) \in SUBSET Users
    BY DEF UserInv, UserTypes, VersionsAreRecorded, ProjectUsers!MembersNow, ProjectUsers!MembersAt
  <2> QED
    BY <2>1 DEF ProjectUsers!ChangeMember
<1>3. /\ members[k] \in Seq(SUBSET Users)
      /\ Append(members[k], n) \in Seq(SUBSET Users)
      /\ Len(Append(members[k], n)) = Len(members[k]) + 1
      /\ \A v \in 1..Len(members[k]) : Append(members[k], n)[v] = members[k][v]
  BY DEF UserInv, UserTypes
<1>4. UserTypes'
  BY <1>1, <1>2, <1>3 DEF UserInv, UserTypes
<1>5. VersionsAreRecorded'
  BY <1>1, <1>2, <1>3 DEF UserInv, UserTypes, VersionsAreRecorded
<1>6. SinceIsConfirmed'
  BY <1>1 DEF UserInv, SinceIsConfirmed
<1>7. \A c \in Collections : /\ committed[c] <= committed'[c]
                             /\ \A v \in 1..Len(members[c]) : members'[c][v] = members[c][v]
  BY <1>1, <1>2, <1>3 DEF UserInv, UserTypes
<1> QED
  BY <1>1, <1>4, <1>5, <1>6, <1>7, JustifiedStays

LEMMA ReportKeeps ==
    ASSUME UserInv, NEW k \in Collections, ProjectUsers!Report(k)
    PROVE  UserInv'
<1>1. confirmed' = [confirmed EXCEPT ![k] = committed[k]]
  BY DEF ProjectUsers!Report, ProjectUsers!EndWrite
<1>2. UNCHANGED <<committed, latest, target, response, members, gone, lookup, sought, since, astray>>
  BY DEF ProjectUsers!Report, ProjectUsers!EndWrite, ProjectUsers!lookupVars
<1>3. confirmed[k] \in Nat /\ committed[k] \in Nat /\ confirmed[k] <= committed[k]
  BY DEF UserInv, UserTypes, VersionsAreRecorded
<1>4. UserTypes' /\ VersionsAreRecorded'
  BY <1>1, <1>2, <1>3 DEF UserInv, UserTypes, VersionsAreRecorded
<1>5. SinceIsConfirmed'
  BY <1>1, <1>2, <1>3 DEF UserInv, UserTypes, SinceIsConfirmed
<1>6. \A c \in Collections : committed[c] <= committed'[c]
  BY <1>2 DEF UserInv, UserTypes
<1> QED
  BY <1>2, <1>4, <1>5, <1>6, JustifiedStays

LEMMA EndProjectKeeps ==
    ASSUME UserInv, NEW k \in Collections, ProjectUsers!EndProject(k)
    PROVE  UserInv'
<1>1. /\ UNCHANGED <<committed, confirmed, latest, target, response, members, lookup, sought, since, astray>>
      /\ gone' = [gone EXCEPT ![k] = TRUE]
  BY DEF ProjectUsers!EndProject, ProjectUsers!vars
<1>2. gone' \in [Collections -> BOOLEAN] /\ \A c \in Collections : gone[c] => gone'[c]
  <2>1. gone \in [Collections -> BOOLEAN]
    BY DEF UserInv, UserTypes
  <2> QED
    BY <1>1, <2>1
<1>3. UserTypes' /\ VersionsAreRecorded' /\ SinceIsConfirmed'
  BY <1>1, <1>2 DEF UserInv, UserTypes, VersionsAreRecorded, SinceIsConfirmed
<1>4. \A c \in Collections : committed[c] <= committed'[c]
  BY <1>1 DEF UserInv, UserTypes
<1> QED
  BY <1>1, <1>2, <1>3, <1>4, JustifiedStays

\* Cancel and stuttering: nothing the lookups are about.
LEMMA IdleKeeps ==
    ASSUME UserInv,
           UNCHANGED <<committed, confirmed, latest, target, response, members, gone, lookup, sought, since, astray>>
    PROVE  UserInv'
BY RefreshKeeps DEF UserInv, UserTypes

LEMMA UserStep == UserInv /\ [ProjectUsers!LookupNext]_userVars => UserInv'
<1> SUFFICES ASSUME UserInv, [ProjectUsers!LookupNext]_userVars PROVE UserInv'
  OBVIOUS
<1>1. ASSUME NEW r \in Readers, ProjectUsers!Cancel(r) PROVE UserInv'
  BY <1>1, IdleKeeps DEF ProjectUsers!Cancel, ProjectUsers!EndContext, ProjectUsers!lookupVars
<1>2. CASE UNCHANGED userVars
  BY <1>2, IdleKeeps DEF userVars
<1> QED
  BY <1>1, <1>2, BeginKeeps, PageArrivesKeeps, PageFailsKeeps, FallbackKeeps, ChangeMemberKeeps, ReportKeeps,
     EndProjectKeeps DEF ProjectUsers!LookupNext

(***************************************************************************)
(* All reads                                                               *)
(***************************************************************************)

ReadsInv ==
    /\ reader \in {"data source", "project user"}
    /\ reader = "data source" => IInv /\ WholeInv
    /\ reader = "project user" => source = <<>> /\ UserInv

LEMMA IdleReads == source = <<>> => AnswersAreOwn /\ StatesAreWholeAnswers
<1> SUFFICES ASSUME source = <<>> PROVE AnswersAreOwn /\ StatesAreWholeAnswers
  OBVIOUS
<1>1. Reads = {}
  BY DEF Reads
<1> QED
  BY <1>1 DEF AnswersAreOwn, StatesAreWholeAnswers

LEMMA ReadsInitially == ReadsInit => ReadsInv
BY InitOwn, InitWhole, UserInit DEF ReadsInit, ReadsInv, NoDataSource

LEMMA ReadsStep == ReadsInv /\ [ReadsNext]_<<reader, vars, userVars>> => ReadsInv'
<1> SUFFICES ASSUME ReadsInv, [ReadsNext]_<<reader, vars, userVars>> PROVE ReadsInv'
  OBVIOUS
<1>1. reader' = reader
  BY DEF ReadsNext
<1>2. CASE reader = "data source"
  <2>1. [Next]_vars
    BY <1>2 DEF ReadsNext
  <2> QED
    BY <1>1, <1>2, <2>1, StepOwn, StepWhole DEF ReadsInv
<1>3. CASE reader = "project user"
  <2>1. [ProjectUsers!LookupNext]_userVars /\ UNCHANGED vars
    BY <1>3 DEF ReadsNext
  <2>2. source' = source
    BY <2>1 DEF vars, fixedVars
  <2> QED
    BY <1>1, <1>3, <2>1, <2>2, UserStep DEF ReadsInv
<1> QED
  BY <1>2, <1>3 DEF ReadsInv

LEMMA ReadsInvariant == ReadsSpec => []ReadsInv
BY ReadsInitially, ReadsStep, PTL DEF ReadsSpec

\* A read works on an answer to its own request, whoever put it into the cache.
THEOREM ReadsWorkOnTheirOwnAnswers == ReadsSpec => []AnswersAreOwn
<1>1. ReadsInv => AnswersAreOwn
  BY IdleReads DEF ReadsInv, IInv
<1> QED
  BY ReadsInvariant, <1>1, PTL

\* A read that sets a state shows one answer and all of it, with nothing required missing
\* and nothing malformed as null; what the answer does not mention is null in a data source,
\* and what it was in a refreshed resource (the Reads of data sources and of resources in
\* lists).
THEOREM StatesShowWholeAnswers == ReadsSpec => []StatesAreWholeAnswers
<1>1. ReadsInv => StatesAreWholeAnswers
  BY IdleReads DEF ReadsInv, WholeInv
<1> QED
  BY ReadsInvariant, <1>1, PTL

\* A refresh drops a project user only if it, or the project, was gone at some time since
\* it began, or a 404 of something else was answered to it, and keeps it only if it was there (the Read of openai_project_user).
THEOREM RefreshesTellTheTruth == ReadsSpec => []LookupsAreTrue
<1>1. ReadsInv => LookupsAreTrue
  BY DEF ReadsInv, UserInv, LookupsAreTrue
<1> QED
  BY ReadsInvariant, <1>1, PTL

=============================================================================
