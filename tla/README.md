# Verification of the OpenAI Terraform provider

TLA+ models of `terraform-provider-openai`, the TLC runs that check them on
small instances, and theorems about them for every instance, checked by TLAPS.
Paths are relative to the repository; `client.go` is
`internal/provider/openaiapi/client.go`.

    tlc -config ReadAfterWrite.cfg MCReadAfterWrite    # one run; PROJECT.json lists them all
    tlapm ReadAfterWriteProofs.tla                     # one proof module

`PROJECT.json` maps every definition that models code to the lines it models,
names the mutant that shows each property can fail, and lists the hazards.

## 1. The system

Terraform starts the provider as a plugin and calls the handlers of its
resources and data sources concurrently, one goroutine per call. A handler
builds a request from the plan, sends it through the one `APIClient` of the
provider process, and maps the answer back into Terraform's state. What makes
this hard sits in three places: goroutines share the client's cache and
cooldown; every request may be lost, repeated, late or malformed; and a
resource is correct only over a whole sequence of plans, applies, refreshes,
replacements and imports.

| component | state | operations | what is hard about it | what makes it correct |
|---|---|---|---|---|
| response cache (`client.go` 96-357) | map of entries, recency list, per entry: ready channel, answer, invalidated, evicted, loader ended | `get`, `acquire`, `finishLoad`, `result`, `invalidate`, `evictLocked` | callers join a load; the loading caller is canceled; a key is invalidated or evicted while its entry is being loaded or held | one load per key; no waiter left behind; nobody sees another's cancellation; reads are fresh and monotonic; map, list and capacity agree |
| resources that mutate cached collections (`project`, `project_user`, `project_user_role`, `project_group`, `project_group_role`, `project_rate_limit`, `project_model_permissions`) | the remote collection | invalidate, mutate, invalidate again | a lost answer does not mean a lost mutation; another goroutine reloads in between | a read after an operation, successful or not, shows what was committed when it ended |
| Retry-After cooldown (`client.go` 540-690) | deadline, generation, release gate | `wait`, `observeResponse`, `acquireDelayedRelease` | answers arrive in any order; waiters are canceled while they hold the token | no deadline forgotten or ignored; releases one at a time; the token is never lost |
| request lifecycle (`client.go` 692-1100) | attempts, three contexts, pending timer, observations | `request`, attempt middleware, `classify...` | three deadlines race; retries of mutations whose answer was lost | mutations bounded; errors tell the truth; telemetry adds up |
| pagination (`client.go` 359-425, 1579-1670) | merged items, cursors seen, bytes left | `PaginatedRequest`, `readResponseBody`, `nextPageCursor` | the collection changes between pages; budgets end within a page | lists miss and invent nothing; loop and memory bounded |
| 30 resources (`resources/*/resource_*.go`) | Terraform's state, objects at the API | Create, Read, Update, Delete, ImportState | each step of a handler may fail after the API acted; drift; `create_before_destroy`; 404s of something else | no object forgotten or deleted by mistake; state equals what the API answered; results agree with plans; repeated applies converge |
| field mapping (`client.go` `Add...BodyField`, `Apply...ResponseField`) | none | null, unknown, missing and malformed values | cases meet in combinations | part of the resources' properties |
| structured values (`client.go` 1117-1577), string-or-list (`string_or_list_string.go`) | none | validation, request value, inference of a type for an answer, choice between configured and answered types | null, unknown, absent and empty members; maps that come back as objects; lists that come back in another order | the API is told what is configured, the state says what the API answered, and what is configured comes back in its own types |
| URL paths and imports (`client.go` 437-461, `ImportState` of the 30 resources) | none | split an identifier, validate, put parameters into the path in map order | values that hold slashes, dots, escapes or the name of another parameter | a path addresses the object that was meant |
| provider configuration (`provider.go`, `provider_security.go`) | two clients with their keys | attributes over environment, base-URL check, redirects | unknown and blank values; spellings of one origin; redirect chains | a key reaches only the origin it is for, and none is dropped without a word |
| 49 data sources (`resources/*/data_source_*.go`), cached Reads of 3 resources | none | Configure, Read: request, cache key, mapping of every field | entries shared by name between different readers; answers malformed in the middle | a state is one whole answer to one's own request, or nothing |
| release verification (`.github/actions/verify-release-sboms/verify.go`) | files in `dist`; assets of a draft release | verify and sign; verify and publish | files and assets change while they are verified; a run ends half-way | what is signed and published is one consistent release; a failed run does not spoil the files for the next |
| acceptance-test harness, policy tests, `release_tracking.py`, generated docs | | | | not part of the running provider |

They interact like this: a resource handler calls `Request` or
`RequestWithoutRetries` (lifecycle), a list goes through `PaginatedRequest`,
which calls `Request` once per page, and cached lists wrap that in
`responseCache.get`; data sources read through the same entries, and the
refresh of a project user looks into a cached first page before it asks for the
user alone. Each attempt of a request runs the middleware, which first
calls the cooldown's `wait` and afterwards its `observeResponse`. A mutation of
a cached collection calls `invalidate` before and after its request.

## 2. Modules

| module | models | extended by |
|---|---|---|
| `ResponseCache` | the cache, its callers, invalidations and remote changes | `ReadAfterWrite`, `MCResponseCache` |
| `ReadAfterWrite` | cache composed with the mutating operations | `MCReadAfterWrite`, `ReadAfterWriteProofs` (which proves both) |
| `CollectionRegister` | abstract: a register per collection, no cache | instantiated by `ReadAfterWrite` as `Register` |
| `RetryAfterCooldown` | the cooldown and the middleware around it | `MCRetryAfterCooldown`, `RetryAfterCooldownProofs` |
| `RequestLifecycle` | one call of `request` | `RequestLifecycleProofs` |
| `Pagination` | one call of `PaginatedRequest` | `PaginationProofs` |
| `Resources` | a table: how each resource's handlers differ, what each attribute does | instantiated by `MCManagedResource` |
| `ManagedResource` | the life of one resource of any kind in that table | `MCManagedResource`, `ManagedResourceProofs` |
| `DataSources` | a table: request, cache key and fields of each data source and cached Read | instantiated by `MCCachedReads` |
| `DataSourceReads` | any two reads of that table through the cache | `CachedReads` |
| `ProjectUserLookup` | the two-step refresh of project users, on `CollectionRegister` | instantiated by `CachedReads` |
| `CachedReads` | either of these, chosen by the first state | `MCCachedReads`, `CachedReadsProofs` |
| `ProviderConfiguration` | `Configure`, the clients and their redirects | `RequestTargets` |
| `ReadRoutes` | a table: how each resource is imported and which path its Read asks for | instantiated by `MCRequestParts` |
| `RequestPaths` | from configured or imported values to the path of a request | `RequestTargets` |
| `RequestTargets` | origin or path, chosen by the first state | `RequestParts` |
| `StructuredValues`, `StringOrListValues` | conversions between attribute values and JSON | `AttributeRoundTrip` |
| `AttributeRoundTrip` | one structured attribute through plan, request, answer, refresh and drift | `RequestParts` |
| `RequestParts` | a target or a body, chosen by the first state | `MCRequestParts` (on the values of `MCAttributeValues`), `RequestPartsProofs` |
| `ReleaseArtifacts` | what a release consists of | `ReleaseSigning`, `ReleasePublication` |
| `ReleaseSigning`, `ReleasePublication` | the release verifier without and with `--publish` | `ReleaseVerification` |
| `ReleaseVerification` | either command | `ReleaseVerificationProofs` |

### ResponseCache
A response is the *version* of the remote collection that its load observed.
`heap` holds the entries, `slot` the map, `position` the list (`lru`). One
action is one critical section of the cache mutex (`Acquire`, `FinishLoad`,
`Result`, `InvalidateSlot`), one receive from `ready` or from the caller's
context, or one interaction with the API. A caller is in `pc[c]`, holds
`entry[c]`, and its context may end at any time. Cells of `Entries` that nobody
references are reused, as the garbage collector would. The history variables
`floor` (version at the last invalidation) and `seen` (newest version returned)
exist for the properties only. Telemetry the cache emits (215-236, 278-295)
is left out. A paginated load is as old as its oldest page.

### ReadAfterWrite and CollectionRegister
A writer invalidates, sends, and invalidates again on *every* path
(`resource_project.go` 160-175 and its siblings). The API may commit and
answer, commit and lose the answer, refuse, or commit after the provider gave
up (`stray`). `settled` is what was committed when the last operation on a
collection ended, in success or in error. `CollectionRegister` says what callers
may rely on: a read returns a version at least as new as that and as every earlier
read, and no newer than what is committed. `Register == INSTANCE CollectionRegister WITH
...` is the refinement mapping.

### RetryAfterCooldown
Time is a counter. `look` and `decide` are separate steps because `wait` reads
the deadline under the mutex and compares it with the clock after unlocking.
The release gate, created lazily in the code, starts with its one token. `release[r]`
is the `sync.Once` closure that gives the token back. Timers have the semantics
of Go 1.23 and later: nothing is received after `Stop`. The `uint64` generation
is a natural number.

### RequestLifecycle
One call: kind (GET, mutation, `RequestWithoutRetries`, method of unknown
semantics), three contexts (`caller`, `own` with the lifecycle deadline,
`attempt`), the retry budgets 4/2/0, the body that breaks off or is too long,
the `pending` timer that reports from its own goroutine, and the observations
(attempt, pending, lifecycle) in order. The retry loop belongs to
`openai-go` (v3.73.0, not vendored): `StopTrying`, `BackOff`, `NextTry`, `Settle`
and `Decode` model what `request` relies on, and are marked external. The
middleware reads the body of a GET inside an attempt (client.go 921), the client
that of a mutation after the retry loop (`ReadAndDecode`), where nothing is
retried. `request` looks at the caller's context and then at its own
(`Conclude`, `AskOwn`; `AskAgain`, `GoOnTo`): two steps, between which either may end.

### Pagination
Items are numbers in listing order, cursors positions. The API is either
*sound* (a page covers the positions from the cursor to its end) or answers
anything; only budgets and bounds are promised then. `stable` and `ever` record
which items stayed throughout and which ever existed.

### ManagedResource and Resources
The thirty resources share a generated pattern. A `kind` is a record of handler
choices (how Create, Read, Update, Delete go; whether a 404 is told from others;
whether requests are retried; whether identities are checked) and one attribute
(required/optional/computed/defaulted, RequiresReplace, UseStateForUnknown, in
which bodies it is sent and how null is sent, in which answers it is shown).
`Resources` gives the record of every resource and attribute, which makes several
hundred initial states. A handler is a sequence `Start...` -> requests to the API -> its
return; every early return of the code is a disjunct. The environment is
Terraform (plan, apply, refresh, taint, replace, `create_before_destroy` with a
deposed object, import), the API (answers, refuses, loses, answers malformed),
and others who change or delete objects, or turn one into a kind of object that its resource
must not touch (`compatible`). If they do that between Delete's look and its
DELETE, the code cannot know (`turned`). Any answer may leave out a field that the code does not
demand: what the state knows then stays (`Revealed`). `excused` collects objects the provider gave
up *and reported* (a failed Create; a 404 that `IsNotFound` accepts whatever it is
about) or duplicated by repeating a POST; `NothingIsForgotten` speaks of the rest.
Identity attributes (path parameters) are the object id. Projects are archived,
not deleted, and stay readable. Only `external_key` guards against an answer
about another object or of another type, and only it saves a created object
before it validates the answer.

### DataSources and DataSourceReads
`DataSources` has one record per data source: audience of its client, what it
lists or looks up, cache name and the parameters in its key, whether an absent
object is an error, and each field with its type and whether it is required.
`JsonOf` gives what an answer holds in a field; one field of one object may be
of a wrong type, null or missing. An answer belongs to the request it was asked
with. `Ask` takes the request and the load of a cached entry as one step, since
`ReadAfterWrite` covers what happens inside; entries are found by name and key,
so two readers meet in them, and `Invalidate` may drop an entry at any time.
`Apply` is the whole mapping loop of Read with its early returns. A field the answer does not mention stays as it
was (`held`): null in a data source, in the refreshes of the three resources whatever the state had. Paged reads
take their answer as one list (`Pagination` covers how it comes about).

### ProjectUserLookup
Extends `CollectionRegister`, which `ReadAfterWrite` implements: the first page
is as new as the register promises and no newer. A refresh finds the user on
the page, or, if there may be more pages, asks for it alone; members come and
go and the project ends between the two. `IsNotFound` accepts any 404, so one of a gateway or another route drops
a member that is there (`astray`).

### ProviderConfiguration
Inputs are two key attributes (null, unknown, blank, set), two environment
variables, and a base URL made of scheme, host, port,
userinfo, and whether its path, query and fragment are acceptable.
Hosts are names with a canonical form, so that case and IDNA spellings of one
origin are told from other hosts. A request carries a key and follows redirects
to any URL until the chain is too long or leaves its origin. Organization and
project headers follow the same code and are left out.

### ReadRoutes and RequestPaths
Texts are sequences of tokens: a letter, `/`, `.`, blank, `%`, a segment of the
path itself, and the holes `{name}`. Escaping turns a token into an escaped one,
which only unescaping by the server turns back. `Split`, `Joined` and `Replaced` are
`strings.Split`, `strings.Join` and `strings.ReplaceAll` on tokens. `ExpandParameter` takes the
pending parameters in any order, as Go iterates over a map. `ReadRoutes` says of
each resource which parts its identifier has and which parameters its Read passes.

### StructuredValues, StringOrListValues and AttributeRoundTrip
Values are trees tagged with their Terraform kind (string, number, object, map,
list, tuple, dynamic; null and unknown), JSON the same without the Terraform
distinctions. An object has a value or `Missing` for each name. `Layered[n]` is
the set of trees of at most n layers, and the conversions are recursive
functions on `AllValues`, one per Go function; `Layers` is a parameter, so that
no finite tree is left out of the theorems. Size limits appear as one number too large to be accepted (`Huge`);
a boolean goes the way of a number. Where the schema declares a string, an answer's
number becomes its text (`AsText`), and `Means` says independently what that text
reads. `AttributeRoundTrip` sends such a
value through Create or Update, the API's answer (which may drop nulls,
reorder, default, or leave the attribute out), refreshes, changes by others and new configurations, for
the matchers and permissions of federation rules, the verification block of
identity providers and the tiers of project service-tier settings.

### ReleaseSigning, ReleasePublication and ReleaseVerification
A file's contents stand for its digest: an archive is of a build, an SBOM
describes the archive of a platform and a build. Others may change any file or
asset between any two reads of it; verification works on the bytes it read
(`snapshot`), and what it puts back are these bytes. `Fail` ends a run between
any two renames, `Rerun` starts the next one on what it left, signatures
included unless somebody removes them: `.goreleaser.yml` has gpg sign with
`--batch --output`, which does not overwrite a file, so a run whose predecessor
left a signature ends in `Sign`. In
`ReleasePublication` the inventories may be signed with entries too many or
missing (`lists`). Assets have ids, which change when an asset is replaced;
what others change after the second listing (`late`) is excused, since the
`gh` command has no conditional edit. `run` chooses between the commands by its first argument, and so
does `ReleaseVerification`. Formats (SPDX, ZIP, checksum lines) come down to whether they agree.

## 3. Runs

| run | bounds | shows |
|---|---|---|
| ResponseCache | 2 callers, 2 keys, 4 entries, capacity 1, versions 0-1 | `CacheIsConsistent`, `LoadsAreShared`, `OwnCancellationOnly`, `ReadsAreRecent` |
| ReadAfterWrite | 2 callers, 1 key, 3 entries, capacity 1, 2 writers, versions 0-2 | `ReadsSeeSettledWrites`, `ImplementsRegister` |
| ReadAfterWriteLive | 2 callers with one call each, 2 keys, 4 entries, capacity 1, 1 writer, versions 0-1 | `GetReturns` |
| RetryAfterCooldown | 3 requests, delays {1,2}, time to 3, 2 generations | `ReleasesAreSerial`, `CooldownRemembered`, `CooldownHonoured` |
| RetryAfterCooldownLive | 2 requests, time to 4, 1 generation | `WaitEnds` |
| RequestLifecycle | the code's own 4 and 2 retries, fair | `EffectsAreAsReported`, `OutcomesAreTrue`, `RetriesAreRight`, `ObservationsSettle`, `RequestReturns` |
| Pagination | 4 items, 3 pages, pages of 1, 2 or 4 bytes, page limit 3, total 5, 1 retry | `SoundListsAreRead`, `ReadingIsBounded` |
| ManagedResource | all kinds, 2 values, 3 objects, 1 retry, 3 events | `TypeOK`, `NothingIsForgotten`, `OnlyCompatibleIsDeleted`, `StateMirrorsObject`, `ResultsAreConsistent`, `LeavesStateOnlyWhenGone`, `ShownOnceIsPreserved` |
| ManagedResourceLive | all kinds, 4 objects, 2 events | `Converges` |
| CachedReads | every data source and cached Read alone and every two that share an entry name; 2 arguments, 2 items, 1 change, 1 odd field; project users: 2 refreshes, 2 users, pages of 1, 2 changes | `AnswersAreOwn`, `StatesAreWholeAnswers`; `LookupsAreTrue` |
| RequestParts | origins: 5 spellings of hosts, 5 ports, 3 requests of a chain; paths: 30 routes, values of up to 2 tokens (1 where an identifier has three parts); bodies: 4 kinds, 2 steps, answers with the attribute, without it, and with a number for a declared text | `KeysStayHome`, `KeysAreUsedOrReported`; `PathsNameTheirObject`, `ImportsAreFaithful`; `ConfiguredValuesStay`, `NothingIsLostInConversion` |
| ReleaseVerification | 2 platforms and a stray one, 2 builds, 2 changes by others, 2 runs | `SignedIsVerified`, `StopsHaveCauses`; `PublishedIsVerified`, `SoundDraftsPass` |

The last three runs answer several questions about machines that share no state:
a behaviour belongs to one of them, chosen by its first state, and TLC visits
the sum of their states. The type invariants of the cache, the cooldown, the lifecycle, pagination and
`ManagedResource` are theorems; the last is also checked by its run.

Why the bounds are enough. *Cache*: two callers make a loader and a joiner;
two keys with room for one entry force evictions of entries still held, in the
liveness run too; four
entries are never used up (the map and the other caller reference at most
three). Two versions tell stale from fresh. *Cooldown*: three
requests are a holder, a waiter and one whose late answer interferes; two
generations make an answer of an older generation possible. *Lifecycle*: the
retry counts are the code's. *Pagination*: three pages have a first, a middle
and a last; the page sizes fit, exhaust, or exceed both limits. *Resource*: three objects are the original, its replacement and a duplicate
made by a retry; three events allow, for instance, a lost answer, a drift and a
change of configuration in one history. *Reads*: two arguments and two objects
tell one's own answer from another's; one odd field at a time meets every field
of every reader. *Project users*: a page of one with two users has a user on it
and one behind it; two changes allow one before and one during a refresh.
*Origins*: the spellings are the default host in two cases, a
proxy, a host without a canonical name and a loopback one; ports include both
defaults, none and two invalid ones. *Paths*: two tokens make `..`, an escape, a
hole's name and a value that begins or ends with a slash. *Bodies*: the trees
have members that are null, unknown, nested, empty or too large, alone and in
twos; four layers hold the deepest of them, seven names those that the schemas and
shapes mention and three others; two steps allow a change by others after a change of the configuration. *Release*: with two platforms
one can be right and the other wrong; two changes can undo each other, or mislead an archive and
its SBOM together, and two wrong entries can make the count of the inventories come out right. Every action of every module fires.

`CHECK_DEADLOCK FALSE` is set where the modelled program really stops: a
finished request, a finished list, callers and writers whose calls and versions
are used up, a resource that is settled with no event left, reads, redirects, imports and releases that are over.

Symmetry is over callers, keys, writers, requests, readers, arguments or items,
only in safety runs; views drop fields that no later step reads.

## 4. Fairness

* `ReadAfterWriteLive`: weak fairness of each caller's own steps: the Go
  scheduler, and a client whose loads end (`RequestReturns` is that fact).
  Each caller and writer acts finitely often; without that a load can be canceled or
  invalidated for ever. Evictions end (`EvictionsEnd`): callers that read more keys
  at once than `maxEntries` can evict each other's entries for ever, each
  finding its own evicted when it wakes and loading it again, and TLC shows
  that behaviour when the assumption is dropped. Terraform makes finitely many calls, about ten at a
  time, and the default capacity is 2048. Before they end, held entries are evicted any number of times.
* `RetryAfterCooldownLive`: the clock moves, goroutines run, and a goroutine
  waiting on the gate's channel gets the token if it returns infinitely often
  (strong fairness; Go channels serve receivers in order). `WaitEnds` needs the
  API to stop sending 429s at some point (`MaxGeneration`).
* `RequestLifecycle`: the goroutine runs, the lifecycle deadline fires, the
  timer's goroutine finishes. Nothing is assumed of the API or the network.
* `ManagedResourceLive`: Terraform goes on planning and applying, refreshes as it
  does by default (strong fairness of `StartRead`), the API answers. Excluded
  from `Converges`: settings of a missing project, archived projects and an organization
  user that cannot be imported yet, which no apply can bring about.

## 5. Proofs

| module | theorems | from |
|---|---|---|
| `ReadAfterWriteProofs` | `CacheTypes`, `CacheIsBoundedAndConsistent`, `LoadsAreSharedSafely`, `CancellationStaysLocal`, `ReadsAreAlwaysRecent`, `SettledWritesAreRead`, `CacheImplementsRegister` | any sets of callers, keys, entries and writers, any capacity |
| `RetryAfterCooldownProofs` | `CooldownTypes`, `ReleasesAreAlwaysSerial`, `DeadlinesAreKept`, `DeadlinesAreHonoured` | any requests and positive delays |
| `RequestLifecycleProofs` | `LifecycleTypes`, `EffectsAreAlwaysAsReported`, `OutcomesAreAlwaysTrue`, `RetriesAreAlwaysRight`, `NothingIsObservedLate` | any retry budgets |
| `PaginationProofs` | `PaginationTypes`, `SoundListsAreAlwaysRead`, `ReadingIsAlwaysBounded` | any limits and page sizes |
| `ManagedResourceProofs` | `ManagedResourceTypes`, `NothingIsEverForgotten`, `OnlyCompatibleIsEverDeleted`, `StateIsLeftOnlyWhenGone`, `ShownOnceIsAlwaysPreserved`, `StatesAlwaysMirror`, `ResultsAreAlwaysConsistent` | any kinds of handlers and attributes with what the thirty resources have in common (`HandlersAssumption`, `ShownOnceAssumption`, `AttributesAssumption`), any values, any numbers of objects, retries and events |
| `CachedReadsProofs` | `ReadsWorkOnTheirOwnAnswers`, `StatesShowWholeAnswers`, `RefreshesTellTheTruth` | any tables whose shared entries ask for the same thing under keys that hold all parameters (`SharedEntriesShareRequests`, `KeysHaveAllParameters`), whose uncached reads are alone or of one request (`BatchesAreAloneOrShare`), and whose fields have one of the six types (`FieldsHaveTypes`); any users, page length, refreshes and changes |
| `RequestPartsProofs` | `KeysStayHomeAlways`, `NoKeyIsDroppedInSilence`, `PathsNameTheirObjectAlways`, `ImportsAreFaithfulAlways`, `ConfiguredValuesStayAlways`, `NothingIsLostInConversionAlways`, `TargetsAreKeptAlways`, `PartsAreKeptAlways` | any hosts, spellings, ports and length of redirect chains; any routes whose holes are checked parts of the identifier (`RoutesAssumption`), and values of any length; any names of members (`StructuredAssumption`), any number of layers, and any configurations of the declared types, answers and defaults (`AttributesAssumption`) |
| `ReleaseVerificationProofs` | `OnlyVerifiedIsSigned`, `StopsAlwaysHaveCauses`, `OnlyVerifiedIsPublished`, `SoundDraftsAlwaysPass` | any finite set of platforms, any builds, any number of changes and runs |

The only assumptions are the named `ASSUME`s on constants, which TLC evaluates in every run.
The proved safety and action properties rest on an inductive invariant in the
component's module or in its Proofs module:

* **Cache.** The properties are not inductive: that a caller gets a fresh answer
  depends on how its entry left the map. `IInv` adds that a mapped entry was
  loaded since the last invalidation (`SlotsAreFresh`), that what callers hold is
  for their key, and mapped unless marked invalidated or evicted
  (`HoldersMatch`, `LostSuccessIsMarked`), that an
  unpublished entry has exactly one loader (`UnreadyHasLoader`,
  `LoadersOwnEntries`), and that a context error in an entry is its loader's
  (`EndedBelongsToLoader`). `result` then has enough to decide whether to retry.
  The list operations are lemmas of their own.
* **Read after write.** `RawInv` adds `SettledBeforeInvalidation`: what was committed when an
  operation ended was committed before the last invalidation of its key, so
  freshness turns into visibility. The refinement maps every step to one of the
  register or to a stutter.
* **Cooldown.** `Tokens` counts the one token between gate and holders;
  `Deadlines` relates what each attempt has seen to the newest deadline.
* **Lifecycle.** Counters tie tries, attempts and effects together
  (`TriesAreCounted`, `EffectsHaveAttempts`, `ObservationsAreCounted`), and
  `ResponseIsExplained`, `ErrorIsExplained` and `OutcomeIsExplained` say which
  past event each answer stems from.
* **Pagination.** Up to the cursor the merged pages hold what they should
  (`ListedUpToCursor`), cursors seen lie at or before it (`CursorIsNewest`), and
  their number is that of the pages (`PagesAreCounted`); that merging one more page keeps this is a lemma over sets.
* **Resource.** That nothing is forgotten depends on who owns each object at
  each moment. `IInv` adds which object the running handler is about
  (`CallIsAbout`), that the states Terraform holds are of objects that exist
  (`StatesAreOfObjects`), that a good answer to Create names what was made, and
  all that was made unless the request may be repeated (`MadeIsTold`), and that
  an answer that something is gone, deleted or of the right type is still true
  when the handler acts on it (`AnswersAreTrue`). Steps fall into four lemmas by
  what they may touch: a handler starts, the API answers, it returns, or nothing runs.
  What the state says of the object needs a second invariant, `Mirror`, on top of
  it: what a plan may be, given the attribute's mode (`PlansFit`), that the state
  agrees with the object while a handler runs too, unless its answer is yet to be
  applied (`TrackedMirrors`, `DeposedMirrors`), and that a good answer, put through
  `Applied`, gives what the object has and what was planned (`AnswerMirrors`,
  `AnswerAgrees`). An answer or a request that leaves the attribute out is harmless only
  because of how the choices of each attribute go together, which
  `AttributesAssumption` states and TLC evaluates on the table: an attribute that
  is not shown is never the provider's to tell, and one that is not sent is
  computed or replaces the object.
* **Cached reads.** `EntriesAreOwn`: the answer in every cache entry is one to the
  request its key stands for; `KeyDeterminesRequest` says that two readers with
  the same name and key make the same request, which is where the
  assumptions on the table come in. `WholeInv` adds what a state may be at each
  point of the mapping loop: nothing until the last field was read
  (`StatesAreFinal`), and one object for a reader that looks one up
  (`SinglesAreOne`). For project users, `UserInv` records at which version of the
  collection each step of a refresh looked (`VersionsAreRecorded`,
  `SinceIsConfirmed`): the page is as old as the last confirmed write at worst,
  the second request is later than the start. That a page shorter than the limit
  holds every member is a lemma on cardinalities (`OnlyPageIsFirst`).
* **Paths.** The theorems speak of values of any length, so they need what
  `Join`, `Split` and `Replaced` compute on every text. The library's induction
  theorems cannot be used here, but a set of naturals has a least element
  (`WFMin`), which gives induction for sets of numbers and of sequences
  (`NumbersByInduction`, `SequencesByInduction`) and recursion (`RunExists`,
  `RunsAgree`). From these: appending one character changes the parts in one way
  (`SplitAppend`), splitting undoes joining for parts without slashes
  (`SplitOfJoin`), a slash in a part gives more parts than were joined
  (`JoinCounts`), and a hole is replaced in each part on its own
  (`ReplacedJoin`). `PathInv` then says that the path is at each step its template with the
  parameters put in so far (`PathIsFilledIn`, `OneIsPutIn`); escaped text has
  neither holes nor slashes, so no later parameter changes it, and nothing is
  left to refuse when none is pending.
* **Bodies.** The theorems speak of trees of any number of layers, so they need what
  the conversions make of every tree. The sets `Layered[n]` are nested, the
  least-element induction of the paths gives induction over the layers
  (`ValuesByInduction`), and the same argument shows that the recursive functions
  unfold. From these: what is sent for a known value is JSON of no more layers
  (`RequestStays`); a value without a schema says what is sent for it, nulls
  included (`SaysItself`); the value inferred for JSON sends that JSON back
  (`InferredStays`); a value of the declared type that sends the same as the one
  read from an answer means that answer, although nulls of objects of the schema
  are not sent (`SameRequestsMeanTheSame`). What an answer becomes sends the answer with
  the numbers of declared strings told as text (`Told`, `LeafAttribute`), and what is
  sent for a declared value has none to tell (`LeafRequestIsTold`), so it can be read
  back and says what was planned even when the answer leaves it out (`SentSaysTheSame`). So whichever of the two is kept says
  what is stored (`TakenSaysTheSame`), and the answer to what was planned is read as
  a value that sends the same, which keeps the plan (`PlannedStays`). `BodyInv` is the two properties with what
  they rest on: what is planned is known and of the declared type
  (`PlannedWell`), the remote value is JSON and, unless others changed it, what
  was sent (`StoredWell`, `SentAs`), and the state is of the declared type
  (`StateWell`). `PartsAreKeptAlways` puts targets and bodies together for the
  specification that the run checks.
* **Release.** `SigningInv`: the snapshot is what the directory listed
  (`SnapshotIsListed`), archives verified so far are described by their SBOMs
  (`ArchivesAreDescribed`); as many SBOMs as archives leaves no
  SBOM over (`SBOMsAreAsMany`); the manifest lists the release, and what is
  signed is of that manifest whatever happens to the files (`ManifestIsRelease`,
  `SignaturesAreOfManifest`). `DraftInv` does the same for the assets of a draft:
  signatures are verified before archives (`SignaturesHold`, `CheckedIsSigned`),
  what was checked is what the second look sees (`LookedAgain`) and an
  undisturbed draft never fails a check (`LeftAlone`). The assets other than the
  four of the signing are counted (`FourMore`), both to let a sound draft pass and to
  conclude that the inventories list what was uploaded (`EditedReleaseIsWhole`).
  `SignaturesAreNew` follows what lies where the signatures go.
* **Provider configuration.** A client has the key of its audience and was
  made after the base URL was accepted (`ClientsAreConfigured`), and a request on its
  way carries its client's key to its client's origin (`RequestIsOfClient`).

Only model-checked: liveness (`GetReturns`, `WaitEnds`, `RequestReturns`,
`Converges`), which needs fairness and ENABLED.

## 6. What the properties do not say

* A mutation given up by the provider and committed late may leave a stale
  entry in the cache until the next invalidation; only what was committed when the
  operation ended is promised.
* The two contexts are looked at one after the other: if the caller's deadline passes
  between the looks, the error names the lifecycle timeout, which had not passed.
* The body of a mutation is read after the retry loop: if the connection breaks
  there, the error is returned although tries are left.
* A request whose deadline passes right after its success returns the response
  and is still observed as `deadline_exceeded`.
* Creates other than `external_key`'s report a malformed answer and save nothing;
  the object is the user's to find. Retried POSTs may make two objects.
* Handlers other than `external_key`'s take over whatever identifier an answer has;
  answers about another object are therefore modelled for it only.
* With `create_before_destroy` and a replacement, destroying what was deposed
  comes last. A membership or role assignment, and the settings that can be deleted (project model
  permissions, spend limits), is at the same path as what replaces it, so the DELETE
  ends both. No property forbids it, since Terraform asks for this order;
  the next refresh notices, and the next apply makes it again (`Converges`).
* An object that others turn incompatible behind a resource's back is neither read,
  updated nor deleted any more: every apply reports it, and `Converges` leaves it out (`Hopeless`).
* A resource reads the current page in `ManagedResource`; what the cache may
  return instead is the subject of `ReadAfterWrite`.
* A verifier that ended after a signature cannot be rerun on the same `dist` before the
  signature files are removed: gpg refuses to overwrite them. The release workflow
  starts from an empty `dist` (`goreleaser release --clean`).
* What others change in a draft release between the verifier's second listing and
  the edit that publishes it is published as it is.
* A 404 that is not about the project or the member takes a project user out of the
  state (`resource_project_user.go` 221 and 252 accept any); `LookupsAreTrue` excuses it, and it only.
* `StatesAreWholeAnswers` takes a boolean or number that answers hold where a text is
  wanted as its text, as the code does.
* Not modelled: query strings, which are constant; validators of lengths and
  choices; the number of bytes, members and digits structured values may have;
  organization and project headers; transport timeouts; wording of diagnostics,
  log messages and cache observations; the acceptance-test harness, the policy
  tests of the repository, `release_tracking.py`, generated documentation, examples
  and templates, which are not part of the running provider or of its release.

## 7. Plan

1. Several requests through one client: lifecycle and cooldown composed, so that
   a wait for the cooldown counts against the attempt's and lifecycle deadlines.
2. Several attributes of one resource at once; response-cache observations.
