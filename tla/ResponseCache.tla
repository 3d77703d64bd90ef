--------------------------- MODULE ResponseCache ---------------------------
(***************************************************************************)
(* The response cache of the API client (openaiapi/client.go): concurrent  *)
(* callers of responseCache.get coalesce on one load per key, successful   *)
(* responses are kept in a bounded LRU list, and a mutation of the remote  *)
(* collection removes the key with responseCache.invalidate.               *)
(*                                                                         *)
(* A response is abstracted to the version of the remote collection that   *)
(* the load observed.  Every step below is one critical section of the     *)
(* cache mutex, or one interaction with the remote API.                    *)
(***************************************************************************)
EXTENDS Integers

CONSTANTS
    Callers,     \* goroutines that call get
    Keys,        \* cache keys, as buildResponseCacheKey makes them
    Entries,     \* heap cells for responseCacheEntry; unreachable cells are reused
    NoEntry,     \* the nil *responseCacheEntry
    MaxEntries,  \* responseCache.maxEntries
    MaxVersion   \* bound on the versions of a remote collection

ASSUME NoEntryAssumption == NoEntry \notin Entries
ASSUME MaxEntriesAssumption == MaxEntries \in Int
ASSUME MaxVersionAssumption == MaxVersion \in Nat

VARIABLES
    remote,      \* remote[k]: version of the collection behind key k
    slot,        \* slot[k]: c.entries[k], or NoEntry
    heap,        \* heap[e]: the fields of entry e
    position,    \* position[e]: place of e in c.lru (1 is the front), 0 if e.lruElement is nil
    pc,          \* pc[c]: where caller c is in get
    key,         \* key[c]: the key c asked for
    entry,       \* entry[c]: the entry c acquired
    joined,      \* joined[c]: "loaded" in get, TRUE when the entry belongs to another caller
    ctx,         \* ctx[c]: state of c's context
    answer,      \* answer[c]: what load returned to c, then what get returned
    floor,       \* history: floor[k], version of the collection at the last invalidation of k
    seen         \* history: seen[k], newest version get has returned for k

cacheVars  == <<slot, heap, position>>
callerVars == <<pc, key, entry, joined, ctx, answer>>
vars == <<remote, cacheVars, callerVars, floor, seen>>

(***************************************************************************)
(* Types                                                                   *)
(***************************************************************************)

Versions == 0..MaxVersion

\* "ended" is an error that matches the context error of the caller that ran
\* the load; "failed" is every other error, a request-local deadline included.
NoAnswer == [response |-> 0, err |-> "nil"]
Response(v) == [response |-> v, err |-> "nil"]
Error(e) == [response |-> 0, err |-> e]

Answers == {Response(v) : v \in Versions} \cup {Error(e) : e \in {"failed", "ended"}}

EntryFields == [key : Keys, ready : BOOLEAN, invalidated : BOOLEAN, evicted : BOOLEAN,
                loaderEnded : BOOLEAN, answer : Answers]

Locations == {"idle", "loop", "loading", "publishing", "blocked", "result", "returned"}

Loading == {"loading", "publishing"}
Holding == {"loading", "publishing", "blocked", "result"}

NewEntry(k) == [key |-> k, ready |-> FALSE, invalidated |-> FALSE, evicted |-> FALSE,
                loaderEnded |-> FALSE, answer |-> NoAnswer]

\* Cells no map slot and no caller points to: one of them is the next entry
\* allocated.  Cardinality(Keys) + Cardinality(Callers) cells never run out.
FreeEntries == {e \in Entries : (\A k \in Keys : slot[k] # e) /\ (\A c \in Callers : entry[c] # e)}

Newer(v, w) == IF v >= w THEN v ELSE w

(***************************************************************************)
(* The LRU list                                                            *)
(***************************************************************************)

EffectiveMaxEntries == IF MaxEntries <= 0 THEN 2048 ELSE MaxEntries

MoveToFront(e) ==
    [f \in Entries |-> IF f = e THEN 1
                       ELSE IF position[f] # 0 /\ position[f] < position[e] THEN position[f] + 1
                       ELSE position[f]]

\* Mutant: the nil check on lruElement is missing.
TouchUnlisted(e) == MoveToFront(e)

Touch(e) == IF position[e] # 0 THEN MoveToFront(e) ELSE position

PushFront(e) ==
    [f \in Entries |-> IF f = e THEN 1
                       ELSE IF position[f] # 0 THEN position[f] + 1 ELSE 0]

RemoveFromList(e) ==
    [f \in Entries |-> IF f = e THEN 0
                       ELSE IF position[f] > position[e] THEN position[f] - 1
                       ELSE position[f]]

(***************************************************************************)
(* Initial state                                                           *)
(***************************************************************************)

Init ==
    /\ remote = [k \in Keys |-> 0]
    /\ slot = [k \in Keys |-> NoEntry]
    /\ heap \in [Entries -> {NewEntry(k) : k \in Keys}]
    /\ position = [e \in Entries |-> 0]
    /\ pc = [c \in Callers |-> "idle"]
    /\ key \in [Callers -> Keys]
    /\ entry = [c \in Callers |-> NoEntry]
    /\ joined = [c \in Callers |-> FALSE]
    /\ ctx = [c \in Callers |-> "live"]
    /\ answer = [c \in Callers |-> NoAnswer]
    /\ floor = [k \in Keys |-> 0]
    /\ seen = [k \in Keys |-> 0]

(***************************************************************************)
(* get                                                                     *)
(***************************************************************************)

\* A caller enters get with a context of its own.
StartGet(c, k) ==
    /\ pc[c] \in {"idle", "returned"}
    /\ pc' = [pc EXCEPT ![c] = "loop"]
    /\ key' = [key EXCEPT ![c] = k]
    /\ ctx' = [ctx EXCEPT ![c] = "live"]
    /\ answer' = [answer EXCEPT ![c] = NoAnswer]
    /\ UNCHANGED <<remote, cacheVars, entry, joined, floor, seen>>

\* The caller's context is canceled or reaches its deadline, at any point of get.
EndContext(c) ==
    /\ pc[c] \notin {"idle", "returned"}
    /\ ctx[c] = "live"
    /\ ctx' = [ctx EXCEPT ![c] = "ended"]
    /\ UNCHANGED <<remote, cacheVars, pc, key, entry, joined, answer, floor, seen>>

\* get returns the caller's own context error.
ReturnContextError(c) ==
    /\ ctx[c] = "ended"
    /\ pc' = [pc EXCEPT ![c] = "returned"]
    /\ entry' = [entry EXCEPT ![c] = NoEntry]
    /\ answer' = [answer EXCEPT ![c] = Error("ended")]
    /\ UNCHANGED <<remote, cacheVars, key, joined, ctx, floor, seen>>

\* Mutant: a loader whose context has ended returns without finishLoad.
LeaveLoad(c) == pc[c] \in {"loop", "loading"} /\ ReturnContextError(c)

\* Top of the loop: the context has already ended.
GiveUp(c) == pc[c] = "loop" /\ ReturnContextError(c)

\* acquire finds no entry: the caller installs one and becomes its loader.
AcquireNew(c) ==
    /\ pc[c] = "loop"
    /\ ctx[c] = "live"
    /\ slot[key[c]] = NoEntry
    /\ FreeEntries # {}
    /\ LET e == CHOOSE f \in FreeEntries : TRUE
       IN  /\ heap' = [heap EXCEPT ![e] = NewEntry(key[c])]
           /\ slot' = [slot EXCEPT ![key[c]] = e]
           /\ entry' = [entry EXCEPT ![c] = e]
    /\ pc' = [pc EXCEPT ![c] = "loading"]
    /\ joined' = [joined EXCEPT ![c] = FALSE]
    /\ UNCHANGED <<remote, position, key, ctx, answer, floor, seen>>

\* acquire finds an entry: it becomes the most recently used one if it is in
\* the list, and the caller blocks only when the load is still running.
AcquireExisting(c) ==
    /\ pc[c] = "loop"
    /\ ctx[c] = "live"
    /\ slot[key[c]] # NoEntry
    /\ entry' = [entry EXCEPT ![c] = slot[key[c]]]
    /\ position' = Touch(slot[key[c]])
    /\ pc' = [pc EXCEPT ![c] = IF heap[slot[key[c]]].ready THEN "result" ELSE "blocked"]
    /\ joined' = [joined EXCEPT ![c] = TRUE]
    /\ UNCHANGED <<remote, slot, heap, key, ctx, answer, floor, seen>>

\* load(ctx): the API answers with the collection as it is now, or the load
\* fails.  It can only fail with the context error once the context has ended,
\* and may still succeed then.
Load(c) ==
    /\ pc[c] = "loading"
    /\ \/ answer' = [answer EXCEPT ![c] = Response(remote[key[c]])]
       \/ answer' = [answer EXCEPT ![c] = Error("failed")]
       \/ ctx[c] = "ended" /\ answer' = [answer EXCEPT ![c] = Error("ended")]
    /\ pc' = [pc EXCEPT ![c] = "publishing"]
    /\ UNCHANGED <<remote, cacheVars, key, entry, joined, ctx, floor, seen>>

\* finishLoad and evictLocked: publish the outcome, keep a success that is
\* still in the map, evict from the back of the list, wake every waiter.
FinishLoad(c) ==
    /\ pc[c] = "publishing"
    /\ LET e == entry[c]
           current == slot[heap[e].key] = e
           keep == current /\ answer[c].err = "nil" /\ ~heap[e].invalidated
           pushed == IF keep THEN PushFront(e) ELSE position
           victims == {f \in Entries : pushed[f] > EffectiveMaxEntries}
           published == [heap[e] EXCEPT !.ready = TRUE,
                                        !.answer = answer[c],
                                        !.loaderEnded = answer[c].err = "ended"]
       IN  /\ position' = [f \in Entries |-> IF f \in victims THEN 0 ELSE pushed[f]]
           /\ heap' = [f \in Entries |-> IF f = e THEN published
                                         ELSE IF f \in victims THEN [heap[f] EXCEPT !.evicted = TRUE]
                                         ELSE heap[f]]
           /\ slot' = [k \in Keys |-> IF slot[k] \in victims \/ (slot[k] = e /\ ~keep)
                                      THEN NoEntry ELSE slot[k]]
    /\ pc' = [pc EXCEPT ![c] = "result"]
    /\ UNCHANGED <<remote, key, entry, joined, ctx, answer, floor, seen>>

\* A waiter is woken by the closed ready channel ...
Wake(c) ==
    /\ pc[c] = "blocked"
    /\ heap[entry[c]].ready
    /\ pc' = [pc EXCEPT ![c] = "result"]
    /\ UNCHANGED <<remote, cacheVars, key, entry, joined, ctx, answer, floor, seen>>

\* ... or by its own context.
AbandonWait(c) == pc[c] = "blocked" /\ ReturnContextError(c)

\* Mutants: result does not look at one of the three reasons to load again.
RetryUnlessInvalidated(c) ==
    heap[entry[c]].evicted \/ (joined[c] /\ ctx[c] = "live" /\ heap[entry[c]].loaderEnded)

RetryUnlessEvicted(c) ==
    heap[entry[c]].invalidated \/ (joined[c] /\ ctx[c] = "live" /\ heap[entry[c]].loaderEnded)

RetryUnlessLoaderEnded(c) == heap[entry[c]].invalidated \/ heap[entry[c]].evicted

\* The entry lost its standing while the caller was on its way to result, or
\* its loader was canceled while this caller is still live.
MustRetry(c) ==
    \/ heap[entry[c]].invalidated
    \/ heap[entry[c]].evicted
    \/ joined[c] /\ ctx[c] = "live" /\ heap[entry[c]].loaderEnded

Retry(c) ==
    /\ pc[c] = "result"
    /\ MustRetry(c)
    /\ pc' = [pc EXCEPT ![c] = "loop"]
    /\ entry' = [entry EXCEPT ![c] = NoEntry]
    /\ UNCHANGED <<remote, cacheVars, key, joined, ctx, answer, floor, seen>>

\* result hands out the entry's outcome and refreshes its place in the list.
Return(c) ==
    /\ pc[c] = "result"
    /\ ~MustRetry(c)
    /\ position' = Touch(entry[c])
    /\ answer' = [answer EXCEPT ![c] = heap[entry[c]].answer]
    /\ seen' = IF heap[entry[c]].answer.err = "nil"
               THEN [seen EXCEPT ![key[c]] = Newer(@, heap[entry[c]].answer.response)]
               ELSE seen
    /\ pc' = [pc EXCEPT ![c] = "returned"]
    /\ entry' = [entry EXCEPT ![c] = NoEntry]
    /\ UNCHANGED <<remote, slot, heap, key, joined, ctx, floor>>

(***************************************************************************)
(* invalidate, and the remote collection                                   *)
(***************************************************************************)

\* Mutant: the key is forgotten, but its entry is not marked.
ForgetSlot(k) ==
    /\ slot' = [slot EXCEPT ![k] = NoEntry]
    /\ heap' = heap
    /\ position' = IF slot[k] # NoEntry /\ position[slot[k]] # 0 THEN RemoveFromList(slot[k]) ELSE position
    /\ floor' = [floor EXCEPT ![k] = remote[k]]

\* responseCache.invalidate: forget the key and mark its entry, in flight or
\* published, so that callers that already hold it load again.
InvalidateSlot(k) ==
    LET e == slot[k] IN
    /\ slot' = [slot EXCEPT ![k] = NoEntry]
    /\ heap' = IF e = NoEntry THEN heap ELSE [heap EXCEPT ![e].invalidated = TRUE]
    /\ position' = IF e = NoEntry THEN position
                   ELSE IF position[e] # 0 THEN RemoveFromList(e) ELSE position
    /\ floor' = [floor EXCEPT ![k] = remote[k]]

Invalidate(k) ==
    /\ InvalidateSlot(k)
    /\ UNCHANGED <<remote, callerVars, seen>>

\* The collection behind a key changes at the API.
RemoteChange(k) ==
    /\ remote[k] < MaxVersion
    /\ remote' = [remote EXCEPT ![k] = @ + 1]
    /\ UNCHANGED <<cacheVars, callerVars, floor, seen>>

(***************************************************************************)
(* Specification                                                           *)
(***************************************************************************)

\* What a caller inside get does on its own.
Progress(c) ==
    \/ GiveUp(c) \/ AcquireNew(c) \/ AcquireExisting(c)
    \/ Load(c) \/ FinishLoad(c)
    \/ Wake(c) \/ AbandonWait(c)
    \/ Retry(c) \/ Return(c)

Get(c) == Progress(c) \/ EndContext(c) \/ \E k \in Keys : StartGet(c, k)

Next ==
    \/ \E c \in Callers : Get(c)
    \/ \E k \in Keys : Invalidate(k) \/ RemoteChange(k)

Spec == Init /\ [][Next]_vars

(***************************************************************************)
(* Properties                                                              *)
(***************************************************************************)

TypeOK ==
    /\ remote \in [Keys -> Versions]
    /\ slot \in [Keys -> Entries \cup {NoEntry}]
    /\ heap \in [Entries -> EntryFields]
    /\ position \in [Entries -> Nat]
    /\ pc \in [Callers -> Locations]
    /\ key \in [Callers -> Keys]
    /\ entry \in [Callers -> Entries \cup {NoEntry}]
    /\ joined \in [Callers -> BOOLEAN]
    /\ ctx \in [Callers -> {"live", "ended"}]
    /\ answer \in [Callers -> Answers]
    /\ floor \in [Keys -> Versions]
    /\ seen \in [Keys -> Versions]

\* An entry is in the recency list exactly when the map holds it as a
\* published success (finishLoad, evictLocked and invalidate keep the map and
\* the list in step; an error is never retained).
ListMatchesMap ==
    \A e \in Entries :
        position[e] # 0 <=> (\E k \in Keys : slot[k] = e) /\ heap[e].ready /\ heap[e].answer.err = "nil"

\* The list is a list: distinct entries at consecutive places, and never more
\* of them than maxEntries once a critical section is over.
ListIsBounded ==
    /\ \A e \in Entries : position[e] <= EffectiveMaxEntries
    /\ \A e, f \in Entries : position[e] = position[f] /\ position[e] # 0 => e = f
    /\ \A e \in Entries : position[e] > 1 => \E f \in Entries : position[f] = position[e] - 1

\* Whatever callers, invalidations and evictions interleave, the map and the
\* recency list tell the same story and stay within the capacity (evictLocked,
\* finishLoad and invalidate).
CacheIsConsistent == ListMatchesMap /\ ListIsBounded

\* Concurrent loads of one key are always separated by an invalidation: callers
\* that find a load in flight join it (acquire).
SingleFlight ==
    \A c, d \in Callers :
        /\ pc[c] \in Loading /\ pc[d] \in Loading
        /\ key[c] = key[d]
        /\ ~heap[entry[c]].invalidated /\ ~heap[entry[d]].invalidated
        => c = d

\* A blocked waiter always has something to wake it: the entry is published, or
\* its loader is still on its way to finishLoad, which closes ready.
WaitersHaveLoader ==
    \A c \in Callers :
        pc[c] = "blocked" =>
            \/ heap[entry[c]].ready
            \/ \E d \in Callers : pc[d] \in Loading /\ entry[d] = entry[c]

\* Both together: a key has one loader since its last invalidation, and those who
\* joined it are never left waiting for nobody (acquire, finishLoad, get's select).
LoadsAreShared == SingleFlight /\ WaitersHaveLoader

\* get reports a context error only to the caller whose context ended, never to
\* a caller that joined a load another caller's cancellation ended.
OwnCancellationOnly ==
    \A c \in Callers : pc[c] = "returned" /\ answer[c].err = "ended" => ctx[c] = "ended"

Returns(c) == pc[c] # "returned" /\ pc'[c] = "returned" /\ answer'[c].err = "nil"

\* A response get returns was loaded no earlier than the last invalidation of
\* its key, even when the caller acquired the entry before that invalidation.
FreshAfterInvalidation ==
    [][\A c \in Callers : Returns(c) => answer'[c].response >= floor[key[c]]]_vars

\* Reads of one key never go back in time, across all callers.
MonotonicReads ==
    [][\A c \in Callers : Returns(c) => answer'[c].response >= seen[key[c]]]_vars

\* Both together: what get returns is as recent as its callers may rely on.
ReadsAreRecent ==
    [][\A c \in Callers : Returns(c) =>
          answer'[c].response >= floor[key[c]] /\ answer'[c].response >= seen[key[c]]]_vars

(***************************************************************************)
(* The inductive invariant                                                 *)
(***************************************************************************)

\* What the map holds is current: its entry has the slot's key and was neither
\* invalidated nor evicted.
SlotsAreCurrent ==
    \A k \in Keys :
        slot[k] # NoEntry => /\ heap[slot[k]].key = k
                             /\ ~heap[slot[k]].invalidated
                             /\ ~heap[slot[k]].evicted

\* An entry pointer is set between acquire and result, and only then.
HoldersMatch ==
    \A c \in Callers :
        IF pc[c] \in Holding
        THEN entry[c] \in Entries /\ heap[entry[c]].key = key[c]
        ELSE entry[c] = NoEntry

\* The loader of an entry is alone, and its entry leaves the map only by an
\* invalidation while the load runs.
LoadersOwnEntries ==
    \A c \in Callers :
        pc[c] \in Loading =>
            /\ ~joined[c]
            /\ ~heap[entry[c]].ready
            /\ ~heap[entry[c]].evicted
            /\ ~heap[entry[c]].invalidated => slot[key[c]] = entry[c]
            /\ \A d \in Callers : pc[d] \in Loading /\ entry[d] = entry[c] => d = c

HasLoader(e) == \E d \in Callers : pc[d] \in Loading /\ entry[d] = e

\* Nobody waits for an entry that nobody will publish.
UnreadyHasLoader ==
    /\ \A k \in Keys : slot[k] # NoEntry /\ ~heap[slot[k]].ready => HasLoader(slot[k])
    /\ \A c \in Callers : pc[c] = "blocked" /\ ~heap[entry[c]].ready => HasLoader(entry[c])
    /\ \A c \in Callers : pc[c] = "result" => heap[entry[c]].ready

\* A held success that lost its slot says so: it is marked invalidated or evicted.
LostSuccessIsMarked ==
    \A c \in Callers :
        pc[c] \in Holding =>
            LET h == heap[entry[c]] IN
            h.ready /\ h.answer.err = "nil" /\ ~h.invalidated /\ ~h.evicted => slot[h.key] = entry[c]

\* Whatever the map can still hand out is recent.
SlotsAreFresh ==
    /\ \A k \in Keys : floor[k] <= remote[k] /\ seen[k] <= remote[k]
    /\ \A k \in Keys :
          slot[k] # NoEntry /\ heap[slot[k]].ready =>
              /\ heap[slot[k]].answer.err = "nil"
              /\ heap[slot[k]].answer.response >= floor[k]
              /\ heap[slot[k]].answer.response >= seen[k]
    /\ \A c \in Callers :
          pc[c] = "publishing" /\ answer[c].err = "nil" =>
              /\ answer[c].response <= remote[key[c]]
              /\ slot[key[c]] = entry[c] => answer[c].response >= floor[key[c]]
              /\ slot[key[c]] = entry[c] => answer[c].response >= seen[key[c]]
    /\ \A e \in Entries :
          heap[e].ready /\ heap[e].answer.err = "nil" => heap[e].answer.response <= remote[heap[e].key]

\* Context errors stay with the caller whose context ended.
EndedBelongsToLoader ==
    /\ \A e \in Entries : heap[e].answer.err = "ended" => heap[e].loaderEnded
    /\ \A c \in Callers : pc[c] = "publishing" /\ answer[c].err = "ended" => ctx[c] = "ended"
    /\ \A c \in Callers : pc[c] = "blocked" => joined[c]
    /\ \A c \in Callers :
          pc[c] = "result" /\ ~joined[c] /\ heap[entry[c]].answer.err = "ended" => ctx[c] = "ended"

IInv ==
    /\ TypeOK
    /\ SlotsAreCurrent
    /\ HoldersMatch
    /\ LoadersOwnEntries
    /\ UnreadyHasLoader
    /\ ListMatchesMap
    /\ ListIsBounded
    /\ LostSuccessIsMarked
    /\ SlotsAreFresh
    /\ EndedBelongsToLoader
    /\ OwnCancellationOnly

=============================================================================
