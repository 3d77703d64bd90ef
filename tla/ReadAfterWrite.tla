--------------------------- MODULE ReadAfterWrite ---------------------------
(***************************************************************************)
(* The response cache together with the resources that mutate the cached   *)
(* collections (organization_projects, project_users_first_page,           *)
(* project_groups, project_rate_limits).  A Create, Update or Delete       *)
(* invalidates the key, sends its request, and invalidates the key again   *)
(* whatever the outcome.  The request may be lost, may be committed and    *)
(* answered, may be committed while its answer is lost, or may be given up *)
(* by the provider and committed by the API later.                         *)
(***************************************************************************)
EXTENDS ResponseCache

CONSTANT Writers   \* resource operations, one mutation each

VARIABLES
    wpc,       \* wpc[w]: where operation w is
    wkey,      \* wkey[w]: the cache key of the collection it mutates
    stray,     \* stray[k]: requests given up by the provider that the API may still commit
    settled    \* history: settled[k], what was committed when the last operation on k ended

writerVars == <<wpc, wkey, stray, settled>>
rawVars == <<vars, writerVars>>

RawInit ==
    /\ Init
    /\ wpc = [w \in Writers |-> "idle"]
    /\ wkey \in [Writers -> Keys]
    /\ stray = [k \in Keys |-> 0]
    /\ settled = [k \in Keys |-> 0]

\* Nothing that was read before the request is sent may serve a read after it.
InvalidateBefore(w) ==
    /\ wpc[w] = "idle"
    /\ Invalidate(wkey[w])
    /\ wpc' = [wpc EXCEPT ![w] = "sent"]
    /\ UNCHANGED <<wkey, stray, settled>>

\* The API commits the mutation ...
Commit(w) ==
    /\ wpc[w] = "sent"
    /\ RemoteChange(wkey[w])
    /\ wpc' = [wpc EXCEPT ![w] = "committed"]
    /\ UNCHANGED <<wkey, stray, settled>>

\* ... and its answer arrives, or is lost.
Answered(w) ==
    /\ wpc[w] = "committed"
    /\ \E outcome \in {"succeeded", "failed"} : wpc' = [wpc EXCEPT ![w] = outcome]
    /\ UNCHANGED <<vars, wkey, stray, settled>>

\* The request fails without an effect ...
Rejected(w) ==
    /\ wpc[w] = "sent"
    /\ wpc' = [wpc EXCEPT ![w] = "failed"]
    /\ UNCHANGED <<vars, wkey, stray, settled>>

\* ... or the provider gives up on it while it is still on its way.
GivenUp(w) ==
    /\ wpc[w] = "sent"
    /\ wpc' = [wpc EXCEPT ![w] = "failed"]
    /\ stray' = [stray EXCEPT ![wkey[w]] = @ + 1]
    /\ UNCHANGED <<vars, wkey, settled>>

LateCommit(k) ==
    /\ stray[k] > 0
    /\ RemoteChange(k)
    /\ stray' = [stray EXCEPT ![k] = @ - 1]
    /\ UNCHANGED <<wpc, wkey, settled>>

\* Mutant: the second invalidation is missing.
ReportWithoutInvalidating(w) ==
    /\ wpc[w] \in {"succeeded", "failed"}
    /\ wpc' = [wpc EXCEPT ![w] = "done"]
    /\ settled' = [settled EXCEPT ![wkey[w]] = remote[wkey[w]]]
    /\ UNCHANGED <<vars, wkey, stray>>

\* Mutant: the second invalidation comes after the look at the error.
InvalidateOnSuccess(w) ==
    /\ wpc[w] \in {"succeeded", "failed"}
    /\ IF wpc[w] = "succeeded" THEN Invalidate(wkey[w]) ELSE UNCHANGED vars
    /\ wpc' = [wpc EXCEPT ![w] = "done"]
    /\ settled' = [settled EXCEPT ![wkey[w]] = remote[wkey[w]]]
    /\ UNCHANGED <<wkey, stray>>

\* The second invalidation runs before the operation looks at the error, and
\* the operation reports to Terraform, success or error, after it.
InvalidateAfter(w) ==
    /\ wpc[w] \in {"succeeded", "failed"}
    /\ Invalidate(wkey[w])
    /\ wpc' = [wpc EXCEPT ![w] = "done"]
    /\ settled' = [settled EXCEPT ![wkey[w]] = remote[wkey[w]]]
    /\ UNCHANGED <<wkey, stray>>

Operation(w) ==
    InvalidateBefore(w) \/ Commit(w) \/ Answered(w) \/ Rejected(w) \/ GivenUp(w) \/ InvalidateAfter(w)

RawNext ==
    \/ (\E c \in Callers : Get(c)) /\ UNCHANGED writerVars
    \/ \E w \in Writers : Operation(w)
    \/ \E k \in Keys : LateCommit(k)

RawSpec == RawInit /\ [][RawNext]_rawVars

\* Terraform asks for finitely many reads: here a caller makes one call, for a
\* collection it has in mind from the start.
OneCallEach ==
    /\ key' = key
    /\ \A c \in Callers : pc[c] = "returned" => pc'[c] = "returned"

\* An entry is evicted only when a load of another key succeeds.  Terraform
\* reads a few collections at once and the cache has room for maxEntries, so a
\* held entry is evicted, if at all, a finite number of times.  (Callers of more
\* keys at once than there is room for can evict each other's entries for ever.)
EvictionsEnd ==
    <>[][\A e \in Entries : heap'[e].evicted => heap[e].evicted]_rawVars

\* A goroutine inside get keeps running, and load returns: Request ends every
\* call by its lifecycle timeout.  Nothing obliges a new call to start, a
\* context to end, an operation to begin or the API to commit.  What the cells
\* that no entry uses hold at the start is of no consequence.
FiniteSpec ==
    /\ RawInit /\ heap = [e \in Entries |-> NewEntry(CHOOSE k \in Keys : TRUE)]
    /\ [][RawNext /\ OneCallEach]_rawVars
    /\ \A c \in Callers : WF_rawVars(Progress(c) /\ UNCHANGED writerVars)
    /\ EvictionsEnd

(***************************************************************************)
(* Properties                                                              *)
(***************************************************************************)

RawTypeOK ==
    /\ TypeOK
    /\ wpc \in [Writers -> {"idle", "sent", "committed", "succeeded", "failed", "done"}]
    /\ wkey \in [Writers -> Keys]
    /\ stray \in [Keys -> Nat]
    /\ settled \in [Keys -> Versions]

\* Once an operation has ended, in success or in error, no read returns a
\* collection without what was committed by then, not even a read that began
\* before the operation did.
ReadsSeeSettledWrites ==
    [][\A c \in Callers : Returns(c) => answer'[c].response >= settled[key[c]]]_rawVars

\* The inductive argument: what was committed when an operation ended was
\* committed before the last invalidation of its key.
SettledBeforeInvalidation == \A k \in Keys : settled[k] <= floor[k]

\* Every call of get returns, whatever loads fail, contexts end or keys are
\* invalidated meanwhile, and however often the entry it waits for is evicted,
\* as long as evictions end.
GetReturns == \A c \in Callers : pc[c] = "loop" ~> pc[c] = "returned"

\* The cache is invisible: its callers see a register.
Register == INSTANCE CollectionRegister WITH
    Readers <- Callers,
    Collections <- Keys,
    committed <- remote,
    confirmed <- settled,
    latest <- seen,
    reading <- [c \in Callers |-> pc[c] \notin {"idle", "returned"}],
    live <- [c \in Callers |-> ctx[c] = "live"],
    target <- key,
    result <- [c \in Callers |-> IF pc[c] = "returned" THEN answer[c] ELSE NoAnswer]

ImplementsRegister == Register!Spec

=============================================================================
