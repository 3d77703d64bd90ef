----------------------------- MODULE Pagination -----------------------------
(***************************************************************************)
(* PaginatedRequest of a GET (openaiapi/client.go): pages of a collection  *)
(* are requested one after the other, each after the cursor of the one     *)
(* before, and merged, while the collection changes at the API.            *)
(*                                                                         *)
(* Items are numbers in the order in which the API lists them, and a       *)
(* cursor is the position it stands for; 0 is the missing cursor.  The API *)
(* is either sound (a page holds what lies between two positions) or       *)
(* answers anything, and then no collection stands behind its answers.     *)
(***************************************************************************)
EXTENDS Integers, FiniteSets

CONSTANTS
    LastItem,      \* items and cursors are 1..LastItem
    MaxPages,      \* maxPaginatedPages
    MaxPageBytes,  \* effectiveMaxResponseBytes
    MaxBytes,      \* effectiveMaxPaginatedResponseBytes
    PageBytes,     \* sizes a page may have
    MaxRetries     \* retries of one page

ASSUME LastItemAssumption == LastItem \in Nat
ASSUME MaxPagesAssumption == MaxPages \in Nat
ASSUME BytesAssumption == MaxPageBytes \in Nat /\ MaxBytes \in Nat /\ PageBytes \subseteq Nat
ASSUME MaxRetriesAssumption == MaxRetries \in Nat

VARIABLES
    sound,        \* whether the API lists the collection as documented
    present,      \* items now in the collection
    stable,       \* history: items in the collection ever since the first request
    ever,         \* history: items in the collection at some time since
    pc,           \* "request" or "returned"
    page,         \* page
    cursor,       \* nextQueryParams["after"], 0 if absent
    seenCursors,  \* seenCursors
    times,        \* times[i]: how often item i occurs in items
    remaining,    \* paginatedResponseBudget.remaining
    retries,      \* retries of the current page so far
    result        \* what PaginatedRequest returned

collection == <<present, stable, ever>>
loop == <<page, cursor, seenCursors, times>>
vars == <<sound, collection, pc, loop, remaining, retries, result>>

Items == 1..LastItem
Results == {"none", "list", "request error", "oversize", "malformed", "too many pages",
            "no cursor", "repeated cursor"}

Init ==
    /\ sound \in BOOLEAN
    /\ present \in IF sound THEN SUBSET Items ELSE {{}}
    /\ stable = present
    /\ ever = present
    /\ pc = "request"
    /\ page = 1
    /\ cursor = 0
    /\ seenCursors = {}
    /\ times = [i \in Items |-> 0]
    /\ remaining = MaxBytes
    /\ retries = 0
    /\ result = "none"

(***************************************************************************)
(* The collection                                                          *)
(***************************************************************************)

Add(i) ==
    /\ sound /\ pc = "request"
    /\ i \notin present
    /\ present' = present \cup {i}
    /\ ever' = ever \cup {i}
    /\ UNCHANGED <<sound, stable, pc, loop, remaining, retries, result>>

Remove(i) ==
    /\ sound /\ pc = "request"
    /\ i \in present
    /\ present' = present \ {i}
    /\ stable' = stable \ {i}
    /\ UNCHANGED <<sound, ever, pc, loop, remaining, retries, result>>

(***************************************************************************)
(* The loop                                                                *)
(***************************************************************************)

Return(r) == pc' = "returned" /\ result' = r

\* Mutant: past the last page, the items so far are returned.
CutList ==
    /\ pc = "request"
    /\ page > MaxPages
    /\ Return("list")
    /\ UNCHANGED <<sound, collection, loop, remaining, retries>>

\* The top of the loop refuses to go on past the last page.
RefusePage ==
    /\ pc = "request"
    /\ page > MaxPages
    /\ Return("too many pages")
    /\ UNCHANGED <<sound, collection, loop, remaining, retries>>

\* Mutant: one page too many.
RequestingOneMore == pc = "request" /\ page <= MaxPages + 1

Requesting == pc = "request" /\ page <= MaxPages

RequestFails ==
    /\ Requesting
    /\ Return("request error")
    /\ UNCHANGED <<sound, collection, loop, remaining, retries>>

\* Mutant: every page has the limit of a single response.
LimitOfOneResponse == MaxPageBytes

\* readResponseBody: the limit for a page is what the budget has left, if that
\* is less than the limit for any response.
PageLimit == IF remaining < MaxPageBytes THEN remaining ELSE MaxPageBytes

PageTooLarge(bytes) ==
    /\ Requesting
    /\ bytes > PageLimit
    /\ Return("oversize")
    /\ UNCHANGED <<sound, collection, loop, remaining, retries>>

\* The request is retried inside Request.  An error status or a body that
\* breaks off leaves the budget alone; a page that was read and is to be asked
\* for again (x-should-retry) has used it.
RetryPage(used) ==
    /\ Requesting
    /\ retries < MaxRetries
    /\ used <= PageLimit
    /\ retries' = retries + 1
    /\ remaining' = remaining - used
    /\ UNCHANGED <<sound, collection, pc, loop, result>>

MalformedPage(bytes) ==
    /\ Requesting
    /\ bytes <= PageLimit
    /\ remaining' = remaining - bytes
    /\ Return("malformed")
    /\ UNCHANGED <<sound, collection, loop, retries>>

\* What a sound API answers for the positions after cursor up to end.
Between(end) == {i \in present : cursor < i /\ i <= end}
Beyond(end) == {i \in present : end < i}

\* The id of the last item of a page, 0 if the page is empty.
IsLast(last, items) ==
    IF items = {} THEN last = 0 ELSE last \in items /\ \A i \in items : i <= last

\* nextPageCursor: the next field, or else the id of the last item.
NextPageCursor(next, last) == IF next # 0 THEN next ELSE last

\* Mutant: the after parameter stays that of the page before.
GoOnWithoutCursor(c) ==
    /\ seenCursors' = seenCursors \cup {c}
    /\ page' = page + 1
    /\ retries' = 0
    /\ UNCHANGED <<cursor, pc, result>>

GoOnAfter(c) ==
    /\ seenCursors' = seenCursors \cup {c}
    /\ cursor' = c
    /\ page' = page + 1
    /\ retries' = 0
    /\ UNCHANGED <<pc, result>>

StopWith(r) == Return(r) /\ UNCHANGED <<page, cursor, seenCursors, retries>>

\* A page is merged; the loop ends, fails on its cursor, or goes on after it.
MergePage(bytes, items, hasMore, c) ==
    /\ Requesting
    /\ bytes <= PageLimit
    /\ remaining' = remaining - bytes
    /\ times' = [i \in Items |-> IF i \in items THEN times[i] + 1 ELSE times[i]]
    /\ \/ ~hasMore /\ StopWith("list")
       \/ hasMore /\ c = 0 /\ StopWith("no cursor")
       \/ hasMore /\ c \in seenCursors /\ StopWith("repeated cursor")
       \/ hasMore /\ c # 0 /\ c \notin seenCursors /\ GoOnAfter(c)
    /\ UNCHANGED <<sound, collection>>

\* A sound API may leave out the next field, but moves on with every page.
SoundPage(bytes) ==
    /\ sound
    /\ \E end \in (cursor + 1)..LastItem, next \in {0} \cup Items, last \in {0} \cup Items :
          /\ next \in {0, end}
          /\ IsLast(last, Between(end))
          /\ MergePage(bytes, Between(end), Beyond(end) # {}, NextPageCursor(next, last))

AnyPage(bytes) ==
    /\ ~sound
    /\ \E items \in SUBSET Items, hasMore \in BOOLEAN, c \in {0} \cup Items :
          MergePage(bytes, items, hasMore, c)

(***************************************************************************)
(* Specification                                                           *)
(***************************************************************************)

Next ==
    \/ \E i \in Items : Add(i) \/ Remove(i)
    \/ RefusePage \/ RequestFails \/ RetryPage(0)
    \/ \E bytes \in PageBytes :
          \/ PageTooLarge(bytes) \/ RetryPage(bytes) \/ SoundPage(bytes)
          \/ AnyPage(bytes) \/ (~sound /\ MalformedPage(bytes))

Spec == Init /\ [][Next]_vars

(***************************************************************************)
(* Properties                                                              *)
(***************************************************************************)

TypeOK ==
    /\ sound \in BOOLEAN
    /\ present \in SUBSET Items /\ stable \in SUBSET Items /\ ever \in SUBSET Items
    /\ pc \in {"request", "returned"}
    /\ page \in Nat \ {0}
    /\ cursor \in 0..LastItem
    /\ seenCursors \in SUBSET Items
    /\ times \in [Items -> Nat]
    /\ remaining \in Int
    /\ retries \in Nat
    /\ result \in Results

\* A list that was returned without error misses no item that was there all
\* the time, invents none and repeats none, although every page shows the
\* collection at another moment (PaginatedRequest over a sound API).
ListIsComplete ==
    sound /\ result = "list" =>
        \A i \in Items :
            /\ i \in stable => times[i] = 1
            /\ times[i] <= 1
            /\ times[i] = 1 => i \in ever

\* The check for repeated cursors is there for broken APIs: a sound one passes
\* it, whatever changes between two pages.
SoundCursorsPass ==
    sound => result # "repeated cursor"

\* Both together: a sound API's list is complete, and it is not refused for its cursors.
SoundListsAreRead == ListIsComplete /\ SoundCursorsPass

\* Whatever the API answers, the pages that are kept never exceed the budget.
BudgetIsKept == remaining >= 0

\* Whatever the API answers, the loop ends: every further page has a cursor of
\* its own, and there are no more than maxPaginatedPages.
PagesAreBounded == page <= MaxPages + 1 /\ Cardinality(seenCursors) = page - 1

\* Both together: no answer makes the loop read more than its bytes and its pages.
ReadingIsBounded == BudgetIsKept /\ PagesAreBounded

(***************************************************************************)
(* The inductive invariant                                                 *)
(***************************************************************************)

CollectionHistory == stable \subseteq present /\ present \subseteq ever

\* Up to the cursor, the pages read so far have what they should have; beyond
\* it, they have nothing.
ListedUpToCursor ==
    sound /\ pc = "request" =>
        \A i \in Items :
            /\ i <= cursor /\ i \in stable => times[i] = 1
            /\ times[i] = 0 \/ (times[i] = 1 /\ i <= cursor /\ i \in ever)

CursorIsNewest == sound => \A i \in seenCursors : i <= cursor

ResultMeansReturned == result # "none" => pc = "returned"

PagesAreCounted ==
    /\ IsFiniteSet(seenCursors)
    /\ PagesAreBounded

IInv ==
    /\ TypeOK /\ CollectionHistory /\ ListedUpToCursor /\ CursorIsNewest /\ ResultMeansReturned
    /\ ListIsComplete /\ SoundCursorsPass /\ BudgetIsKept /\ PagesAreCounted

=============================================================================
