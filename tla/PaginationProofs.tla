--------------------------- MODULE PaginationProofs ---------------------------
(***************************************************************************)
(* The merged list is complete and the loop is bounded, for collections of *)
(* any length, pages of any size and any page limit.                       *)
(***************************************************************************)
EXTENDS Pagination, FiniteSetTheorems, TLAPS

LEMMA PageLimitBounds == ASSUME TypeOK PROVE PageLimit \in Int /\ PageLimit <= remaining
BY BytesAssumption DEF TypeOK, PageLimit

LEMMA InitInvariant == Init => IInv
<1> SUFFICES ASSUME Init PROVE IInv
    OBVIOUS
<1>1. TypeOK /\ CollectionHistory /\ CursorIsNewest /\ ResultMeansReturned
    BY LastItemAssumption, BytesAssumption
       DEF Init, TypeOK, Items, Results, CollectionHistory, CursorIsNewest, ResultMeansReturned
<1>2. ListedUpToCursor /\ ListIsComplete /\ SoundCursorsPass /\ BudgetIsKept
    BY LastItemAssumption, BytesAssumption
       DEF Init, Items, ListedUpToCursor, ListIsComplete, SoundCursorsPass, BudgetIsKept
<1>3. PagesAreCounted
    BY FS_EmptySet, MaxPagesAssumption DEF Init, PagesAreCounted, PagesAreBounded
<1> QED BY <1>1, <1>2, <1>3 DEF IInv

LEMMA ResultsOfMerge == "list" \in Results /\ "no cursor" \in Results /\ "repeated cursor" \in Results
BY DEF Results

\* What merging a page does, whatever was on it.
LEMMA MergeInvariant ==
    ASSUME IInv, NEW bytes \in PageBytes, NEW items \in SUBSET Items, NEW hasMore \in BOOLEAN,
           NEW c \in {0} \cup Items, MergePage(bytes, items, hasMore, c)
    PROVE  /\ TypeOK' /\ CollectionHistory' /\ ResultMeansReturned' /\ BudgetIsKept' /\ PagesAreCounted'
           /\ UNCHANGED <<sound, collection>>
<1>1. TypeOK /\ CollectionHistory /\ ResultMeansReturned /\ PagesAreCounted
    BY DEF IInv
<1>2. /\ pc = "request" /\ page <= MaxPages
      /\ bytes <= PageLimit /\ remaining' = remaining - bytes
      /\ times' = [i \in Items |-> IF i \in items THEN times[i] + 1 ELSE times[i]]
      /\ UNCHANGED <<sound, collection>>
    BY DEF MergePage, Requesting
<1>3. CollectionHistory' /\ (present' \in SUBSET Items /\ stable' \in SUBSET Items /\ ever' \in SUBSET Items)
    BY <1>1, <1>2 DEF CollectionHistory, collection, TypeOK
<1>4. times' \in [Items -> Nat]
    <2>1. times \in [Items -> Nat]
        BY <1>1 DEF TypeOK
    <2> QED BY <1>2, <2>1
<1>5. remaining' \in Int /\ remaining' >= 0
    <2>1. remaining \in Int /\ PageLimit \in Int /\ PageLimit <= remaining /\ bytes \in Int
        BY <1>1, PageLimitBounds, BytesAssumption DEF TypeOK
    <2> QED BY <1>2, <2>1
<1>6. CASE \E r \in {"list", "no cursor", "repeated cursor"} : StopWith(r)
    <2>1. PICK r \in {"list", "no cursor", "repeated cursor"} : StopWith(r)
        BY <1>6
    <2>2. /\ pc' = "returned" /\ result' = r /\ r \in Results
          /\ UNCHANGED <<page, cursor, seenCursors, retries>>
        BY <2>1, ResultsOfMerge DEF StopWith, Return
    <2>3. TypeOK'
        BY <1>1, <1>2, <1>3, <1>4, <1>5, <2>2 DEF TypeOK
    <2>4. PagesAreCounted'
        BY <1>1, <2>2 DEF PagesAreCounted, PagesAreBounded
    <2> QED BY <1>2, <1>3, <1>5, <2>2, <2>3, <2>4 DEF ResultMeansReturned, BudgetIsKept
<1>7. CASE c # 0 /\ c \notin seenCursors /\ GoOnAfter(c)
    <2>1. /\ c \in Items /\ c \in 0..LastItem
          /\ seenCursors' = seenCursors \cup {c} /\ cursor' = c /\ page' = page + 1 /\ retries' = 0
          /\ pc' = pc /\ result' = result
        BY <1>7, LastItemAssumption DEF GoOnAfter, Items
    <2>2. TypeOK'
        <3>1. seenCursors \in SUBSET Items /\ page \in Nat \ {0}
            BY <1>1 DEF TypeOK
        <3>2. seenCursors' \in SUBSET Items /\ page' \in Nat \ {0} /\ cursor' \in 0..LastItem /\ retries' \in Nat
            BY <2>1, <3>1
        <3> QED BY <1>1, <1>2, <1>3, <1>4, <1>5, <2>1, <3>2 DEF TypeOK
    <2>3. IsFiniteSet(seenCursors) /\ Cardinality(seenCursors) = page - 1 /\ page \in Nat
        BY <1>1 DEF PagesAreCounted, PagesAreBounded, TypeOK
    <2>4. IsFiniteSet(seenCursors') /\ Cardinality(seenCursors') = Cardinality(seenCursors) + 1
        BY <1>7, <2>1, <2>3, FS_AddElement
    <2>5. PagesAreCounted'
        BY <1>2, <2>1, <2>3, <2>4, MaxPagesAssumption DEF PagesAreCounted, PagesAreBounded
    <2> QED BY <1>1, <1>2, <1>3, <1>5, <2>1, <2>2, <2>5 DEF ResultMeansReturned, BudgetIsKept
<1> QED BY <1>6, <1>7 DEF MergePage

\* A page of a sound API extends the list to its own end.
LEMMA SoundMergeInvariant ==
    ASSUME IInv, sound, NEW bytes \in PageBytes, NEW end \in Items, end > cursor, NEW hasMore \in BOOLEAN,
           hasMore <=> Beyond(end) # {}, NEW c \in {0} \cup Items, NEW last \in {0} \cup Items,
           IsLast(last, Between(end)), c \in {end, last},
           MergePage(bytes, Between(end), hasMore, c)
    PROVE  ListedUpToCursor' /\ CursorIsNewest' /\ ListIsComplete' /\ SoundCursorsPass'
<1>1. TypeOK /\ CollectionHistory /\ ListedUpToCursor /\ CursorIsNewest /\ ResultMeansReturned
    BY DEF IInv
<1>2. cursor \in Int /\ end \in Int /\ c \in Int /\ \A i \in Items : i \in Int
    BY <1>1, LastItemAssumption DEF TypeOK, Items
<1>3. pc = "request" /\ UNCHANGED <<sound, collection>>
    BY DEF MergePage, Requesting
<1>4. \A i \in Items :
          /\ i <= end /\ i \in stable => times'[i] = 1
          /\ times'[i] = 0 \/ (times'[i] = 1 /\ i <= end /\ i \in ever)
    <2> SUFFICES ASSUME NEW i \in Items
                 PROVE  /\ i <= end /\ i \in stable => times'[i] = 1
                        /\ times'[i] = 0 \/ (times'[i] = 1 /\ i <= end /\ i \in ever)
        OBVIOUS
    <2>1. times'[i] = IF i \in Between(end) THEN times[i] + 1 ELSE times[i]
        BY DEF MergePage
    <2>2. /\ i <= cursor /\ i \in stable => times[i] = 1
          /\ times[i] = 0 \/ (times[i] = 1 /\ i <= cursor /\ i \in ever)
        BY <1>1, <1>3 DEF ListedUpToCursor
    <2> QED BY <1>1, <1>2, <2>1, <2>2 DEF Between, CollectionHistory
<1>5. CASE ~hasMore
    <2>1. \A i \in Items : i \in stable => i <= end
        <3>1. stable \subseteq present /\ Beyond(end) = {}
            BY <1>1, <1>5 DEF CollectionHistory
        <3> QED BY <1>2, <3>1 DEF Beyond
    <2>2. pc' = "returned" /\ result' = "list" /\ UNCHANGED <<cursor, seenCursors>>
        BY <1>5 DEF MergePage, StopWith, Return
    <2>3. ListIsComplete'
        <3> SUFFICES ASSUME NEW i \in Items
                     PROVE  /\ i \in stable => times'[i] = 1
                            /\ times'[i] <= 1
                            /\ times'[i] = 1 => i \in ever
            BY <1>3 DEF ListIsComplete, collection
        <3> QED BY <1>4, <2>1
    <2> QED BY <1>1, <1>3, <2>2, <2>3 DEF ListedUpToCursor, CursorIsNewest, SoundCursorsPass
<1>6. CASE hasMore /\ c = 0
    <2>1. c \notin seenCursors
        BY <1>1, <1>6, LastItemAssumption DEF TypeOK, Items
    <2>2. pc' = "returned" /\ result' = "no cursor" /\ UNCHANGED <<cursor, seenCursors>>
        BY <1>6, <2>1 DEF MergePage, StopWith, Return
    <2> QED BY <1>1, <1>3, <2>2 DEF ListedUpToCursor, CursorIsNewest, ListIsComplete, SoundCursorsPass
<1>7. CASE hasMore /\ c # 0
    <2>1. c > cursor /\ \A i \in Between(end) : i <= c
        BY <1>2, <1>7 DEF IsLast, Between
    <2>2. c \notin seenCursors /\ GoOnAfter(c)
        <3>1. c \notin seenCursors
            BY <1>1, <1>2, <2>1 DEF CursorIsNewest, TypeOK
        <3> QED BY <1>7, <3>1 DEF MergePage
    <2>3. c <= end
        BY <1>2, <1>7 DEF IsLast, Between
    <2>4. ListedUpToCursor'
        <3> SUFFICES ASSUME NEW i \in Items
                     PROVE  /\ i <= c /\ i \in stable => times'[i] = 1
                            /\ times'[i] = 0 \/ (times'[i] = 1 /\ i <= c /\ i \in ever)
            BY <1>3, <2>2 DEF ListedUpToCursor, GoOnAfter, collection
        <3>1. times'[i] = 1 => i <= c
            <4>1. times'[i] = IF i \in Between(end) THEN times[i] + 1 ELSE times[i]
                BY DEF MergePage
            <4>2. times[i] = 0 \/ i <= cursor
                BY <1>1, <1>3 DEF ListedUpToCursor
            <4> QED BY <1>2, <2>1, <4>1, <4>2
        <3> QED BY <1>2, <1>4, <2>3, <3>1
    <2>5. CursorIsNewest'
        BY <1>1, <1>2, <2>1, <2>2 DEF CursorIsNewest, GoOnAfter, TypeOK
    <2> QED BY <1>1, <1>3, <2>2, <2>4, <2>5 DEF GoOnAfter, ListIsComplete, SoundCursorsPass, ResultMeansReturned
<1> QED BY <1>5, <1>6, <1>7

LEMMA NextInvariant == IInv /\ [Next]_vars => IInv'
<1> SUFFICES ASSUME IInv, [Next]_vars PROVE IInv'
    OBVIOUS
<1> USE DEF collection, loop
<1>1. ASSUME NEW i \in Items, Add(i) PROVE IInv'
    BY <1>1 DEF Add, IInv, TypeOK, CollectionHistory, ListedUpToCursor, CursorIsNewest, ResultMeansReturned,
       ListIsComplete, SoundCursorsPass, BudgetIsKept, PagesAreCounted, PagesAreBounded
<1>2. ASSUME NEW i \in Items, Remove(i) PROVE IInv'
    BY <1>2 DEF Remove, IInv, TypeOK, CollectionHistory, ListedUpToCursor, CursorIsNewest, ResultMeansReturned,
       ListIsComplete, SoundCursorsPass, BudgetIsKept, PagesAreCounted, PagesAreBounded
<1>3. TypeOK /\ remaining \in Int /\ remaining >= 0
    BY DEF IInv, TypeOK, BudgetIsKept
<1>4. ASSUME NEW used \in Nat, used <= remaining, remaining' = remaining - used, retries' \in Nat,
             UNCHANGED <<sound, collection, loop>>,
             \/ UNCHANGED <<pc, result>>
             \/ \E r \in {"request error", "oversize", "malformed", "too many pages"} : Return(r)
      PROVE  IInv'
    <2>1. remaining' \in Int /\ remaining' >= 0
        <3>1. used \in Nat /\ used <= remaining /\ remaining' = remaining - used
            BY <1>4
        <3>2. remaining \in Int
            BY <1>3
        <3> QED BY <3>1, <3>2
    <2>2. CollectionHistory' /\ CursorIsNewest' /\ BudgetIsKept' /\ PagesAreCounted'
        BY <1>4, <2>1 DEF IInv, CollectionHistory, CursorIsNewest, BudgetIsKept, PagesAreCounted, PagesAreBounded
    <2>3. CASE UNCHANGED <<pc, result>>
        <3>1. TypeOK'
            BY <1>3, <1>4, <2>1, <2>3 DEF TypeOK
        <3>2. ListedUpToCursor' /\ ResultMeansReturned' /\ ListIsComplete' /\ SoundCursorsPass'
            BY <1>4, <2>3 DEF IInv, ListedUpToCursor, ResultMeansReturned, ListIsComplete, SoundCursorsPass
        <3> QED BY <2>2, <3>1, <3>2 DEF IInv
    <2>4. ASSUME NEW r \in {"request error", "oversize", "malformed", "too many pages"}, Return(r) PROVE IInv'
        <3>1. pc' = "returned" /\ result' = r /\ r \in Results /\ r # "list" /\ r # "repeated cursor"
            BY <2>4 DEF Return, Results
        <3>2. TypeOK'
            BY <1>3, <1>4, <2>1, <3>1 DEF TypeOK
        <3>3. ListedUpToCursor' /\ ResultMeansReturned' /\ ListIsComplete' /\ SoundCursorsPass'
            BY <3>1 DEF ListedUpToCursor, ResultMeansReturned, ListIsComplete, SoundCursorsPass
        <3> QED BY <2>2, <3>2, <3>3 DEF IInv
    <2> QED BY <1>4, <2>3, <2>4
<1>5. CASE RefusePage \/ RequestFails
    <2>1. \E r \in {"request error", "oversize", "malformed", "too many pages"} : Return(r)
        BY <1>5 DEF RefusePage, RequestFails
    <2>2. remaining' = remaining /\ retries' = retries /\ UNCHANGED <<sound, collection, loop>>
        BY <1>5 DEF RefusePage, RequestFails
    <2>3. remaining' = remaining - 0 /\ 0 <= remaining /\ 0 \in Nat /\ retries' \in Nat
        BY <1>3, <2>2 DEF TypeOK
    <2> QED BY <1>4, <2>1, <2>2, <2>3
<1>6. ASSUME NEW bytes \in PageBytes, PageTooLarge(bytes) PROVE IInv'
    <2>1. Return("oversize") /\ remaining' = remaining /\ retries' = retries /\ UNCHANGED <<sound, collection, loop>>
        BY <1>6 DEF PageTooLarge
    <2>2. remaining' = remaining - 0 /\ 0 <= remaining /\ 0 \in Nat /\ retries' \in Nat
        BY <1>3, <2>1 DEF TypeOK
    <2> QED BY <1>4, <2>1, <2>2
<1>7. ASSUME NEW bytes \in PageBytes, MalformedPage(bytes) PROVE IInv'
    <2>1. /\ Return("malformed") /\ bytes <= PageLimit /\ remaining' = remaining - bytes /\ retries' = retries
          /\ UNCHANGED <<sound, collection, loop>>
        BY <1>7 DEF MalformedPage
    <2>2. bytes \in Nat /\ retries' \in Nat
        BY <1>3, <2>1, BytesAssumption DEF TypeOK
    <2>3. bytes <= remaining
        BY <1>3, <2>1, <2>2, PageLimitBounds
    <2> QED BY <1>4, <2>1, <2>2, <2>3
<1>8. ASSUME NEW used \in Nat, RetryPage(used) PROVE IInv'
    <2>1. /\ used <= PageLimit /\ retries' = retries + 1 /\ remaining' = remaining - used
          /\ UNCHANGED <<sound, collection, loop>> /\ UNCHANGED <<pc, result>>
        BY <1>8 DEF RetryPage
    <2>2. used <= remaining
        BY <1>3, <2>1, PageLimitBounds
    <2>3. retries' \in Nat
        BY <1>3, <2>1 DEF TypeOK
    <2> QED BY <1>4, <2>1, <2>2, <2>3
<1>9. ASSUME NEW bytes \in PageBytes, SoundPage(bytes) PROVE IInv'
    <2>1. PICK end \in (cursor + 1)..LastItem, next \in {0} \cup Items, last \in {0} \cup Items :
              /\ next \in {0, end}
              /\ IsLast(last, Between(end))
              /\ MergePage(bytes, Between(end), Beyond(end) # {}, NextPageCursor(next, last))
        BY <1>9 DEF SoundPage
    <2>2. end \in Items /\ end > cursor /\ Between(end) \in SUBSET Items
        <3>1. cursor \in Nat
            BY <1>3, LastItemAssumption DEF TypeOK
        <3>2. present \in SUBSET Items
            BY <1>3 DEF TypeOK
        <3>3. end \in Items /\ end > cursor
            BY <3>1, LastItemAssumption DEF Items
        <3> QED BY <3>2, <3>3 DEF Between
    <2>3. NextPageCursor(next, last) \in {0} \cup Items /\ NextPageCursor(next, last) \in {end, last}
        BY <2>1 DEF NextPageCursor
    <2>4. sound
        BY <1>9 DEF SoundPage
    <2>5. /\ TypeOK' /\ CollectionHistory' /\ ResultMeansReturned' /\ BudgetIsKept' /\ PagesAreCounted'
        BY <2>1, <2>2, <2>3, MergeInvariant
    <2>6. ListedUpToCursor' /\ CursorIsNewest' /\ ListIsComplete' /\ SoundCursorsPass'
        BY <2>1, <2>2, <2>3, <2>4, SoundMergeInvariant
    <2> QED BY <2>5, <2>6 DEF IInv
<1>10. ASSUME NEW bytes \in PageBytes, AnyPage(bytes) PROVE IInv'
    <2>1. PICK items \in SUBSET Items, hasMore \in BOOLEAN, c \in {0} \cup Items : MergePage(bytes, items, hasMore, c)
        BY <1>10 DEF AnyPage
    <2>2. /\ TypeOK' /\ CollectionHistory' /\ ResultMeansReturned' /\ BudgetIsKept' /\ PagesAreCounted'
          /\ sound' = sound
        BY <2>1, MergeInvariant
    <2>3. ~sound'
        BY <1>10, <2>2 DEF AnyPage
    <2> QED BY <2>2, <2>3 DEF IInv, ListedUpToCursor, CursorIsNewest, ListIsComplete, SoundCursorsPass
<1>11. CASE UNCHANGED vars
    BY <1>11 DEF vars, IInv, TypeOK, CollectionHistory, ListedUpToCursor, CursorIsNewest, ResultMeansReturned,
       ListIsComplete, SoundCursorsPass, BudgetIsKept, PagesAreCounted, PagesAreBounded
<1> QED BY <1>1, <1>2, <1>5, <1>6, <1>7, <1>8, <1>9, <1>10, <1>11, BytesAssumption DEF Next

\* The conjunction of the parts above is an invariant of the loop.
THEOREM PaginationInvariant == Spec => []IInv
BY InitInvariant, NextInvariant, PTL DEF Spec

\* Every variable of the loop keeps its type.
THEOREM PaginationTypes == Spec => []TypeOK
<1>1. IInv => TypeOK
    BY DEF IInv
<1> QED BY <1>1, PaginationInvariant, PTL

\* A list that PaginatedRequest returns for a sound API has every item that was
\* there throughout, once, and no item that never was.
THEOREM ListsAreComplete == Spec => []ListIsComplete
<1>1. IInv => ListIsComplete
    BY DEF IInv
<1> QED BY <1>1, PaginationInvariant, PTL

\* A sound API never trips the check for repeated cursors.
THEOREM SoundCursorsAreAccepted == Spec => []SoundCursorsPass
<1>1. IInv => SoundCursorsPass
    BY DEF IInv
<1> QED BY <1>1, PaginationInvariant, PTL

\* The response budget is never overdrawn.
THEOREM BudgetIsNeverOverdrawn == Spec => []BudgetIsKept
<1>1. IInv => BudgetIsKept
    BY DEF IInv
<1> QED BY <1>1, PaginationInvariant, PTL

\* The loop asks for at most maxPaginatedPages pages, each after another cursor.
THEOREM LoopIsBounded == Spec => []PagesAreBounded
<1>1. IInv => PagesAreBounded
    BY DEF IInv, PagesAreCounted
<1> QED BY <1>1, PaginationInvariant, PTL

\* A sound API's lists are read, and read whole.
THEOREM SoundListsAreAlwaysRead == Spec => []SoundListsAreRead
BY ListsAreComplete, SoundCursorsAreAccepted, PTL DEF SoundListsAreRead

\* Bytes and pages are bounded, whatever the API answers.
THEOREM ReadingIsAlwaysBounded == Spec => []ReadingIsBounded
BY BudgetIsNeverOverdrawn, LoopIsBounded, PTL DEF ReadingIsBounded

=============================================================================
