------------------------ MODULE ReadAfterWriteProofs ------------------------
(***************************************************************************)
(* Proofs about the response cache and about its composition with the      *)
(* resources, for every set of callers, writers, keys and entries and      *)
(* every cache size.  IInv is inductive for the cache; its properties      *)
(* follow from it and from the single step that returns a response.  The   *)
(* composition inherits it, because each of its steps is a step of the     *)
(* cache; acknowledged writes are then visible, and the composition        *)
(* implements the register.                                                *)
(***************************************************************************)
EXTENDS ReadAfterWrite, TLAPS


(***************************************************************************)
(* The LRU list                                                            *)
(***************************************************************************)

\* The capacity in force is positive whatever the configured one is.
LEMMA CapacityPositive == EffectiveMaxEntries \in Nat /\ EffectiveMaxEntries >= 1
BY MaxEntriesAssumption DEF EffectiveMaxEntries

\* MoveToFront permutes the list (acquire and result).
LEMMA TouchKeepsList ==
    ASSUME position \in [Entries -> Nat], ListIsBounded,
           NEW e \in Entries, position' = Touch(e)
    PROVE  /\ position' \in [Entries -> Nat]
           /\ ListIsBounded'
           /\ \A f \in Entries : position'[f] # 0 <=> position[f] # 0
<1>1. CASE position[e] = 0
    BY <1>1 DEF Touch, ListIsBounded, EffectiveMaxEntries
<1>2. CASE position[e] # 0
    <2> DEFINE P == position[e]
    <2>1. position' = [f \in Entries |-> IF f = e THEN 1
                        ELSE IF position[f] # 0 /\ position[f] < P THEN position[f] + 1 ELSE position[f]]
        BY <1>2 DEF Touch, MoveToFront
    <2>2. P \in Nat /\ P >= 1 /\ P <= EffectiveMaxEntries
        BY <1>2 DEF ListIsBounded
    <2>3. position' \in [Entries -> Nat]
        BY <2>1
    <2>4. \A f \in Entries : position'[f] # 0 <=> position[f] # 0
        BY <2>1, <2>2
    <2>5. \A f \in Entries : position'[f] <= EffectiveMaxEntries
        BY <2>1, <2>2, CapacityPositive DEF ListIsBounded
    <2>6. \A f, g \in Entries : position'[f] = position'[g] /\ position'[f] # 0 => f = g
        BY <2>1, <2>2 DEF ListIsBounded
    <2>7. ASSUME NEW f \in Entries, position'[f] > 1
          PROVE  \E g \in Entries : position'[g] = position'[f] - 1
        <3>1. f # e
            BY <2>7, <2>1
        <3>2. CASE position[f] < P
            <4>1. position'[f] = position[f] + 1 /\ position[f] >= 1
                BY <2>7, <2>1, <3>1, <3>2
            <4>2. CASE position[f] = 1
                BY <4>1, <4>2, <2>1
            <4>3. CASE position[f] > 1
                <5>1. PICK g \in Entries : position[g] = position[f] - 1
                    BY <4>3 DEF ListIsBounded
                <5>2. g # e /\ position'[g] = position[g] + 1
                    BY <5>1, <4>3, <3>2, <2>1
                <5> QED BY <5>1, <5>2, <4>1
            <4> QED BY <4>1, <4>2, <4>3
        <3>3. CASE position[f] >= P
            <4>1. position'[f] = position[f] /\ position[f] > P
                BY <3>1, <3>3, <2>1, <2>2, <1>2 DEF ListIsBounded
            <4>2. PICK g \in Entries : position[g] = position[f] - 1
                BY <4>1, <2>2 DEF ListIsBounded
            <4>3. CASE g # e
                BY <4>1, <4>2, <4>3, <2>1, <2>2
            <4>4. CASE g = e
                <5>1. CASE P = 1
                    BY <5>1, <4>1, <4>2, <4>4, <2>1
                <5>2. CASE P > 1
                    <6>1. PICK h \in Entries : position[h] = P - 1
                        BY <5>2 DEF ListIsBounded
                    <6>2. position'[h] = P
                        BY <6>1, <5>2, <2>1
                    <6> QED BY <6>2, <4>1, <4>2, <4>4
                <5> QED BY <5>1, <5>2, <2>2
            <4> QED BY <4>3, <4>4
        <3> QED BY <3>2, <3>3, <2>2
    <2> QED BY <2>3, <2>4, <2>5, <2>6, <2>7 DEF ListIsBounded, EffectiveMaxEntries
<1> QED BY <1>1, <1>2

\* Removing an element closes the gap it leaves (invalidate).
LEMMA RemoveKeepsList ==
    ASSUME position \in [Entries -> Nat], ListIsBounded,
           NEW e \in Entries, position[e] # 0, position' = RemoveFromList(e)
    PROVE  /\ position' \in [Entries -> Nat]
           /\ ListIsBounded'
           /\ \A f \in Entries : position'[f] # 0 <=> position[f] # 0 /\ f # e
<1> DEFINE P == position[e]
<1>1. position' = [f \in Entries |-> IF f = e THEN 0
                     ELSE IF position[f] > P THEN position[f] - 1 ELSE position[f]]
    BY DEF RemoveFromList
<1>2. P \in Nat /\ P >= 1
    OBVIOUS
<1>3. position' \in [Entries -> Nat]
    BY <1>1, <1>2
<1>4. \A f \in Entries : position'[f] # 0 <=> position[f] # 0 /\ f # e
    BY <1>1, <1>2
<1>5. \A f \in Entries : position'[f] <= EffectiveMaxEntries
    BY <1>1, <1>2, CapacityPositive DEF ListIsBounded
<1>6. \A f, g \in Entries : position'[f] = position'[g] /\ position'[f] # 0 => f = g
    BY <1>1, <1>2 DEF ListIsBounded
<1>7. ASSUME NEW f \in Entries, position'[f] > 1
      PROVE  \E g \in Entries : position'[g] = position'[f] - 1
    <2>1. f # e /\ position[f] > 1
        BY <1>7, <1>1, <1>2
    <2>2. PICK g \in Entries : position[g] = position[f] - 1
        BY <2>1 DEF ListIsBounded
    <2>3. CASE g = e
        <3>1. position'[f] = P
            BY <2>1, <2>2, <2>3, <1>1
        <3>2. PICK h \in Entries : position[h] = P - 1
            BY <3>1, <1>7 DEF ListIsBounded
        <3>3. position'[h] = P - 1
            BY <3>2, <1>1, <1>2, <3>1, <1>7
        <3> QED BY <3>1, <3>3
    <2>4. CASE g # e
        <3>1. position[f] # P /\ position[g] # P
            BY <2>1, <2>4, <1>2 DEF ListIsBounded
        <3> QED BY <2>1, <2>2, <2>4, <3>1, <1>1, <1>2
    <2> QED BY <2>3, <2>4
<1> QED BY <1>3, <1>4, <1>5, <1>6, <1>7 DEF ListIsBounded, EffectiveMaxEntries

\* Pushing a new element and dropping what falls off the back keeps the list
\* and keeps the new element in it (finishLoad, evictLocked).
LEMMA PushKeepsList ==
    ASSUME position \in [Entries -> Nat], ListIsBounded,
           NEW e \in Entries, position[e] = 0,
           position' = [f \in Entries |-> IF PushFront(e)[f] > EffectiveMaxEntries THEN 0 ELSE PushFront(e)[f]]
    PROVE  /\ position' \in [Entries -> Nat]
           /\ ListIsBounded'
           /\ \A f \in Entries : position'[f] # 0 <=>
                  (f = e \/ position[f] # 0) /\ ~(PushFront(e)[f] > EffectiveMaxEntries)
           /\ PushFront(e)[e] <= EffectiveMaxEntries
           /\ \A f \in Entries : position[f] = 0 /\ f # e => PushFront(e)[f] = 0
<1>1. position' = [f \in Entries |-> IF f = e THEN 1
                     ELSE IF position[f] # 0 /\ position[f] + 1 <= EffectiveMaxEntries THEN position[f] + 1 ELSE 0]
    BY CapacityPositive DEF PushFront
<1>2. position' \in [Entries -> Nat]
    BY <1>1
<1>3. \A f \in Entries : position'[f] <= EffectiveMaxEntries
    BY <1>1, CapacityPositive
<1>4. \A f, g \in Entries : position'[f] = position'[g] /\ position'[f] # 0 => f = g
    BY <1>1, CapacityPositive DEF ListIsBounded
<1>5. ASSUME NEW f \in Entries, position'[f] > 1
      PROVE  \E g \in Entries : position'[g] = position'[f] - 1
    <2>1. f # e /\ position[f] >= 1 /\ position[f] + 1 <= EffectiveMaxEntries /\ position'[f] = position[f] + 1
        BY <1>5, <1>1, CapacityPositive
    <2>2. CASE position[f] = 1
        BY <2>1, <2>2, <1>1
    <2>3. CASE position[f] > 1
        <3>1. PICK g \in Entries : position[g] = position[f] - 1
            BY <2>3 DEF ListIsBounded
        <3>2. g # e /\ position'[g] = position[g] + 1
            BY <3>1, <2>1, <2>3, <1>1, CapacityPositive
        <3> QED BY <3>1, <3>2, <2>1
    <2> QED BY <2>1, <2>2, <2>3
<1>6. /\ \A f \in Entries : position'[f] # 0 <=>
             (f = e \/ position[f] # 0) /\ ~(PushFront(e)[f] > EffectiveMaxEntries)
      /\ PushFront(e)[e] <= EffectiveMaxEntries
      /\ \A f \in Entries : position[f] = 0 /\ f # e => PushFront(e)[f] = 0
    BY <1>1, CapacityPositive DEF PushFront
<1> QED BY <1>2, <1>3, <1>4, <1>5, <1>6 DEF ListIsBounded, EffectiveMaxEntries

(***************************************************************************)
(* IInv is inductive: one lemma per action                                 *)
(***************************************************************************)

\* The answers the model writes down have the type of an answer.
LEMMA AnswerTypes ==
    /\ NoAnswer \in Answers
    /\ \A v \in Versions : Response(v) \in Answers
    /\ \A e \in {"failed", "ended"} : Error(e) \in Answers
BY MaxVersionAssumption DEF NoAnswer, Answers, Response, Error, Versions

\* What can be read off an answer.
LEMMA AnswerFields ==
    ASSUME NEW a \in Answers
    PROVE  /\ a.response \in Versions
           /\ a.err \in {"nil", "failed", "ended"}
           /\ a.err # "nil" => a = Error(a.err)
           /\ a.err = "nil" => a = Response(a.response)
BY MaxVersionAssumption DEF Answers, Response, Error, Versions

\* A new call changes nothing but its caller's locals.
LEMMA StartGetStep ==
    ASSUME IInv, NEW c \in Callers, NEW k \in Keys, StartGet(c, k)
    PROVE  IInv'
<1> USE DEF IInv, StartGet, cacheVars
<1>1. TypeOK'
    BY AnswerTypes DEF TypeOK, Locations
<1>2. SlotsAreCurrent'
    BY DEF SlotsAreCurrent
<1>3. HoldersMatch'
    BY DEF TypeOK, HoldersMatch, Holding
<1>4. LoadersOwnEntries'
    BY DEF TypeOK, LoadersOwnEntries, Loading
<1>5. UnreadyHasLoader'
    BY DEF TypeOK, UnreadyHasLoader, HasLoader, Loading
<1>6. ListMatchesMap'
    BY DEF ListMatchesMap
<1>7. ListIsBounded'
    BY DEF ListIsBounded, EffectiveMaxEntries
<1>8. LostSuccessIsMarked'
    BY DEF TypeOK, LostSuccessIsMarked, Holding
<1>9. SlotsAreFresh'
    BY DEF TypeOK, SlotsAreFresh
<1>10. EndedBelongsToLoader'
    BY DEF TypeOK, EndedBelongsToLoader
<1>11. OwnCancellationOnly'
    BY DEF TypeOK, OwnCancellationOnly, NoAnswer
<1> QED BY <1>1, <1>2, <1>3, <1>4, <1>5, <1>6, <1>7, <1>8, <1>9, <1>10, <1>11

\* A context may end at any time.
LEMMA EndContextStep ==
    ASSUME IInv, NEW c \in Callers, EndContext(c)
    PROVE  IInv'
<1> USE DEF IInv, EndContext, cacheVars
<1>1. TypeOK'
    BY DEF TypeOK, Locations
<1>2. SlotsAreCurrent'
    BY DEF SlotsAreCurrent
<1>3. HoldersMatch'
    BY DEF TypeOK, HoldersMatch, Holding
<1>4. LoadersOwnEntries'
    BY DEF TypeOK, LoadersOwnEntries, Loading
<1>5. UnreadyHasLoader'
    BY DEF TypeOK, UnreadyHasLoader, HasLoader, Loading
<1>6. ListMatchesMap'
    BY DEF ListMatchesMap
<1>7. ListIsBounded'
    BY DEF ListIsBounded, EffectiveMaxEntries
<1>8. LostSuccessIsMarked'
    BY DEF TypeOK, LostSuccessIsMarked, Holding
<1>9. SlotsAreFresh'
    BY DEF TypeOK, SlotsAreFresh
<1>10. EndedBelongsToLoader'
    BY DEF TypeOK, EndedBelongsToLoader
<1>11. OwnCancellationOnly'
    BY DEF TypeOK, OwnCancellationOnly
<1> QED BY <1>1, <1>2, <1>3, <1>4, <1>5, <1>6, <1>7, <1>8, <1>9, <1>10, <1>11

\* GiveUp and AbandonWait leave the cache alone.
LEMMA ReturnContextErrorStep ==
    ASSUME IInv, NEW c \in Callers, pc[c] \in {"loop", "blocked"}, ReturnContextError(c)
    PROVE  IInv'
<1> USE DEF IInv, ReturnContextError, cacheVars
<1>1. TypeOK'
    BY AnswerTypes DEF TypeOK, Locations
<1>2. SlotsAreCurrent'
    BY DEF SlotsAreCurrent
<1>3. HoldersMatch'
    BY DEF TypeOK, HoldersMatch, Holding
<1>4. LoadersOwnEntries'
    BY DEF TypeOK, LoadersOwnEntries, Loading
<1>5. UnreadyHasLoader'
    BY DEF TypeOK, UnreadyHasLoader, HasLoader, Loading
<1>6. ListMatchesMap'
    BY DEF ListMatchesMap
<1>7. ListIsBounded'
    BY DEF ListIsBounded, EffectiveMaxEntries
<1>8. LostSuccessIsMarked'
    BY DEF TypeOK, LostSuccessIsMarked, Holding
<1>9. SlotsAreFresh'
    BY DEF TypeOK, SlotsAreFresh
<1>10. EndedBelongsToLoader'
    BY DEF TypeOK, EndedBelongsToLoader
<1>11. OwnCancellationOnly'
    BY DEF TypeOK, OwnCancellationOnly, Error
<1> QED BY <1>1, <1>2, <1>3, <1>4, <1>5, <1>6, <1>7, <1>8, <1>9, <1>10, <1>11

\* A load observes the collection as it is now.
LEMMA LoadStep ==
    ASSUME IInv, NEW c \in Callers, Load(c)
    PROVE  IInv'
<1> USE DEF IInv, Load, cacheVars
<1>1. TypeOK'
    BY AnswerTypes DEF TypeOK, Locations
<1>2. SlotsAreCurrent'
    BY DEF SlotsAreCurrent
<1>3. HoldersMatch'
    BY DEF TypeOK, HoldersMatch, Holding
<1>4. LoadersOwnEntries'
    BY DEF TypeOK, LoadersOwnEntries, Loading
<1>5. UnreadyHasLoader'
    BY DEF TypeOK, UnreadyHasLoader, HasLoader, Loading
<1>6. ListMatchesMap'
    BY DEF ListMatchesMap
<1>7. ListIsBounded'
    BY DEF ListIsBounded, EffectiveMaxEntries
<1>8. LostSuccessIsMarked'
    BY DEF TypeOK, LostSuccessIsMarked, Holding
<1>9. SlotsAreFresh'
    BY DEF TypeOK, SlotsAreFresh, LoadersOwnEntries, Loading, Response, Error, Versions
<1>10. EndedBelongsToLoader'
    BY DEF TypeOK, EndedBelongsToLoader, Response, Error
<1>11. OwnCancellationOnly'
    BY DEF TypeOK, OwnCancellationOnly
<1> QED BY <1>1, <1>2, <1>3, <1>4, <1>5, <1>6, <1>7, <1>8, <1>9, <1>10, <1>11

\* A woken waiter holds a published entry.
LEMMA WakeStep ==
    ASSUME IInv, NEW c \in Callers, Wake(c)
    PROVE  IInv'
<1> USE DEF IInv, Wake, cacheVars
<1>1. TypeOK'
    BY DEF TypeOK, Locations
<1>2. SlotsAreCurrent'
    BY DEF SlotsAreCurrent
<1>3. HoldersMatch'
    BY DEF TypeOK, HoldersMatch, Holding
<1>4. LoadersOwnEntries'
    BY DEF TypeOK, LoadersOwnEntries, Loading
<1>5. UnreadyHasLoader'
    BY DEF TypeOK, UnreadyHasLoader, HasLoader, Loading
<1>6. ListMatchesMap'
    BY DEF ListMatchesMap
<1>7. ListIsBounded'
    BY DEF ListIsBounded, EffectiveMaxEntries
<1>8. LostSuccessIsMarked'
    BY DEF TypeOK, LostSuccessIsMarked, Holding
<1>9. SlotsAreFresh'
    BY DEF TypeOK, SlotsAreFresh
<1>10. EndedBelongsToLoader'
    BY DEF TypeOK, EndedBelongsToLoader
<1>11. OwnCancellationOnly'
    BY DEF TypeOK, OwnCancellationOnly
<1> QED BY <1>1, <1>2, <1>3, <1>4, <1>5, <1>6, <1>7, <1>8, <1>9, <1>10, <1>11

\* A retry lets go of the entry.
LEMMA RetryStep ==
    ASSUME IInv, NEW c \in Callers, Retry(c)
    PROVE  IInv'
<1> USE DEF IInv, Retry, cacheVars
<1>1. TypeOK'
    BY DEF TypeOK, Locations
<1>2. SlotsAreCurrent'
    BY DEF SlotsAreCurrent
<1>3. HoldersMatch'
    BY DEF TypeOK, HoldersMatch, Holding
<1>4. LoadersOwnEntries'
    BY DEF TypeOK, LoadersOwnEntries, Loading
<1>5. UnreadyHasLoader'
    BY DEF TypeOK, UnreadyHasLoader, HasLoader, Loading
<1>6. ListMatchesMap'
    BY DEF ListMatchesMap
<1>7. ListIsBounded'
    BY DEF ListIsBounded, EffectiveMaxEntries
<1>8. LostSuccessIsMarked'
    BY DEF TypeOK, LostSuccessIsMarked, Holding
<1>9. SlotsAreFresh'
    BY DEF TypeOK, SlotsAreFresh
<1>10. EndedBelongsToLoader'
    BY DEF TypeOK, EndedBelongsToLoader
<1>11. OwnCancellationOnly'
    BY DEF TypeOK, OwnCancellationOnly
<1> QED BY <1>1, <1>2, <1>3, <1>4, <1>5, <1>6, <1>7, <1>8, <1>9, <1>10, <1>11

\* A newer remote version does not touch what the cache promised.
LEMMA RemoteChangeStep ==
    ASSUME IInv, NEW k \in Keys, RemoteChange(k)
    PROVE  IInv'
<1> USE DEF IInv, RemoteChange, cacheVars, callerVars
<1>a. /\ \A c \in Callers : answer[c].response \in Versions
      /\ \A e \in Entries : heap[e].answer.response \in Versions /\ heap[e].key \in Keys
    BY AnswerFields DEF TypeOK, EntryFields
<1>1. TypeOK'
    BY MaxVersionAssumption DEF TypeOK, Versions
<1>2. SlotsAreCurrent'
    BY DEF SlotsAreCurrent
<1>3. HoldersMatch'
    BY DEF TypeOK, HoldersMatch, Holding
<1>4. LoadersOwnEntries'
    BY DEF TypeOK, LoadersOwnEntries, Loading
<1>5. UnreadyHasLoader'
    BY DEF TypeOK, UnreadyHasLoader, HasLoader, Loading
<1>6. ListMatchesMap'
    BY DEF ListMatchesMap
<1>7. ListIsBounded'
    BY DEF ListIsBounded, EffectiveMaxEntries
<1>8. LostSuccessIsMarked'
    BY DEF TypeOK, LostSuccessIsMarked, Holding
<1>9. SlotsAreFresh'
    BY <1>a DEF TypeOK, SlotsAreFresh, Versions
<1>10. EndedBelongsToLoader'
    BY DEF TypeOK, EndedBelongsToLoader
<1>11. OwnCancellationOnly'
    BY DEF TypeOK, OwnCancellationOnly
<1> QED BY <1>1, <1>2, <1>3, <1>4, <1>5, <1>6, <1>7, <1>8, <1>9, <1>10, <1>11

\* The loader of a new entry is its only holder, and the entry starts out of the list.
LEMMA AcquireNewStep ==
    ASSUME IInv, NEW c \in Callers, AcquireNew(c)
    PROVE  IInv'
<1> USE DEF IInv
<1>0. \E f \in FreeEntries :
        /\ heap' = [heap EXCEPT ![f] = NewEntry(key[c])]
        /\ slot' = [slot EXCEPT ![key[c]] = f]
        /\ entry' = [entry EXCEPT ![c] = f]
    <2> DEFINE f == CHOOSE g \in FreeEntries : TRUE
    <2>1. f \in FreeEntries
        BY DEF AcquireNew
    <2> QED BY <2>1 DEF AcquireNew
<1> PICK e \in FreeEntries :
        /\ heap' = [heap EXCEPT ![e] = NewEntry(key[c])]
        /\ slot' = [slot EXCEPT ![key[c]] = e]
        /\ entry' = [entry EXCEPT ![c] = e]
    BY <1>0
<1>a. /\ pc[c] = "loop" /\ slot[key[c]] = NoEntry
      /\ pc' = [pc EXCEPT ![c] = "loading"]
      /\ joined' = [joined EXCEPT ![c] = FALSE]
      /\ UNCHANGED <<remote, position, key, ctx, answer, floor, seen>>
    BY DEF AcquireNew
<1>b. /\ e \in Entries /\ e # NoEntry /\ \A k \in Keys : slot[k] # e
      /\ \A d \in Callers : entry[d] # e
    BY NoEntryAssumption DEF FreeEntries
<1>c. NewEntry(key[c]) \in EntryFields
    BY AnswerTypes DEF TypeOK, NewEntry, EntryFields
<1>d. /\ \A f \in Entries : f # e => heap'[f] = heap[f]
      /\ heap'[e].key = key[c] /\ ~heap'[e].ready /\ ~heap'[e].invalidated /\ ~heap'[e].evicted
      /\ heap'[e].answer = NoAnswer
    BY <1>b DEF TypeOK, NewEntry
<1>e. \A d \in Callers : pc[d] \in Holding => d # c /\ entry'[d] = entry[d] /\ entry[d] \in Entries /\ entry[d] # e
    BY <1>a, <1>b DEF TypeOK, HoldersMatch, Holding
<1>f. \A k \in Keys : k # key[c] => slot'[k] = slot[k] /\ slot[k] # e
    BY <1>b DEF TypeOK
<1>g. pc'[c] = "loading" /\ entry'[c] = e /\ slot'[key[c]] = e /\ ~joined'[c]
    BY <1>a, <1>b DEF TypeOK
<1>h. \A d \in Callers : d # c => pc'[d] = pc[d] /\ entry'[d] = entry[d] /\ joined'[d] = joined[d]
    BY <1>a DEF TypeOK
<1>1. TypeOK'
    BY <1>a, <1>b, <1>c DEF TypeOK, Locations
<1>2. SlotsAreCurrent'
    BY <1>a, <1>d, <1>f, <1>g DEF TypeOK, SlotsAreCurrent
<1>3. HoldersMatch'
    BY <1>a, <1>b, <1>d, <1>e, <1>g, <1>h DEF HoldersMatch, Holding
<1>4. LoadersOwnEntries'
    <2>1. \A d \in Callers : d # c /\ pc[d] \in Loading => heap'[entry[d]] = heap[entry[d]] /\ heap[entry[d]].key = key[d]
        BY <1>d, <1>e DEF HoldersMatch, Loading, Holding
    <2>2. ASSUME NEW d \in Callers, d # c, pc[d] \in Loading, ~heap[entry[d]].invalidated
          PROVE  slot'[key[d]] = entry[d]
        <3>1. slot[key[d]] = entry[d]
            BY <2>2 DEF LoadersOwnEntries
        <3>2. entry[d] # NoEntry
            BY <2>2, <1>e, NoEntryAssumption DEF Loading, Holding
        <3> QED BY <3>1, <3>2, <1>a, <1>f DEF TypeOK
    <2> QED BY <1>a, <1>b, <1>d, <1>e, <1>g, <1>h, <2>1, <2>2 DEF LoadersOwnEntries, Loading, Holding
<1>5. UnreadyHasLoader'
    <2> DEFINE Loaded(f) == \E d \in Callers : pc'[d] \in Loading /\ entry'[d] = f
    <2>1. Loaded(e)
        BY <1>g DEF Loading
    <2>2. \A f \in Entries : HasLoader(f) => Loaded(f)
        BY <1>a, <1>h DEF HasLoader, Loading
    <2> HIDE DEF Loaded
    <2>3. ASSUME NEW k \in Keys, slot'[k] # NoEntry, ~heap'[slot'[k]].ready
          PROVE  Loaded(slot'[k])
        <3>1. CASE k = key[c]
            BY <3>1, <2>1, <1>g
        <3>2. CASE k # key[c]
            BY <2>3, <3>2, <2>2, <1>d, <1>f DEF TypeOK, UnreadyHasLoader
        <3> QED BY <3>1, <3>2
    <2>4. ASSUME NEW d \in Callers, pc'[d] = "blocked", ~heap'[entry'[d]].ready
          PROVE  Loaded(entry'[d])
        BY <2>4, <1>d, <1>e, <1>g, <1>h, <2>2 DEF UnreadyHasLoader, Holding
    <2>5. \A d \in Callers : pc'[d] = "result" => heap'[entry'[d]].ready
        BY <1>d, <1>e, <1>g, <1>h DEF UnreadyHasLoader, Holding
    <2> QED BY <2>3, <2>4, <2>5 DEF UnreadyHasLoader, HasLoader, Loaded
<1>6. ListMatchesMap'
    <2>1. position[e] = 0
        BY <1>b DEF ListMatchesMap, TypeOK
    <2>2. \A f \in Entries : f # e => ((\E k \in Keys : slot'[k] = f) <=> (\E k \in Keys : slot[k] = f))
        BY <1>a, <1>f, <1>g, NoEntryAssumption
    <2> QED BY <1>a, <1>d, <2>1, <2>2 DEF ListMatchesMap
<1>7. ListIsBounded'
    BY <1>a DEF ListIsBounded, EffectiveMaxEntries
<1>8. LostSuccessIsMarked'
    <2> SUFFICES ASSUME NEW d \in Callers, pc'[d] \in Holding, heap'[entry'[d]].ready,
                        heap'[entry'[d]].answer.err = "nil",
                        ~heap'[entry'[d]].invalidated, ~heap'[entry'[d]].evicted
                 PROVE  slot'[heap'[entry'[d]].key] = entry'[d]
        BY DEF LostSuccessIsMarked
    <2>1. d # c
        BY <1>d, <1>g
    <2>2. pc[d] \in Holding /\ entry'[d] = entry[d] /\ heap'[entry[d]] = heap[entry[d]]
          /\ heap[entry[d]].key = key[d]
        BY <2>1, <1>d, <1>e, <1>h DEF HoldersMatch
    <2>3. slot[key[d]] = entry[d]
        BY <2>2 DEF LostSuccessIsMarked
    <2>4. entry[d] # NoEntry
        BY <2>2, <1>e, NoEntryAssumption
    <2> QED BY <2>2, <2>3, <2>4, <1>a, <1>f DEF TypeOK
<1>9. SlotsAreFresh'
    <2>1. \A k \in Keys : slot'[k] # NoEntry /\ heap'[slot'[k]].ready => slot'[k] = slot[k] /\ heap'[slot'[k]] = heap[slot[k]]
        BY <1>d, <1>f, <1>g DEF TypeOK
    <2>2. \A d \in Callers : pc'[d] = "publishing" => pc[d] = "publishing" /\ entry'[d] = entry[d] /\ entry[d] # e
        BY <1>e, <1>g, <1>h DEF Holding
    <2>3. \A d \in Callers : pc'[d] = "publishing" /\ slot'[key[d]] = entry[d] => slot[key[d]] = entry[d]
        BY <2>2, <1>f, <1>g DEF TypeOK
    <2> QED BY <2>1, <2>2, <2>3, <1>a, <1>d DEF SlotsAreFresh
<1>10. EndedBelongsToLoader'
    <2>1. \A d \in Callers : pc'[d] \in {"publishing", "blocked", "result"} =>
              d # c /\ pc[d] = pc'[d] /\ joined'[d] = joined[d] /\ entry'[d] = entry[d] /\ heap'[entry[d]] = heap[entry[d]]
        BY <1>d, <1>e, <1>g, <1>h DEF Holding
    <2> QED BY <2>1, <1>a, <1>d DEF EndedBelongsToLoader, NoAnswer
<1>11. OwnCancellationOnly'
    BY <1>a, <1>g, <1>h DEF OwnCancellationOnly
<1> QED BY <1>1, <1>2, <1>3, <1>4, <1>5, <1>6, <1>7, <1>8, <1>9, <1>10, <1>11

\* Joining an entry only reorders the list.
LEMMA AcquireExistingStep ==
    ASSUME IInv, NEW c \in Callers, AcquireExisting(c)
    PROVE  IInv'
<1> USE DEF IInv
<1> DEFINE e == slot[key[c]]
<1>a. /\ pc[c] = "loop" /\ e # NoEntry /\ e \in Entries
      /\ entry' = [entry EXCEPT ![c] = e]
      /\ position' = Touch(e)
      /\ pc' = [pc EXCEPT ![c] = IF heap[e].ready THEN "result" ELSE "blocked"]
      /\ joined' = [joined EXCEPT ![c] = TRUE]
      /\ UNCHANGED <<remote, slot, heap, key, ctx, answer, floor, seen>>
    BY DEF AcquireExisting, TypeOK
<1>b. /\ position' \in [Entries -> Nat]
      /\ ListIsBounded'
      /\ \A f \in Entries : position'[f] # 0 <=> position[f] # 0
    BY <1>a, TouchKeepsList DEF TypeOK
<1>c. heap[e].key = key[c] /\ ~heap[e].invalidated /\ ~heap[e].evicted
    BY <1>a DEF SlotsAreCurrent, TypeOK
<1>d. /\ entry'[c] = e /\ joined'[c] /\ pc'[c] = IF heap[e].ready THEN "result" ELSE "blocked"
      /\ \A d \in Callers : d # c => pc'[d] = pc[d] /\ entry'[d] = entry[d] /\ joined'[d] = joined[d]
    BY <1>a DEF TypeOK
<1>1. TypeOK'
    BY <1>a, <1>b DEF TypeOK, Locations
<1>2. SlotsAreCurrent'
    BY <1>a DEF SlotsAreCurrent
<1>3. HoldersMatch'
    BY <1>a, <1>c, <1>d DEF HoldersMatch, Holding
<1>4. LoadersOwnEntries'
    BY <1>a, <1>d DEF LoadersOwnEntries, Loading
<1>5. UnreadyHasLoader'
    <2>1. \A f \in Entries : HasLoader(f) => HasLoader(f)'
        BY <1>a, <1>d DEF HasLoader, Loading
    <2>2. ~heap[e].ready => HasLoader(e)'
        BY <1>a, <2>1 DEF UnreadyHasLoader, TypeOK
    <2>3. \A d \in Callers : d # c /\ pc[d] = "blocked" => entry[d] \in Entries
        BY DEF HoldersMatch, Holding
    <2> QED BY <1>a, <1>d, <2>1, <2>2, <2>3 DEF UnreadyHasLoader, TypeOK
<1>6. ListMatchesMap'
    BY <1>a, <1>b DEF ListMatchesMap
<1>7. ListIsBounded'
    BY <1>b
<1>8. LostSuccessIsMarked'
    BY <1>a, <1>c, <1>d DEF LostSuccessIsMarked, Holding
<1>9. SlotsAreFresh'
    BY <1>a, <1>d DEF SlotsAreFresh
<1>10. EndedBelongsToLoader'
    BY <1>a, <1>d DEF EndedBelongsToLoader
<1>11. OwnCancellationOnly'
    BY <1>a, <1>d DEF OwnCancellationOnly
<1> QED BY <1>1, <1>2, <1>3, <1>4, <1>5, <1>6, <1>7, <1>8, <1>9, <1>10, <1>11

\* What result hands out is, for a success, what the map still holds.
LEMMA ReturnedSuccessIsCurrent ==
    ASSUME IInv, NEW c \in Callers, pc[c] = "result", ~MustRetry(c), heap[entry[c]].answer.err = "nil"
    PROVE  /\ slot[key[c]] = entry[c]
           /\ entry[c] # NoEntry
           /\ heap[entry[c]].answer.response >= floor[key[c]]
           /\ heap[entry[c]].answer.response >= seen[key[c]]
           /\ heap[entry[c]].answer.response <= remote[key[c]]
<1> USE DEF IInv
<1>1. entry[c] \in Entries /\ heap[entry[c]].key = key[c] /\ heap[entry[c]].ready
    BY DEF HoldersMatch, Holding, UnreadyHasLoader
<1>2. slot[key[c]] = entry[c]
    BY <1>1 DEF LostSuccessIsMarked, Holding, MustRetry
<1> QED BY <1>1, <1>2, NoEntryAssumption DEF SlotsAreFresh, TypeOK

\* Handing out an outcome reorders the list and records what was seen.
LEMMA ReturnStep ==
    ASSUME IInv, NEW c \in Callers, Return(c)
    PROVE  IInv'
<1> USE DEF IInv
<1> DEFINE e == entry[c]
           h == heap[e]
<1>a. /\ pc[c] = "result" /\ ~MustRetry(c)
      /\ position' = Touch(e)
      /\ answer' = [answer EXCEPT ![c] = h.answer]
      /\ seen' = IF h.answer.err = "nil" THEN [seen EXCEPT ![key[c]] = Newer(@, h.answer.response)] ELSE seen
      /\ pc' = [pc EXCEPT ![c] = "returned"]
      /\ entry' = [entry EXCEPT ![c] = NoEntry]
      /\ UNCHANGED <<remote, slot, heap, key, joined, ctx, floor>>
    BY DEF Return
<1>b. e \in Entries /\ h.key = key[c] /\ h.ready /\ h \in EntryFields
    BY <1>a DEF HoldersMatch, Holding, UnreadyHasLoader, TypeOK
<1>c. /\ position' \in [Entries -> Nat]
      /\ ListIsBounded'
      /\ \A f \in Entries : position'[f] # 0 <=> position[f] # 0
    BY <1>a, <1>b, TouchKeepsList DEF TypeOK
<1>d. /\ entry'[c] = NoEntry /\ pc'[c] = "returned" /\ answer'[c] = h.answer
      /\ \A d \in Callers : d # c => pc'[d] = pc[d] /\ entry'[d] = entry[d] /\ answer'[d] = answer[d]
    BY <1>a DEF TypeOK
<1>e. h.answer \in Answers /\ h.answer.response \in Versions
    BY <1>b, AnswerFields DEF EntryFields
<1>f. seen' \in [Keys -> Versions]
    BY <1>a, <1>e DEF TypeOK, Newer
<1>g. \A k \in Keys : seen'[k] # seen[k] => k = key[c] /\ h.answer.err = "nil" /\ seen'[k] = h.answer.response
    BY <1>a DEF TypeOK, Newer
<1>1. TypeOK'
    BY <1>a, <1>c, <1>e, <1>f DEF TypeOK, Locations
<1>2. SlotsAreCurrent'
    BY <1>a DEF SlotsAreCurrent
<1>3. HoldersMatch'
    BY <1>a, <1>d DEF HoldersMatch, Holding
<1>4. LoadersOwnEntries'
    BY <1>a, <1>d DEF LoadersOwnEntries, Loading
<1>5. UnreadyHasLoader'
    <2>1. \A f \in Entries : HasLoader(f) => HasLoader(f)'
        BY <1>a, <1>d DEF HasLoader, Loading
    <2>2. \A d \in Callers : pc[d] = "blocked" => entry[d] \in Entries
        BY DEF HoldersMatch, Holding
    <2> QED BY <1>a, <1>d, <2>1, <2>2 DEF UnreadyHasLoader, TypeOK
<1>6. ListMatchesMap'
    BY <1>a, <1>c DEF ListMatchesMap
<1>7. ListIsBounded'
    BY <1>c
<1>8. LostSuccessIsMarked'
    BY <1>a, <1>d DEF LostSuccessIsMarked, Holding
<1>9. SlotsAreFresh'
    <2>1. CASE h.answer.err # "nil"
        BY <1>a, <1>d, <2>1 DEF SlotsAreFresh
    <2>2. CASE h.answer.err = "nil"
        <3>1. slot[key[c]] = e /\ h.answer.response <= remote[key[c]]
            BY <1>a, <2>2, ReturnedSuccessIsCurrent
        <3>2. \A d \in Callers : pc[d] = "publishing" /\ slot[key[d]] = entry[d] => key[d] # key[c]
            BY <1>b, <3>1 DEF LoadersOwnEntries, Loading
        <3>3. \A k \in Keys : seen'[k] <= remote[k]
            BY <1>g, <3>1 DEF SlotsAreFresh
        <3>4. \A k \in Keys : slot[k] # NoEntry /\ heap[slot[k]].ready => heap[slot[k]].answer.response >= seen'[k]
            BY <1>e, <1>g, <3>1 DEF SlotsAreFresh, Versions
        <3>5. \A d \in Callers : pc[d] = "publishing" /\ answer[d].err = "nil" /\ slot[key[d]] = entry[d] =>
                  answer[d].response >= seen'[key[d]]
            BY <1>g, <3>2 DEF SlotsAreFresh, TypeOK
        <3> QED BY <1>a, <1>d, <3>3, <3>4, <3>5 DEF SlotsAreFresh
    <2> QED BY <2>1, <2>2
<1>10. EndedBelongsToLoader'
    BY <1>a, <1>d DEF EndedBelongsToLoader
<1>11. OwnCancellationOnly'
    <2>1. ASSUME h.answer.err = "ended"
          PROVE  ctx[c] = "ended"
        <3>1. h.loaderEnded
            BY <2>1, <1>b DEF EndedBelongsToLoader
        <3>2. CASE joined[c]
            BY <3>1, <3>2, <1>a DEF MustRetry, TypeOK
        <3>3. CASE ~joined[c]
            BY <3>3, <2>1, <1>a DEF EndedBelongsToLoader
        <3> QED BY <3>2, <3>3
    <2> QED BY <2>1, <1>a, <1>d DEF OwnCancellationOnly
<1> QED BY <1>1, <1>2, <1>3, <1>4, <1>5, <1>6, <1>7, <1>8, <1>9, <1>10, <1>11

\* An invalidation takes the entry out of the map and the list and marks it, so
\* that whoever still holds it must retry.
LEMMA InvalidateStep ==
    ASSUME IInv, NEW k \in Keys, Invalidate(k)
    PROVE  IInv'
<1> USE DEF IInv
<1> DEFINE e == slot[k]
<1>a. /\ slot' = [slot EXCEPT ![k] = NoEntry]
      /\ floor' = [floor EXCEPT ![k] = remote[k]]
      /\ UNCHANGED <<remote, pc, key, entry, joined, ctx, answer, seen>>
    BY DEF Invalidate, InvalidateSlot, callerVars
<1>b. slot'[k] = NoEntry /\ \A j \in Keys : j # k => slot'[j] = slot[j]
    BY <1>a DEF TypeOK
<1>c. \A j \in Keys : floor'[j] = IF j = k THEN remote[j] ELSE floor[j]
    BY <1>a DEF TypeOK
<1>d. \A c \in Callers : HasLoader(entry[c]) => HasLoader(entry[c])'
    BY <1>a DEF HasLoader
<1>e. \A f \in Entries : HasLoader(f) => HasLoader(f)'
    BY <1>a DEF HasLoader
<1>1. CASE e = NoEntry
    <2>a. UNCHANGED <<slot, heap, position>>
        BY <1>1, <1>a DEF Invalidate, InvalidateSlot, TypeOK
    <2>b. \A c \in Callers : pc[c] \in Loading => entry[c] # NoEntry
        BY NoEntryAssumption DEF HoldersMatch, Holding, Loading
    <2>1. TypeOK'
        BY <1>a, <2>a DEF TypeOK
    <2>2. SlotsAreFresh'
        <3>1. \A j \in Keys : floor'[j] <= remote[j]
            BY <1>c, MaxVersionAssumption DEF SlotsAreFresh, TypeOK, Versions
        <3>2. \A c \in Callers : pc[c] = "publishing" /\ slot[key[c]] = entry[c] => key[c] # k
            BY <1>1, <2>b DEF Loading
        <3> QED BY <1>1, <1>a, <1>c, <2>a, <3>1, <3>2 DEF SlotsAreFresh, TypeOK
    <2>3. SlotsAreCurrent' /\ HoldersMatch' /\ ListMatchesMap' /\ ListIsBounded'
        BY <1>a, <2>a DEF SlotsAreCurrent, HoldersMatch, ListMatchesMap, ListIsBounded, EffectiveMaxEntries
    <2>4. LoadersOwnEntries' /\ UnreadyHasLoader' /\ LostSuccessIsMarked'
        BY <1>a, <2>a DEF LoadersOwnEntries, UnreadyHasLoader, HasLoader, LostSuccessIsMarked
    <2>5. EndedBelongsToLoader' /\ OwnCancellationOnly'
        BY <1>a, <2>a DEF EndedBelongsToLoader, OwnCancellationOnly
    <2> QED BY <2>1, <2>2, <2>3, <2>4, <2>5
<1>2. CASE e # NoEntry
    <2>a. /\ e \in Entries /\ heap[e].key = k
          /\ heap' = [heap EXCEPT ![e].invalidated = TRUE]
          /\ position' = IF position[e] # 0 THEN RemoveFromList(e) ELSE position
        BY <1>2 DEF Invalidate, InvalidateSlot, SlotsAreCurrent, TypeOK
    <2>b. /\ heap'[e].invalidated /\ heap'[e].key = heap[e].key /\ heap'[e].ready = heap[e].ready
          /\ heap'[e].evicted = heap[e].evicted /\ heap'[e].answer = heap[e].answer
          /\ heap'[e].loaderEnded = heap[e].loaderEnded
          /\ \A f \in Entries : f # e => heap'[f] = heap[f]
        BY <2>a DEF TypeOK, EntryFields
    <2>c. heap' \in [Entries -> EntryFields]
        BY <2>a DEF TypeOK, EntryFields
    <2>d. \A j \in Keys : j # k => slot[j] # e
        BY <1>2, <2>a DEF SlotsAreCurrent
    <2>e. /\ position' \in [Entries -> Nat]
          /\ ListIsBounded'
          /\ \A f \in Entries : position'[f] # 0 <=> position[f] # 0 /\ f # e
        <3>1. CASE position[e] = 0
            BY <3>1, <2>a DEF TypeOK, ListIsBounded, EffectiveMaxEntries
        <3>2. CASE position[e] # 0
            BY <3>2, <2>a, RemoveKeepsList DEF TypeOK
        <3> QED BY <3>1, <3>2
    <2>1. TypeOK'
        BY <1>a, <2>c, <2>e DEF TypeOK
    <2>2. SlotsAreCurrent'
        BY <1>b, <2>b, <2>d DEF SlotsAreCurrent, TypeOK
    <2>3. HoldersMatch'
        BY <1>a, <2>b DEF HoldersMatch
    <2>4. LoadersOwnEntries'
        <3>1. \A c \in Callers : pc[c] \in Loading => entry[c] \in Entries /\ heap[entry[c]].key = key[c]
            BY DEF HoldersMatch, Holding, Loading
        <3>2. ASSUME NEW c \in Callers, pc[c] \in Loading, ~heap'[entry[c]].invalidated
              PROVE  slot'[key[c]] = entry[c]
            <4>1. entry[c] # e /\ ~heap[entry[c]].invalidated
                BY <3>1, <3>2, <2>b
            <4>2. slot[key[c]] = entry[c]
                BY <3>2, <4>1 DEF LoadersOwnEntries
            <4> QED BY <4>1, <4>2, <1>b DEF TypeOK
        <3> QED BY <1>a, <2>b, <3>1, <3>2 DEF LoadersOwnEntries
    <2>5. UnreadyHasLoader'
        <3>1. \A j \in Keys : slot'[j] # NoEntry => slot'[j] = slot[j] /\ slot[j] \in Entries /\ heap'[slot[j]] = heap[slot[j]]
            BY <1>b, <2>b, <2>d DEF TypeOK
        <3>2. \A c \in Callers : pc[c] \in Holding => entry[c] \in Entries /\ heap'[entry[c]].ready = heap[entry[c]].ready
            BY <2>b DEF HoldersMatch
        <3> QED BY <1>a, <1>e, <3>1, <3>2 DEF UnreadyHasLoader, Holding
    <2>6. ListMatchesMap'
        <3>1. \A f \in Entries : f # e => ((\E j \in Keys : slot'[j] = f) <=> (\E j \in Keys : slot[j] = f))
            BY <1>b, NoEntryAssumption
        <3>2. \A j \in Keys : slot'[j] # e
            BY <1>b, <1>2, <2>d
        <3> QED BY <2>b, <2>e, <3>1, <3>2 DEF ListMatchesMap
    <2>7. LostSuccessIsMarked'
        <3>1. \A c \in Callers : pc[c] \in Holding => entry[c] \in Entries /\ heap[entry[c]].key = key[c]
            BY DEF HoldersMatch
        <3>2. ASSUME NEW c \in Callers, pc[c] \in Holding, heap'[entry[c]].ready, heap'[entry[c]].answer.err = "nil",
                     ~heap'[entry[c]].invalidated, ~heap'[entry[c]].evicted
              PROVE  slot'[heap'[entry[c]].key] = entry[c]
            <4>1. entry[c] # e /\ heap'[entry[c]] = heap[entry[c]]
                BY <3>1, <3>2, <2>b
            <4>2. slot[heap[entry[c]].key] = entry[c]
                BY <3>2, <4>1 DEF LostSuccessIsMarked
            <4>3. key[c] # k
                BY <3>1, <3>2, <4>1, <4>2
            <4> QED BY <3>1, <3>2, <4>1, <4>2, <4>3, <1>b DEF TypeOK
        <3> QED BY <1>a, <3>2 DEF LostSuccessIsMarked
    <2>8. SlotsAreFresh'
        <3>1. \A j \in Keys : slot'[j] # NoEntry => j # k /\ slot'[j] = slot[j] /\ slot[j] \in Entries /\ heap'[slot[j]] = heap[slot[j]]
            BY <1>b, <2>b, <2>d DEF TypeOK
        <3>2. \A c \in Callers : pc[c] = "publishing" /\ slot'[key[c]] = entry[c] => key[c] # k /\ slot[key[c]] = entry[c]
            BY <1>b, NoEntryAssumption DEF HoldersMatch, Holding, TypeOK
        <3>3. \A j \in Keys : floor'[j] <= remote[j]
            BY <1>c, MaxVersionAssumption DEF SlotsAreFresh, TypeOK, Versions
        <3>4. \A f \in Entries : /\ heap'[f].ready = heap[f].ready /\ heap'[f].answer = heap[f].answer
                                 /\ heap'[f].key = heap[f].key
            BY <2>b
        <3> QED BY <1>a, <1>c, <3>1, <3>2, <3>3, <3>4 DEF SlotsAreFresh, TypeOK
    <2>9. EndedBelongsToLoader'
        <3>1. \A f \in Entries : heap'[f].answer = heap[f].answer /\ heap'[f].loaderEnded = heap[f].loaderEnded
            BY <2>b
        <3> QED BY <1>a, <3>1 DEF EndedBelongsToLoader, HoldersMatch, Holding
    <2>10. OwnCancellationOnly'
        BY <1>a DEF OwnCancellationOnly
    <2> QED BY <2>1, <2>2, <2>3, <2>4, <2>5, <2>6, <2>7, <2>8, <2>9, <2>10, <2>e
<1> QED BY <1>1, <1>2

\* finishLoad publishes the entry, keeps it only if it is a success that is
\* still in the map, and evicts from the back of the list.
LEMMA FinishLoadStep ==
    ASSUME IInv, NEW c \in Callers, FinishLoad(c)
    PROVE  IInv'
<1> USE DEF IInv
<1> DEFINE e == entry[c]
           keep == slot[heap[e].key] = e /\ answer[c].err = "nil" /\ ~heap[e].invalidated
           pushed == IF keep THEN PushFront(e) ELSE position
           victims == {f \in Entries : pushed[f] > EffectiveMaxEntries}
           published == [heap[e] EXCEPT !.ready = TRUE, !.answer = answer[c],
                                        !.loaderEnded = answer[c].err = "ended"]
<1>a. /\ pc[c] = "publishing"
      /\ pc' = [pc EXCEPT ![c] = "result"]
      /\ UNCHANGED <<remote, key, entry, joined, ctx, answer, floor, seen>>
      /\ position' = [f \in Entries |-> IF f \in victims THEN 0 ELSE pushed[f]]
      /\ heap' = [f \in Entries |-> IF f = e THEN published
                                    ELSE IF f \in victims THEN [heap[f] EXCEPT !.evicted = TRUE]
                                    ELSE heap[f]]
      /\ slot' = [k \in Keys |-> IF slot[k] \in victims \/ (slot[k] = e /\ ~keep) THEN NoEntry ELSE slot[k]]
    BY DEF FinishLoad
<1>b. /\ e \in Entries /\ heap[e].key = key[c] /\ ~joined[c]
      /\ ~heap[e].ready /\ ~heap[e].evicted
      /\ \A d \in Callers : pc[d] \in Loading /\ entry[d] = e => d = c
      /\ ~heap[e].invalidated => slot[key[c]] = e
    BY <1>a DEF HoldersMatch, Holding, LoadersOwnEntries, Loading
<1>c. position[e] = 0
    BY <1>b DEF ListMatchesMap, TypeOK
<1>d. \A f \in victims : keep /\ f \in Entries /\ f # e /\ position[f] # 0
    <2>1. CASE ~keep
        BY <2>1, CapacityPositive DEF ListIsBounded, TypeOK
    <2>2. CASE keep
        <3>1. pushed = PushFront(e)
            BY <2>2
        <3> HIDE DEF keep, pushed
        <3>2. PushFront(e)[e] = 1 /\ \A f \in Entries : f # e /\ position[f] = 0 => PushFront(e)[f] = 0
            BY <1>b DEF PushFront
        <3> QED BY <2>2, <3>1, <3>2, CapacityPositive
    <2> QED BY <2>1, <2>2
<1>e. /\ position' \in [Entries -> Nat]
      /\ ListIsBounded'
      /\ \A f \in Entries : position'[f] # 0 <=> (position[f] # 0 \/ (f = e /\ keep)) /\ f \notin victims
    <2>1. CASE ~keep
        <3>1. victims = {} /\ pushed = position
            BY <2>1, <1>d
        <3>2. position' = position
            BY <1>a, <3>1 DEF TypeOK
        <3> HIDE DEF keep, pushed, victims
        <3> QED BY <2>1, <3>1, <3>2 DEF TypeOK, ListIsBounded, EffectiveMaxEntries
    <2>2. CASE keep
        <3>1. position' = [f \in Entries |-> IF PushFront(e)[f] > EffectiveMaxEntries THEN 0 ELSE PushFront(e)[f]]
            BY <2>2, <1>a
        <3>2. \A f \in Entries : f \in victims <=> PushFront(e)[f] > EffectiveMaxEntries
            BY <2>2
        <3> HIDE DEF keep, pushed, victims, e
        <3>3. e \in Entries /\ position[e] = 0 /\ position \in [Entries -> Nat] /\ ListIsBounded
            BY <1>b, <1>c DEF TypeOK
        <3>4. /\ position' \in [Entries -> Nat]
              /\ ListIsBounded'
              /\ \A f \in Entries : position'[f] # 0 <=>
                     (f = e \/ position[f] # 0) /\ ~(PushFront(e)[f] > EffectiveMaxEntries)
            BY <3>1, <3>3, PushKeepsList
        <3> QED BY <2>2, <3>2, <3>4
    <2> QED BY <2>1, <2>2
<1> HIDE DEF pushed, victims
<1>f. heap[e] \in EntryFields /\ answer[c] \in Answers
    BY <1>b DEF TypeOK
<1>g. /\ heap'[e].ready /\ heap'[e].answer = answer[c] /\ heap'[e].key = heap[e].key
      /\ heap'[e].invalidated = heap[e].invalidated /\ ~heap'[e].evicted
      /\ heap'[e].loaderEnded = (answer[c].err = "ended")
      /\ heap'[e] \in EntryFields
    BY <1>a, <1>b, <1>f DEF EntryFields
<1>h. \A f \in Entries : f # e =>
          /\ heap'[f].key = heap[f].key /\ heap'[f].ready = heap[f].ready /\ heap'[f].answer = heap[f].answer
          /\ heap'[f].invalidated = heap[f].invalidated /\ heap'[f].loaderEnded = heap[f].loaderEnded
          /\ heap'[f].evicted = (heap[f].evicted \/ f \in victims)
          /\ heap'[f] \in EntryFields
    BY <1>a DEF TypeOK, EntryFields
<1>i. \A f \in Entries : heap'[f].key = heap[f].key /\ heap'[f].invalidated = heap[f].invalidated
    BY <1>g, <1>h
<1>j. /\ pc'[c] = "result"
      /\ \A d \in Callers : d # c => pc'[d] = pc[d]
    BY <1>a DEF TypeOK
<1>k. \A f \in Entries : f # e /\ HasLoader(f) => \E d \in Callers : pc'[d] \in Loading /\ entry[d] = f
    BY <1>a, <1>j DEF HasLoader
<1>l. \A k \in Keys : slot'[k] = IF slot[k] \in victims \/ (slot[k] = e /\ ~keep) THEN NoEntry ELSE slot[k]
    BY <1>a DEF TypeOK
<1> HIDE DEF keep, published
<1>m. \A d \in Callers : pc[d] \in Holding => entry[d] \in Entries /\ heap[entry[d]].key = key[d]
    BY DEF HoldersMatch
<1>n. \A f \in victims : heap[f].ready /\ heap[f].answer.err = "nil"
    BY <1>d DEF ListMatchesMap
<1>o. keep => answer[c].err = "nil" /\ slot[key[c]] = e /\ ~heap[e].invalidated
    BY <1>b DEF keep
<1> HIDE DEF e
<1>1. TypeOK'
    <2>1. heap' \in [Entries -> EntryFields]
        BY <1>a, <1>g, <1>h
    <2>2. slot' \in [Keys -> Entries \cup {NoEntry}]
        BY <1>a DEF TypeOK
    <2> QED BY <1>a, <1>e, <2>1, <2>2 DEF TypeOK, Locations
<1>2. SlotsAreCurrent'
    <2> SUFFICES ASSUME NEW k \in Keys, slot'[k] # NoEntry
                 PROVE  heap'[slot'[k]].key = k /\ ~heap'[slot'[k]].invalidated /\ ~heap'[slot'[k]].evicted
        BY DEF SlotsAreCurrent
    <2>1. slot'[k] = slot[k] /\ slot[k] \notin victims /\ slot[k] \in Entries
        BY <1>l DEF TypeOK
    <2> QED BY <2>1, <1>g, <1>h, <1>i DEF SlotsAreCurrent
<1>3. HoldersMatch'
    BY <1>a, <1>i, <1>j, <1>m DEF HoldersMatch, Holding
<1>4. LoadersOwnEntries'
    <2> SUFFICES ASSUME NEW d \in Callers, pc'[d] \in Loading
                 PROVE  /\ ~joined[d] /\ ~heap'[entry[d]].ready /\ ~heap'[entry[d]].evicted
                        /\ ~heap'[entry[d]].invalidated => slot'[key[d]] = entry[d]
                        /\ \A b \in Callers : pc'[b] \in Loading /\ entry[b] = entry[d] => b = d
        BY <1>a DEF LoadersOwnEntries
    <2>1. d # c /\ pc[d] \in Loading
        BY <1>j DEF Loading
    <2>2. entry[d] \in Entries /\ entry[d] # e
        BY <2>1, <1>b, <1>m DEF Holding, Loading
    <2>3. ~heap[entry[d]].ready /\ ~joined[d] /\ ~heap[entry[d]].evicted
        BY <2>1 DEF LoadersOwnEntries
    <2>4. entry[d] \notin victims
        BY <2>3, <1>n
    <2>5. ~heap[entry[d]].invalidated => slot[key[d]] = entry[d]
        BY <2>1 DEF LoadersOwnEntries
    <2>6. ~heap[entry[d]].invalidated => slot'[key[d]] = entry[d]
        BY <2>2, <2>4, <2>5, <1>l DEF TypeOK
    <2>7. \A b \in Callers : pc'[b] \in Loading /\ entry[b] = entry[d] => b = d
        BY <2>1, <1>j DEF LoadersOwnEntries, Loading
    <2> QED BY <2>2, <2>3, <2>4, <2>6, <2>7, <1>h
<1>5. UnreadyHasLoader'
    <2>1. ASSUME NEW k \in Keys, slot'[k] # NoEntry, ~heap'[slot'[k]].ready
          PROVE  \E d \in Callers : pc'[d] \in Loading /\ entry'[d] = slot'[k]
        <3>1. slot'[k] = slot[k] /\ slot[k] \in Entries /\ slot[k] # e
            BY <2>1, <1>g, <1>l DEF TypeOK
        <3>2. HasLoader(slot[k])
            BY <2>1, <3>1, <1>h, NoEntryAssumption DEF UnreadyHasLoader
        <3> QED BY <3>1, <3>2, <1>a, <1>k
    <2>2. ASSUME NEW d \in Callers, pc'[d] = "blocked", ~heap'[entry[d]].ready
          PROVE  \E b \in Callers : pc'[b] \in Loading /\ entry[b] = entry[d]
        <3>1. pc[d] = "blocked" /\ entry[d] \in Entries /\ entry[d] # e
            BY <2>2, <1>g, <1>j, <1>m DEF Holding
        <3>2. HasLoader(entry[d])
            BY <2>2, <3>1, <1>h DEF UnreadyHasLoader
        <3> QED BY <3>1, <3>2, <1>k
    <2>3. ASSUME NEW d \in Callers, pc'[d] = "result"
          PROVE  heap'[entry[d]].ready
        <3>1. CASE entry[d] = e
            BY <3>1, <1>g
        <3>2. CASE entry[d] # e
            BY <2>3, <3>2, <1>h, <1>j, <1>m DEF UnreadyHasLoader, Holding, e
        <3> QED BY <3>1, <3>2
    <2> QED BY <2>1, <2>2, <2>3, <1>a DEF UnreadyHasLoader, HasLoader
<1>6. ListMatchesMap'
    <2> SUFFICES ASSUME NEW f \in Entries
                 PROVE  position'[f] # 0 <=>
                            (\E k \in Keys : slot'[k] = f) /\ heap'[f].ready /\ heap'[f].answer.err = "nil"
        BY DEF ListMatchesMap
    <2>1. f # NoEntry
        BY NoEntryAssumption
    <2>2. CASE f # e
        <3>1. (\E k \in Keys : slot'[k] = f) <=> (\E k \in Keys : slot[k] = f) /\ f \notin victims
            BY <2>1, <2>2, <1>l
        <3> QED BY <2>2, <3>1, <1>e, <1>h DEF ListMatchesMap
    <2>3. CASE f = e
        <3>1. position'[e] # 0 <=> keep
            BY <2>3, <1>c, <1>d, <1>e
        <3>2. keep => slot'[key[c]] = e
            BY <2>3, <1>b, <1>d, <1>l, <1>o DEF TypeOK
        <3>3. ~keep => \A k \in Keys : slot'[k] # e
            BY <2>1, <2>3, <1>l
        <3>4. key[c] \in Keys
            BY DEF TypeOK
        <3> QED BY <2>3, <3>1, <3>2, <3>3, <3>4, <1>g, <1>o
    <2> QED BY <2>2, <2>3
<1>7. ListIsBounded'
    BY <1>e
<1>8. LostSuccessIsMarked'
    <2> SUFFICES ASSUME NEW d \in Callers, pc'[d] \in Holding, heap'[entry[d]].ready,
                        heap'[entry[d]].answer.err = "nil",
                        ~heap'[entry[d]].invalidated, ~heap'[entry[d]].evicted
                 PROVE  slot'[heap'[entry[d]].key] = entry[d]
        BY <1>a DEF LostSuccessIsMarked
    <2>1. pc[d] \in Holding
        BY <1>a, <1>j DEF Holding
    <2>2. entry[d] \in Entries /\ heap'[entry[d]].key = key[d] /\ key[d] \in Keys
        BY <2>1, <1>i, <1>m DEF TypeOK
    <2>3. CASE entry[d] = e
        <3>1. ~heap[e].invalidated /\ answer[c].err = "nil" /\ key[d] = key[c]
            BY <2>1, <2>3, <1>b, <1>g, <1>m
        <3>2. slot[key[c]] = e /\ keep
            BY <3>1, <1>b DEF keep
        <3> QED BY <2>2, <2>3, <3>1, <3>2, <1>d, <1>l
    <2>4. CASE entry[d] # e
        <3>1. entry[d] \notin victims /\ heap[entry[d]].ready /\ heap[entry[d]].answer.err = "nil"
              /\ ~heap[entry[d]].invalidated /\ ~heap[entry[d]].evicted
            BY <2>2, <2>4, <1>h
        <3>2. slot[key[d]] = entry[d]
            BY <2>1, <3>1, <1>m DEF LostSuccessIsMarked
        <3> QED BY <2>2, <2>4, <3>1, <3>2, <1>l
    <2> QED BY <2>3, <2>4
<1>9. SlotsAreFresh'
    <2>1. ASSUME NEW k \in Keys, slot'[k] # NoEntry, heap'[slot'[k]].ready
          PROVE  /\ heap'[slot'[k]].answer.err = "nil"
                 /\ heap'[slot'[k]].answer.response >= floor[k]
                 /\ heap'[slot'[k]].answer.response >= seen[k]
        <3>1. slot'[k] = slot[k] /\ slot[k] \in Entries
            BY <2>1, <1>l DEF TypeOK
        <3>2. CASE slot[k] # e
            BY <2>1, <3>1, <3>2, <1>h DEF SlotsAreFresh
        <3>3. CASE slot[k] = e
            <4>1. keep /\ k = key[c]
                BY <2>1, <3>1, <3>3, <1>b, <1>l DEF SlotsAreCurrent
            <4> QED BY <3>1, <3>3, <4>1, <1>a, <1>b, <1>g, <1>o DEF SlotsAreFresh, e
        <3> QED BY <3>2, <3>3
    <2>2. ASSUME NEW d \in Callers, pc'[d] = "publishing", answer[d].err = "nil"
          PROVE  /\ answer[d].response <= remote[key[d]]
                 /\ slot'[key[d]] = entry[d] => answer[d].response >= floor[key[d]]
                 /\ slot'[key[d]] = entry[d] => answer[d].response >= seen[key[d]]
        <3>1. pc[d] = "publishing"
            BY <2>2, <1>a, <1>j
        <3>2. slot'[key[d]] = entry[d] => slot[key[d]] = entry[d]
            BY <3>1, <1>l, <1>m, NoEntryAssumption DEF Holding, TypeOK
        <3> QED BY <2>2, <3>1, <3>2 DEF SlotsAreFresh
    <2>3. ASSUME NEW f \in Entries, heap'[f].ready, heap'[f].answer.err = "nil"
          PROVE  heap'[f].answer.response <= remote[heap'[f].key]
        <3>1. CASE f = e
            BY <2>3, <3>1, <1>a, <1>b, <1>g DEF SlotsAreFresh
        <3>2. CASE f # e
            BY <2>3, <3>2, <1>h DEF SlotsAreFresh
        <3> QED BY <3>1, <3>2
    <2> QED BY <2>1, <2>2, <2>3, <1>a DEF SlotsAreFresh
<1>10. EndedBelongsToLoader'
    <2>1. ASSUME NEW f \in Entries, heap'[f].answer.err = "ended"
          PROVE  heap'[f].loaderEnded
        BY <2>1, <1>g, <1>h DEF EndedBelongsToLoader
    <2>2. ASSUME NEW d \in Callers, pc'[d] = "publishing", answer[d].err = "ended"
          PROVE  ctx[d] = "ended"
        BY <2>2, <1>j DEF EndedBelongsToLoader
    <2>3. ASSUME NEW d \in Callers, pc'[d] = "blocked"
          PROVE  joined[d]
        BY <2>3, <1>j DEF EndedBelongsToLoader
    <2>4. ASSUME NEW d \in Callers, pc'[d] = "result", ~joined[d], heap'[entry[d]].answer.err = "ended"
          PROVE  ctx[d] = "ended"
        <3>1. CASE d = c
            BY <2>4, <3>1, <1>a, <1>g DEF EndedBelongsToLoader, e
        <3>2. CASE d # c
            <4>1. pc[d] = "result"
                BY <2>4, <3>2, <1>j
            <4>2. entry[d] \in Entries /\ entry[d] # e
                BY <4>1, <1>b, <1>m DEF UnreadyHasLoader, Holding
            <4> QED BY <2>4, <4>1, <4>2, <1>h DEF EndedBelongsToLoader
        <3> QED BY <3>1, <3>2
    <2> QED BY <2>1, <2>2, <2>3, <2>4, <1>a DEF EndedBelongsToLoader
<1>11. OwnCancellationOnly'
    BY <1>a, <1>j DEF OwnCancellationOnly
<1> QED BY <1>1, <1>2, <1>3, <1>4, <1>5, <1>6, <1>7, <1>8, <1>9, <1>10, <1>11

(***************************************************************************)
(* Theorems                                                                *)
(***************************************************************************)

LEMMA InitInvariant == Init => IInv
<1> SUFFICES ASSUME Init PROVE IInv
    OBVIOUS
<1> USE DEF Init
<1>1. \A k \in Keys : NewEntry(k) \in EntryFields
    BY AnswerTypes DEF NewEntry, EntryFields
<1>2. 0 \in Versions
    BY MaxVersionAssumption DEF Versions
<1>3. heap \in [Entries -> EntryFields]
    BY <1>1
<1>4. \A e \in Entries : ~heap[e].ready /\ heap[e].answer = NoAnswer
    BY DEF NewEntry
<1>5. TypeOK
    BY <1>2, <1>3, AnswerTypes DEF TypeOK, Locations
<1>6. ListMatchesMap /\ ListIsBounded
    BY <1>4, CapacityPositive, NoEntryAssumption DEF ListMatchesMap, ListIsBounded
<1>7. SlotsAreCurrent /\ HoldersMatch /\ LoadersOwnEntries /\ UnreadyHasLoader /\ LostSuccessIsMarked
    BY DEF SlotsAreCurrent, HoldersMatch, LoadersOwnEntries, UnreadyHasLoader, LostSuccessIsMarked, Holding, Loading
<1>8. SlotsAreFresh
    BY <1>4 DEF SlotsAreFresh
<1>9. EndedBelongsToLoader /\ OwnCancellationOnly
    BY <1>4 DEF EndedBelongsToLoader, OwnCancellationOnly, NoAnswer
<1> QED BY <1>5, <1>6, <1>7, <1>8, <1>9 DEF IInv

LEMMA StutterKeepsInvariant == IInv /\ UNCHANGED vars => IInv'
BY DEF vars, cacheVars, callerVars, IInv, TypeOK, SlotsAreCurrent, HoldersMatch, LoadersOwnEntries,
       UnreadyHasLoader, HasLoader, ListMatchesMap, ListIsBounded, EffectiveMaxEntries, LostSuccessIsMarked, SlotsAreFresh,
       EndedBelongsToLoader, OwnCancellationOnly

LEMMA NextInvariant == IInv /\ [Next]_vars => IInv'
<1> SUFFICES ASSUME IInv, [Next]_vars PROVE IInv'
    OBVIOUS
<1>1. ASSUME NEW c \in Callers, Progress(c) PROVE IInv'
    <2>1. CASE GiveUp(c) \/ AbandonWait(c)
        BY <2>1, ReturnContextErrorStep DEF GiveUp, AbandonWait
    <2>2. CASE AcquireNew(c)
        BY <2>2, AcquireNewStep
    <2>3. CASE AcquireExisting(c)
        BY <2>3, AcquireExistingStep
    <2>4. CASE Load(c)
        BY <2>4, LoadStep
    <2>5. CASE FinishLoad(c)
        BY <2>5, FinishLoadStep
    <2>6. CASE Wake(c)
        BY <2>6, WakeStep
    <2>7. CASE Retry(c)
        BY <2>7, RetryStep
    <2>8. CASE Return(c)
        BY <2>8, ReturnStep
    <2> QED BY <1>1, <2>1, <2>2, <2>3, <2>4, <2>5, <2>6, <2>7, <2>8 DEF Progress
<1>2. ASSUME NEW c \in Callers, EndContext(c) PROVE IInv'
    BY <1>2, EndContextStep
<1>3. ASSUME NEW c \in Callers, NEW k \in Keys, StartGet(c, k) PROVE IInv'
    BY <1>3, StartGetStep
<1>4. ASSUME NEW k \in Keys, Invalidate(k) PROVE IInv'
    BY <1>4, InvalidateStep
<1>5. ASSUME NEW k \in Keys, RemoteChange(k) PROVE IInv'
    BY <1>5, RemoteChangeStep
<1>6. CASE UNCHANGED vars
    BY <1>6, StutterKeepsInvariant
<1> QED BY <1>1, <1>2, <1>3, <1>4, <1>5, <1>6 DEF Next, Get

\* The inductive invariant holds in every reachable state of the cache.
THEOREM CacheInvariant == Spec => []IInv
<1> QED BY InitInvariant, NextInvariant, PTL DEF Spec

\* Every variable of get and of the cache keeps its type.
THEOREM CacheTypes == Spec => []TypeOK
<1>1. IInv => TypeOK
    BY DEF IInv
<1> QED BY <1>1, CacheInvariant, PTL

\* The map and the recency list agree, and the list never outgrows maxEntries.
THEOREM CacheIsBoundedAndConsistent == Spec => []CacheIsConsistent
<1>1. IInv => CacheIsConsistent
    BY DEF IInv, CacheIsConsistent
<1> QED BY <1>1, CacheInvariant, PTL

\* Two loads of one key run at once only across an invalidation.
THEOREM CacheSingleFlight == Spec => []SingleFlight
<1>1. IInv => SingleFlight
    BY DEF IInv, SingleFlight, LoadersOwnEntries
<1> QED BY <1>1, CacheInvariant, PTL

\* A blocked caller always has a loader that will publish its entry.
THEOREM NoAbandonedWaiter == Spec => []WaitersHaveLoader
<1>1. IInv => WaitersHaveLoader
    BY DEF IInv, WaitersHaveLoader, UnreadyHasLoader, HasLoader
<1> QED BY <1>1, CacheInvariant, PTL

\* Loads are shared, and no sharer is abandoned.
THEOREM LoadsAreSharedSafely == Spec => []LoadsAreShared
BY CacheSingleFlight, NoAbandonedWaiter, PTL DEF LoadsAreShared

\* A caller is handed a context error only when its own context has ended.
THEOREM CancellationStaysLocal == Spec => []OwnCancellationOnly
<1>1. IInv => OwnCancellationOnly
    BY DEF IInv
<1> QED BY <1>1, CacheInvariant, PTL

\* The only step that makes get return a response is Return.
LEMMA ReturnsOnlyByReturn ==
    ASSUME IInv, [Next]_vars, NEW c \in Callers, Returns(c)
    PROVE  Return(c)
<1> USE DEF IInv
<1>1. ASSUME NEW d \in Callers, Progress(d) PROVE Return(c)
    <2>1. \A b \in Callers : b # d => pc'[b] = pc[b]
        BY <1>1 DEF TypeOK, Progress, GiveUp, AbandonWait, ReturnContextError, AcquireNew, AcquireExisting, Load,
                    FinishLoad, Wake, Retry, Return
    <2>2. d = c
        BY <2>1 DEF Returns
    <2>3. ~GiveUp(c) /\ ~AbandonWait(c)
        BY DEF TypeOK, GiveUp, AbandonWait, ReturnContextError, Returns, Error
    <2>4. ~AcquireNew(c) /\ ~AcquireExisting(c) /\ ~Load(c) /\ ~FinishLoad(c) /\ ~Wake(c) /\ ~Retry(c)
        BY DEF TypeOK, AcquireNew, AcquireExisting, Load, FinishLoad, Wake, Retry, Returns
    <2> QED BY <1>1, <2>2, <2>3, <2>4 DEF Progress
<1>2. ASSUME NEW d \in Callers, EndContext(d) PROVE FALSE
    BY <1>2 DEF EndContext, Returns
<1>3. ASSUME NEW d \in Callers, NEW k \in Keys, StartGet(d, k) PROVE FALSE
    BY <1>3 DEF StartGet, Returns, TypeOK
<1>4. ASSUME NEW k \in Keys, Invalidate(k) \/ RemoteChange(k) PROVE FALSE
    BY <1>4 DEF Invalidate, RemoteChange, callerVars, Returns
<1>5. CASE UNCHANGED vars
    BY <1>5 DEF vars, callerVars, Returns
<1> QED BY <1>1, <1>2, <1>3, <1>4, <1>5 DEF Next, Get

LEMMA ReturnedResponse ==
    ASSUME IInv, [Next]_vars, NEW c \in Callers, Returns(c)
    PROVE  answer'[c].response >= floor[key[c]] /\ answer'[c].response >= seen[key[c]]
<1>1. Return(c)
    BY ReturnsOnlyByReturn
<1>2. pc[c] = "result" /\ ~MustRetry(c) /\ answer'[c] = heap[entry[c]].answer
    BY <1>1 DEF Return, IInv, TypeOK
<1>3. heap[entry[c]].answer.err = "nil"
    BY <1>2 DEF Returns
<1> QED BY <1>2, <1>3, ReturnedSuccessIsCurrent

\* After an invalidation no caller is handed a response loaded before it, even
\* one that had joined the entry earlier.
THEOREM ReadsAreFresh == Spec => FreshAfterInvalidation
<1>1. IInv /\ [Next]_vars => [\A c \in Callers : Returns(c) => answer'[c].response >= floor[key[c]]]_vars
    BY ReturnedResponse
<1> QED BY <1>1, CacheInvariant, PTL DEF Spec, FreshAfterInvalidation

\* Successive responses for one key never show an older collection.
THEOREM ReadsAreMonotonic == Spec => MonotonicReads
<1>1. IInv /\ [Next]_vars => [\A c \in Callers : Returns(c) => answer'[c].response >= seen[key[c]]]_vars
    BY ReturnedResponse
<1> QED BY <1>1, CacheInvariant, PTL DEF Spec, MonotonicReads

\* Responses are never older than an invalidation or an earlier response.
THEOREM ReadsAreAlwaysRecent == Spec => ReadsAreRecent
<1>1. IInv /\ [Next]_vars => [\A c \in Callers : Returns(c) =>
          answer'[c].response >= floor[key[c]] /\ answer'[c].response >= seen[key[c]]]_vars
    BY ReturnedResponse
<1> QED BY <1>1, CacheInvariant, PTL DEF Spec, ReadsAreRecent

(***************************************************************************)
(* The composition                                                         *)
(***************************************************************************)

WriterTypes ==
    /\ wpc \in [Writers -> {"idle", "sent", "committed", "succeeded", "failed", "done"}]
    /\ wkey \in [Writers -> Keys]
    /\ stray \in [Keys -> Nat]
    /\ settled \in [Keys -> Versions]

RawInv == IInv /\ WriterTypes /\ SettledBeforeInvalidation

\* Every step of the composition is a step of the cache or leaves it alone.
LEMMA RawStepIsCacheStep == WriterTypes /\ [RawNext]_rawVars => [Next]_vars
<1> SUFFICES ASSUME WriterTypes, [RawNext]_rawVars PROVE [Next]_vars
    OBVIOUS
<1>1. CASE (\E c \in Callers : Get(c)) /\ UNCHANGED writerVars
    BY <1>1 DEF Next
<1>2. ASSUME NEW w \in Writers, Operation(w) PROVE [Next]_vars
    <2>1. wkey[w] \in Keys
        BY DEF WriterTypes
    <2> QED BY <1>2, <2>1 DEF Operation, InvalidateBefore, Commit, Answered, Rejected, GivenUp, InvalidateAfter, Next
<1>3. ASSUME NEW k \in Keys, LateCommit(k) PROVE [Next]_vars
    BY <1>3 DEF LateCommit, Next
<1>4. CASE UNCHANGED rawVars
    BY <1>4 DEF rawVars
<1> QED BY <1>1, <1>2, <1>3, <1>4 DEF RawNext

\* Callers inside get change neither the collections nor their invalidation marks.
LEMMA GetKeepsRemote ==
    ASSUME NEW c \in Callers, Get(c)
    PROVE  UNCHANGED <<remote, floor>>
BY DEF Get, Progress, GiveUp, AbandonWait, ReturnContextError, AcquireNew, AcquireExisting, Load, FinishLoad,
       Wake, Retry, Return, EndContext, StartGet

\* What an invalidation does to the marks.
LEMMA InvalidateMarks ==
    ASSUME TypeOK, NEW k \in Keys, Invalidate(k)
    PROVE  /\ UNCHANGED remote
           /\ \A j \in Keys : floor'[j] = IF j = k THEN remote[k] ELSE floor[j]
BY DEF Invalidate, InvalidateSlot, TypeOK

LEMMA RawInitInvariant == RawInit => RawInv
<1> SUFFICES ASSUME RawInit PROVE RawInv
    OBVIOUS
<1>1. IInv
    BY InitInvariant DEF RawInit
<1>2. 0 \in Versions
    BY MaxVersionAssumption DEF Versions
<1>3. WriterTypes
    BY <1>2 DEF RawInit, WriterTypes
<1>4. SettledBeforeInvalidation
    BY <1>3 DEF RawInit, Init, SettledBeforeInvalidation, WriterTypes
<1> QED BY <1>1, <1>3, <1>4 DEF RawInv

LEMMA RawNextInvariant == RawInv /\ [RawNext]_rawVars => RawInv'
<1> SUFFICES ASSUME RawInv, [RawNext]_rawVars PROVE RawInv'
    OBVIOUS
<1>1. IInv'
    BY RawStepIsCacheStep, NextInvariant DEF RawInv
<1>2. TypeOK /\ WriterTypes /\ SettledBeforeInvalidation
    BY DEF RawInv, IInv
<1>3. \A k \in Keys : floor[k] \in Nat /\ remote[k] \in Nat /\ settled[k] \in Nat /\ floor[k] <= remote[k]
    BY <1>2, MaxVersionAssumption DEF TypeOK, WriterTypes, Versions, RawInv, IInv, SlotsAreFresh
<1>4. \A w \in Writers : wkey[w] \in Keys
    BY <1>2, MaxVersionAssumption DEF WriterTypes, Versions
<1>5. ASSUME UNCHANGED writerVars, UNCHANGED <<remote, floor>>
      PROVE  WriterTypes' /\ SettledBeforeInvalidation'
    BY <1>2, <1>5 DEF WriterTypes, SettledBeforeInvalidation, writerVars
<1>6. ASSUME NEW c \in Callers, Get(c), UNCHANGED writerVars
      PROVE  WriterTypes' /\ SettledBeforeInvalidation'
    BY <1>5, <1>6, GetKeepsRemote
<1>7. ASSUME NEW w \in Writers, InvalidateBefore(w)
      PROVE  WriterTypes' /\ SettledBeforeInvalidation'
    <2>1. UNCHANGED remote /\ \A j \in Keys : floor'[j] = IF j = wkey[w] THEN remote[j] ELSE floor[j]
        BY <1>2, <1>4, <1>7, InvalidateMarks DEF InvalidateBefore
    <2>2. WriterTypes'
        BY <1>2, <1>7 DEF InvalidateBefore, WriterTypes
    <2>3. SettledBeforeInvalidation'
        BY <1>2, <1>3, <1>7, <2>1 DEF InvalidateBefore, SettledBeforeInvalidation
    <2> QED BY <2>2, <2>3
<1>8. ASSUME NEW w \in Writers, Commit(w)
      PROVE  WriterTypes' /\ SettledBeforeInvalidation'
    <2>1. /\ remote' = [remote EXCEPT ![wkey[w]] = @ + 1] /\ remote[wkey[w]] < MaxVersion
          /\ UNCHANGED <<floor, wkey, stray, settled>>
          /\ wpc' = [wpc EXCEPT ![w] = "committed"]
        BY <1>8 DEF Commit, RemoteChange
    <2>2. remote[wkey[w]] + 1 \in Versions
        BY <1>3, <1>4, <2>1, MaxVersionAssumption DEF Versions
    <2>3. WriterTypes'
        BY <1>2, <2>1, <2>2 DEF WriterTypes
    <2> QED BY <1>2, <2>1, <2>3 DEF SettledBeforeInvalidation
<1>9. ASSUME NEW w \in Writers, Answered(w) \/ Rejected(w) \/ GivenUp(w)
      PROVE  WriterTypes' /\ SettledBeforeInvalidation'
    <2>1. UNCHANGED <<remote, floor, wkey, settled>>
        BY <1>9 DEF Answered, Rejected, GivenUp, vars
    <2>2. WriterTypes'
        BY <1>2, <1>4, <1>9, <2>1 DEF Answered, Rejected, GivenUp, WriterTypes
    <2> QED BY <1>2, <2>1, <2>2 DEF SettledBeforeInvalidation
<1>10. ASSUME NEW w \in Writers, InvalidateAfter(w)
      PROVE  WriterTypes' /\ SettledBeforeInvalidation'
    <2>1. UNCHANGED remote /\ \A j \in Keys : floor'[j] = IF j = wkey[w] THEN remote[j] ELSE floor[j]
        BY <1>2, <1>4, <1>10, InvalidateMarks DEF InvalidateAfter
    <2>2. /\ UNCHANGED <<wkey, stray>>
          /\ wpc' = [wpc EXCEPT ![w] = "done"]
          /\ settled' = [settled EXCEPT ![wkey[w]] = remote[wkey[w]]]
        BY <1>10 DEF InvalidateAfter
    <2>3. remote[wkey[w]] \in Versions
        BY <1>2, <1>4 DEF TypeOK
    <2>4. WriterTypes'
        BY <1>2, <2>2, <2>3 DEF WriterTypes
    <2>5. \A k \in Keys : settled'[k] = IF k = wkey[w] THEN remote[k] ELSE settled[k]
        BY <1>2, <2>2 DEF WriterTypes
    <2> QED BY <1>2, <1>3, <2>1, <2>4, <2>5 DEF SettledBeforeInvalidation
<1>11. ASSUME NEW k \in Keys, LateCommit(k)
      PROVE  WriterTypes' /\ SettledBeforeInvalidation'
    <2>1. /\ remote' = [remote EXCEPT ![k] = @ + 1]
          /\ stray[k] > 0 /\ stray' = [stray EXCEPT ![k] = @ - 1]
          /\ UNCHANGED <<floor, wpc, wkey, settled>>
        BY <1>11 DEF LateCommit, RemoteChange
    <2>2. WriterTypes'
        BY <1>2, <2>1 DEF WriterTypes
    <2> QED BY <1>2, <2>1, <2>2 DEF SettledBeforeInvalidation
<1>12. ASSUME UNCHANGED rawVars
       PROVE  WriterTypes' /\ SettledBeforeInvalidation'
    <2>1. UNCHANGED writerVars /\ UNCHANGED <<remote, floor>>
        BY <1>12 DEF rawVars, vars
    <2> QED BY <1>5, <2>1
<1>13. WriterTypes' /\ SettledBeforeInvalidation'
    BY <1>6, <1>7, <1>8, <1>9, <1>10, <1>11, <1>12 DEF RawNext, Operation
<1> QED BY <1>1, <1>13 DEF RawInv

\* The composition keeps the cache's invariant and the order of the ends of
\* operations and invalidations.
THEOREM RawInvariant == RawSpec => []RawInv
<1> QED BY RawInitInvariant, RawNextInvariant, PTL DEF RawSpec

\* Types of the cache, its callers and the operations.
THEOREM RawTypes == RawSpec => []RawTypeOK
<1>1. RawInv => RawTypeOK
    BY DEF RawInv, IInv, RawTypeOK, WriterTypes
<1> QED BY <1>1, RawInvariant, PTL

\* What was committed when an operation ended was committed before its key was
\* last invalidated.
THEOREM SettledIsInvalidated == RawSpec => []SettledBeforeInvalidation
<1>1. RawInv => SettledBeforeInvalidation
    BY DEF RawInv
<1> QED BY <1>1, RawInvariant, PTL

LEMMA ReturnedSeesSettled ==
    ASSUME RawInv, [RawNext]_rawVars, NEW c \in Callers, Returns(c)
    PROVE  answer'[c].response >= settled[key[c]]
<1>1. IInv /\ [Next]_vars
    BY RawStepIsCacheStep DEF RawInv
<1>2. answer'[c].response >= floor[key[c]]
    BY <1>1, ReturnedResponse
<1>3. answer' \in [Callers -> Answers] /\ key[c] \in Keys
    BY <1>1, NextInvariant DEF IInv, TypeOK
<1>4. answer'[c].response \in Nat /\ floor[key[c]] \in Nat /\ settled[key[c]] \in Nat
    BY <1>1, <1>3, AnswerFields, MaxVersionAssumption DEF Versions, IInv, TypeOK, RawInv, WriterTypes
<1> QED BY <1>2, <1>3, <1>4 DEF RawInv, SettledBeforeInvalidation

\* A read that returns after an operation has ended, in success or in error,
\* returns what was committed by then.
THEOREM SettledWritesAreRead == RawSpec => ReadsSeeSettledWrites
<1>1. RawInv /\ [RawNext]_rawVars => [\A c \in Callers : Returns(c) => answer'[c].response >= settled[key[c]]]_rawVars
    BY ReturnedSeesSettled
<1> QED BY <1>1, RawInvariant, PTL DEF RawSpec, ReadsSeeSettledWrites

(***************************************************************************)
(* The composition implements the register                                 *)
(***************************************************************************)

\* The register's view of a caller.
Reading == [c \in Callers |-> pc[c] \notin {"idle", "returned"}]
Lives == [c \in Callers |-> ctx[c] = "live"]
Result == [c \in Callers |-> IF pc[c] = "returned" THEN answer[c] ELSE NoAnswer]

LEMMA RegisterInit == RawInit => Register!Init
<1> SUFFICES ASSUME RawInit PROVE Register!Init
    OBVIOUS
<1>1. Init
    BY DEF RawInit
<1>2. Reading = [c \in Callers |-> FALSE] /\ Lives = [c \in Callers |-> TRUE]
    BY <1>1 DEF Reading, Lives, Init
<1>3. Result = [c \in Callers |-> [response |-> 0, err |-> "nil"]]
    BY <1>1 DEF Result, Init, NoAnswer
<1> QED BY <1>1, <1>2, <1>3 DEF Register!Init, RawInit, Init, Reading, Lives, Result

\* A step that keeps what the register can see is a stuttering step of it.
LEMMA RegisterStutter ==
    ASSUME UNCHANGED <<remote, settled, seen, key, Reading, Lives, Result>>
    PROVE  UNCHANGED Register!vars
BY DEF Register!vars, Reading, Lives, Result

\* Steps inside a call that neither begin nor end it.
LEMMA InsideCallStutters ==
    ASSUME TypeOK, NEW c \in Callers,
           AcquireNew(c) \/ AcquireExisting(c) \/ Load(c) \/ FinishLoad(c) \/ Wake(c) \/ Retry(c)
    PROVE  UNCHANGED <<remote, seen, key, Reading, Lives, Result>>
<1>1. /\ UNCHANGED <<remote, seen, key, ctx>>
      /\ pc[c] \notin {"idle", "returned"} /\ pc'[c] \notin {"idle", "returned"}
      /\ \A d \in Callers : d # c => pc'[d] = pc[d] /\ answer'[d] = answer[d]
    BY DEF TypeOK, AcquireNew, AcquireExisting, Load, FinishLoad, Wake, Retry
<1>2. Reading' = Reading
    BY <1>1 DEF Reading
<1>3. Lives' = Lives
    BY <1>1 DEF Lives
<1>4. Result' = Result
    BY <1>1 DEF Result
<1> QED BY <1>1, <1>2, <1>3, <1>4

LEMMA StartGetStartsRead ==
    ASSUME TypeOK, NEW c \in Callers, NEW k \in Keys, StartGet(c, k), UNCHANGED settled
    PROVE  Register!StartRead(c, k)
<1>1. ~Reading[c] /\ Reading' = [Reading EXCEPT ![c] = TRUE]
    BY DEF TypeOK, StartGet, Reading
<1>2. Lives' = [Lives EXCEPT ![c] = TRUE]
    BY DEF TypeOK, StartGet, Lives
<1>3. Result' = [Result EXCEPT ![c] = [response |-> 0, err |-> "nil"]]
    BY DEF TypeOK, StartGet, Result, NoAnswer
<1> QED BY <1>1, <1>2, <1>3 DEF Register!StartRead, StartGet, Reading, Lives, Result

LEMMA EndContextEnds ==
    ASSUME TypeOK, NEW c \in Callers, EndContext(c), UNCHANGED settled
    PROVE  Register!EndContext(c)
<1>1. Reading[c] /\ Reading' = Reading
    BY DEF TypeOK, EndContext, Reading
<1>2. Lives' = [Lives EXCEPT ![c] = FALSE]
    BY DEF TypeOK, EndContext, Lives
<1>3. Result' = Result
    BY DEF TypeOK, EndContext, Result
<1> QED BY <1>1, <1>2, <1>3 DEF Register!EndContext, EndContext, Reading, Lives, Result

\* A step that ends c's call with an error is a failed read.
LEMMA ErrorIsFail ==
    ASSUME TypeOK, NEW c \in Callers, UNCHANGED <<remote, settled, seen, key, ctx>>,
           pc[c] \notin {"idle", "returned"}, pc' = [pc EXCEPT ![c] = "returned"],
           NEW e \in {"failed", "ended"}, e = "ended" => ctx[c] = "ended",
           answer' = [answer EXCEPT ![c] = Error(e)]
    PROVE  Register!Fail(c)
<1>1. Reading[c] /\ Reading' = [Reading EXCEPT ![c] = FALSE]
    BY DEF TypeOK, Reading
<1>2. Lives' = Lives /\ (e = "failed" \/ ~Lives[c])
    BY DEF TypeOK, Lives
<1>3. Result' = [Result EXCEPT ![c] = [response |-> 0, err |-> e]]
    BY DEF TypeOK, Result, Error
<1>4. e \in {"failed"} \cup (IF Lives[c] THEN {} ELSE {"ended"})
    BY <1>2
<1> QED BY <1>1, <1>2, <1>3, <1>4 DEF Register!Fail, Reading, Lives, Result

\* A response handed out is a successful read: recent, and committed.
LEMMA ResponseIsSucceed ==
    ASSUME RawInv, NEW c \in Callers, Return(c), heap[entry[c]].answer.err = "nil", UNCHANGED settled
    PROVE  Register!Succeed(c)
<1> DEFINE v == heap[entry[c]].answer.response
           k == key[c]
<1>1. TypeOK /\ IInv /\ WriterTypes /\ SettledBeforeInvalidation
    BY DEF RawInv, IInv
<1>2. /\ pc[c] = "result" /\ ~MustRetry(c)
      /\ answer' = [answer EXCEPT ![c] = heap[entry[c]].answer]
      /\ seen' = [seen EXCEPT ![k] = Newer(@, v)]
      /\ pc' = [pc EXCEPT ![c] = "returned"]
      /\ UNCHANGED <<remote, key, ctx, settled>>
    BY DEF Return
<1>3. v >= floor[k] /\ v >= seen[k] /\ v <= remote[k]
    BY <1>1, <1>2, ReturnedSuccessIsCurrent
<1>4. heap[entry[c]].answer \in Answers /\ k \in Keys
    BY <1>1, <1>2 DEF IInv, TypeOK, HoldersMatch, Holding, EntryFields
<1>5. v \in Nat /\ floor[k] \in Nat /\ seen[k] \in Nat /\ settled[k] \in Nat /\ remote[k] \in Nat
    BY <1>1, <1>4, AnswerFields, MaxVersionAssumption DEF TypeOK, WriterTypes, Versions
<1>6. settled[k] <= v
    BY <1>1, <1>3, <1>4, <1>5 DEF SettledBeforeInvalidation
<1>7. heap[entry[c]].answer = [response |-> v, err |-> "nil"]
    BY <1>4, AnswerFields DEF Response
<1>8. v \in Register!Newest(settled[k], seen[k]) .. remote[k]
    BY <1>3, <1>5, <1>6 DEF Register!Newest
<1>9. Newer(seen[k], v) = v
    BY <1>3, <1>5 DEF Newer
<1>13. seen' = [seen EXCEPT ![k] = v]
    BY <1>2, <1>9
<1> HIDE DEF v
<1>10. Reading[c] /\ Reading' = [Reading EXCEPT ![c] = FALSE]
    BY <1>1, <1>2 DEF TypeOK, Reading
<1>11. Lives' = Lives
    BY <1>2 DEF Lives
<1>12. Result' = [Result EXCEPT ![c] = [response |-> v, err |-> "nil"]]
    BY <1>1, <1>2, <1>7 DEF TypeOK, Result
<1> QED BY <1>2, <1>8, <1>10, <1>11, <1>12, <1>13 DEF Register!Succeed, Reading, Lives, Result

LEMMA ReturnIsRead ==
    ASSUME RawInv, NEW c \in Callers, Return(c), UNCHANGED settled
    PROVE  Register!Succeed(c) \/ Register!Fail(c)
<1> DEFINE a == heap[entry[c]].answer
<1>1. IInv /\ TypeOK
    BY DEF RawInv, IInv
<1>2. CASE a.err = "nil"
    BY <1>2, ResponseIsSucceed
<1>3. CASE a.err # "nil"
    <2>1. /\ pc[c] = "result" /\ ~MustRetry(c)
          /\ answer' = [answer EXCEPT ![c] = a]
          /\ UNCHANGED seen
          /\ pc' = [pc EXCEPT ![c] = "returned"]
          /\ UNCHANGED <<remote, key, joined, ctx, settled>>
        BY <1>3 DEF Return
    <2>2. entry[c] \in Entries /\ a \in Answers
        BY <1>1, <2>1 DEF IInv, TypeOK, HoldersMatch, Holding, EntryFields
    <2>3. a = Error(a.err) /\ a.err \in {"failed", "ended"}
        BY <1>3, <2>2, AnswerFields
    <2>4. a.err = "ended" => ctx[c] = "ended"
        BY <1>1, <2>1, <2>2 DEF IInv, EndedBelongsToLoader, MustRetry, TypeOK
    <2>5. answer' = [answer EXCEPT ![c] = Error(a.err)]
        BY <2>1, <2>3
    <2>6. Register!Fail(c)
        <3> DEFINE e == a.err
        <3>1. e \in {"failed", "ended"} /\ (e = "ended" => ctx[c] = "ended") /\ answer' = [answer EXCEPT ![c] = Error(e)]
            BY <2>3, <2>4, <2>5
        <3>2. pc[c] \notin {"idle", "returned"}
            BY <2>1
        <3> HIDE DEF e
        <3> QED BY <1>1, <2>1, <3>1, <3>2, ErrorIsFail
    <2> QED BY <2>6
<1> QED BY <1>2, <1>3

\* The first invalidation, the requests and the answers are invisible.
LEMMA CallersKeepView ==
    ASSUME UNCHANGED <<remote, settled, seen, pc, key, ctx, answer>>
    PROVE  UNCHANGED Register!vars
BY DEF Register!vars

LEMMA CommitIsCommit ==
    ASSUME NEW k \in Keys, RemoteChange(k), UNCHANGED settled
    PROVE  Register!Commit(k)
BY DEF RemoteChange, callerVars, Register!Commit

LEMMA EndIsEndWrite ==
    ASSUME NEW w \in Writers, InvalidateAfter(w)
    PROVE  Register!EndWrite(wkey[w])
<1>1. UNCHANGED <<remote, seen, pc, key, ctx, answer>>
    BY DEF InvalidateAfter, Invalidate, callerVars
<1>2. settled' = [settled EXCEPT ![wkey[w]] = remote[wkey[w]]]
    BY DEF InvalidateAfter
<1> QED BY <1>1, <1>2 DEF Register!EndWrite

LEMMA RegisterStep == RawInv /\ RawInv' /\ [RawNext]_rawVars => [Register!Next]_(Register!vars)
<1> SUFFICES ASSUME RawInv, RawInv', [RawNext]_rawVars
             PROVE  Register!Next \/ UNCHANGED Register!vars
    OBVIOUS
<1>1. TypeOK /\ WriterTypes
    BY DEF RawInv, IInv
<1>2. ASSUME NEW c \in Callers, Get(c), UNCHANGED writerVars
      PROVE  Register!Next \/ UNCHANGED Register!vars
    <2>1. UNCHANGED settled
        BY <1>2 DEF writerVars
    <2>2. CASE GiveUp(c) \/ AbandonWait(c)
        <3>1. /\ UNCHANGED <<remote, settled, seen, key, ctx>>
              /\ pc[c] \notin {"idle", "returned"} /\ pc' = [pc EXCEPT ![c] = "returned"]
              /\ ctx[c] = "ended" /\ answer' = [answer EXCEPT ![c] = Error("ended")]
            BY <2>1, <2>2 DEF GiveUp, AbandonWait, ReturnContextError
        <3>2. Register!Fail(c)
            BY <1>1, <3>1, ErrorIsFail
        <3> QED BY <3>2 DEF Register!Next
    <2>3. CASE AcquireNew(c) \/ AcquireExisting(c) \/ Load(c) \/ FinishLoad(c) \/ Wake(c) \/ Retry(c)
        BY <1>1, <2>1, <2>3, InsideCallStutters, RegisterStutter
    <2>4. CASE Return(c)
        BY <2>1, <2>4, ReturnIsRead DEF Register!Next
    <2>5. CASE EndContext(c)
        BY <1>1, <2>1, <2>5, EndContextEnds DEF Register!Next
    <2>6. ASSUME NEW k \in Keys, StartGet(c, k)
          PROVE  Register!Next
        BY <1>1, <2>1, <2>6, StartGetStartsRead DEF Register!Next
    <2> QED BY <1>2, <2>2, <2>3, <2>4, <2>5, <2>6 DEF Get, Progress
<1>3. ASSUME NEW w \in Writers, Operation(w)
      PROVE  Register!Next \/ UNCHANGED Register!vars
    <2>1. wkey[w] \in Keys
        BY <1>1 DEF WriterTypes
    <2>2. CASE InvalidateBefore(w) \/ Answered(w) \/ Rejected(w) \/ GivenUp(w)
        <3>1. UNCHANGED <<remote, settled, seen, pc, key, ctx, answer>>
            BY <2>2 DEF InvalidateBefore, Answered, Rejected, GivenUp, Invalidate, vars, callerVars
        <3> QED BY <3>1, CallersKeepView
    <2>3. CASE Commit(w)
        <3>1. RemoteChange(wkey[w]) /\ UNCHANGED settled
            BY <2>3 DEF Commit
        <3> QED BY <2>1, <3>1, CommitIsCommit DEF Register!Next
    <2>4. CASE InvalidateAfter(w)
        BY <2>1, <2>4, EndIsEndWrite DEF Register!Next
    <2> QED BY <1>3, <2>2, <2>3, <2>4 DEF Operation
<1>4. ASSUME NEW k \in Keys, LateCommit(k)
      PROVE  Register!Next
    <2>1. RemoteChange(k) /\ UNCHANGED settled
        BY <1>4 DEF LateCommit
    <2> QED BY <2>1, CommitIsCommit DEF Register!Next
<1>5. CASE UNCHANGED rawVars
    <2>1. UNCHANGED <<remote, settled, seen, pc, key, ctx, answer>>
        BY <1>5 DEF rawVars, vars, callerVars, writerVars
    <2> QED BY <2>1, CallersKeepView
<1> QED BY <1>2, <1>3, <1>4, <1>5 DEF RawNext

\* Behind the cache, resources read from a register: every behaviour of the
\* composition is a behaviour of CollectionRegister.
THEOREM CacheImplementsRegister == RawSpec => ImplementsRegister
<1> QED BY RegisterInit, RegisterStep, RawInvariant, PTL DEF RawSpec, ImplementsRegister, Register!Spec

=============================================================================
