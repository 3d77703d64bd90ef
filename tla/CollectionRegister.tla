------------------------- MODULE CollectionRegister -------------------------
(***************************************************************************)
(* What cached reads promise to the resources that use them, with no cache *)
(* in sight: a register per collection whose reads return a version that   *)
(* is at least as new as what was there when a write last ended and as     *)
(* every earlier read, and never newer than what the API has committed.    *)
(***************************************************************************)
EXTENDS Integers

CONSTANTS Readers, Collections

VARIABLES
    committed,   \* committed[k]: version the API has committed
    confirmed,   \* confirmed[k]: what was committed when a write last ended
    latest,      \* latest[k]: newest version a read has returned
    reading,     \* reading[r]: whether r is inside a read
    live,        \* live[r]: whether r's context is live
    target,      \* target[r]: the collection r reads
    result       \* result[r]: what r's last read returned

vars == <<committed, confirmed, latest, reading, live, target, result>>

Newest(v, w) == IF v >= w THEN v ELSE w

Init ==
    /\ committed = [k \in Collections |-> 0]
    /\ confirmed = [k \in Collections |-> 0]
    /\ latest = [k \in Collections |-> 0]
    /\ reading = [r \in Readers |-> FALSE]
    /\ live = [r \in Readers |-> TRUE]
    /\ target \in [Readers -> Collections]
    /\ result = [r \in Readers |-> [response |-> 0, err |-> "nil"]]

StartRead(r, k) ==
    /\ ~reading[r]
    /\ reading' = [reading EXCEPT ![r] = TRUE]
    /\ target' = [target EXCEPT ![r] = k]
    /\ live' = [live EXCEPT ![r] = TRUE]
    /\ result' = [result EXCEPT ![r] = [response |-> 0, err |-> "nil"]]
    /\ UNCHANGED <<committed, confirmed, latest>>

EndContext(r) ==
    /\ reading[r]
    /\ live' = [live EXCEPT ![r] = FALSE]
    /\ UNCHANGED <<committed, confirmed, latest, reading, target, result>>

\* A read takes effect at one point, at which it is recent.
Succeed(r) ==
    \E v \in Newest(confirmed[target[r]], latest[target[r]]) .. committed[target[r]] :
        /\ reading[r]
        /\ reading' = [reading EXCEPT ![r] = FALSE]
        /\ latest' = [latest EXCEPT ![target[r]] = v]
        /\ result' = [result EXCEPT ![r] = [response |-> v, err |-> "nil"]]
        /\ UNCHANGED <<committed, confirmed, live, target>>

\* A read fails for its own context or for the API, never for another reader.
Fail(r) ==
    \E e \in {"failed"} \cup (IF live[r] THEN {} ELSE {"ended"}) :
        /\ reading[r]
        /\ reading' = [reading EXCEPT ![r] = FALSE]
        /\ result' = [result EXCEPT ![r] = [response |-> 0, err |-> e]]
        /\ UNCHANGED <<committed, confirmed, latest, live, target>>

Commit(k) ==
    /\ committed' = [committed EXCEPT ![k] = @ + 1]
    /\ UNCHANGED <<confirmed, latest, reading, live, target, result>>

EndWrite(k) ==
    /\ confirmed' = [confirmed EXCEPT ![k] = committed[k]]
    /\ UNCHANGED <<committed, latest, reading, live, target, result>>

Next ==
    \/ \E r \in Readers : EndContext(r) \/ Succeed(r) \/ Fail(r) \/ \E k \in Collections : StartRead(r, k)
    \/ \E k \in Collections : Commit(k) \/ EndWrite(k)

Spec == Init /\ [][Next]_vars

=============================================================================
