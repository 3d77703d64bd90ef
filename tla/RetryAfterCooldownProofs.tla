---------------------- MODULE RetryAfterCooldownProofs ----------------------
(***************************************************************************)
(* The cooldown keeps its one token and its deadlines, for any number of   *)
(* requests and any delays.  The invariant falls into two halves that are  *)
(* preserved one after the other: who holds the token, and what the        *)
(* deadline that an attempt read says about the deadlines promised so far. *)
(***************************************************************************)
EXTENDS RetryAfterCooldown, TLAPS

LEMMA LaterIsMax ==
    ASSUME NEW t \in Nat, NEW u \in Nat
    PROVE  /\ Later(t, u) \in Nat
           /\ Later(t, u) >= t /\ Later(t, u) >= u
           /\ Later(t, u) = t \/ Later(t, u) = u
BY DEF Later

LEMMA ReplyFields ==
    ASSUME TypeOK, NEW r \in Requests
    PROVE  reply[r].kind \in {"throttled", "busy", "answered",
    "none"} /\ reply[r].delay \in Nat /\ reply[r].at \in Nat
BY DEF TypeOK, Replies

LEMMA InitInvariant == Init => IInv
BY DEF Init, IInv, TypeOK, Locations, Releases, Replies, NoReply, OneToken, Holding, ArmedMatchesPlace,
       InFlight,
       UntilIsPromised, SnapshotsAgree, CheckedDeadline, CooldownRemembered, CooldownHonoured

LEMMA TypesPreserved == TypeOK /\ [Next]_vars => TypeOK'
<1> SUFFICES ASSUME TypeOK, [Next]_vars PROVE TypeOK'
    OBVIOUS
<1> USE DEF TypeOK, Locations, Releases, Replies, NoReply, shared, local, history
<1>1. ASSUME NEW r \in Requests, LookUncooled(r) PROVE TypeOK'
    BY <1>1 DEF LookUncooled
<1>2. ASSUME NEW r \in Requests, LookCooled(r) PROVE TypeOK'
    BY <1>2 DEF LookCooled
<1>3. ASSUME NEW r \in Requests, Decide(r) PROVE TypeOK'
    BY <1>3 DEF Decide
<1>4. ASSUME NEW r \in Requests, WakeUp(r) PROVE TypeOK'
    BY <1>4 DEF WakeUp
<1>5. ASSUME NEW r \in Requests, GiveUp(r) PROVE TypeOK'
    BY <1>5 DEF GiveUp, EndAttempt
<1>6. ASSUME NEW r \in Requests, TakeToken(r) PROVE TypeOK'
    BY <1>6 DEF TakeToken
<1>7. ASSUME NEW r \in Requests, ReturnToken(r) PROVE TypeOK'
    BY <1>7 DEF ReturnToken, EndAttempt
<1>8. ASSUME NEW r \in Requests, Recheck(r) PROVE TypeOK'
    BY <1>8 DEF Recheck
<1>9. ASSUME NEW r \in Requests, ConfirmCooled(r) PROVE TypeOK'
    BY <1>9 DEF ConfirmCooled, CallRelease
<1>10. ASSUME NEW r \in Requests, ConfirmElapsed(r) PROVE TypeOK'
    BY <1>10 DEF ConfirmElapsed
<1>11. ASSUME NEW r \in Requests, Receive(r) PROVE TypeOK'
    BY <1>11, DelaysAssumption DEF Receive
<1>12. ASSUME NEW r \in Requests, Observe(r) PROVE TypeOK'
    BY <1>12, ReplyFields DEF Observe, Clears, Later
<1>13. ASSUME NEW r \in Requests, Release(r) PROVE TypeOK'
    <2>1. gate' \in Nat /\ release' \in [Requests -> Releases]
        BY <1>13 DEF Release, CallRelease
    <2>2. pc' \in [Requests -> Locations]
        BY <1>13 DEF Release
    <2> QED BY <1>13, <2>1, <2>2 DEF Release
<1>14. ASSUME NEW r \in Requests, Finish(r) PROVE TypeOK'
    BY <1>14 DEF Finish, EndAttempt
<1>15. ASSUME NEW r \in Requests, StartWait(r) PROVE TypeOK'
    BY <1>15 DEF StartWait
<1>16. ASSUME NEW r \in Requests, EndContext(r) PROVE TypeOK'
    BY <1>16 DEF EndContext
<1>17. CASE Tick
    BY <1>17 DEF Tick
<1>18. CASE UNCHANGED vars
    BY <1>18 DEF vars
<1> QED
    BY <1>1, <1>2, <1>3, <1>4, <1>5, <1>6, <1>7, <1>8, <1>9, <1>10, <1>11, <1>12, <1>13, <1>14, <1>15,
           <1>16, <1>17, <1>18 DEF Next, Wait, Middleware

Tokens == OneToken /\ ArmedMatchesPlace

\* Who holds the token.
LEMMA TokensPreserved == TypeOK /\ Tokens /\ [Next]_vars => Tokens'
<1> SUFFICES ASSUME TypeOK, Tokens, [Next]_vars PROVE Tokens'
    OBVIOUS
<1> USE DEF Tokens, OneToken, Holding, ArmedMatchesPlace, InFlight, TypeOK, Locations, Releases, shared,
local, history
<1>1. ASSUME NEW r \in Requests, LookUncooled(r) PROVE Tokens'
    BY <1>1 DEF LookUncooled
<1>2. ASSUME NEW r \in Requests, LookCooled(r) PROVE Tokens'
    BY <1>2 DEF LookCooled
<1>3. ASSUME NEW r \in Requests, Decide(r) PROVE Tokens'
    BY <1>3 DEF Decide
<1>4. ASSUME NEW r \in Requests, WakeUp(r) PROVE Tokens'
    BY <1>4 DEF WakeUp
<1>5. ASSUME NEW r \in Requests, GiveUp(r) PROVE Tokens'
    BY <1>5 DEF GiveUp, EndAttempt
<1>6. ASSUME NEW r \in Requests, TakeToken(r) PROVE Tokens'
    BY <1>6 DEF TakeToken
<1>7. ASSUME NEW r \in Requests, ReturnToken(r) PROVE Tokens'
    BY <1>7 DEF ReturnToken, EndAttempt
<1>8. ASSUME NEW r \in Requests, Recheck(r) PROVE Tokens'
    BY <1>8 DEF Recheck
<1>9. ASSUME NEW r \in Requests, ConfirmCooled(r) PROVE Tokens'
    BY <1>9 DEF ConfirmCooled, CallRelease
<1>10. ASSUME NEW r \in Requests, ConfirmElapsed(r) PROVE Tokens'
    BY <1>10 DEF ConfirmElapsed
<1>11. ASSUME NEW r \in Requests, Receive(r) PROVE Tokens'
    BY <1>11 DEF Receive
<1>12. ASSUME NEW r \in Requests, Observe(r) PROVE Tokens'
    BY <1>12 DEF Observe, Clears, Later
<1>13. ASSUME NEW r \in Requests, Release(r) PROVE Tokens'
    BY <1>13 DEF Release, CallRelease
<1>14. ASSUME NEW r \in Requests, Finish(r) PROVE Tokens'
    BY <1>14 DEF Finish, EndAttempt
<1>15. ASSUME NEW r \in Requests, StartWait(r) PROVE Tokens'
    BY <1>15 DEF StartWait
<1>16. ASSUME NEW r \in Requests, EndContext(r) PROVE Tokens'
    BY <1>16 DEF EndContext
<1>17. CASE Tick
    BY <1>17 DEF Tick
<1>18. CASE UNCHANGED vars
    BY <1>18 DEF vars
<1> QED
    BY <1>1, <1>2, <1>3, <1>4, <1>5, <1>6, <1>7, <1>8, <1>9, <1>10, <1>11, <1>12, <1>13, <1>14, <1>15,
           <1>16, <1>17, <1>18 DEF Next, Wait, Middleware

Deadlines == UntilIsPromised /\ SnapshotsAgree /\ CheckedDeadline /\ CooldownRemembered /\ CooldownHonoured

\* What the attempts know about the deadlines.
LEMMA DeadlinesPreserved == TypeOK /\ Tokens /\ Deadlines /\ [Next]_vars => Deadlines'
<1> SUFFICES ASSUME TypeOK, Tokens, Deadlines, [Next]_vars PROVE Deadlines'
    OBVIOUS
<1> USE DEF Deadlines, UntilIsPromised, SnapshotsAgree, CheckedDeadline, CooldownRemembered,
CooldownHonoured, OneToken, Holding, ArmedMatchesPlace, Tokens, InFlight, TypeOK, shared, local, history
<1>1. ASSUME NEW r \in Requests, LookUncooled(r) PROVE Deadlines'
    BY <1>1 DEF LookUncooled
<1>2. ASSUME NEW r \in Requests, LookCooled(r) PROVE Deadlines'
    BY <1>2 DEF LookCooled
<1>3. ASSUME NEW r \in Requests, Decide(r) PROVE Deadlines'
    BY <1>3 DEF Decide
<1>4. ASSUME NEW r \in Requests, WakeUp(r) PROVE Deadlines'
    BY <1>4 DEF WakeUp
<1>5. ASSUME NEW r \in Requests, GiveUp(r) PROVE Deadlines'
    BY <1>5 DEF GiveUp, EndAttempt
<1>6. ASSUME NEW r \in Requests, TakeToken(r) PROVE Deadlines'
    BY <1>6 DEF TakeToken
<1>7. ASSUME NEW r \in Requests, ReturnToken(r) PROVE Deadlines'
    BY <1>7 DEF ReturnToken, EndAttempt
<1>8. ASSUME NEW r \in Requests, Recheck(r) PROVE Deadlines'
    BY <1>8 DEF Recheck
<1>9. ASSUME NEW r \in Requests, ConfirmCooled(r) PROVE Deadlines'
    BY <1>9 DEF ConfirmCooled, CallRelease
<1>10. ASSUME NEW r \in Requests, ConfirmElapsed(r) PROVE Deadlines'
    BY <1>10 DEF ConfirmElapsed
<1>11. ASSUME NEW r \in Requests, Receive(r) PROVE Deadlines'
    BY <1>11 DEF Receive
<1>12. ASSUME NEW r \in Requests, Observe(r) PROVE Deadlines'
    BY <1>12, ReplyFields, LaterIsMax DEF Observe, Clears, Later
<1>13. ASSUME NEW r \in Requests, Release(r) PROVE Deadlines'
    BY <1>13 DEF Release, CallRelease
<1>14. ASSUME NEW r \in Requests, Finish(r) PROVE Deadlines'
    BY <1>14 DEF Finish, EndAttempt
<1>15. ASSUME NEW r \in Requests, StartWait(r) PROVE Deadlines'
    BY <1>15 DEF StartWait
<1>16. ASSUME NEW r \in Requests, EndContext(r) PROVE Deadlines'
    BY <1>16 DEF EndContext
<1>17. CASE Tick
    BY <1>17 DEF Tick
<1>18. CASE UNCHANGED vars
    BY <1>18 DEF vars
<1> QED
    BY <1>1, <1>2, <1>3, <1>4, <1>5, <1>6, <1>7, <1>8, <1>9, <1>10, <1>11, <1>12, <1>13, <1>14, <1>15,
           <1>16, <1>17, <1>18 DEF Next, Wait, Middleware

LEMMA NextInvariant == IInv /\ [Next]_vars => IInv'
<1> SUFFICES ASSUME IInv, [Next]_vars PROVE IInv'
    OBVIOUS
<1>1. TypeOK /\ Tokens /\ Deadlines
    BY DEF IInv, Tokens, Deadlines
<1>2. TypeOK' /\ Tokens' /\ Deadlines'
    BY <1>1, TypesPreserved, TokensPreserved, DeadlinesPreserved
<1> QED BY <1>2 DEF IInv, Tokens, Deadlines

\* The conjunction of the parts above is an invariant of the cooldown.
THEOREM CooldownInvariant == Spec => []IInv
BY InitInvariant, NextInvariant, PTL DEF Spec

\* Every variable of the cooldown and of its attempts keeps its type.
THEOREM CooldownTypes == Spec => []TypeOK
<1>1. IInv => TypeOK
    BY DEF IInv
<1> QED BY <1>1, CooldownInvariant, PTL

\* The release gate never loses its token and never gains a second one.
THEOREM GateKeepsItsToken == Spec => []OneToken
<1>1. IInv => OneToken
    BY DEF IInv
<1> QED BY <1>1, CooldownInvariant, PTL

\* Attempts that met the cooldown are serialized: each of them holds the token
\* from its last check until its answer is observed.
THEOREM ReleasesAreSerialized == Spec => []CoordinatedAlone
<1>1. IInv => CoordinatedAlone
    BY DEF IInv, CoordinatedAlone, ArmedMatchesPlace, OneToken, Holding
<1> QED BY <1>1, CooldownInvariant, PTL

\* One token, one release at a time.
THEOREM ReleasesAreAlwaysSerial == Spec => []ReleasesAreSerial
BY GateKeepsItsToken, ReleasesAreSerialized, PTL DEF ReleasesAreSerial

\* No later answer forgets or shortens a deadline that lies ahead.
THEOREM DeadlinesAreKept == Spec => []CooldownRemembered
<1>1. IInv => CooldownRemembered
    BY DEF IInv
<1> QED BY <1>1, CooldownInvariant, PTL

\* No attempt is sent before the deadlines it could know of.
THEOREM DeadlinesAreHonoured == Spec => []CooldownHonoured
<1>1. IInv => CooldownHonoured
    BY DEF IInv
<1> QED BY <1>1, CooldownInvariant, PTL

=============================================================================
