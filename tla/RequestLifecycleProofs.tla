----------------------- MODULE RequestLifecycleProofs -----------------------
(***************************************************************************)
(* What a request promises, for any number of permitted retries.  The      *)
(* conjuncts of the invariant are preserved in the order in which they     *)
(* build on one another: tries, effects, the response and the error in     *)
(* hand, observations.                                                     *)
(***************************************************************************)
EXTENDS RequestLifecycle, TLAPS

LEMMA MaxRetriesType == ASSUME TypeOK PROVE MaxRetries \in Nat
BY RetriesAssumption DEF TypeOK, Kinds, MaxRetries

\* The literals that the actions assign.
LEMMA Members ==
    /\ "wait" \in Locations /\ "sent" \in Locations /\ "body" \in Locations /\ "attempted" \in Locations
    /\ "tried" \in Locations /\ "backoff" \in Locations /\ "decode" \in Locations /\ "stop" \in Locations
    /\ "report" \in Locations /\ "conclude" \in Locations /\ "ask own" \in Locations /\ "ask again" \in Locations /\ "cleanup" \in Locations /\ "returned" \in Locations
    /\ "nil" \in Errors /\ "transport" \in Errors /\ "redirect" \in Errors /\ "oversize" \in Errors
    /\ "api" \in Errors /\ "decode" \in Errors /\ "unsupported" \in Errors
    /\ \A e \in ContextErrors : e \in Errors
    /\ "nil" \in ContextErrors /\ "canceled" \in ContextErrors /\ "deadline" \in ContextErrors
    /\ NoResponse \in [status : Statuses, retry : RetryHeaders]
    /\ "none" \in Statuses /\ "false" \in RetryHeaders
    /\ "response" \in Results /\ "lifecycle timeout" \in Results /\ "attempt timeouts" \in Results /\ "error" \in Results
BY DEF Locations, Errors, ContextErrors, NoResponse, Statuses, RetryHeaders, Results

LEMMA NoResponseFields == NoResponse.status = "none" /\ NoResponse.retry = "absent"
BY DEF NoResponse

LEMMA ClassifyType == \A e, f, st : Classify(e, f, st) \in Outcomes
BY DEF Classify, Outcomes

LEMMA KindIsFixed == [Next]_vars => kind' = kind /\ MaxRetries' = MaxRetries
BY DEF Next, Progress, Environment, Dispatch, WaitFails, BeginAttempt, LoseConnection, CutAttempt, Unanswered,
       ReadBody, ReadOversizeBody, LoseBody, CutBody, BreakBody, EndAttempt, StopTrying, BackOff, NextTry,
       Settle,
       Decode, DecodeAs, ReadAndDecode, CutDecode, AskOwn, AskAgain, GoOnTo, ConcludeWith, FireTimer, RecordPending, StopTimer, Report, Conclude, Cleanup, LifecycleDeadline,
       AttemptDeadline,
       Apply, ApplyAbandoned, Answer, EndCaller, vars, MaxRetries

LEMMA InitInvariant == Init => IInv
<1> SUFFICES ASSUME Init PROVE IInv
    OBVIOUS
<1>1. TypeOK
    BY DEF Init, TypeOK, Counters, Kinds, Locations, ContextErrors, Statuses, RetryHeaders, NoResponse,
           Errors, Results, Outcomes
<1>2. TriesAreCounted /\ EffectsHaveAttempts
    BY <1>1, MaxRetriesType DEF Init, TriesAreCounted, EffectsHaveAttempts
<1>3. ResponseIsExplained /\ ErrorIsExplained /\ ObservationsAreCounted
    <2>1. ResponseIsExplained
        BY DEF Init, ResponseIsExplained, Settled, NoResponse
    <2>2. ErrorIsExplained
        BY DEF Init, ErrorIsExplained, AttemptTimedOut
    <2>3. ObservationsAreCounted
        BY DEF Init, ObservationsAreCounted, Concluding
    <2> QED BY <2>1, <2>2, <2>3
<1>4. OutcomeIsExplained /\ TriesAreOver /\ RetriesUsedUp /\ LifecycleIsComplete /\ TimeoutsAreBlamedRight
    BY DEF Init, OutcomeIsExplained, TriesAreOver, RetriesUsedUp, Settled, LifecycleIsComplete, TimeoutsAreBlamedRight
<1> QED BY <1>1, <1>2, <1>3, <1>4 DEF IInv

\* Counters.
LEMMA CountersPreserved == Counters /\ [Next]_vars => Counters'
<1> SUFFICES ASSUME Counters, [Next]_vars PROVE Counters'
    OBVIOUS
<1> USE DEF Counters, contexts, lifecycle, inHand, telemetry, ending, api
<1>1. CASE Dispatch
    BY <1>1 DEF Dispatch
<1>2. CASE WaitFails
    BY <1>2 DEF WaitFails
<1>3. CASE BeginAttempt
    BY <1>3 DEF BeginAttempt
<1>4. CASE LoseConnection
    BY <1>4 DEF LoseConnection, Unanswered
<1>5. CASE CutAttempt
    BY <1>5 DEF CutAttempt, Unanswered
<1>6. CASE ReadBody
    BY <1>6 DEF ReadBody
<1>7. CASE ReadOversizeBody
    BY <1>7 DEF ReadOversizeBody
<1>8. CASE LoseBody
    BY <1>8 DEF LoseBody, BreakBody
<1>9. CASE CutBody
    BY <1>9 DEF CutBody, BreakBody
<1>10. CASE EndAttempt
    BY <1>10 DEF EndAttempt
<1>11. CASE StopTrying
    BY <1>11 DEF StopTrying
<1>12. CASE BackOff
    BY <1>12 DEF BackOff, TriesAgain, Retryable
<1>13. CASE NextTry
    BY <1>13 DEF NextTry
<1>14. CASE Settle
    BY <1>14 DEF Settle, TriesAgain, Retryable
<1>15. CASE Decode
    BY <1>15 DEF Decode, DecodeAs, Decoded
<1>29. CASE ReadAndDecode
    BY <1>29 DEF ReadAndDecode, DecodeAs, Decoded
<1>30. CASE CutDecode
    BY <1>30 DEF CutDecode, DecodeAs
<1>16. CASE FireTimer
    BY <1>16 DEF FireTimer
<1>17. CASE RecordPending
    BY <1>17 DEF RecordPending
<1>18. CASE StopTimer
    BY <1>18 DEF StopTimer, StopPendingTimer
<1>19. CASE Report
    BY <1>19 DEF Report, Classify
<1>20. CASE Conclude
    BY <1>20 DEF Conclude, ConcludeWith, GoOnTo
<1>31. CASE AskOwn
    BY <1>31 DEF AskOwn, ConcludeWith, GoOnTo
<1>32. CASE AskAgain
    BY <1>32 DEF AskAgain, ConcludeWith
<1>21. CASE Cleanup
    BY <1>21 DEF Cleanup, StopPendingTimer
<1>22. CASE LifecycleDeadline
    BY <1>22 DEF LifecycleDeadline, Attempting, Inherit
<1>23. CASE AttemptDeadline
    BY <1>23 DEF AttemptDeadline, Attempting
<1>24. CASE Apply
    BY <1>24 DEF Apply
<1>25. CASE ApplyAbandoned
    BY <1>25 DEF ApplyAbandoned
<1>26. ASSUME NEW status \in Statuses \ {"none"}, NEW retry \in RetryHeaders, Answer(status, retry) PROVE Counters'
    BY <1>26 DEF Answer, AfterHeaders
<1>27. ASSUME NEW e \in {"canceled", "deadline"}, EndCaller(e) PROVE Counters'
    BY <1>27 DEF EndCaller, Attempting, Inherit
<1>28. CASE UNCHANGED vars
    BY <1>28 DEF vars
<1> QED
    BY <1>1, <1>2, <1>3, <1>4, <1>5, <1>6, <1>7, <1>8, <1>9, <1>10, <1>11, <1>12, <1>13, <1>14, <1>15,
           <1>16, <1>17, <1>18, <1>19, <1>20, <1>21, <1>22, <1>23, <1>24, <1>25, <1>26, <1>27,
           <1>28, <1>29, <1>30, <1>31, <1>32 DEF Next, Progress, Environment

\* Types.
LEMMA TypesPreserved == TypeOK /\ [Next]_vars => TypeOK'
<1> SUFFICES ASSUME TypeOK, [Next]_vars PROVE TypeOK'
    OBVIOUS
<1> USE Members DEF TypeOK, contexts, lifecycle, inHand, telemetry, ending, api
<1>0. Counters'
    BY CountersPreserved
<1> USE <1>0
<1>1. CASE Dispatch
    BY <1>1 DEF Dispatch
<1>2. CASE WaitFails
    BY <1>2 DEF WaitFails
<1>3. CASE BeginAttempt
    BY <1>3 DEF BeginAttempt
<1>4. CASE LoseConnection
    BY <1>4 DEF LoseConnection, Unanswered
<1>5. CASE CutAttempt
    BY <1>5 DEF CutAttempt, Unanswered
<1>6. CASE ReadBody
    BY <1>6 DEF ReadBody
<1>7. CASE ReadOversizeBody
    BY <1>7 DEF ReadOversizeBody
<1>8. CASE LoseBody
    BY <1>8 DEF LoseBody, BreakBody
<1>9. CASE CutBody
    BY <1>9 DEF CutBody, BreakBody
<1>10. CASE EndAttempt
    BY <1>10 DEF EndAttempt
<1>11. CASE StopTrying
    BY <1>11 DEF StopTrying
<1>12. CASE BackOff
    BY <1>12 DEF BackOff, TriesAgain, Retryable
<1>13. CASE NextTry
    BY <1>13 DEF NextTry
<1>14. CASE Settle
    BY <1>14 DEF Settle, TriesAgain, Retryable
<1>15. CASE Decode
    BY <1>15 DEF Decode, DecodeAs, Decoded
<1>29. CASE ReadAndDecode
    BY <1>29 DEF ReadAndDecode, DecodeAs, Decoded
<1>30. CASE CutDecode
    BY <1>30 DEF CutDecode, DecodeAs
<1>16. CASE FireTimer
    BY <1>16 DEF FireTimer
<1>17. CASE RecordPending
    BY <1>17 DEF RecordPending
<1>18. CASE StopTimer
    BY <1>18 DEF StopTimer, StopPendingTimer
<1>19. CASE Report
    BY <1>19, ClassifyType DEF Report, Classify
<1>20. CASE Conclude
    BY <1>20 DEF Conclude, ConcludeWith, GoOnTo
<1>31. CASE AskOwn
    BY <1>31 DEF AskOwn, ConcludeWith, GoOnTo
<1>32. CASE AskAgain
    BY <1>32 DEF AskAgain, ConcludeWith
<1>21. CASE Cleanup
    BY <1>21 DEF Cleanup, StopPendingTimer
<1>22. CASE LifecycleDeadline
    BY <1>22 DEF LifecycleDeadline, Attempting, Inherit
<1>23. CASE AttemptDeadline
    BY <1>23 DEF AttemptDeadline, Attempting
<1>24. CASE Apply
    BY <1>24 DEF Apply
<1>25. CASE ApplyAbandoned
    BY <1>25 DEF ApplyAbandoned
<1>26. ASSUME NEW status \in Statuses \ {"none"}, NEW retry \in RetryHeaders, Answer(status, retry) PROVE TypeOK'
    BY <1>26 DEF Answer, AfterHeaders
<1>27. ASSUME NEW e \in {"canceled", "deadline"}, EndCaller(e) PROVE TypeOK'
    BY <1>27 DEF EndCaller, Attempting, Inherit
<1>28. CASE UNCHANGED vars
    BY <1>28 DEF vars
<1> QED
    BY <1>1, <1>2, <1>3, <1>4, <1>5, <1>6, <1>7, <1>8, <1>9, <1>10, <1>11, <1>12, <1>13, <1>14, <1>15,
           <1>16, <1>17, <1>18, <1>19, <1>20, <1>21, <1>22, <1>23, <1>24, <1>25, <1>26, <1>27,
           <1>28, <1>29, <1>30, <1>31, <1>32 DEF Next, Progress, Environment

\* The SDK calls the middleware once per permitted try.
LEMMA TriesPreserved == Counters /\ MaxRetries \in Nat /\ TriesAreCounted /\ [Next]_vars => TriesAreCounted'
<1> SUFFICES ASSUME Counters, MaxRetries \in Nat, TriesAreCounted, [Next]_vars PROVE TriesAreCounted'
    OBVIOUS
<1> USE KindIsFixed DEF TriesAreCounted, Counters, contexts, lifecycle, inHand, telemetry, ending, api
<1>1. CASE Dispatch
    BY <1>1 DEF Dispatch
<1>2. CASE WaitFails
    BY <1>2 DEF WaitFails
<1>3. CASE BeginAttempt
    BY <1>3 DEF BeginAttempt
<1>4. CASE LoseConnection
    BY <1>4 DEF LoseConnection, Unanswered
<1>5. CASE CutAttempt
    BY <1>5 DEF CutAttempt, Unanswered
<1>6. CASE ReadBody
    BY <1>6 DEF ReadBody
<1>7. CASE ReadOversizeBody
    BY <1>7 DEF ReadOversizeBody
<1>8. CASE LoseBody
    BY <1>8 DEF LoseBody, BreakBody
<1>9. CASE CutBody
    BY <1>9 DEF CutBody, BreakBody
<1>10. CASE EndAttempt
    BY <1>10 DEF EndAttempt
<1>11. CASE StopTrying
    BY <1>11 DEF StopTrying
<1>12. CASE BackOff
    BY <1>12 DEF BackOff, TriesAgain, Retryable
<1>13. CASE NextTry
    BY <1>13 DEF NextTry
<1>14. CASE Settle
    BY <1>14 DEF Settle, TriesAgain, Retryable
<1>15. CASE Decode
    BY <1>15 DEF Decode, DecodeAs, Decoded
<1>29. CASE ReadAndDecode
    BY <1>29 DEF ReadAndDecode, DecodeAs, Decoded
<1>30. CASE CutDecode
    BY <1>30 DEF CutDecode, DecodeAs
<1>16. CASE FireTimer
    BY <1>16 DEF FireTimer
<1>17. CASE RecordPending
    BY <1>17 DEF RecordPending
<1>18. CASE StopTimer
    BY <1>18 DEF StopTimer, StopPendingTimer
<1>19. CASE Report
    BY <1>19 DEF Report, Classify
<1>20. CASE Conclude
    BY <1>20 DEF Conclude, ConcludeWith, GoOnTo
<1>31. CASE AskOwn
    BY <1>31 DEF AskOwn, ConcludeWith, GoOnTo
<1>32. CASE AskAgain
    BY <1>32 DEF AskAgain, ConcludeWith
<1>21. CASE Cleanup
    BY <1>21 DEF Cleanup, StopPendingTimer
<1>22. CASE LifecycleDeadline
    BY <1>22 DEF LifecycleDeadline, Attempting, Inherit
<1>23. CASE AttemptDeadline
    BY <1>23 DEF AttemptDeadline, Attempting
<1>24. CASE Apply
    BY <1>24 DEF Apply
<1>25. CASE ApplyAbandoned
    BY <1>25 DEF ApplyAbandoned
<1>26. ASSUME NEW status \in Statuses \ {"none"}, NEW retry \in RetryHeaders, Answer(status, retry) PROVE TriesAreCounted'
    BY <1>26 DEF Answer, AfterHeaders
<1>27. ASSUME NEW e \in {"canceled", "deadline"}, EndCaller(e) PROVE TriesAreCounted'
    BY <1>27 DEF EndCaller, Attempting, Inherit
<1>28. CASE UNCHANGED vars
    BY <1>28 DEF vars
<1> QED
    BY <1>1, <1>2, <1>3, <1>4, <1>5, <1>6, <1>7, <1>8, <1>9, <1>10, <1>11, <1>12, <1>13, <1>14, <1>15,
           <1>16, <1>17, <1>18, <1>19, <1>20, <1>21, <1>22, <1>23, <1>24, <1>25, <1>26, <1>27,
           <1>28, <1>29, <1>30, <1>31, <1>32 DEF Next, Progress, Environment

\* Each attempt is applied once at most.
LEMMA EffectsPreserved == Counters /\ TriesAreCounted /\ EffectsHaveAttempts /\ [Next]_vars => EffectsHaveAttempts'
<1> SUFFICES ASSUME Counters, TriesAreCounted, EffectsHaveAttempts, [Next]_vars PROVE EffectsHaveAttempts'
    OBVIOUS
<1> USE DEF EffectsHaveAttempts, Mutates, Counters, contexts, lifecycle, inHand, telemetry, ending, api
<1>1. CASE Dispatch
    BY <1>1 DEF Dispatch
<1>2. CASE WaitFails
    BY <1>2 DEF WaitFails
<1>3. CASE BeginAttempt
    BY <1>3 DEF BeginAttempt
<1>4. CASE LoseConnection
    BY <1>4 DEF LoseConnection, Unanswered
<1>5. CASE CutAttempt
    BY <1>5 DEF CutAttempt, Unanswered
<1>6. CASE ReadBody
    BY <1>6 DEF ReadBody
<1>7. CASE ReadOversizeBody
    BY <1>7 DEF ReadOversizeBody
<1>8. CASE LoseBody
    BY <1>8 DEF LoseBody, BreakBody
<1>9. CASE CutBody
    BY <1>9 DEF CutBody, BreakBody
<1>10. CASE EndAttempt
    BY <1>10 DEF EndAttempt
<1>11. CASE StopTrying
    BY <1>11 DEF StopTrying
<1>12. CASE BackOff
    BY <1>12 DEF BackOff, TriesAgain, Retryable
<1>13. CASE NextTry
    BY <1>13 DEF NextTry
<1>14. CASE Settle
    BY <1>14 DEF Settle, TriesAgain, Retryable
<1>15. CASE Decode
    BY <1>15 DEF Decode, DecodeAs, Decoded
<1>29. CASE ReadAndDecode
    BY <1>29 DEF ReadAndDecode, DecodeAs, Decoded
<1>30. CASE CutDecode
    BY <1>30 DEF CutDecode, DecodeAs
<1>16. CASE FireTimer
    BY <1>16 DEF FireTimer
<1>17. CASE RecordPending
    BY <1>17 DEF RecordPending
<1>18. CASE StopTimer
    BY <1>18 DEF StopTimer, StopPendingTimer
<1>19. CASE Report
    BY <1>19 DEF Report, Classify
<1>20. CASE Conclude
    BY <1>20 DEF Conclude, ConcludeWith, GoOnTo
<1>31. CASE AskOwn
    BY <1>31 DEF AskOwn, ConcludeWith, GoOnTo
<1>32. CASE AskAgain
    BY <1>32 DEF AskAgain, ConcludeWith
<1>21. CASE Cleanup
    BY <1>21 DEF Cleanup, StopPendingTimer
<1>22. CASE LifecycleDeadline
    BY <1>22 DEF LifecycleDeadline, Attempting, Inherit
<1>23. CASE AttemptDeadline
    BY <1>23 DEF AttemptDeadline, Attempting
<1>24. CASE Apply
    BY <1>24 DEF Apply
<1>25. CASE ApplyAbandoned
    BY <1>25 DEF ApplyAbandoned
<1>26. ASSUME NEW status \in Statuses \ {"none"}, NEW retry \in RetryHeaders, Answer(status, retry) PROVE EffectsHaveAttempts'
    BY <1>26 DEF Answer, AfterHeaders
<1>27. ASSUME NEW e \in {"canceled", "deadline"}, EndCaller(e) PROVE EffectsHaveAttempts'
    BY <1>27 DEF EndCaller, Attempting, Inherit
<1>28. CASE UNCHANGED vars
    BY <1>28 DEF vars
<1> QED
    BY <1>1, <1>2, <1>3, <1>4, <1>5, <1>6, <1>7, <1>8, <1>9, <1>10, <1>11, <1>12, <1>13, <1>14, <1>15,
           <1>16, <1>17, <1>18, <1>19, <1>20, <1>21, <1>22, <1>23, <1>24, <1>25, <1>26, <1>27,
           <1>28, <1>29, <1>30, <1>31, <1>32 DEF Next, Progress, Environment

\* The response in hand.
LEMMA ResponsePreserved == TypeOK /\ EffectsHaveAttempts /\ ResponseIsExplained /\ [Next]_vars => ResponseIsExplained'
<1> SUFFICES ASSUME TypeOK, EffectsHaveAttempts, ResponseIsExplained, [Next]_vars PROVE ResponseIsExplained'
    OBVIOUS
<1>0. response \in [status : Statuses, retry : RetryHeaders]
    BY DEF TypeOK
<1>33. Dispatch => /\ pc = "start" /\ UNCHANGED <<kind, code, response, effects>>
                    /\ \/ pc' = "cleanup" /\ err' = "unsupported" /\ result' = "error"
                       \/ pc' = "wait" /\ err' = err /\ result' = result
    BY DEF Dispatch, api
<1>34. EndAttempt => /\ pc = "attempted" /\ pc' = "tried" /\ lastStatus' = code
                     /\ UNCHANGED <<kind, code, response, err, effects, result>>
    BY DEF EndAttempt, inHand, api, ending
<1>35. ApplyAbandoned => /\ effects' >= 1
                         /\ UNCHANGED <<kind, pc, code, response, err, lastStatus, result>>
    BY DEF ApplyAbandoned, inHand, api, ending, lifecycle, TypeOK, Counters
<1> USE <1>0, NoResponseFields DEF EffectsHaveAttempts, ResponseIsExplained, Settled, Mutates, ControlsRetry,
    contexts, lifecycle, inHand, telemetry, ending, api
<1>1. CASE Dispatch
    BY <1>1, <1>33
<1>2. CASE WaitFails
    BY <1>2 DEF WaitFails
<1>3. CASE BeginAttempt
    BY <1>3 DEF BeginAttempt
<1>4. CASE LoseConnection
    BY <1>4 DEF LoseConnection, Unanswered
<1>5. CASE CutAttempt
    BY <1>5 DEF CutAttempt, Unanswered
<1>6. CASE ReadBody
    BY <1>6 DEF ReadBody
<1>7. CASE ReadOversizeBody
    BY <1>7 DEF ReadOversizeBody
<1>8. CASE LoseBody
    BY <1>8 DEF LoseBody, BreakBody
<1>9. CASE CutBody
    BY <1>9 DEF CutBody, BreakBody
<1>10. CASE EndAttempt
    BY <1>10, <1>34
<1>11. CASE StopTrying
    BY <1>11 DEF StopTrying
<1>12. CASE BackOff
    BY <1>12 DEF BackOff, TriesAgain, Retryable
<1>13. CASE NextTry
    BY <1>13 DEF NextTry
<1>14. CASE Settle
    BY <1>14 DEF Settle, TriesAgain, Retryable
<1>15. CASE Decode
    BY <1>15 DEF Decode, DecodeAs, Decoded
<1>29. CASE ReadAndDecode
    BY <1>29 DEF ReadAndDecode, DecodeAs, Decoded
<1>30. CASE CutDecode
    BY <1>30 DEF CutDecode, DecodeAs
<1>16. CASE FireTimer
    BY <1>16 DEF FireTimer
<1>17. CASE RecordPending
    BY <1>17 DEF RecordPending
<1>18. CASE StopTimer
    BY <1>18 DEF StopTimer, StopPendingTimer
<1>19. CASE Report
    BY <1>19 DEF Report, Classify
<1>20. CASE Conclude
    BY <1>20 DEF Conclude, ConcludeWith, GoOnTo
<1>31. CASE AskOwn
    BY <1>31 DEF AskOwn, ConcludeWith, GoOnTo
<1>32. CASE AskAgain
    BY <1>32 DEF AskAgain, ConcludeWith
<1>21. CASE Cleanup
    BY <1>21 DEF Cleanup, StopPendingTimer
<1>22. CASE LifecycleDeadline
    BY <1>22 DEF LifecycleDeadline, Attempting, Inherit
<1>23. CASE AttemptDeadline
    BY <1>23 DEF AttemptDeadline, Attempting
<1>24. CASE Apply
    BY <1>24 DEF Apply
<1>25. CASE ApplyAbandoned
    BY <1>25, <1>35
<1>26. ASSUME NEW status \in Statuses \ {"none"}, NEW retry \in RetryHeaders, Answer(status, retry) PROVE ResponseIsExplained'
    BY <1>26 DEF Answer, AfterHeaders
<1>27. ASSUME NEW e \in {"canceled", "deadline"}, EndCaller(e) PROVE ResponseIsExplained'
    BY <1>27 DEF EndCaller, Attempting, Inherit
<1>28. CASE UNCHANGED vars
    BY <1>28 DEF vars
<1> QED
    BY <1>1, <1>2, <1>3, <1>4, <1>5, <1>6, <1>7, <1>8, <1>9, <1>10, <1>11, <1>12, <1>13, <1>14, <1>15,
           <1>16, <1>17, <1>18, <1>19, <1>20, <1>21, <1>22, <1>23, <1>24, <1>25, <1>26, <1>27,
           <1>28, <1>29, <1>30, <1>31, <1>32 DEF Next, Progress, Environment

\* The error in hand.
LEMMA ErrorPreserved == TypeOK /\ ResponseIsExplained /\ ErrorIsExplained /\ [Next]_vars => ErrorIsExplained'
<1> SUFFICES ASSUME TypeOK, ResponseIsExplained, ErrorIsExplained, [Next]_vars PROVE ErrorIsExplained'
    OBVIOUS
<1> USE DEF ResponseIsExplained, ErrorIsExplained, AttemptTimedOut, TransientErrors, ControlsRetry, NoResponse, TypeOK,
contexts, lifecycle, inHand, telemetry, ending, api
<1>1. CASE Dispatch
    BY <1>1 DEF Dispatch
<1>2. CASE WaitFails
    BY <1>2 DEF WaitFails, ContextErrors
<1>3. CASE BeginAttempt
    BY <1>3 DEF BeginAttempt
<1>4. CASE LoseConnection
    BY <1>4 DEF LoseConnection, Unanswered
<1>5. CASE CutAttempt
    BY <1>5 DEF CutAttempt, Unanswered, ContextErrors
<1>6. CASE ReadBody
    BY <1>6 DEF ReadBody
<1>7. CASE ReadOversizeBody
    BY <1>7 DEF ReadOversizeBody
<1>8. CASE LoseBody
    BY <1>8 DEF LoseBody, BreakBody
<1>9. CASE CutBody
    BY <1>9 DEF CutBody, BreakBody, ContextErrors
<1>10. CASE EndAttempt
    BY <1>10 DEF EndAttempt
<1>11. CASE StopTrying
    BY <1>11 DEF StopTrying, ContextErrors
<1>12. CASE BackOff
    BY <1>12 DEF BackOff, TriesAgain, Retryable
<1>13. CASE NextTry
    BY <1>13 DEF NextTry
<1>14. CASE Settle
    BY <1>14 DEF Settle, TriesAgain, Retryable
<1>15. CASE Decode
    BY <1>15 DEF Decode, DecodeAs, Decoded, ContextErrors
<1>29. CASE ReadAndDecode
    BY <1>29 DEF ReadAndDecode, DecodeAs, Decoded, ContextErrors
<1>30. CASE CutDecode
    BY <1>30 DEF CutDecode, DecodeAs, ContextErrors
<1>16. CASE FireTimer
    BY <1>16 DEF FireTimer
<1>17. CASE RecordPending
    BY <1>17 DEF RecordPending
<1>18. CASE StopTimer
    BY <1>18 DEF StopTimer, StopPendingTimer
<1>19. CASE Report
    BY <1>19 DEF Report, Classify
<1>20. CASE Conclude
    BY <1>20 DEF Conclude, ConcludeWith, GoOnTo, ContextErrors
<1>31. CASE AskOwn
    BY <1>31 DEF AskOwn, ConcludeWith, GoOnTo, ContextErrors
<1>32. CASE AskAgain
    BY <1>32 DEF AskAgain, ConcludeWith, ContextErrors
<1>21. CASE Cleanup
    BY <1>21 DEF Cleanup, StopPendingTimer
<1>22. CASE LifecycleDeadline
    BY <1>22 DEF LifecycleDeadline, Attempting, Inherit, ContextErrors
<1>23. CASE AttemptDeadline
    BY <1>23 DEF AttemptDeadline, Attempting
<1>24. CASE Apply
    BY <1>24 DEF Apply
<1>25. CASE ApplyAbandoned
    BY <1>25 DEF ApplyAbandoned
<1>26. ASSUME NEW status \in Statuses \ {"none"}, NEW retry \in RetryHeaders, Answer(status, retry) PROVE ErrorIsExplained'
    BY <1>26 DEF Answer, AfterHeaders
<1>27. ASSUME NEW e \in {"canceled", "deadline"}, EndCaller(e) PROVE ErrorIsExplained'
    BY <1>27 DEF EndCaller, Attempting, Inherit
<1>28. CASE UNCHANGED vars
    BY <1>28 DEF vars
<1> QED
    BY <1>1, <1>2, <1>3, <1>4, <1>5, <1>6, <1>7, <1>8, <1>9, <1>10, <1>11, <1>12, <1>13, <1>14, <1>15,
           <1>16, <1>17, <1>18, <1>19, <1>20, <1>21, <1>22, <1>23, <1>24, <1>25, <1>26, <1>27,
           <1>28, <1>29, <1>30, <1>31, <1>32 DEF Next, Progress, Environment

\* The pending timer and the counts of observations.
LEMMA ObservationsPreserved == Counters /\ TriesAreCounted /\ ObservationsAreCounted /\ [Next]_vars => ObservationsAreCounted'
<1> SUFFICES ASSUME Counters, TriesAreCounted, ObservationsAreCounted, [Next]_vars PROVE ObservationsAreCounted'
    OBVIOUS
<1> USE DEF TriesAreCounted, ObservationsAreCounted, Concluding, Counters, contexts, lifecycle, inHand, telemetry,
ending, api
<1>1. CASE Dispatch
    BY <1>1 DEF Dispatch
<1>2. CASE WaitFails
    BY <1>2 DEF WaitFails
<1>3. CASE BeginAttempt
    BY <1>3 DEF BeginAttempt
<1>4. CASE LoseConnection
    BY <1>4 DEF LoseConnection, Unanswered
<1>5. CASE CutAttempt
    BY <1>5 DEF CutAttempt, Unanswered
<1>6. CASE ReadBody
    BY <1>6 DEF ReadBody
<1>7. CASE ReadOversizeBody
    BY <1>7 DEF ReadOversizeBody
<1>8. CASE LoseBody
    BY <1>8 DEF LoseBody, BreakBody
<1>9. CASE CutBody
    BY <1>9 DEF CutBody, BreakBody
<1>10. CASE EndAttempt
    BY <1>10 DEF EndAttempt
<1>11. CASE StopTrying
    BY <1>11 DEF StopTrying
<1>12. CASE BackOff
    BY <1>12 DEF BackOff, TriesAgain, Retryable
<1>13. CASE NextTry
    BY <1>13 DEF NextTry
<1>14. CASE Settle
    BY <1>14 DEF Settle, TriesAgain, Retryable
<1>15. CASE Decode
    BY <1>15 DEF Decode, DecodeAs, Decoded
<1>29. CASE ReadAndDecode
    BY <1>29 DEF ReadAndDecode, DecodeAs, Decoded
<1>30. CASE CutDecode
    BY <1>30 DEF CutDecode, DecodeAs
<1>16. CASE FireTimer
    BY <1>16 DEF FireTimer
<1>17. CASE RecordPending
    BY <1>17 DEF RecordPending
<1>18. CASE StopTimer
    BY <1>18 DEF StopTimer, StopPendingTimer
<1>19. CASE Report
    BY <1>19 DEF Report, Classify
<1>20. CASE Conclude
    BY <1>20 DEF Conclude, ConcludeWith, GoOnTo
<1>31. CASE AskOwn
    BY <1>31 DEF AskOwn, ConcludeWith, GoOnTo
<1>32. CASE AskAgain
    BY <1>32 DEF AskAgain, ConcludeWith
<1>21. CASE Cleanup
    BY <1>21 DEF Cleanup, StopPendingTimer
<1>22. CASE LifecycleDeadline
    BY <1>22 DEF LifecycleDeadline, Attempting, Inherit
<1>23. CASE AttemptDeadline
    BY <1>23 DEF AttemptDeadline, Attempting
<1>24. CASE Apply
    BY <1>24 DEF Apply
<1>25. CASE ApplyAbandoned
    BY <1>25 DEF ApplyAbandoned
<1>26. ASSUME NEW status \in Statuses \ {"none"}, NEW retry \in RetryHeaders, Answer(status, retry) PROVE ObservationsAreCounted'
    BY <1>26 DEF Answer, AfterHeaders
<1>27. ASSUME NEW e \in {"canceled", "deadline"}, EndCaller(e) PROVE ObservationsAreCounted'
    BY <1>27 DEF EndCaller, Attempting, Inherit
<1>28. CASE UNCHANGED vars
    BY <1>28 DEF vars
<1> QED
    BY <1>1, <1>2, <1>3, <1>4, <1>5, <1>6, <1>7, <1>8, <1>9, <1>10, <1>11, <1>12, <1>13, <1>14, <1>15,
           <1>16, <1>17, <1>18, <1>19, <1>20, <1>21, <1>22, <1>23, <1>24, <1>25, <1>26, <1>27,
           <1>28, <1>29, <1>30, <1>31, <1>32 DEF Next, Progress, Environment

\* Retries.
LEMMA RetriesPreserved == TypeOK /\ MaxRetries \in Nat /\ TriesAreCounted /\ ResponseIsExplained
    /\ ErrorIsExplained /\ TriesAreOver /\ RetriesUsedUp /\ [Next]_vars => TriesAreOver' /\ RetriesUsedUp'
<1> SUFFICES ASSUME TypeOK, MaxRetries \in Nat, TriesAreCounted, ResponseIsExplained, ErrorIsExplained,
                    TriesAreOver, RetriesUsedUp, [Next]_vars
             PROVE  TriesAreOver' /\ RetriesUsedUp'
    OBVIOUS
<1>0. pc = "decode" => tries = 1 + MaxRetries \/ ~Retryable(response)
    BY DEF TriesAreOver
<1> USE KindIsFixed DEF TriesAreCounted, ErrorIsExplained, TriesAreOver, RetriesUsedUp, Settled, Mutates, TransientErrors, ControlsRetry,
NoResponse, TypeOK, contexts, lifecycle, inHand, telemetry, ending, api
<1>1. CASE Dispatch
    BY <1>1 DEF Dispatch
<1>2. CASE WaitFails
    BY <1>2 DEF WaitFails
<1>3. CASE BeginAttempt
    BY <1>3 DEF BeginAttempt
<1>4. CASE LoseConnection
    BY <1>4 DEF LoseConnection, Unanswered
<1>5. CASE CutAttempt
    BY <1>5 DEF CutAttempt, Unanswered
<1>6. CASE ReadBody
    BY <1>6 DEF ReadBody
<1>7. CASE ReadOversizeBody
    BY <1>7 DEF ReadOversizeBody
<1>8. CASE LoseBody
    BY <1>8 DEF LoseBody, BreakBody
<1>9. CASE CutBody
    BY <1>9 DEF CutBody, BreakBody
<1>10. CASE EndAttempt
    BY <1>10 DEF EndAttempt
<1>11. CASE StopTrying
    BY <1>11 DEF StopTrying
<1>12. CASE BackOff
    BY <1>12 DEF BackOff, TriesAgain, Retryable
<1>13. CASE NextTry
    BY <1>13 DEF NextTry
<1>14. CASE Settle
    <2>1. response.retry \in {"absent", "true", "false"}
        BY DEF RetryHeaders
    <2>2. err \in TransientErrors => Retryable(response) \/ response.retry = "false"
        BY <1>14, <2>1 DEF Settle, Retryable
    <2>3. Retryable(response) => tries = 1 + MaxRetries
        BY <1>14 DEF Settle, TriesAgain, Counters
    <2>4. err' \in TransientErrors => err' = err
        BY <1>14 DEF Settle
    <2>5. TriesAreOver'
        <3>1. tries = 1 + MaxRetries \/ ~Retryable(response)
            BY <1>14 DEF Settle, TriesAgain, Counters
        <3>2. UNCHANGED <<tries, response>>
            BY <1>14 DEF Settle
        <3> QED BY <3>1, <3>2 DEF Retryable
    <2> QED BY <1>14, <2>2, <2>3, <2>4, <2>5 DEF Settle
<1>15. CASE Decode
    BY <1>15 DEF Decode, DecodeAs, Decoded
<1>29. CASE ReadAndDecode
    <2>1. /\ pc = "decode" /\ pc' = "stop" /\ kind # "read" /\ UNCHANGED <<tries, response, kind, own>>
          /\ err' \in TransientErrors => err' = "transport"
        BY <1>29 DEF ReadAndDecode, DecodeAs, Decoded
    <2>2. Mutates
        BY <2>1 DEF Kinds
    <2>3. response.retry \in RetryHeaders /\ response.status \in Statuses /\ response.status # "redirect"
        BY <2>1 DEF ResponseIsExplained
    <2>4. Retryable(response) \/ response.retry = "false"
              \/ (response.retry = "absent" /\ response.status \in {"success", "rejected"})
        BY <2>3 DEF Retryable, RetryHeaders, Statuses
    <2>5. tries = 1 + MaxRetries \/ ~Retryable(response)
        BY <1>0, <2>1
    <2>6. TriesAreOver'
        BY <2>1
    <2>7. RetriesUsedUp'
        BY <2>1, <2>2, <2>4, <2>5
    <2> QED BY <2>6, <2>7
<1>30. CASE CutDecode
    BY <1>30 DEF CutDecode, DecodeAs
<1>16. CASE FireTimer
    BY <1>16 DEF FireTimer
<1>17. CASE RecordPending
    BY <1>17 DEF RecordPending
<1>18. CASE StopTimer
    BY <1>18 DEF StopTimer, StopPendingTimer
<1>19. CASE Report
    BY <1>19 DEF Report, Classify
<1>20. CASE Conclude
    BY <1>20 DEF Conclude, ConcludeWith, GoOnTo
<1>31. CASE AskOwn
    BY <1>31 DEF AskOwn, ConcludeWith, GoOnTo
<1>32. CASE AskAgain
    BY <1>32 DEF AskAgain, ConcludeWith
<1>21. CASE Cleanup
    BY <1>21 DEF Cleanup, StopPendingTimer
<1>22. CASE LifecycleDeadline
    BY <1>22 DEF LifecycleDeadline, Attempting, Inherit
<1>23. CASE AttemptDeadline
    BY <1>23 DEF AttemptDeadline, Attempting
<1>24. CASE Apply
    BY <1>24 DEF Apply
<1>25. CASE ApplyAbandoned
    BY <1>25 DEF ApplyAbandoned
<1>26. ASSUME NEW status \in Statuses \ {"none"}, NEW retry \in RetryHeaders, Answer(status, retry) PROVE TriesAreOver' /\ RetriesUsedUp'
    BY <1>26 DEF Answer, AfterHeaders
<1>27. ASSUME NEW e \in {"canceled", "deadline"}, EndCaller(e) PROVE TriesAreOver' /\ RetriesUsedUp'
    BY <1>27 DEF EndCaller, Attempting, Inherit
<1>28. CASE UNCHANGED vars
    BY <1>28 DEF vars
<1> QED
    BY <1>1, <1>2, <1>3, <1>4, <1>5, <1>6, <1>7, <1>8, <1>9, <1>10, <1>11, <1>12, <1>13, <1>14, <1>15,
           <1>16, <1>17, <1>18, <1>19, <1>20, <1>21, <1>22, <1>23, <1>24, <1>25, <1>26, <1>27,
           <1>28, <1>29, <1>30, <1>31, <1>32 DEF Next, Progress, Environment

\* The lifecycle observation.
LEMMA CompletePreserved == TypeOK /\ ResponseIsExplained /\ ObservationsAreCounted /\ OutcomeIsExplained /\ LifecycleIsComplete /\ [Next]_vars => (OutcomeIsExplained /\ LifecycleIsComplete)'
<1> SUFFICES ASSUME TypeOK, ResponseIsExplained, ObservationsAreCounted, OutcomeIsExplained, LifecycleIsComplete, [Next]_vars PROVE (OutcomeIsExplained /\ LifecycleIsComplete)'
    OBVIOUS
<1> USE DEF OutcomeIsExplained, ResponseIsExplained, ObservationsAreCounted, Concluding, LifecycleIsComplete, Settled,
TypeOK, contexts, lifecycle, inHand, telemetry, ending, api
<1>1. CASE Dispatch
    BY <1>1 DEF Dispatch
<1>2. CASE WaitFails
    BY <1>2 DEF WaitFails
<1>3. CASE BeginAttempt
    BY <1>3 DEF BeginAttempt
<1>4. CASE LoseConnection
    BY <1>4 DEF LoseConnection, Unanswered
<1>5. CASE CutAttempt
    BY <1>5 DEF CutAttempt, Unanswered
<1>6. CASE ReadBody
    BY <1>6 DEF ReadBody
<1>7. CASE ReadOversizeBody
    BY <1>7 DEF ReadOversizeBody
<1>8. CASE LoseBody
    BY <1>8 DEF LoseBody, BreakBody
<1>9. CASE CutBody
    BY <1>9 DEF CutBody, BreakBody
<1>10. CASE EndAttempt
    BY <1>10 DEF EndAttempt
<1>11. CASE StopTrying
    BY <1>11 DEF StopTrying
<1>12. CASE BackOff
    BY <1>12 DEF BackOff, TriesAgain, Retryable
<1>13. CASE NextTry
    BY <1>13 DEF NextTry
<1>14. CASE Settle
    BY <1>14 DEF Settle, TriesAgain, Retryable
<1>15. CASE Decode
    BY <1>15 DEF Decode, DecodeAs, Decoded
<1>29. CASE ReadAndDecode
    BY <1>29 DEF ReadAndDecode, DecodeAs, Decoded
<1>30. CASE CutDecode
    BY <1>30 DEF CutDecode, DecodeAs
<1>16. CASE FireTimer
    BY <1>16 DEF FireTimer
<1>17. CASE RecordPending
    BY <1>17 DEF RecordPending, Counters
<1>18. CASE StopTimer
    BY <1>18 DEF StopTimer, StopPendingTimer
<1>19. CASE Report
    <2>1. err = "nil" => lastStatus = "success"
        BY <1>19 DEF Report
    <2>2. err = "nil" /\ own = "nil" => outcome' = "success"
        BY <1>19, <2>1 DEF Report, Classify
    <2>3. outcome' = "success" => err = "nil"
        BY <1>19 DEF Report, Classify
    <2>4. result' = result /\ result # "response"
        BY <1>19 DEF Report
    <2>5. observed'.attempt = attempts'
        BY <1>19 DEF Report, Counters
    <2> QED BY <1>19, <2>2, <2>3, <2>4, <2>5 DEF Report
<1>20. CASE Conclude
    BY <1>20 DEF Conclude, ConcludeWith, GoOnTo
<1>31. CASE AskOwn
    BY <1>31 DEF AskOwn, ConcludeWith, GoOnTo
<1>32. CASE AskAgain
    BY <1>32 DEF AskAgain, ConcludeWith
<1>21. CASE Cleanup
    BY <1>21 DEF Cleanup, StopPendingTimer
<1>22. CASE LifecycleDeadline
    BY <1>22 DEF LifecycleDeadline, Attempting, Inherit
<1>23. CASE AttemptDeadline
    BY <1>23 DEF AttemptDeadline, Attempting
<1>24. CASE Apply
    BY <1>24 DEF Apply
<1>25. CASE ApplyAbandoned
    BY <1>25 DEF ApplyAbandoned
<1>26. ASSUME NEW status \in Statuses \ {"none"}, NEW retry \in RetryHeaders, Answer(status, retry) PROVE (OutcomeIsExplained /\ LifecycleIsComplete)'
    BY <1>26 DEF Answer, AfterHeaders
<1>27. ASSUME NEW e \in {"canceled", "deadline"}, EndCaller(e) PROVE (OutcomeIsExplained /\ LifecycleIsComplete)'
    BY <1>27 DEF EndCaller, Attempting, Inherit
<1>28. CASE UNCHANGED vars
    BY <1>28 DEF vars
<1> QED
    BY <1>1, <1>2, <1>3, <1>4, <1>5, <1>6, <1>7, <1>8, <1>9, <1>10, <1>11, <1>12, <1>13, <1>14, <1>15,
           <1>16, <1>17, <1>18, <1>19, <1>20, <1>21, <1>22, <1>23, <1>24, <1>25, <1>26, <1>27,
           <1>28, <1>29, <1>30, <1>31, <1>32 DEF Next, Progress, Environment

\* Timeout errors.
LEMMA BlamePreserved == TypeOK /\ ErrorIsExplained /\ TimeoutsAreBlamedRight /\ [Next]_vars => TimeoutsAreBlamedRight'
<1> SUFFICES ASSUME TypeOK, ErrorIsExplained, TimeoutsAreBlamedRight, [Next]_vars PROVE TimeoutsAreBlamedRight'
    OBVIOUS
<1> USE DEF ErrorIsExplained, AttemptTimedOut, TimeoutsAreBlamedRight, TypeOK, contexts, lifecycle, inHand, telemetry,
ending, api
<1>1. CASE Dispatch
    BY <1>1 DEF Dispatch
<1>2. CASE WaitFails
    BY <1>2 DEF WaitFails
<1>3. CASE BeginAttempt
    BY <1>3 DEF BeginAttempt
<1>4. CASE LoseConnection
    BY <1>4 DEF LoseConnection, Unanswered
<1>5. CASE CutAttempt
    BY <1>5 DEF CutAttempt, Unanswered
<1>6. CASE ReadBody
    BY <1>6 DEF ReadBody
<1>7. CASE ReadOversizeBody
    BY <1>7 DEF ReadOversizeBody
<1>8. CASE LoseBody
    BY <1>8 DEF LoseBody, BreakBody
<1>9. CASE CutBody
    BY <1>9 DEF CutBody, BreakBody
<1>10. CASE EndAttempt
    BY <1>10 DEF EndAttempt
<1>11. CASE StopTrying
    BY <1>11 DEF StopTrying
<1>12. CASE BackOff
    BY <1>12 DEF BackOff, TriesAgain, Retryable
<1>13. CASE NextTry
    BY <1>13 DEF NextTry
<1>14. CASE Settle
    BY <1>14 DEF Settle, TriesAgain, Retryable
<1>15. CASE Decode
    BY <1>15 DEF Decode, DecodeAs, Decoded
<1>29. CASE ReadAndDecode
    BY <1>29 DEF ReadAndDecode, DecodeAs, Decoded
<1>30. CASE CutDecode
    BY <1>30 DEF CutDecode, DecodeAs
<1>16. CASE FireTimer
    BY <1>16 DEF FireTimer
<1>17. CASE RecordPending
    BY <1>17 DEF RecordPending
<1>18. CASE StopTimer
    BY <1>18 DEF StopTimer, StopPendingTimer
<1>19. CASE Report
    BY <1>19 DEF Report, Classify
<1>20. CASE Conclude
    BY <1>20 DEF Conclude, ConcludeWith, GoOnTo
<1>31. CASE AskOwn
    BY <1>31 DEF AskOwn, ConcludeWith, GoOnTo
<1>32. CASE AskAgain
    BY <1>32 DEF AskAgain, ConcludeWith
<1>21. CASE Cleanup
    BY <1>21 DEF Cleanup, StopPendingTimer
<1>22. CASE LifecycleDeadline
    BY <1>22 DEF LifecycleDeadline, Attempting, Inherit
<1>23. CASE AttemptDeadline
    BY <1>23 DEF AttemptDeadline, Attempting
<1>24. CASE Apply
    BY <1>24 DEF Apply
<1>25. CASE ApplyAbandoned
    BY <1>25 DEF ApplyAbandoned
<1>26. ASSUME NEW status \in Statuses \ {"none"}, NEW retry \in RetryHeaders, Answer(status, retry) PROVE TimeoutsAreBlamedRight'
    BY <1>26 DEF Answer, AfterHeaders
<1>27. ASSUME NEW e \in {"canceled", "deadline"}, EndCaller(e) PROVE TimeoutsAreBlamedRight'
    BY <1>27 DEF EndCaller, Attempting, Inherit
<1>28. CASE UNCHANGED vars
    BY <1>28 DEF vars
<1> QED
    BY <1>1, <1>2, <1>3, <1>4, <1>5, <1>6, <1>7, <1>8, <1>9, <1>10, <1>11, <1>12, <1>13, <1>14, <1>15,
           <1>16, <1>17, <1>18, <1>19, <1>20, <1>21, <1>22, <1>23, <1>24, <1>25, <1>26, <1>27,
           <1>28, <1>29, <1>30, <1>31, <1>32 DEF Next, Progress, Environment

LEMMA NextInvariant == IInv /\ [Next]_vars => IInv'
<1> SUFFICES ASSUME IInv, [Next]_vars PROVE IInv'
    OBVIOUS
<1>1. Counters /\ MaxRetries \in Nat
    BY MaxRetriesType DEF IInv, TypeOK
<1> QED BY <1>1, TypesPreserved, TriesPreserved, EffectsPreserved, ResponsePreserved, ErrorPreserved,
       ObservationsPreserved,
   RetriesPreserved, CompletePreserved, BlamePreserved DEF IInv

\* The conjunction of the parts above is an invariant of a request.
THEOREM LifecycleInvariant == Spec => []IInv
BY InitInvariant, NextInvariant, PTL DEF Spec

\* Every variable of a request keeps its type.
THEOREM LifecycleTypes == Spec => []TypeOK
<1>1. IInv => TypeOK
    BY DEF IInv
<1> QED BY <1>1, LifecycleInvariant, PTL

\* However answers are lost or delayed, a mutation is applied no more often
\* than its retries permit: once for RequestWithoutRetries.
THEOREM MutationsAreBounded == Spec => []AppliedAtMost
<1>1. IInv => AppliedAtMost
    <2> SUFFICES ASSUME IInv PROVE AppliedAtMost
        OBVIOUS
    <2>1. TypeOK /\ effects <= attempts /\ attempts <= tries /\ tries <= 1 + MaxRetries
        BY DEF IInv, TypeOK, Counters, EffectsHaveAttempts, TriesAreCounted
    <2>2. MaxRetries \in Nat /\ (kind = "once" => MaxRetries = 0)
        BY <2>1, MaxRetriesType DEF MaxRetries
    <2> QED BY <2>1, <2>2 DEF AppliedAtMost, TypeOK, Counters
<1> QED BY <1>1, LifecycleInvariant, PTL

\* A mutation that returned a response was applied.
THEOREM ResponsesAreTrue == Spec => []SuccessIsApplied
<1>1. IInv => SuccessIsApplied
    BY DEF IInv, ResponseIsExplained, SuccessIsApplied, Settled
<1> QED BY <1>1, LifecycleInvariant, PTL

\* Reported and real effects agree.
THEOREM EffectsAreAlwaysAsReported == Spec => []EffectsAreAsReported
BY MutationsAreBounded, ResponsesAreTrue, PTL DEF EffectsAreAsReported

\* No curable failure is final while tries and time are left.
THEOREM RetriesAreUsed == Spec => []RetriesUsedUp
<1>1. IInv => RetriesUsedUp
    BY DEF IInv
<1> QED BY <1>1, LifecycleInvariant, PTL

\* The lifecycle observation accounts for every attempt and for the result.
THEOREM LifecycleIsAccountedFor == Spec => []LifecycleIsComplete
<1>1. IInv => LifecycleIsComplete
    BY DEF IInv
<1> QED BY <1>1, LifecycleInvariant, PTL

\* Timeout errors name the deadline that fired.
THEOREM TimeoutsAreExplained == Spec => []TimeoutsAreBlamedRight
<1>1. IInv => TimeoutsAreBlamedRight
    BY DEF IInv
<1> QED BY <1>1, LifecycleInvariant, PTL

\* What request returns and records is what happened.
THEOREM OutcomesAreAlwaysTrue == Spec => []OutcomesAreTrue
BY LifecycleIsAccountedFor, TimeoutsAreExplained, PTL DEF OutcomesAreTrue

\* An oversize response is never requested again.
THEOREM OversizeIsNotRetried == Spec => OversizeIsFinal
<1>1. IInv /\ [Next]_vars => [err = "oversize" => tries' = tries]_vars
    <2> SUFFICES ASSUME IInv, [Next]_vars, err = "oversize" PROVE tries' = tries
        OBVIOUS
    <2>1. pc # "start" /\ pc # "backoff"
        BY DEF IInv, ErrorIsExplained
    <2> QED BY <2>1 DEF Next, Progress, Environment, Dispatch, WaitFails, BeginAttempt, LoseConnection,
    CutAttempt, Unanswered,
               ReadBody, ReadOversizeBody, LoseBody, CutBody, BreakBody, EndAttempt, StopTrying, BackOff,
               NextTry, Settle,
               Decode, DecodeAs, ReadAndDecode, CutDecode, AskOwn, AskAgain, GoOnTo, ConcludeWith, FireTimer, RecordPending, StopTimer, Report, Conclude, Cleanup, LifecycleDeadline,
               AttemptDeadline,
               Apply, ApplyAbandoned, Answer, EndCaller, vars, lifecycle
<1> QED BY <1>1, LifecycleInvariant, PTL DEF Spec, OversizeIsFinal

\* Retries are used when they can help, and only then.
THEOREM RetriesAreAlwaysRight == Spec => RetriesAreRight
<1>1. RetriesUsedUp' /\ [err = "oversize" => tries' = tries]_vars
          => [RetriesUsedUp' /\ (err = "oversize" => tries' = tries)]_vars
    OBVIOUS
<1> QED BY <1>1, RetriesAreUsed, OversizeIsNotRetried, PTL DEF RetriesAreRight, OversizeIsFinal

\* No observation follows the lifecycle observation or the return.
THEOREM NothingIsObservedLate == Spec => ObservationsSettle
<1>1. IInv /\ [Next]_vars => [observed.lifecycle = 1 \/ pc = "returned" => observed' = observed]_vars
    <2> SUFFICES ASSUME IInv, [Next]_vars,
    observed.lifecycle = 1 \/ pc = "returned" PROVE observed' = observed
        OBVIOUS
    <2>1. timer # "running" /\ pc \in Concluding \cup {"cleanup", "returned"}
        BY DEF IInv, ObservationsAreCounted, Concluding
    <2> QED BY <2>1 DEF Next, Progress, Environment, Dispatch, WaitFails, BeginAttempt, LoseConnection,
    CutAttempt, Unanswered, Concluding,
               ReadBody, ReadOversizeBody, LoseBody, CutBody, BreakBody, EndAttempt, StopTrying, BackOff,
               NextTry, Settle,
               Decode, DecodeAs, ReadAndDecode, CutDecode, AskOwn, AskAgain, GoOnTo, ConcludeWith, FireTimer, RecordPending, StopTimer, Report, Conclude, Cleanup, LifecycleDeadline,
               AttemptDeadline,
               Apply, ApplyAbandoned, Answer, EndCaller, vars, telemetry
<1> QED BY <1>1, LifecycleInvariant, PTL DEF Spec, ObservationsSettle

=============================================================================
