-------------------------- MODULE RequestLifecycle --------------------------
(***************************************************************************)
(* One call of APIClient.request (openaiapi/client.go): the retry loop of  *)
(* the SDK around the telemetry middleware, the two deadlines, the API     *)
(* that may apply a mutation whose answer is lost, and the timer that      *)
(* reports a slow request from a goroutine of its own.                     *)
(*                                                                         *)
(* The retry loop belongs to the openai-go library: StopTrying, BackOff,   *)
(* NextTry, Settle and Decode model what request relies on, WithMaxRetries *)
(* and the x-should-retry header included.                                 *)
(***************************************************************************)
EXTENDS Integers

CONSTANTS
    ReadRetries,   \* effectiveRequestMaxRetries of a GET
    WriteRetries   \* effectiveRequestMaxRetries of any other method

ASSUME RetriesAssumption == ReadRetries \in Nat /\ WriteRetries \in Nat

VARIABLES
    kind,       \* the call: a read, a mutation, RequestWithoutRetries, or an unknown method
    pc,         \* where the call is
    caller,     \* ctx.Err() of the caller's context
    own,        \* requestContext.Err(): the caller's end, or the lifecycle deadline
    attempt,    \* attemptContext.Err() of the current attempt
    tries,      \* times the SDK has called the middleware
    attempts,   \* lifecycle.attempts
    lastStatus, \* lifecycle.lastStatusCode
    code,       \* statusCode of the current attempt: the status of its headers
    response,   \* what the middleware has in hand: status and x-should-retry
    err,        \* the error in hand
    timer,      \* pendingTimer and its callback
    stopped,    \* stopPendingTimerOnce has run
    observed,   \* the observations recorded so far
    outcome,    \* Outcome of the lifecycle observation
    result,     \* what request returned
    current,    \* at the API: whether the mutation of the current attempt was applied
    abandoned,  \* at the API: mutations given up by the provider and not applied yet
    effects,    \* at the API: times the mutation was applied
    timedOut    \* history: the deadlines that fired, "lifecycle" and "attempt", and "caller" for
                \* a caller's that fired after request had seen its context alive

contexts  == <<caller, own, attempt>>
lifecycle == <<tries, attempts, lastStatus>>
inHand    == <<code, response, err>>
telemetry == <<timer, stopped, observed>>
ending    == <<outcome, result>>
api       == <<current, abandoned, effects>>
vars == <<kind, pc, contexts, lifecycle, inHand, telemetry, ending, api, timedOut>>

(***************************************************************************)
(* Types                                                                   *)
(***************************************************************************)

Kinds == {"read", "mutation", "once", "unsupported"}
Locations == {"start", "wait", "sent", "body", "attempted", "tried", "backoff",
              "decode", "stop", "report", "conclude", "ask own", "ask again", "cleanup", "returned"}
ContextErrors == {"nil", "canceled", "deadline"}

\* Status codes as the code tells them apart: none; 2xx; a 4xx that is final;
\* 408, 409, 429 and 5xx; a redirect that was refused.
Statuses == {"none", "success", "rejected", "retryable", "redirect"}
RetryHeaders == {"absent", "true", "false"}
NoResponse == [status |-> "none", retry |-> "absent"]

Errors == {"nil", "canceled", "deadline", "transport", "redirect", "oversize", "api", "decode", "unsupported"}
Results == {"none", "response", "lifecycle timeout", "attempt timeouts", "error"}
Outcomes == {"none", "success", "api_error", "request_error", "canceled", "deadline_exceeded"}

\* Mutant: RequestWithoutRetries keeps the retries of its method.
RetriesOfTheMethod == IF kind = "read" THEN ReadRetries ELSE WriteRetries

MaxRetries == CASE kind = "read" -> ReadRetries
                [] kind = "mutation" -> WriteRetries
                [] OTHER -> 0

(***************************************************************************)
(* Initial state                                                           *)
(***************************************************************************)

Init ==
    /\ kind \in Kinds
    /\ pc = "start"
    /\ caller = "nil" /\ own = "nil" /\ attempt = "nil"
    /\ tries = 0 /\ attempts = 0 /\ lastStatus = "none"
    /\ code = "none" /\ response = NoResponse /\ err = "nil"
    /\ timer = "armed" /\ stopped = FALSE
    /\ observed = [pending |-> 0, attempt |-> 0, lifecycle |-> 0]
    /\ outcome = "none" /\ result = "none"
    /\ current = FALSE /\ abandoned = 0 /\ effects = 0
    /\ timedOut = {}

(***************************************************************************)
(* Contexts and the API                                                    *)
(***************************************************************************)

Attempting == pc \in {"sent", "body"}

\* The end of an outer context ends the inner ones that are still live.
Inherit(inner, e) == IF inner = "nil" THEN e ELSE inner

EndCaller(e) ==
    /\ pc # "returned"
    /\ caller = "nil"
    /\ caller' = e
    /\ own' = Inherit(own, e)
    /\ attempt' = IF Attempting THEN Inherit(attempt, e) ELSE attempt
    /\ timedOut' = timedOut \cup IF e = "deadline" /\ pc = "ask own" THEN {"caller"} ELSE {}
    /\ UNCHANGED <<kind, pc, lifecycle, inHand, telemetry, ending, api>>

LifecycleDeadline ==
    /\ pc # "returned"
    /\ own = "nil"
    /\ own' = "deadline"
    /\ attempt' = IF Attempting THEN Inherit(attempt, "deadline") ELSE attempt
    /\ timedOut' = timedOut \cup {"lifecycle"}
    /\ UNCHANGED <<kind, pc, caller, lifecycle, inHand, telemetry, ending, api>>

\* Only GET attempts have a deadline of their own.
AttemptDeadline ==
    /\ Attempting
    /\ kind = "read"
    /\ attempt = "nil"
    /\ attempt' = "deadline"
    /\ timedOut' = timedOut \cup {"attempt"}
    /\ UNCHANGED <<kind, pc, caller, own, lifecycle, inHand, telemetry, ending, api>>

Mutates == kind \in {"mutation", "once"}

\* The API applies the mutation of the current attempt ...
Apply ==
    /\ pc = "sent"
    /\ Mutates
    /\ ~current
    /\ current' = TRUE
    /\ effects' = effects + 1
    /\ UNCHANGED <<kind, pc, contexts, lifecycle, inHand, telemetry, ending, abandoned, timedOut>>

\* ... or of an attempt the provider no longer waits for.
ApplyAbandoned ==
    /\ abandoned > 0
    /\ abandoned' = abandoned - 1
    /\ effects' = effects + 1
    /\ UNCHANGED <<kind, pc, contexts, lifecycle, inHand, telemetry, ending, current, timedOut>>

(***************************************************************************)
(* request and the SDK's retry loop                                        *)
(***************************************************************************)

\* The switch over the method: an unknown method returns at once, through the
\* deferred calls.
Dispatch ==
    /\ pc = "start"
    /\ IF kind = "unsupported"
       THEN pc' = "cleanup" /\ err' = "unsupported" /\ result' = "error"
       ELSE pc' = "wait" /\ UNCHANGED <<err, result>>
    /\ tries' = IF kind = "unsupported" THEN tries ELSE tries + 1
    /\ UNCHANGED <<kind, contexts, attempts, lastStatus, code, response, telemetry, outcome, api, timedOut>>

\* The cooldown wait gives up when the request context has ended: no attempt.
WaitFails ==
    /\ pc = "wait"
    /\ own # "nil"
    /\ response' = NoResponse
    /\ err' = own
    /\ pc' = "tried"
    /\ UNCHANGED <<kind, contexts, lifecycle, code, telemetry, ending, api, timedOut>>

\* The cooldown lets the attempt through: it is counted and sent.
BeginAttempt ==
    /\ pc = "wait"
    /\ attempts' = attempts + 1
    /\ attempt' = own
    /\ code' = "none"
    /\ response' = NoResponse
    /\ err' = "nil"
    /\ current' = FALSE
    /\ pc' = "sent"
    /\ UNCHANGED <<kind, caller, own, tries, lastStatus, telemetry, ending, abandoned, effects, timedOut>>

\* The body of a GET is read inside the attempt.
AfterHeaders(e) == IF kind = "read" /\ e = "nil" THEN "body" ELSE "attempted"

\* The API answers: a mutation it accepts is applied, one it fails may be.
Answer(status, retry) ==
    /\ pc = "sent"
    /\ status = "success" /\ Mutates => current
    /\ status \in {"rejected", "redirect"} => ~current
    /\ code' = status
    /\ response' = [status |-> status, retry |-> retry]
    /\ err' = IF status = "redirect" THEN "redirect" ELSE "nil"
    /\ pc' = AfterHeaders(err')
    /\ abandoned' = IF Mutates /\ ~current /\ status = "retryable" THEN abandoned + 1 ELSE abandoned
    /\ UNCHANGED <<kind, contexts, lifecycle, telemetry, ending, current, effects, timedOut>>

\* The attempt ends without an answer; the API may still get to a mutation.
Unanswered(e) ==
    /\ pc = "sent"
    /\ err' = e
    /\ pc' = "attempted"
    /\ abandoned' = IF Mutates /\ ~current THEN abandoned + 1 ELSE abandoned
    /\ UNCHANGED <<kind, contexts, lifecycle, code, response, telemetry, ending, current, effects, timedOut>>

LoseConnection == Unanswered("transport")

CutAttempt == attempt # "nil" /\ Unanswered(attempt)

\* responseMetadataControlsRetry.
ControlsRetry(resp) == resp.retry # "absent" \/ resp.status = "retryable"

ReadBody ==
    /\ pc = "body"
    /\ pc' = "attempted"
    /\ UNCHANGED <<kind, contexts, lifecycle, inHand, telemetry, ending, api, timedOut>>

\* Mutant: x-should-retry is not set.
ReadOversizeBodyOnly ==
    /\ pc = "body"
    /\ err' = "oversize"
    /\ response' = NoResponse
    /\ pc' = "attempted"
    /\ UNCHANGED <<kind, contexts, lifecycle, code, telemetry, ending, api, timedOut>>

\* A body over the limit must not be asked for again.
ReadOversizeBody ==
    /\ pc = "body"
    /\ err' = "oversize"
    /\ response' = [response EXCEPT !.retry = "false"]
    /\ pc' = "attempted"
    /\ UNCHANGED <<kind, contexts, lifecycle, code, telemetry, ending, api, timedOut>>

\* Mutant: a response without its body is kept.
KeepBrokenBody(e) ==
    /\ pc = "body"
    /\ err' = e
    /\ pc' = "attempted"
    /\ UNCHANGED <<kind, contexts, lifecycle, code, response, telemetry, ending, api, timedOut>>

\* A body that breaks off counts as no response, unless the headers already
\* say what to do.
BreakBody(e) ==
    /\ pc = "body"
    /\ err' = e
    /\ response' = IF ControlsRetry(response) THEN response ELSE NoResponse
    /\ pc' = "attempted"
    /\ UNCHANGED <<kind, contexts, lifecycle, code, telemetry, ending, api, timedOut>>

LoseBody == BreakBody("transport")

CutBody == attempt # "nil" /\ BreakBody(attempt)

\* Mutant: only attempts without an error are observed.
EndQuietly ==
    /\ pc = "attempted"
    /\ attempt' = "nil"
    /\ lastStatus' = code
    /\ observed' = IF err = "nil" THEN [observed EXCEPT !.attempt = @ + 1] ELSE observed
    /\ pc' = "tried"
    /\ UNCHANGED <<kind, caller, own, tries, attempts, inHand, timer, stopped, ending, api, timedOut>>

\* The end of the middleware: the attempt is counted and observed with the
\* status code of its headers.
EndAttempt ==
    /\ pc = "attempted"
    /\ attempt' = "nil"
    /\ lastStatus' = code
    /\ observed' = [observed EXCEPT !.attempt = @ + 1]
    /\ pc' = "tried"
    /\ UNCHANGED <<kind, caller, own, tries, attempts, inHand, timer, stopped, ending, api, timedOut>>

\* The SDK's shouldRetry.
Retryable(resp) ==
    \/ resp.status = "none"
    \/ resp.retry = "true"
    \/ resp.retry = "absent" /\ resp.status = "retryable"

TriesAgain == Retryable(response) /\ tries <= MaxRetries

\* The SDK returns the context error, whatever the attempt brought.
StopTrying ==
    /\ pc \in {"tried", "backoff"}
    /\ own # "nil"
    /\ err' = own
    /\ pc' = "stop"
    /\ UNCHANGED <<kind, contexts, lifecycle, code, response, telemetry, ending, api, timedOut>>

BackOff ==
    /\ pc = "tried"
    /\ own = "nil"
    /\ TriesAgain
    /\ pc' = "backoff"
    /\ UNCHANGED <<kind, contexts, lifecycle, inHand, telemetry, ending, api, timedOut>>

NextTry ==
    /\ pc = "backoff"
    /\ tries' = tries + 1
    /\ pc' = "wait"
    /\ UNCHANGED <<kind, contexts, attempts, lastStatus, inHand, telemetry, ending, api, timedOut>>

\* No more tries: an error is final, and the body of any response is taken.
Settle ==
    /\ pc = "tried"
    /\ own = "nil"
    /\ ~TriesAgain
    /\ pc' = IF err = "nil" THEN "decode" ELSE "stop"
    /\ UNCHANGED <<kind, contexts, lifecycle, inHand, telemetry, ending, api, timedOut>>

\* A success is decoded, an error status becomes the API error.
Decoded == IF response.status = "success" THEN {"nil", "decode"} ELSE {"api"}

DecodeAs(e) ==
    /\ pc = "decode"
    /\ err' = e
    /\ pc' = "stop"
    /\ UNCHANGED <<kind, contexts, lifecycle, code, response, telemetry, ending, api, timedOut>>

\* The body of a GET is in hand ...
Decode == kind = "read" /\ \E e \in Decoded : DecodeAs(e)

\* ... that of a mutation is read only now, past the retry loop, and may be
\* lost or cut off like any other.
ReadAndDecode == kind # "read" /\ \E e \in Decoded \cup {"transport"} : DecodeAs(e)

CutDecode == kind # "read" /\ own # "nil" /\ DecodeAs(own)

(***************************************************************************)
(* The pending timer, and the end of request                               *)
(***************************************************************************)

\* The slow threshold passes: the callback runs in a goroutine of its own ...
FireTimer ==
    /\ timer = "armed"
    /\ timer' = "running"
    /\ UNCHANGED <<kind, pc, contexts, lifecycle, inHand, stopped, observed, ending, api, timedOut>>

\* ... records its observation and closes pendingTimerDone.
RecordPending ==
    /\ timer = "running"
    /\ timer' = "done"
    /\ observed' = [observed EXCEPT !.pending = @ + 1]
    /\ UNCHANGED <<kind, pc, contexts, lifecycle, inHand, stopped, ending, api, timedOut>>

\* Mutants: the callback is not waited for; the sync.Once is missing.
StopWithoutWaiting ==
    /\ timer' = IF ~stopped /\ timer = "armed" THEN "stopped" ELSE timer
    /\ stopped' = TRUE

StopEveryTime ==
    /\ timer \in {"armed", "done"}
    /\ timer' = IF timer = "armed" THEN "stopped" ELSE timer
    /\ stopped' = TRUE

\* stopPendingTimer: once only.  Stop() tells whether the timer was still
\* armed; if not, receive from pendingTimerDone, which only the callback closes.
StopPendingTimer ==
    /\ stopped \/ timer \in {"armed", "done"}
    /\ timer' = IF ~stopped /\ timer = "armed" THEN "stopped" ELSE timer
    /\ stopped' = TRUE

StopTimer ==
    /\ pc = "stop"
    /\ StopPendingTimer
    /\ pc' = "report"
    /\ UNCHANGED <<kind, contexts, lifecycle, inHand, observed, ending, api, timedOut>>

\* classifyRequestOutcome.
Classify(e, contextErr, status) ==
    IF "deadline" \in {e, contextErr} THEN "deadline_exceeded"
    ELSE IF "canceled" \in {e, contextErr} THEN "canceled"
    ELSE IF status \in {"rejected", "retryable"} THEN "api_error"
    ELSE IF e # "nil" THEN "request_error" ELSE "success"

Report ==
    /\ pc = "report"
    /\ outcome' = Classify(err, own, lastStatus)
    /\ observed' = [observed EXCEPT !.lifecycle = @ + 1]
    /\ pc' = "conclude"
    /\ UNCHANGED <<kind, contexts, lifecycle, inHand, timer, stopped, result, api, timedOut>>

ConcludeWith(r) ==
    /\ result' = r
    /\ pc' = "cleanup"
    /\ UNCHANGED <<kind, contexts, lifecycle, inHand, telemetry, outcome, api, timedOut>>

GoOnTo(location) ==
    /\ pc' = location
    /\ UNCHANGED <<kind, contexts, lifecycle, inHand, telemetry, ending, api, timedOut>>

\* Mutant: the caller's context is not asked.
ConcludeFromOwn ==
    /\ pc = "conclude"
    /\ IF err = "nil" THEN ConcludeWith("response") ELSE GoOnTo("ask own")

\* The timeouts of the provider are told from those of the caller by three
\* looks at the contexts, one after the other: at the caller's ...
Conclude ==
    /\ pc = "conclude"
    /\ IF err = "nil" THEN ConcludeWith("response")
       ELSE IF caller = "nil" THEN GoOnTo("ask own")
       ELSE ConcludeWith("error")

\* ... at the request's own, which the caller's end may have reached meanwhile ...
AskOwn ==
    /\ pc = "ask own"
    /\ IF own = "deadline" THEN ConcludeWith("lifecycle timeout") ELSE GoOnTo("ask again")

\* Mutant: after the two timeouts, the return of any other error is missing, and
\* the empty response is returned.
AskAgainOrSucceed ==
    /\ pc = "ask again"
    /\ ConcludeWith(IF caller = "nil" /\ err = "deadline" THEN "attempt timeouts" ELSE "response")

\* ... and at the caller's again.
AskAgain ==
    /\ pc = "ask again"
    /\ ConcludeWith(IF caller = "nil" /\ err = "deadline" THEN "attempt timeouts" ELSE "error")

\* The deferred calls.
Cleanup ==
    /\ pc = "cleanup"
    /\ StopPendingTimer
    /\ pc' = "returned"
    /\ UNCHANGED <<kind, contexts, lifecycle, inHand, observed, ending, api, timedOut>>

(***************************************************************************)
(* Specification                                                           *)
(***************************************************************************)

\* Steps of the provider and the SDK that wait for nothing but the contexts.
Progress ==
    \/ Dispatch \/ WaitFails \/ CutAttempt \/ CutBody \/ EndAttempt
    \/ StopTrying \/ BackOff \/ Settle \/ Decode \/ CutDecode
    \/ StopTimer \/ Report \/ Conclude \/ AskOwn \/ AskAgain \/ Cleanup

\* Steps that the cooldown, the API or the back-off delay have to bring about.
Environment ==
    \/ BeginAttempt \/ LoseConnection \/ ReadBody \/ ReadOversizeBody \/ LoseBody \/ NextTry \/ ReadAndDecode
    \/ \E status \in Statuses \ {"none"}, retry \in RetryHeaders : Answer(status, retry)
    \/ \E e \in {"canceled", "deadline"} : EndCaller(e)
    \/ AttemptDeadline \/ Apply \/ ApplyAbandoned

Next == Progress \/ Environment \/ LifecycleDeadline \/ FireTimer \/ RecordPending

Spec == Init /\ [][Next]_vars

\* The lifecycle deadline is a timer and fires; a goroutine that can run runs.
\* Nothing is assumed of the API, the network or the cooldown.
FairSpec == Spec /\ WF_vars(Progress) /\ WF_vars(LifecycleDeadline) /\ WF_vars(RecordPending)

(***************************************************************************)
(* Properties                                                              *)
(***************************************************************************)

Counters ==
    /\ tries \in Nat /\ attempts \in Nat /\ abandoned \in Nat /\ effects \in Nat
    /\ observed \in [pending : Nat, attempt : Nat, lifecycle : Nat]

TypeOK ==
    /\ Counters
    /\ kind \in Kinds /\ pc \in Locations
    /\ caller \in ContextErrors /\ own \in ContextErrors /\ attempt \in ContextErrors
    /\ lastStatus \in Statuses /\ code \in Statuses
    /\ response \in [status : Statuses, retry : RetryHeaders]
    /\ err \in Errors
    /\ timer \in {"armed", "running", "done", "stopped"}
    /\ stopped \in BOOLEAN
    /\ outcome \in Outcomes /\ result \in Results
    /\ current \in BOOLEAN
    /\ timedOut \in SUBSET {"lifecycle", "attempt", "caller"}

\* However many answers are lost or late, a mutation is applied at most once
\* per permitted try, and just once for RequestWithoutRetries, which "avoids
\* repeating a mutation whose first attempt may have succeeded".
AppliedAtMost == effects <= 1 + MaxRetries /\ (kind = "once" => effects <= 1)

\* A mutation whose request returned a response has been applied.
SuccessIsApplied == result = "response" /\ Mutates => effects >= 1

\* Both together: what a mutating call reports about its effects at the API is true.
EffectsAreAsReported == AppliedAtMost /\ SuccessIsApplied

Settled == pc \in {"stop", "report", "conclude", "ask own", "ask again", "cleanup", "returned"}

TransientErrors == {"transport", "deadline", "canceled"}

\* A failure that a retry might cure is final only when the tries are used up,
\* the request is out of time, or the API asked not to retry (the middleware
\* turns a broken body into no response) - or the headers of a mutation's
\* answer were final and only its body, read past the retry loop, was lost.
RetriesUsedUp ==
    Settled /\ own = "nil" /\ err \in TransientErrors
        => \/ tries = 1 + MaxRetries
           \/ response.retry = "false"
           \/ Mutates /\ response.retry = "absent" /\ response.status \in {"success", "rejected"}

\* A response over the size limit is never asked for again.
OversizeIsFinal == [][err = "oversize" => tries' = tries]_vars

\* Both together: a request is made again when that can help, and never when it cannot.
RetriesAreRight == [][RetriesUsedUp' /\ (err = "oversize" => tries' = tries)]_vars

\* Nothing is recorded once the lifecycle observation is, nor after request
\* has returned: the pending callback is stopped or waited for.
ObservationsSettle == [][observed.lifecycle = 1 \/ pc = "returned" => observed' = observed]_vars

\* The lifecycle observation speaks of every attempt: each was counted and
\* observed exactly once, and its outcome is that of what request returns.
LifecycleIsComplete ==
    /\ observed.lifecycle = 1 => observed.attempt = attempts
    /\ outcome = "success" => err = "nil"
    /\ result = "response" /\ outcome # "success" => own # "nil"

\* The provider's timeout errors name the deadline that really fired, and a
\* caller that ends first is never told of one; but the caller's own deadline
\* is taken for the lifecycle's when it fires between the two looks.
TimeoutsAreBlamedRight ==
    /\ result = "lifecycle timeout" => timedOut \cap {"lifecycle", "caller"} # {}
    /\ result = "attempt timeouts" => "attempt" \in timedOut /\ kind = "read"

\* Both together: what request returns and what it records agree with what happened.
OutcomesAreTrue == LifecycleIsComplete /\ TimeoutsAreBlamedRight

\* Every call returns, even if the API never answers: the lifecycle deadline
\* ends it, and stopping the pending timer does not block for ever.
RequestReturns == <>(pc = "returned")

(***************************************************************************)
(* The inductive invariant                                                 *)
(***************************************************************************)

TriesAreCounted ==
    /\ tries <= 1 + MaxRetries
    /\ pc = "start" => tries = 0 /\ err = "nil"
    /\ pc \notin {"start", "cleanup", "returned"} => kind # "unsupported"
    /\ pc = "backoff" => tries <= MaxRetries
    /\ attempts <= tries
    /\ pc = "wait" => attempts < tries

\* Every mutation applied or still on its way belongs to an attempt of its own.
EffectsHaveAttempts ==
    /\ effects + abandoned + (IF pc = "sent" /\ Mutates /\ ~current THEN 1 ELSE 0) <= attempts
    /\ current => effects >= 1

\* What is known of the response in hand.
ResponseIsExplained ==
    /\ pc \in {"start", "sent"} => response = NoResponse /\ err = "nil"
    /\ pc = "body" => response.status \notin {"none", "redirect"} /\ err = "nil"
    /\ Mutates /\ response.status = "success" => effects >= 1
    /\ pc # "wait" /\ response.status # "none" => code = response.status
    /\ pc \in {"tried", "backoff", "decode"} \/ Settled =>
           (response.status = "success" => lastStatus = "success")
    /\ pc \in {"attempted", "tried", "backoff"} /\ response.status = "redirect" => err # "nil"
    /\ pc = "decode" => response.status # "redirect" /\ err = "nil"
    /\ Settled /\ err = "nil" => response.status = "success"
    /\ result # "none" => pc \in {"cleanup", "returned"}
    /\ result = "response" => err = "nil"

\* The body is taken only once no retry is left or called for.
TriesAreOver == pc = "decode" => tries = 1 + MaxRetries \/ ~Retryable(response)

AttemptTimedOut == "attempt" \in timedOut /\ kind = "read"

ErrorIsExplained ==
    /\ pc \in {"attempted", "tried", "backoff"} /\ err \in TransientErrors =>
           response = NoResponse \/ ControlsRetry(response)
    /\ err = "oversize" => pc # "backoff" /\ pc # "start" /\ response.retry = "false" /\ response.status # "none"
    /\ caller = "nil" => own \in {"nil", "deadline"}
    /\ caller = "nil" /\ own = "deadline" => "lifecycle" \in timedOut
    /\ pc = "ask own" /\ own = "deadline" => timedOut \cap {"lifecycle", "caller"} # {}
    /\ attempt = "deadline" \/ err = "deadline" =>
           own = "deadline" \/ caller # "nil" \/ AttemptTimedOut
    /\ pc = "ask again" /\ err = "deadline" => caller # "nil" \/ AttemptTimedOut

Concluding == {"conclude", "ask own", "ask again"}

ObservationsAreCounted ==
    /\ observed.attempt + (IF pc \in {"sent", "body", "attempted"} THEN 1 ELSE 0) = attempts
    /\ observed.lifecycle = 1 => pc \in Concluding \cup {"cleanup", "returned"}
    /\ observed.lifecycle = 1 \/ pc \in Concluding \cup {"report", "returned"} => stopped
    /\ stopped => timer \in {"done", "stopped"}
    /\ outcome # "none" => pc \in Concluding \cup {"cleanup", "returned"}

OutcomeIsExplained == pc = "conclude" /\ err = "nil" /\ own = "nil" => outcome = "success"

IInv ==
    /\ TypeOK /\ TriesAreCounted /\ EffectsHaveAttempts /\ ResponseIsExplained
    /\ ErrorIsExplained /\ ObservationsAreCounted
    /\ OutcomeIsExplained /\ TriesAreOver /\ RetriesUsedUp /\ LifecycleIsComplete /\ TimeoutsAreBlamedRight

=============================================================================
