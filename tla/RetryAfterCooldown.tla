------------------------- MODULE RetryAfterCooldown -------------------------
(***************************************************************************)
(* The cooldown that all requests of one API client share after the API   *)
(* answered 429 with a Retry-After delay (retryAfterCooldown in            *)
(* openaiapi/client.go).  A request attempt first calls wait; once the     *)
(* deadline has passed, the attempts that saw the cooldown are let through *)
(* one at a time by the release gate, a channel with one token, until one  *)
(* of them learns that the API accepts requests again.                     *)
(*                                                                         *)
(* A step is one critical section of the cooldown mutex, one channel       *)
(* operation or one comparison with the clock.  Time is a counter; 0 is    *)
(* the zero time.Time.                                                     *)
(***************************************************************************)
EXTENDS Integers

CONSTANTS
    Requests,      \* goroutines that send request attempts
    Delays,        \* positive Retry-After delays the API may ask for
    MaxTime,       \* bound on the clock, and on the deadlines the API asks for
    MaxGeneration  \* bound: the API stops sending delays once this many were observed

ASSUME DelaysAssumption == Delays \subseteq Nat \ {0}
ASSUME BoundsAssumption == MaxTime \in Nat \ {0} /\ MaxGeneration \in Nat

VARIABLES
    clock,           \* time.Now()
    until,           \* c.until
    generation,      \* c.generation
    gate,            \* number of tokens in c.releaseGate
    pc,              \* pc[r]: where attempt r is in wait or in the middleware
    ctx,             \* ctx[r]: state of the request context
    coordinated,     \* coordinated[r]: r has met a remembered cooldown
    seenUntil,       \* seenUntil[r]: the deadline r read last
    seenGeneration,  \* seenGeneration[r]: the generation r read last
    release,         \* release[r]: the release function wait gave r
    reply,           \* reply[r]: what next(request) returned, and when
    promised,        \* history: latest deadline any observed 429 asked for
    looked           \* history: looked[r], promised when r last read the cooldown

shared  == <<until, generation, gate>>
local   == <<ctx, coordinated, seenUntil, seenGeneration, release, reply>>
history == <<promised, looked>>
vars == <<clock, shared, pc, local, history>>

(***************************************************************************)
(* Types                                                                   *)
(***************************************************************************)

Locations == {"idle", "look", "decide", "asleep", "gate", "token", "confirm",
              "attempt", "observe", "release", "body"}

\* "no-op" is func() {}; an armed release gives the token back once.
Releases == {"no-op", "armed", "fired"}

\* What retryAfterDuration and observeResponse tell apart: a 429 with a usable
\* delay, a 429 without one, any other response, and no response at all.
NoReply == [kind |-> "none", delay |-> 0, at |-> 0]
Replies == [kind : {"throttled", "busy", "answered", "none"}, delay : Nat, at : Nat]

Later(t, u) == IF t >= u THEN t ELSE u

Init ==
    /\ clock = 1
    /\ until = 0
    /\ generation = 0
    /\ gate = 1
    /\ pc = [r \in Requests |-> "idle"]
    /\ ctx = [r \in Requests |-> "live"]
    /\ coordinated = [r \in Requests |-> FALSE]
    /\ seenUntil = [r \in Requests |-> 0]
    /\ seenGeneration = [r \in Requests |-> 0]
    /\ release = [r \in Requests |-> "no-op"]
    /\ reply = [r \in Requests |-> NoReply]
    /\ promised = 0
    /\ looked = [r \in Requests |-> 0]

(***************************************************************************)
(* The clock and the request contexts                                      *)
(***************************************************************************)

Tick ==
    /\ clock < MaxTime
    /\ clock' = clock + 1
    /\ UNCHANGED <<shared, pc, local, history>>

\* The request is canceled or reaches its lifecycle deadline.  Only wait looks
\* at the context; what its end does to a sent request is one of the replies.
EndContext(r) ==
    /\ pc[r] \in {"look", "decide", "asleep", "gate", "token", "confirm"}
    /\ ctx[r] = "live"
    /\ ctx' = [ctx EXCEPT ![r] = "ended"]
    /\ UNCHANGED <<clock, shared, pc, coordinated, seenUntil, seenGeneration, release, reply, history>>

(***************************************************************************)
(* wait                                                                    *)
(***************************************************************************)

\* The middleware calls wait for a new attempt.
StartWait(r) ==
    /\ pc[r] = "idle"
    /\ pc' = [pc EXCEPT ![r] = "look"]
    /\ UNCHANGED <<clock, shared, local, history>>

\* The attempt is over, with or without a request sent: its variables are gone.
EndAttempt(r) ==
    /\ pc' = [pc EXCEPT ![r] = "idle"]
    /\ ctx' = [ctx EXCEPT ![r] = "live"]
    /\ coordinated' = [coordinated EXCEPT ![r] = FALSE]
    /\ seenUntil' = [seenUntil EXCEPT ![r] = 0]
    /\ seenGeneration' = [seenGeneration EXCEPT ![r] = 0]
    /\ release' = [release EXCEPT ![r] = "no-op"]
    /\ reply' = [reply EXCEPT ![r] = NoReply]
    /\ looked' = [looked EXCEPT ![r] = 0]

\* Mutant: an attempt that met the cooldown goes ahead once it is forgotten.
LookAndGo(r) ==
    /\ pc[r] = "look"
    /\ until = 0
    /\ pc' = [pc EXCEPT ![r] = "attempt"]
    /\ looked' = [looked EXCEPT ![r] = promised]
    /\ UNCHANGED <<clock, shared, local, promised>>

\* Top of the loop, no cooldown remembered: the attempt goes ahead on its own,
\* or joins the gate if it had met the cooldown before.
LookUncooled(r) ==
    /\ pc[r] = "look"
    /\ until = 0
    /\ pc' = [pc EXCEPT ![r] = IF coordinated[r] THEN "gate" ELSE "attempt"]
    /\ looked' = [looked EXCEPT ![r] = promised]
    /\ UNCHANGED <<clock, shared, local, promised>>

\* Top of the loop, a cooldown is remembered.
LookCooled(r) ==
    /\ pc[r] = "look"
    /\ until # 0
    /\ pc' = [pc EXCEPT ![r] = "decide"]
    /\ coordinated' = [coordinated EXCEPT ![r] = TRUE]
    /\ seenUntil' = [seenUntil EXCEPT ![r] = until]
    /\ seenGeneration' = [seenGeneration EXCEPT ![r] = generation]
    /\ looked' = [looked EXCEPT ![r] = promised]
    /\ UNCHANGED <<clock, shared, ctx, release, reply, promised>>

\* time.Until, after the unlock: sleep if the deadline is still ahead.
Decide(r) ==
    /\ pc[r] = "decide"
    /\ pc' = [pc EXCEPT ![r] = IF seenUntil[r] > clock THEN "asleep" ELSE "gate"]
    /\ UNCHANGED <<clock, shared, local, history>>

WakeUp(r) ==
    /\ pc[r] = "asleep"
    /\ clock >= seenUntil[r]
    /\ pc' = [pc EXCEPT ![r] = "look"]
    /\ UNCHANGED <<clock, shared, local, history>>

\* wait returns the context error: from its sleep, or from
\* acquireDelayedRelease before a token was received.
GiveUp(r) ==
    /\ pc[r] \in {"asleep", "gate"}
    /\ ctx[r] = "ended"
    /\ EndAttempt(r)
    /\ UNCHANGED <<clock, shared, promised>>

\* acquireDelayedRelease receives the token ...
TakeToken(r) ==
    /\ pc[r] = "gate"
    /\ gate > 0
    /\ gate' = gate - 1
    /\ pc' = [pc EXCEPT ![r] = "token"]
    /\ UNCHANGED <<clock, until, generation, local, history>>

\* Mutant: the token of a canceled attempt is lost.
LoseToken(r) ==
    /\ pc[r] = "token"
    /\ ctx[r] = "ended"
    /\ EndAttempt(r)
    /\ UNCHANGED <<clock, shared, promised>>

\* ... and sends it back if the context has ended meanwhile.  The channel has
\* room for one token: a send to a full channel blocks.
ReturnToken(r) ==
    /\ pc[r] = "token"
    /\ ctx[r] = "ended"
    /\ gate = 0
    /\ gate' = gate + 1
    /\ EndAttempt(r)
    /\ UNCHANGED <<clock, until, generation, promised>>

\* Mutant: the cooldown is not read again.
TrustSnapshot(r) ==
    /\ pc[r] = "token"
    /\ ctx[r] = "live"
    /\ release' = [release EXCEPT ![r] = "armed"]
    /\ looked' = [looked EXCEPT ![r] = promised]
    /\ pc' = [pc EXCEPT ![r] = "confirm"]
    /\ UNCHANGED <<clock, shared, ctx, coordinated, seenUntil, seenGeneration, reply, promised>>

\* With the token, wait reads the cooldown once more.
Recheck(r) ==
    /\ pc[r] = "token"
    /\ ctx[r] = "live"
    /\ release' = [release EXCEPT ![r] = "armed"]
    /\ seenUntil' = [seenUntil EXCEPT ![r] = until]
    /\ seenGeneration' = [seenGeneration EXCEPT ![r] = generation]
    /\ looked' = [looked EXCEPT ![r] = promised]
    /\ pc' = [pc EXCEPT ![r] = "confirm"]
    /\ UNCHANGED <<clock, shared, ctx, coordinated, reply, promised>>

\* Mutant: the release function has no sync.Once.
CallReleaseAgain(r) ==
    IF release[r] = "armed"
    THEN gate = 0 /\ gate' = gate + 1 /\ release' = release
    ELSE UNCHANGED <<gate, release>>

\* The release function: the first call sends the token, later calls and calls
\* of func() {} do nothing.
CallRelease(r) ==
    IF release[r] = "armed"
    THEN gate = 0 /\ gate' = gate + 1 /\ release' = [release EXCEPT ![r] = "fired"]
    ELSE UNCHANGED <<gate, release>>

\* A newer 429 has moved the deadline: back to the top of the loop.
ConfirmCooled(r) ==
    /\ pc[r] = "confirm"
    /\ seenUntil[r] > clock
    /\ CallRelease(r)
    /\ pc' = [pc EXCEPT ![r] = "look"]
    /\ UNCHANGED <<clock, until, generation, ctx, coordinated, seenUntil, seenGeneration, reply, history>>

\* wait returns: this attempt is the one that tries the API.
ConfirmElapsed(r) ==
    /\ pc[r] = "confirm"
    /\ seenUntil[r] <= clock
    /\ pc' = [pc EXCEPT ![r] = "attempt"]
    /\ UNCHANGED <<clock, shared, local, history>>

(***************************************************************************)
(* requestTelemetryMiddleware after wait                                   *)
(***************************************************************************)

\* next(request) returns; time.Now() is read for observeResponse before its
\* critical section.
Receive(r) ==
    /\ pc[r] = "attempt"
    /\ \/ \E k \in {"busy", "answered", "none"} :
              reply' = [reply EXCEPT ![r] = [kind |-> k, delay |-> 0, at |-> clock]]
       \/ \E d \in Delays :
              /\ clock + d <= MaxTime
              /\ generation < MaxGeneration
              /\ reply' = [reply EXCEPT ![r] = [kind |-> "throttled", delay |-> d, at |-> clock]]
    /\ pc' = [pc EXCEPT ![r] = "observe"]
    /\ UNCHANGED <<clock, shared, ctx, coordinated, seenUntil, seenGeneration, release, history>>

\* Mutant: the success of an older generation clears the cooldown.
ClearsAnyGeneration(r) == coordinated[r] /\ reply[r].kind = "answered"

\* A success proves the cooldown over only to the attempt that waited for it.
Clears(r) ==
    /\ coordinated[r]
    /\ reply[r].kind = "answered"
    /\ generation = seenGeneration[r]

\* observeResponse.
Observe(r) ==
    /\ pc[r] = "observe"
    /\ LET deadline == reply[r].at + reply[r].delay IN
       IF reply[r].kind = "throttled"
       THEN /\ until' = Later(until, deadline)
            /\ generation' = generation + 1
            /\ promised' = Later(promised, deadline)
       ELSE /\ until' = IF Clears(r) THEN 0 ELSE until
            /\ UNCHANGED <<generation, promised>>
    /\ pc' = [pc EXCEPT ![r] = "release"]
    /\ UNCHANGED <<clock, gate, local, looked>>

\* releaseCooldown(), before the body is read.
Release(r) ==
    /\ pc[r] = "release"
    /\ CallRelease(r)
    /\ pc' = [pc EXCEPT ![r] = "body"]
    /\ UNCHANGED <<clock, until, generation, ctx, coordinated, seenUntil, seenGeneration, reply, history>>

\* The rest of the middleware and its deferred releaseCooldown().
Finish(r) ==
    /\ pc[r] = "body"
    /\ IF release[r] = "armed" THEN gate = 0 /\ gate' = gate + 1 ELSE gate' = gate
    /\ EndAttempt(r)
    /\ UNCHANGED <<clock, until, generation, promised>>

(***************************************************************************)
(* Specification                                                           *)
(***************************************************************************)

Wait(r) ==
    \/ LookUncooled(r) \/ LookCooled(r) \/ Decide(r) \/ WakeUp(r) \/ GiveUp(r)
    \/ TakeToken(r) \/ ReturnToken(r) \/ Recheck(r)
    \/ ConfirmCooled(r) \/ ConfirmElapsed(r)

Middleware(r) == Receive(r) \/ Observe(r) \/ Release(r) \/ Finish(r)

Next ==
    \/ Tick
    \/ \E r \in Requests : StartWait(r) \/ EndContext(r) \/ Wait(r) \/ Middleware(r)

Spec == Init /\ [][Next]_vars

\* Time passes, goroutines run, every attempt returns (the request deadline
\* sees to it), and a goroutine blocked on the gate is served in turn: a Go
\* channel queues its receivers first in, first out.
Fairness ==
    /\ WF_vars(Tick)
    /\ \A r \in Requests : WF_vars(Wait(r)) /\ WF_vars(Middleware(r)) /\ SF_vars(TakeToken(r))

FairSpec == Spec /\ Fairness

(***************************************************************************)
(* Properties                                                              *)
(***************************************************************************)

TypeOK ==
    /\ clock \in Nat \ {0}
    /\ until \in Nat
    /\ generation \in Nat
    /\ gate \in Nat
    /\ pc \in [Requests -> Locations]
    /\ ctx \in [Requests -> {"live", "ended"}]
    /\ coordinated \in [Requests -> BOOLEAN]
    /\ seenUntil \in [Requests -> Nat]
    /\ seenGeneration \in [Requests -> Nat]
    /\ release \in [Requests -> Releases]
    /\ reply \in [Requests -> Replies]
    /\ promised \in Nat
    /\ looked \in [Requests -> Nat]

\* Attempts that hold the token: received it, and not yet sent it back.
Holding(r) == pc[r] = "token" \/ release[r] = "armed"

\* There is exactly one token, in the gate or with one attempt, whatever
\* cancellations and loops happen: none is leaked and none is sent twice
\* (acquireDelayedRelease and its sync.Once).
OneToken ==
    /\ gate \in {0, 1}
    /\ gate = 1 <=> \A r \in Requests : ~Holding(r)
    /\ \A r, s \in Requests : Holding(r) /\ Holding(s) => r = s

\* Attempts that met the cooldown never talk to the API at the same time
\* (wait: the releases after the deadline are serialized).
InFlight == {"attempt", "observe"}

CoordinatedAlone ==
    \A r, s \in Requests :
        coordinated[r] /\ coordinated[s] /\ pc[r] \in InFlight /\ pc[s] \in InFlight => r = s

\* Both together: the gate's one token serializes the releases after a deadline, and
\* no way out of wait or of the attempt loses it or returns it twice.
ReleasesAreSerial == OneToken /\ CoordinatedAlone

\* A deadline that lies ahead is never forgotten or shortened: not by a later
\* 429 with a shorter delay, not by 429s observed out of order, not by the
\* success of an attempt released under an older generation (observeResponse).
CooldownRemembered == promised > clock => until = promised

\* An attempt that is let through was let through after every deadline known
\* when it last looked at the cooldown (wait).
CooldownHonoured == \A r \in Requests : pc[r] \in InFlight => looked[r] <= clock

\* Every attempt is let through or gives up: no token is lost with a canceled
\* waiter, and no waiter sleeps through the end of the cooldown (wait).
WaitEnds == \A r \in Requests : pc[r] = "look" ~> pc[r] \in {"attempt", "idle"}

(***************************************************************************)
(* The inductive invariant                                                 *)
(***************************************************************************)

\* An armed release belongs to an attempt between Recheck and Release, and
\* every attempt that met the cooldown holds one while it talks to the API.
ArmedMatchesPlace ==
    \A r \in Requests :
        /\ release[r] = "armed" => pc[r] \in {"confirm", "attempt", "observe", "release"}
        /\ pc[r] = "confirm" => release[r] = "armed"
        /\ coordinated[r] /\ pc[r] \in InFlight => release[r] = "armed"
        /\ pc[r] \in {"decide", "asleep", "gate", "token", "confirm"} => coordinated[r]

\* The remembered deadline was promised by some 429.
UntilIsPromised == until <= promised

\* What an attempt read last is the cooldown of its generation.
SnapshotsAgree ==
    \A r \in Requests :
        coordinated[r] /\ pc[r] \in {"confirm", "attempt", "observe"} =>
            /\ seenGeneration[r] <= generation
            /\ seenGeneration[r] = generation => looked[r] = promised

\* At the last check, the deadline read is the one the check is about.
CheckedDeadline ==
    \A r \in Requests : pc[r] = "confirm" /\ looked[r] > clock => seenUntil[r] = looked[r]

IInv ==
    /\ TypeOK /\ OneToken /\ ArmedMatchesPlace
    /\ UntilIsPromised /\ SnapshotsAgree /\ CheckedDeadline
    /\ CooldownRemembered /\ CooldownHonoured

=============================================================================
