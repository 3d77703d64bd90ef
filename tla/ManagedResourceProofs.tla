----------------------- MODULE ManagedResourceProofs -----------------------
(***************************************************************************)
(* For any kinds of handlers and attributes that meet the assumptions of   *)
(* ManagedResource, any values, and any numbers of objects, retries and    *)
(* events: which objects Terraform's state holds, and, in the last part,   *)
(* what it says of them.                                                   *)
(***************************************************************************)
EXTENDS ManagedResource, TLAPS

(***************************************************************************)
(* The inductive invariant                                                 *)
(***************************************************************************)

\* Which handler is at which request.
CallsAreInPlace ==
    /\ call.at = "idle" => call = Idle
    /\ call.op = "none" => call.at = "idle"
    /\ call.at = "page" => Reading
    /\ call.at = "check" => Deleting

\* Which object a handler is about: nothing else touches the states meanwhile.
CallIsAbout ==
    /\ call.op \in {"read", "update", "delete"} => Tracks(tracked) /\ call.id = tracked.id
    /\ call.op = "destroy" => Tracks(deposed) /\ call.id = deposed.id
    /\ call.op = "create" => ~Tracks(tracked) /\ (handlers.create = "put" => call.id = 1) /\ handlers.create # "unsupported"
    /\ call.op = "import" => ~Tracks(tracked) /\ ~Tracks(deposed) /\ call.id # NoId /\ objects[call.id].status # "none"
    /\ Deleting => handlers.remove # "forget"

\* What a handler got to know from the state and from the plan.
PlansAreOfState ==
    /\ call.op = "read" => call.plan = tracked.value
    /\ call.op = "update" /\ attribute.shown = {"create"} => call.plan = tracked.value

StatesAreOfObjects ==
    /\ \A s \in {tracked, deposed} : IF Tracks(s) THEN objects[s.id].status # "none" ELSE s = NoState
    /\ handlers.create = "post" /\ Tracks(tracked) => tracked.id # deposed.id

\* Objects made by the Create that runs, and what its answer says of them.
MadeIsTold ==
    /\ call.op # "create" => call.made = {}
    /\ "create" \notin handlers.retried /\ ~call.answered => call.made = {}
    /\ call.op = "create" /\ call.answered /\ call.reply.status = "ok" /\ HasIdentity =>
          /\ Target \in Ids
          /\ objects[Target].status # "none"
          /\ handlers.create = "post" => Target # deposed.id
          /\ "create" \notin handlers.retried => call.made \subseteq {Target}

\* An answer about an object was true, and is still where it says that it is gone.
AnswersAreTrue ==
    call.answered =>
        /\ call.op # "create" /\ call.reply.status = "missing" => objects[call.id].status = "gone"
        /\ Deleting /\ call.at = "main" /\ call.reply.status = "ok" => objects[call.id].status # "live"
        /\ (Reading \/ call.at = "check") /\ call.reply.status = "ok" /\ ~handlers.guarded =>
              call.reply.id \in {NoId, call.id}
        /\ call.at = "check" /\ call.reply.status = "ok" /\ handlers.guarded
              /\ call.reply.id = call.id /\ call.reply.compatible =>
              objects[call.id].compatible \/ call.turned

SettingsMakeNothing == handlers.remove = "forget" => ours = {}

IInv ==
    /\ TypeOK /\ config \in Configs
    /\ CallsAreInPlace /\ CallIsAbout /\ PlansAreOfState
    /\ StatesAreOfObjects /\ MadeIsTold /\ AnswersAreTrue
    /\ OnlyCompatibleIsDeleted /\ SettingsMakeNothing
    /\ NothingIsForgotten

(***************************************************************************)
(* What the operators of ManagedResource give                              *)
(***************************************************************************)

LEMMA KindIsTyped ==
    ASSUME TypeOK
    PROVE  /\ handlers \in Handlers /\ attribute \in Attributes
           /\ handlers.create = "post" \/ handlers.guarded => handlers.identity
           /\ handlers.remove = "forget" => handlers.create # "post" /\ handlers.missing = "any404"
           /\ handlers.read = "list" => handlers.missing = "any404"
           /\ attribute.shown = {"create"} => attribute.mode = "computed" /\ attribute.keep
BY KindsAssumption, HandlersAssumption, ShownOnceAssumption DEF TypeOK, handlers, attribute

LEMMA ConfigIsTyped ==
    ASSUME TypeOK
    PROVE  Configs \subseteq Known \cup {Absent} /\ Remote \subseteq Known
BY DEF Configs, Remote, Known

LEMMA ProposedIsTyped ==
    ASSUME TypeOK, config # Absent, NEW unset \in Known \cup {Unknown}
    PROVE  Proposed(unset) \in Known \cup {Unknown}
BY DefaultAssumption DEF Proposed, Known, TypeOK

LEMMA SentIsTyped ==
    ASSUME TypeOK, call.op \in {"create", "update"}
    PROVE  Sent \in Known \cup {Omitted}
<1>1. attribute.create \in {"value", "no"} /\ attribute.update \in {"value", "nullable", "no"}
  BY KindIsTyped DEF Attributes
<1>2. call.plan \in Known \cup {Unknown} /\ call.prior \in Known
  BY DEF TypeOK, Calls
<1>3. ValueField(call.plan) \in Known \cup {Omitted}
  BY <1>2 DEF ValueField
<1>4. NullableField(call.plan, call.prior) \in Known \cup {Omitted}
  BY <1>2 DEF NullableField
<1> QED
  BY <1>1, <1>3, <1>4 DEF Sent

LEMMA StoredIsTyped ==
    ASSUME TypeOK, call.op \in {"create", "update"}, NEW id \in Ids
    PROVE  Stored(id) \subseteq Known
<1>1. objects[id].value \in Known
  BY DEF TypeOK
<1>2. Unsent(id) \subseteq Known
  BY <1>1 DEF Unsent, Known
<1> QED
  BY <1>2, SentIsTyped DEF Stored

LEMMA AppliedIsTyped ==
    ASSUME TypeOK
    PROVE  Applied \in Known \cup {Unknown} /\ NullForUnknown(Applied) \in Known /\ NullForUnknown(call.plan) \in Known
BY DEF TypeOK, Calls, Replies, Applied, NullForUnknown, Known

LEMMA RenamedReply ==
    ASSUME NEW r \in Replies, NEW i \in {NoId} \cup Ids
    PROVE  /\ [r EXCEPT !.id = i] \in Replies /\ [r EXCEPT !.id = i].id = i /\ [r EXCEPT !.id = i].status = r.status
           /\ [r EXCEPT !.id = i].value = r.value
BY DEF Replies

LEMMA BrokenReply ==
    ASSUME NEW r \in Replies
    PROVE  /\ [r EXCEPT !.whole = FALSE] \in Replies /\ [r EXCEPT !.whole = FALSE].id = r.id
           /\ [r EXCEPT !.whole = FALSE].status = r.status /\ [r EXCEPT !.whole = FALSE].compatible = r.compatible
           /\ [r EXCEPT !.whole = FALSE].value = r.value
<1>1. [r EXCEPT !.whole = FALSE] \in Replies
  BY Zenon DEF Replies
<1> QED
  BY <1>1 DEF Replies

LEMMA OtherTypeReply ==
    ASSUME NEW r \in Replies
    PROVE  /\ [r EXCEPT !.compatible = FALSE] \in Replies /\ [r EXCEPT !.compatible = FALSE].id = r.id
           /\ [r EXCEPT !.compatible = FALSE].status = r.status /\ ~[r EXCEPT !.compatible = FALSE].compatible
           /\ [r EXCEPT !.compatible = FALSE].value = r.value
<1>1. [r EXCEPT !.compatible = FALSE] \in Replies
  BY Zenon DEF Replies
<1> QED
  BY <1>1 DEF Replies

LEMMA GoodReplies ==
    ASSUME NEW id \in Ids, NEW v \in Known \cup {Omitted}, NEW c \in BOOLEAN
    PROVE  /\ Good(id, v, c) \in Replies /\ Good(id, v, c).id = id /\ Good(id, v, c).status = "ok"
           /\ Good(id, v, c).compatible = c /\ Good(id, v, c).value = v
<1>1. \A w \in BOOLEAN : [status |-> "ok", id |-> id, value |-> v, whole |-> w, compatible |-> c] \in Replies
  BY DEF Replies
<1> QED
  BY <1>1 DEF Good

LEMMA FailedReplies ==
    ASSUME NEW status \in {"missing", "foreign", "error", "none"}
    PROVE  Failure(status) \in Replies /\ Failure(status).status = status
<1>1. \A w \in BOOLEAN, c \in BOOLEAN : [status |-> status, id |-> NoId, value |-> Omitted, whole |-> w, compatible |-> c] \in Replies
  BY DEF Replies
<1> QED
  BY <1>1 DEF Failure

\* What AnswerWith may answer about an object.
LEMMA DamagedReplies ==
    ASSUME NEW id \in Ids, NEW v \in Known, NEW c \in BOOLEAN, NEW r \in Damaged(id, v, c)
    PROVE  /\ r \in Replies /\ r.status = "ok"
           /\ r.id \in {id, NoId} \/ (handlers.guarded /\ (Reading \/ call.at = "check") /\ r.id \in Ids \ {id})
           /\ r.id = id /\ r.compatible => c
           /\ r.id = NoId => handlers.identity
           /\ r.value = v
<1>1. /\ Good(id, v, c) \in Replies /\ Good(id, v, c).id = id /\ Good(id, v, c).status = "ok"
      /\ Good(id, v, c).compatible = c /\ Good(id, v, c).value = v
  BY GoodReplies
<1>2. NoId \notin Ids
  BY DEF NoId, Ids
<1> DEFINE g == Good(id, v, c)
<1>3. CASE r = [g EXCEPT !.whole = FALSE]
  <2>1. r \in Replies /\ r.id = g.id /\ r.status = g.status /\ r.compatible = g.compatible /\ r.value = g.value
    BY <1>1, <1>3, BrokenReply, Zenon
  <2> QED
    BY <1>1, <1>2, <2>1
<1>4. CASE handlers.identity /\ r = [g EXCEPT !.id = NoId]
  <2>1. r \in Replies /\ r.id = NoId /\ r.status = g.status /\ r.value = g.value
    BY <1>1, <1>4, RenamedReply
  <2> QED
    BY <1>1, <1>2, <1>4, <2>1
<1>5. CASE r = [g EXCEPT !.compatible = FALSE]
  <2>1. r \in Replies /\ r.id = g.id /\ r.status = g.status /\ ~r.compatible /\ r.value = g.value
    BY <1>1, <1>5, OtherTypeReply, Zenon
  <2> QED
    BY <1>1, <1>2, <2>1
<1>6. CASE handlers.guarded /\ (Reading \/ call.at = "check") /\ \E other \in Ids \ {id} : r = [g EXCEPT !.id = other]
  <2>1. PICK other \in Ids \ {id} : r = [g EXCEPT !.id = other]
    BY <1>6
  <2>2. r \in Replies /\ r.id = other /\ r.status = g.status /\ r.value = g.value
    BY <1>1, <2>1, RenamedReply
  <2> QED
    BY <1>1, <1>2, <1>6, <2>2
<1> QED
  BY <1>3, <1>4, <1>5, <1>6 DEF Damaged

\* The fields of the call after each kind of change.
LEMMA Responded ==
    ASSUME TypeOK, NEW reply \in Replies, NEW made \in SUBSET Ids, Respond(reply, made)
    PROVE  /\ call' \in Calls
           /\ call'.op = call.op /\ call'.at = call.at /\ call'.id = call.id /\ call'.prior = call.prior
           /\ call'.plan = call.plan /\ call'.swap = call.swap
           /\ call'.made = call.made \cup made /\ call'.answered /\ call'.reply = reply
           /\ call.drifted \/ call.id \in stale => call'.drifted
           /\ call'.turned = call.turned
<1>1. \A b \in BOOLEAN, d \in BOOLEAN :
          [call EXCEPT !.reply = reply, !.answered = b, !.made = @ \cup made, !.drifted = d] \in Calls
  BY DEF TypeOK, Calls
<1> DEFINE d == call.drifted \/ call.id \in stale
<1>2. d \in BOOLEAN
  BY DEF TypeOK, Calls
<1>3. call' = [call EXCEPT !.reply = reply, !.answered = TRUE, !.made = @ \cup made, !.drifted = d]
  BY DEF Respond
<1>4. (call.drifted \/ call.id \in stale) => d
  OBVIOUS
<1> HIDE DEF d
<1>5. call' \in Calls
  BY <1>1, <1>2, <1>3
<1>6. call'.drifted = d
  BY <1>2, <1>3, <1>5 DEF TypeOK, Calls
<1> QED
  BY <1>3, <1>4, <1>5, <1>6 DEF TypeOK, Calls

LEMMA IdleIsTyped ==
    /\ Idle \in Calls /\ Idle.op = "none" /\ Idle.at = "idle" /\ Idle.made = {} /\ ~Idle.answered
    /\ Idle.prior = Null /\ Idle.plan = Null /\ ~Idle.swap
<1>1. Pending \in Replies
  BY FailedReplies DEF Pending
<1>2. \A b \in BOOLEAN : [op |-> "none", at |-> "idle", id |-> NoId, prior |-> Null, plan |-> Null, swap |-> b,
                          tries |-> 0, made |-> {}, drifted |-> b, turned |-> b, answered |-> b, reply |-> Pending] \in Calls
  BY <1>1, BoundsAssumption DEF Calls, Known
<1> QED
  BY <1>2 DEF Idle

LEMMA Begun ==
    ASSUME NEW op \in {"create", "read", "import", "update", "delete", "destroy"}, NEW at \in {"check", "page", "main"},
           NEW id \in {NoId} \cup Ids, NEW prior \in Known, NEW plan \in Known \cup {Unknown},
           Begin(op, at, id, prior, plan)
    PROVE  /\ call' \in Calls
           /\ call'.op = op /\ call'.at = at /\ call'.id = id /\ call'.prior = prior /\ call'.plan = plan
           /\ call'.made = {} /\ ~call'.answered
<1>1. call' = [Idle EXCEPT !.op = op, !.at = at, !.id = id, !.prior = prior, !.plan = plan]
  BY DEF Begin
<1> QED
  BY <1>1, IdleIsTyped DEF Calls

LEMMA Replacing ==
    ASSUME NEW id \in {NoId} \cup Ids, NEW plan \in Known \cup {Unknown},
           call' = [Idle EXCEPT !.op = "create", !.at = "main", !.swap = TRUE, !.plan = plan, !.id = id]
    PROVE  /\ call' \in Calls
           /\ call'.op = "create" /\ call'.at = "main" /\ call'.id = id /\ call'.plan = plan /\ call'.prior = Null
           /\ call'.made = {} /\ ~call'.answered /\ call'.swap
<1>1. \A b \in BOOLEAN : [Idle EXCEPT !.op = "create", !.at = "main", !.swap = b, !.plan = plan, !.id = id] \in Calls
  BY IdleIsTyped DEF Calls
<1>2. call' \in Calls
  BY <1>1
<1> QED
  BY <1>2, IdleIsTyped DEF Calls

LEMMA Paged ==
    ASSUME TypeOK, call' = [call EXCEPT !.at = "main", !.tries = 0]
    PROVE  /\ call' \in Calls
           /\ call'.op = call.op /\ call'.at = "main" /\ call'.id = call.id /\ call'.plan = call.plan
           /\ call'.made = call.made /\ call'.answered = call.answered /\ call'.reply = call.reply
           /\ call'.prior = call.prior /\ call'.swap = call.swap /\ call'.drifted = call.drifted
           /\ call'.turned = call.turned
<1>1. 0 \in 0..MaxRetries
  BY BoundsAssumption
<1>2. call' \in Calls
  BY <1>1 DEF TypeOK, Calls
<1> QED
  BY <1>2 DEF TypeOK, Calls

LEMMA Resent ==
    ASSUME TypeOK, Lose
    PROVE  /\ call' \in Calls
           /\ call'.op = call.op /\ call'.at = call.at /\ call'.id = call.id /\ call'.plan = call.plan /\ call'.made = call.made
           /\ call'.reply.status = "none"
           /\ ~Retried => call'.answered
           /\ call'.prior = call.prior /\ call'.swap = call.swap /\ call'.drifted = call.drifted
           /\ call'.turned = call.turned
<1>1. Pending \in Replies /\ Failure("none") \in Replies /\ Pending.status = "none" /\ Failure("none").status = "none"
  BY FailedReplies DEF Pending
<1>2. CASE Retried /\ call.tries < MaxRetries
  <2>1. call' = [call EXCEPT !.tries = @ + 1, !.answered = FALSE, !.reply = Pending]
    BY <1>2 DEF Lose
  <2>2. call.tries + 1 \in 0..MaxRetries
    BY <1>2, BoundsAssumption DEF TypeOK, Calls
  <2>3. \A b \in BOOLEAN : [call EXCEPT !.tries = call.tries + 1, !.answered = b, !.reply = Pending] \in Calls
    BY <1>1, <2>2 DEF TypeOK, Calls
  <2>4. call' \in Calls
    BY <2>1, <2>3
  <2> QED
    BY <1>1, <1>2, <2>1, <2>4 DEF TypeOK, Calls
<1>3. CASE ~(Retried /\ call.tries < MaxRetries)
  <2>1. call' = [call EXCEPT !.answered = TRUE, !.reply = Failure("none")]
    BY <1>3 DEF Lose
  <2>2. \A b \in BOOLEAN : [call EXCEPT !.answered = b, !.reply = Failure("none")] \in Calls
    BY <1>1 DEF TypeOK, Calls
  <2>3. call' \in Calls
    BY <2>1, <2>2
  <2> QED
    BY <1>1, <2>1, <2>3 DEF TypeOK, Calls
<1> QED
  BY <1>2, <1>3

LEMMA Rechecked ==
    ASSUME TypeOK, call' = [call EXCEPT !.at = "main", !.answered = FALSE, !.tries = 0, !.reply = Pending]
    PROVE  /\ call' \in Calls
           /\ call'.op = call.op /\ call'.at = "main" /\ call'.id = call.id /\ call'.made = call.made /\ ~call'.answered
           /\ call'.plan = call.plan /\ call'.prior = call.prior /\ call'.turned = call.turned
<1>1. Pending \in Replies
  BY FailedReplies DEF Pending
<1>2. 0 \in 0..MaxRetries
  BY BoundsAssumption
<1>3. call' \in Calls
  <2>1. \A b \in BOOLEAN : [call EXCEPT !.at = "main", !.answered = b, !.tries = 0, !.reply = Pending] \in Calls
    BY <1>1, <1>2 DEF TypeOK, Calls
  <2> QED
    BY <2>1
<1> QED
  BY <1>3 DEF TypeOK, Calls

LEMMA Spent == ASSUME TypeOK, Spend PROVE events' \in 0..MaxEvents /\ events' # events
BY BoundsAssumption DEF TypeOK, Spend

\* When others change what the object is.
LEMMA Turned ==
    ASSUME TypeOK, NEW about \in BOOLEAN, call' = [call EXCEPT !.turned = @ \/ about]
    PROVE  /\ call' \in Calls
           /\ call'.op = call.op /\ call'.at = call.at /\ call'.id = call.id /\ call'.plan = call.plan
           /\ call'.made = call.made /\ call'.answered = call.answered /\ call'.reply = call.reply
           /\ call'.prior = call.prior /\ call'.swap = call.swap /\ call'.drifted = call.drifted
           /\ call.turned \/ about => call'.turned
           /\ ~about => call' = call
<1>1. (call.turned \/ about) \in BOOLEAN
  BY DEF TypeOK, Calls
<1>2. \A b \in BOOLEAN :
          /\ [call EXCEPT !.turned = b] \in Calls
          /\ [call EXCEPT !.turned = b].turned = b
          /\ [call EXCEPT !.turned = b].op = call.op /\ [call EXCEPT !.turned = b].at = call.at
          /\ [call EXCEPT !.turned = b].id = call.id /\ [call EXCEPT !.turned = b].plan = call.plan
          /\ [call EXCEPT !.turned = b].made = call.made /\ [call EXCEPT !.turned = b].answered = call.answered
          /\ [call EXCEPT !.turned = b].reply = call.reply /\ [call EXCEPT !.turned = b].prior = call.prior
          /\ [call EXCEPT !.turned = b].swap = call.swap /\ [call EXCEPT !.turned = b].drifted = call.drifted
          /\ b = call.turned => [call EXCEPT !.turned = b] = call
  BY DEF TypeOK, Calls
<1>3. call' = [call EXCEPT !.turned = (call.turned \/ about)]
  OBVIOUS
<1> DEFINE b == call.turned \/ about
<1> HIDE DEF b
<1>4. call' = [call EXCEPT !.turned = b] /\ b \in BOOLEAN
  BY <1>1, <1>3 DEF b
<1>5. ~about => b = call.turned
  BY DEF b, TypeOK, Calls
<1> QED
  BY <1>2, <1>4, <1>5 DEF b

\* An answer, and what it makes of what the state may not know: its value is the one at
\* the API, or it comes without the attribute though it could have it.
LEMMA Answered ==
    ASSUME TypeOK, NEW id \in Ids, NEW v \in Known, NEW c \in BOOLEAN, NEW made \in SUBSET Ids, AnswerWith(id, v, c, made)
    PROVE  /\ call' \in Calls
           /\ call'.op = call.op /\ call'.at = call.at /\ call'.id = call.id /\ call'.plan = call.plan
           /\ call'.made = call.made \cup made /\ call'.answered
           /\ call'.reply.status = "ok"
           /\ \/ call'.reply.id \in {id, NoId}
              \/ handlers.guarded /\ (Reading \/ call.at = "check") /\ call'.reply.id \in Ids \ {id}
           /\ call'.reply.id = id /\ call'.reply.compatible => c
           /\ call'.reply.id = NoId => handlers.identity
           /\ events' \in 0..MaxEvents
           /\ call'.prior = call.prior /\ call'.swap = call.swap
           /\ call.drifted \/ call.id \in stale => call'.drifted
           /\ call'.turned = call.turned
           /\ call'.reply.value = v \/ (call'.reply.value = Omitted /\ Shows)
           /\ Revealed(id, call'.reply.value)
<1>0. NoId \notin Ids /\ events \in 0..MaxEvents
  BY DEF NoId, Ids, TypeOK
<1>1. PICK r \in Replies : Respond(r, made) /\ r.status = "ok"
                           /\ (\/ r.id \in {id, NoId}
                               \/ handlers.guarded /\ (Reading \/ call.at = "check") /\ r.id \in Ids \ {id})
                           /\ (r.id = id /\ r.compatible => c)
                           /\ (r.id = NoId => handlers.identity)
                           /\ (r.value = v \/ (r.value = Omitted /\ Shows))
                           /\ Revealed(id, r.value)
                           /\ events' \in 0..MaxEvents
  <2>1. CASE \E w \in {v, Omitted} : /\ Respond(Good(id, w, c), made) /\ Revealed(id, w) /\ (UNCHANGED events \/ Spend)
                                     /\ w = v \/ (w = Omitted /\ Shows)
    <3>1. PICK w \in Known \cup {Omitted} :
              /\ Respond(Good(id, w, c), made) /\ Revealed(id, w) /\ (UNCHANGED events \/ Spend)
              /\ w = v \/ (w = Omitted /\ Shows)
      BY <2>1
    <3>2. /\ Good(id, w, c) \in Replies /\ Good(id, w, c).id = id /\ Good(id, w, c).status = "ok"
          /\ Good(id, w, c).compatible = c /\ Good(id, w, c).value = w
      BY GoodReplies
    <3>3. events' \in 0..MaxEvents
      BY <1>0, <3>1, Spent
    <3> QED
      BY <1>0, <3>1, <3>2, <3>3
  <2>2. CASE Spend /\ Revealed(id, v) /\ \E r \in Damaged(id, v, c) : Respond(r, made)
    <3>1. PICK r \in Damaged(id, v, c) : Respond(r, made)
      BY <2>2
    <3>2. /\ r \in Replies /\ r.status = "ok"
          /\ r.id \in {id, NoId} \/ (handlers.guarded /\ (Reading \/ call.at = "check") /\ r.id \in Ids \ {id})
          /\ r.id = id /\ r.compatible => c
          /\ r.id = NoId => handlers.identity
          /\ r.value = v
      BY DamagedReplies
    <3>3. Revealed(id, r.value) /\ events' \in 0..MaxEvents
      BY <2>2, <3>2, Spent
    <3> QED
      BY <3>1, <3>2, <3>3
  <2>3. CASE Shows /\ Respond(Good(id, Omitted, c), made) /\ Revealed(id, Omitted) /\ (UNCHANGED events \/ Spend)
    BY <2>1, <2>3
  <2>4. CASE Respond(Good(id, v, c), made) /\ Revealed(id, v) /\ UNCHANGED events
    BY <2>1, <2>4
  <2> QED
    BY <2>2, <2>3, <2>4 DEF AnswerWith
<1>2. /\ call' \in Calls
      /\ call'.op = call.op /\ call'.at = call.at /\ call'.id = call.id /\ call'.plan = call.plan
      /\ call'.made = call.made \cup made /\ call'.answered /\ call'.reply = r
      /\ call'.prior = call.prior /\ call'.swap = call.swap
      /\ call.drifted \/ call.id \in stale => call'.drifted
      /\ call'.turned = call.turned
  BY <1>1, Responded
<1> QED
  BY <1>1, <1>2

(***************************************************************************)
(* Each step keeps the invariant                                           *)
(***************************************************************************)

LEMMA InitHolds == Init => IInv
<1> SUFFICES ASSUME Init PROVE IInv
  OBVIOUS
<1> USE DEF Init
<1>1. NoState \in States /\ NoState.id = NoId /\ NoState.value = Null
  <2>1. \A b \in BOOLEAN : [id |-> NoId, value |-> Null, tainted |-> b] \in States
    BY DEF States, Known
  <2> QED
    BY <2>1 DEF NoState
<1>2. Idle \in Calls /\ Idle.op = "none" /\ Idle.at = "idle" /\ Idle.made = {} /\ ~Idle.answered
  BY IdleIsTyped
<1>3. config \in Configs /\ config \in Known \cup {Absent}
  BY DEF Configs, Known
<1>4. PICK v \in Known, theirs \in BOOLEAN, c \in BOOLEAN :
          objects = [id \in Ids |-> [status |-> IF id = 1 /\ theirs THEN "live" ELSE "none",
                                     value |-> IF id = 1 /\ theirs THEN v ELSE Null,
                                     compatible |-> id # 1 \/ c]]
  OBVIOUS
<1>5. objects \in [Ids -> [status : {"none", "live", "archived", "gone"}, value : Known, compatible : BOOLEAN]]
  <2>1. \A i \in Ids : (i # 1 \/ c) \in BOOLEAN
    BY <1>4
  <2>2. \A b \in BOOLEAN, st \in {"none", "live"}, w \in Known :
            [status |-> st, value |-> w, compatible |-> b] \in [status : {"none", "live", "archived", "gone"}, value : Known, compatible : BOOLEAN]
    OBVIOUS
  <2>3. Null \in Known
    BY DEF Known
  <2> QED
    BY <1>4, <2>1, <2>2, <2>3
<1>6. TypeOK
  <2>0. fresh \in BOOLEAN
    OBVIOUS
  <2>1. fresh \in BOOLEAN /\ events \in 0..MaxEvents /\ ours \subseteq Ids /\ excused \subseteq Ids /\ stale \subseteq Ids
    BY <2>0, BoundsAssumption
  <2>2. tracked \in States /\ deposed \in States /\ call \in Calls /\ kind \in Kinds
    BY <1>1, <1>2
  <2> QED
    BY <1>3, <1>5, <2>1, <2>2 DEF TypeOK
<1>7. CallsAreInPlace /\ CallIsAbout /\ PlansAreOfState
  BY <1>1, <1>2 DEF CallsAreInPlace, CallIsAbout, PlansAreOfState, Reading, Deleting
<1>8. StatesAreOfObjects /\ MadeIsTold /\ AnswersAreTrue
  BY <1>1, <1>2 DEF StatesAreOfObjects, MadeIsTold, AnswersAreTrue, Tracks
<1>9. OnlyCompatibleIsDeleted /\ SettingsMakeNothing /\ NothingIsForgotten
  BY <1>1, <1>2 DEF OnlyCompatibleIsDeleted, SettingsMakeNothing, NothingIsForgotten, Tracks, Deleting
<1> QED
  BY <1>3, <1>6, <1>7, <1>8, <1>9 DEF IInv

LEMMA SameKind ==
    ASSUME kind' = kind
    PROVE  handlers' = handlers /\ attribute' = attribute /\ Configs' = Configs
BY DEF handlers, attribute, Configs

\* Terraform calls a handler.
LEMMA StartKeeps ==
    ASSUME IInv, IdleHere, UNCHANGED <<kind, config, objects, tracked, deposed, history>>,
           call' \in Calls, call'.op # "none", call'.at # "idle", call'.made = {}, ~call'.answered,
           call'.at = "page" => call'.op \in {"read", "import"},
           call'.at = "check" => call'.op \in {"delete", "destroy"},
           handlers.guarded /\ call'.op \in {"delete", "destroy"} => call'.at # "main",
           fresh' \in BOOLEAN, events' \in 0..MaxEvents,
           CallIsAbout', PlansAreOfState'
    PROVE  IInv'
<1> USE DEF IInv, history
<1>1. handlers' = handlers /\ attribute' = attribute /\ Configs' = Configs
  BY SameKind
<1>2. call.made = {}
  BY IdleIsTyped DEF CallsAreInPlace, IdleHere
<1>3. TypeOK' /\ (config \in Configs)'
  BY <1>1 DEF TypeOK
<1>4. CallsAreInPlace'
  BY DEF CallsAreInPlace, Reading, Deleting
<1>5. StatesAreOfObjects' /\ MadeIsTold' /\ AnswersAreTrue'
  BY <1>1 DEF StatesAreOfObjects, MadeIsTold, AnswersAreTrue, Tracks
<1>6. OnlyCompatibleIsDeleted' /\ SettingsMakeNothing' /\ NothingIsForgotten'
  BY <1>1, <1>2 DEF OnlyCompatibleIsDeleted, SettingsMakeNothing, NothingIsForgotten, Tracks, Deleting
<1> QED
  BY <1>3, <1>4, <1>5, <1>6

LEMMA IdsOfCalls ==
    ASSUME IInv
    PROVE  /\ 1 \in Ids /\ NoId \notin Ids
           /\ Tracks(tracked) => tracked.id \in Ids
           /\ Tracks(deposed) => deposed.id \in Ids
           /\ call.op \notin {"none", "create"} => call.id \in Ids
<1>1. 1 \in Ids /\ NoId \notin Ids
  BY BoundsAssumption DEF Ids, NoId
<1>2. (Tracks(tracked) => tracked.id \in Ids) /\ (Tracks(deposed) => deposed.id \in Ids)
  BY DEF IInv, TypeOK, States, Tracks
<1>3. call.id \in {NoId} \cup Ids /\ call.op \in {"none", "create", "read", "import", "update", "delete", "destroy"}
  BY DEF IInv, TypeOK, Calls
<1> QED
  BY <1>1, <1>2, <1>3 DEF IInv, CallIsAbout

LEMMA StartsKeep ==
    ASSUME IInv,
           StartUpdate \/ StartUpdateOfAnother \/ StartRead \/ StartImport \/ StartDelete \/ StartDestroyDeposed \/ StartCreate
    PROVE  IInv'
<1> USE DEF IInv
<1>1. 1 \in {NoId} \cup Ids /\ NoId \in {NoId} \cup Ids /\ NoId \notin Ids /\ Null \in Known
  BY IdsOfCalls DEF Known
<1>2. tracked.id \in {NoId} \cup Ids /\ tracked.value \in Known /\ deposed.id \in {NoId} \cup Ids /\ deposed.value \in Known
  BY DEF TypeOK, States
<1>3. events \in 0..MaxEvents /\ fresh \in BOOLEAN
  BY DEF TypeOK
<1>4. CASE StartCreate
  <2>1. Proposed(Unknown) \in Known \cup {Unknown}
    BY <1>4, ProposedIsTyped DEF StartCreate
  <2>2. PICK id \in {NoId} \cup Ids : /\ Begin("create", "main", id, Null, Proposed(Unknown))
                                      /\ handlers.create = "put" => id = 1
    BY <1>1, <1>4 DEF StartCreate
  <2>3. /\ call' \in Calls /\ call'.op = "create" /\ call'.at = "main" /\ call'.id = id /\ call'.made = {} /\ ~call'.answered
    BY <1>1, <2>1, <2>2, Begun
  <2>4. IdleHere /\ UNCHANGED <<kind, config, objects, tracked, deposed, history, events>>
    BY <1>4, <2>2 DEF StartCreate, Begin, history
  <2>5. CallIsAbout' /\ PlansAreOfState'
    BY <1>4, <2>2, <2>3, <2>4, SameKind DEF StartCreate, CallIsAbout, PlansAreOfState, Tracks, Deleting
  <2>6. fresh' \in BOOLEAN
    BY <1>4 DEF StartCreate
  <2> QED
    BY <1>3, <2>3, <2>4, <2>5, <2>6, StartKeeps
<1>5. CASE StartUpdate \/ StartUpdateOfAnother
  <2>1. PICK unset \in Known \cup {Unknown} :
            /\ Begin("update", "main", tracked.id, tracked.value, Proposed(unset))
            /\ attribute.keep => unset = tracked.value
    BY <1>2, <1>5 DEF StartUpdate, StartUpdateOfAnother
  <2>2. config # Absent /\ Tracks(tracked) /\ UNCHANGED <<tracked, deposed>> /\ fresh' = FALSE /\ events' \in 0..MaxEvents
    BY <1>3, <1>5, Spent DEF StartUpdate, StartUpdateOfAnother
  <2>3. Proposed(unset) \in Known \cup {Unknown}
    BY <2>2, ProposedIsTyped
  <2>4. /\ call' \in Calls /\ call'.op = "update" /\ call'.at = "main" /\ call'.id = tracked.id /\ call'.made = {} /\ ~call'.answered
        /\ call'.plan = Proposed(unset)
    BY <1>2, <2>1, <2>3, Begun
  <2>5. IdleHere /\ UNCHANGED <<kind, config, objects, history>>
    BY <2>1 DEF Begin
  <2>6. attribute.shown = {"create"} => Proposed(unset) = tracked.value
    <3>1. SUFFICES ASSUME attribute.shown = {"create"} PROVE Proposed(unset) = tracked.value
      OBVIOUS
    <3>2. attribute.mode = "computed" /\ attribute.keep
      BY <3>1, KindIsTyped
    <3>3. config = Null
      BY <2>2, <3>2 DEF Configs
    <3> QED
      BY <2>1, <3>2, <3>3 DEF Proposed, ComputedHere
  <2>7. CallIsAbout' /\ PlansAreOfState'
    BY <2>2, <2>4, <2>5, <2>6, SameKind DEF CallIsAbout, PlansAreOfState, Tracks, Deleting
  <2>8. fresh' \in BOOLEAN
    BY <2>2
  <2> QED
    BY <2>2, <2>4, <2>5, <2>7, <2>8, StartKeeps DEF history
<1>6. CASE StartRead
  <2>1. Begin("read", ReadAt, tracked.id, tracked.value, tracked.value) /\ ReadAt \in {"page", "main"} /\ Tracks(tracked)
    BY <1>6 DEF StartRead, ReadAt
  <2>2. /\ call' \in Calls /\ call'.op = "read" /\ call'.at \in {"page", "main"} /\ call'.id = tracked.id /\ call'.made = {}
        /\ ~call'.answered /\ call'.plan = tracked.value
    BY <1>2, <2>1, Begun
  <2>3. IdleHere /\ UNCHANGED <<kind, config, objects, tracked, deposed, history, fresh, events>>
    BY <1>6, <2>1 DEF StartRead, Begin, history
  <2>4. CallIsAbout' /\ PlansAreOfState'
    BY <2>1, <2>2, <2>3, SameKind DEF CallIsAbout, PlansAreOfState, Tracks, Deleting
  <2> QED
    BY <1>3, <2>2, <2>3, <2>4, StartKeeps
<1>7. CASE StartImport
  <2>1. PICK id \in Ids : objects[id].status # "none" /\ Begin("import", ReadAt, id, Null, Null)
    BY <1>7 DEF StartImport
  <2>2. ReadAt \in {"page", "main"} /\ ~Tracks(tracked) /\ ~Tracks(deposed) /\ events' \in 0..MaxEvents
    BY <1>7, Spent DEF StartImport, ReadAt
  <2>3. /\ call' \in Calls /\ call'.op = "import" /\ call'.at \in {"page", "main"} /\ call'.id = id /\ call'.made = {} /\ ~call'.answered
    BY <1>1, <2>1, <2>2, Begun
  <2>4. IdleHere /\ UNCHANGED <<kind, config, objects, tracked, deposed, history, fresh>>
    BY <1>7, <2>1 DEF StartImport, Begin, history
  <2>5. CallIsAbout' /\ PlansAreOfState'
    BY <1>1, <2>1, <2>2, <2>3, <2>4, SameKind DEF CallIsAbout, PlansAreOfState, Tracks, Deleting
  <2> QED
    BY <1>3, <2>2, <2>3, <2>4, <2>5, StartKeeps
<1>8. CASE StartDelete \/ StartDestroyDeposed
  <2>1. PICK op \in {"delete", "destroy"}, s \in {tracked, deposed} :
            /\ Begin(op, DeleteAt, s.id, s.value, Null) /\ Tracks(s)
            /\ op = "delete" => s = tracked
            /\ op = "destroy" => s = deposed
    <3>1. CASE StartDelete
      BY <3>1 DEF StartDelete
    <3>2. CASE StartDestroyDeposed
      BY <3>2 DEF StartDestroyDeposed
    <3> QED
      BY <1>8, <3>1, <3>2
  <2>2. DeleteAt \in {"check", "main"} /\ (handlers.guarded => DeleteAt # "main")
    BY DEF DeleteAt
  <2>3. handlers.remove # "forget" /\ UNCHANGED <<tracked, deposed, events>> /\ fresh' = FALSE
    BY <1>8 DEF StartDelete, StartDestroyDeposed
  <2>4. s.id \in {NoId} \cup Ids /\ s.value \in Known
    BY <1>2
  <2>5. /\ call' \in Calls /\ call'.op = op /\ call'.at = DeleteAt /\ call'.id = s.id /\ call'.made = {} /\ ~call'.answered
    BY <1>1, <2>1, <2>2, <2>4, Begun
  <2>6. IdleHere /\ UNCHANGED <<kind, config, objects, history>>
    BY <2>1 DEF Begin
  <2>7. CallIsAbout' /\ PlansAreOfState'
    BY <2>1, <2>3, <2>5, <2>6, SameKind DEF CallIsAbout, PlansAreOfState, Tracks, Deleting
  <2>8. fresh' \in BOOLEAN
    BY <2>3
  <2> QED
    BY <1>3, <2>2, <2>3, <2>5, <2>6, <2>7, <2>8, StartKeeps
<1> QED
  BY <1>4, <1>5, <1>6, <1>7, <1>8

LEMMA ReplacementKeeps == ASSUME IInv, StartReplacement PROVE IInv'
<1> USE DEF IInv
<1>1. 1 \in {NoId} \cup Ids /\ NoId \in {NoId} \cup Ids /\ NoId \notin Ids
  BY IdsOfCalls
<1>2. Proposed(Unknown) \in Known \cup {Unknown}
  BY ProposedIsTyped DEF StartReplacement
<1>3. PICK id \in {NoId} \cup Ids :
          /\ call' = [Idle EXCEPT !.op = "create", !.at = "main", !.swap = TRUE, !.plan = Proposed(Unknown), !.id = id]
          /\ handlers.create = "put" => id = 1
  BY <1>1 DEF StartReplacement
<1>4. /\ call' \in Calls /\ call'.op = "create" /\ call'.at = "main" /\ call'.id = id /\ call'.made = {} /\ ~call'.answered
  BY <1>2, <1>3, Replacing
<1>5. /\ handlers.create # "unsupported" /\ Tracks(tracked) /\ ~Tracks(deposed) /\ IdleHere
      /\ deposed' = tracked /\ tracked' = NoState
      /\ UNCHANGED <<kind, config, objects, ours, excused, stale, events>>
  BY DEF StartReplacement, history
<1>6. fresh' \in BOOLEAN
  BY DEF StartReplacement
<1>7. handlers' = handlers /\ attribute' = attribute /\ Configs' = Configs
  BY <1>5, SameKind
<1>8. NoState \in States /\ NoState.id = NoId
  <2>1. \A b \in BOOLEAN : [id |-> NoId, value |-> Null, tainted |-> b] \in States
    BY DEF States, Known
  <2> QED
    BY <2>1 DEF NoState
<1>9. call.made = {}
  BY <1>5, IdleIsTyped DEF CallsAreInPlace, IdleHere
<1>10. TypeOK' /\ (config \in Configs)'
  BY <1>4, <1>5, <1>6, <1>7, <1>8 DEF TypeOK
<1>11. CallsAreInPlace' /\ CallIsAbout' /\ PlansAreOfState'
  BY <1>3, <1>4, <1>5, <1>7, <1>8 DEF CallsAreInPlace, CallIsAbout, PlansAreOfState, Reading, Deleting, Tracks
<1>12. StatesAreOfObjects' /\ MadeIsTold' /\ AnswersAreTrue'
  BY <1>4, <1>5, <1>7, <1>8 DEF StatesAreOfObjects, MadeIsTold, AnswersAreTrue, Tracks
<1>13. OnlyCompatibleIsDeleted' /\ SettingsMakeNothing' /\ NothingIsForgotten'
  BY <1>4, <1>5, <1>7, <1>8, <1>9 DEF OnlyCompatibleIsDeleted, SettingsMakeNothing, NothingIsForgotten, Tracks, Deleting
<1> QED
  BY <1>10, <1>11, <1>12, <1>13

LEMMA IdleKeeps ==
    ASSUME IInv, ChangeConfig \/ Taint \/ Forget
    PROVE  IInv'
<1> USE DEF IInv
<1>1. UNCHANGED <<kind, objects, call, ours, excused, stale>> /\ IdleHere
  BY DEF ChangeConfig, Taint, Forget, history
<1>2. handlers' = handlers /\ attribute' = attribute /\ Configs' = Configs
  BY <1>1, SameKind
<1>3. call.op = "none" /\ call.at = "idle" /\ call.made = {} /\ ~call.answered
  BY <1>1, IdleIsTyped DEF CallsAreInPlace, IdleHere
<1>4. NoState \in States /\ NoState.id = NoId
  <2>1. \A b \in BOOLEAN : [id |-> NoId, value |-> Null, tainted |-> b] \in States
    BY DEF States, Known
  <2> QED
    BY <2>1 DEF NoState
<1>5. config' \in Configs /\ config' \in Known \cup {Absent}
  BY ConfigIsTyped DEF ChangeConfig, Taint, Forget
<1>6. events' \in 0..MaxEvents
  BY Spent DEF ChangeConfig, Taint, Forget, TypeOK
<1>7. fresh' \in BOOLEAN
  <2>1. fresh' \in {fresh, FALSE}
    BY DEF ChangeConfig, Taint, Forget
  <2>2. fresh \in BOOLEAN
    BY DEF TypeOK
  <2> QED
    BY <2>1, <2>2
<1>8. \/ tracked'.id = tracked.id /\ tracked' \in States /\ (~Tracks(tracked) => tracked' = tracked) /\ deposed' = deposed
      \/ handlers.remove = "forget" /\ tracked' = NoState /\ deposed' = deposed
      \/ handlers.remove = "forget" /\ tracked' = tracked /\ deposed' = NoState
  <2>1. CASE ChangeConfig
    BY <2>1 DEF ChangeConfig, TypeOK
  <2>2. CASE Taint
    <3>1. [tracked EXCEPT !.tainted = TRUE] \in States /\ [tracked EXCEPT !.tainted = TRUE].id = tracked.id
      <4>1. tracked \in States
        BY DEF TypeOK
      <4>2. [tracked EXCEPT !.tainted = TRUE] \in States
        BY <4>1, Zenon DEF States
      <4> QED
        BY <4>1, <4>2 DEF States
    <3> QED
      BY <2>2, <3>1 DEF Taint
  <2>3. CASE Forget
    BY <2>3 DEF Forget
  <2> QED
    BY <2>1, <2>2, <2>3
<1>9. TypeOK' /\ (config \in Configs)'
  BY <1>1, <1>2, <1>4, <1>5, <1>6, <1>7, <1>8 DEF TypeOK
<1>10. CallsAreInPlace' /\ CallIsAbout' /\ PlansAreOfState' /\ MadeIsTold' /\ AnswersAreTrue'
  BY <1>1, <1>2, <1>3 DEF CallsAreInPlace, CallIsAbout, PlansAreOfState, MadeIsTold, AnswersAreTrue, Reading, Deleting
<1>11. StatesAreOfObjects' /\ OnlyCompatibleIsDeleted'
  BY <1>1, <1>2, <1>3, <1>4, <1>8 DEF StatesAreOfObjects, OnlyCompatibleIsDeleted, Tracks, Deleting
<1>12. SettingsMakeNothing' /\ NothingIsForgotten'
  BY <1>1, <1>2, <1>3, <1>8 DEF SettingsMakeNothing, NothingIsForgotten
<1> QED
  BY <1>9, <1>10, <1>11, <1>12

ObjectsType == [Ids -> [status : {"none", "live", "archived", "gone"}, value : Known, compatible : BOOLEAN]]

\* The API answers, or an object changes, and Terraform does not notice yet.
LEMMA ServesKeep ==
    ASSUME IInv, UNCHANGED <<kind, config, tracked, deposed, excused>>, fresh' \in BOOLEAN, events' \in 0..MaxEvents,
           objects' \in ObjectsType, stale' \subseteq Ids, ours' \subseteq Ids,
           \A i \in Ids : objects[i].status # "none" => objects'[i].status # "none",
           \A i \in Ids : objects'[i].status = "live" => objects[i].status = "live" \/ i \in call'.made,
           ours' \subseteq ours \cup call'.made, call.made \subseteq call'.made,
           call' \in Calls, call.at # "idle" \/ call' = call,
           call'.op = call.op, call'.id = call.id, call'.plan = call.plan,
           call'.at = call.at \/ (call.at = "page" /\ call'.at = "main"),
           MadeIsTold', AnswersAreTrue', OnlyCompatibleIsDeleted', SettingsMakeNothing'
    PROVE  IInv'
<1> USE DEF IInv
<1>1. handlers' = handlers /\ attribute' = attribute /\ Configs' = Configs
  BY SameKind
<1>2. TypeOK' /\ (config \in Configs)'
  BY <1>1 DEF TypeOK, ObjectsType
<1>3. /\ Tracks(tracked) => tracked.id \in Ids
      /\ Tracks(deposed) => deposed.id \in Ids
      /\ call.op \notin {"none", "create"} => call.id \in Ids
  BY IdsOfCalls
<1>4. CallsAreInPlace'
  BY DEF CallsAreInPlace, Reading, Deleting
<1>5. CallIsAbout' /\ PlansAreOfState'
  BY <1>1, <1>3 DEF CallIsAbout, PlansAreOfState, Tracks, Deleting
<1>6. StatesAreOfObjects'
  BY <1>1, <1>3 DEF StatesAreOfObjects, Tracks
<1>7. NothingIsForgotten'
  BY DEF NothingIsForgotten
<1> QED
  BY <1>2, <1>4, <1>5, <1>6, <1>7

\* A step that leaves what the objects are, and what Delete noted, keeps OnlyCompatibleIsDeleted.
LEMMA StillCompatible ==
    ASSUME IInv, kind' = kind, call'.op = call.op, call'.id = call.id, call'.turned = call.turned,
           call'.at = call.at \/ call.at = "page",
           \A i \in Ids : objects[i].compatible => objects'[i].compatible
    PROVE  OnlyCompatibleIsDeleted'
<1>1. handlers' = handlers /\ Deleting' = Deleting
  BY SameKind DEF Deleting
<1>2. Deleting => call.id \in Ids /\ call.at # "page"
  BY IdsOfCalls DEF IInv, CallsAreInPlace, Reading, Deleting
<1> QED
  BY <1>1, <1>2 DEF IInv, OnlyCompatibleIsDeleted

LEMMA RevealedIsTyped ==
    ASSUME TypeOK, NEW id \in Ids, NEW value, Revealed(id, value)
    PROVE  stale' \subseteq Ids
BY DEF TypeOK, Revealed

\* Answers that change no object.
LEMMA AnswersKeep ==
    ASSUME IInv,
           ServeRead \/ ServePageWithoutObject \/ ServeMissing \/ RefuseArchived \/ Refuse \/ Lose
    PROVE  IInv'
<1> USE DEF IInv
<1>1. /\ UNCHANGED <<kind, config, objects, tracked, deposed, fresh, ours, excused>>
      /\ call.at # "idle"
  BY DEF ServeRead, ServePageWithoutObject, ServeMissing, RefuseArchived, Refuse, Lose, Waiting, terraform, history
<1>2. handlers' = handlers /\ attribute' = attribute
  BY <1>1, SameKind
<1>3. fresh' \in BOOLEAN /\ objects' \in ObjectsType /\ ours' \subseteq Ids
  BY <1>1 DEF TypeOK, ObjectsType
<1>4. call.op # "none"
  BY <1>1 DEF CallsAreInPlace
<1>5. SettingsMakeNothing'
  BY <1>1, <1>2 DEF SettingsMakeNothing
<1>6. CASE ServeRead
  <2>1. call.id \in Ids /\ call.op # "create" /\ (Reading \/ call.at = "check")
    BY <1>4, <1>6, IdsOfCalls DEF ServeRead, Reading, Deleting, CallsAreInPlace
  <2>2. objects[call.id].value \in Known /\ objects[call.id].compatible \in BOOLEAN
    BY <2>1 DEF TypeOK
  <2>3. /\ call' \in Calls
        /\ call'.op = call.op /\ call'.at = call.at /\ call'.id = call.id /\ call'.plan = call.plan
        /\ call'.made = call.made /\ call'.answered /\ call'.reply.status = "ok"
        /\ \/ call'.reply.id \in {call.id, NoId}
           \/ handlers.guarded
        /\ call'.reply.id = call.id /\ call'.reply.compatible => objects[call.id].compatible
        /\ events' \in 0..MaxEvents
        /\ call'.turned = call.turned /\ Revealed(call.id, call'.reply.value)
    <3> DEFINE c == objects[call.id].compatible
               v == objects[call.id].value
               none == {}
    <3>1. AnswerWith(call.id, v, c, none) /\ none \in SUBSET Ids
      BY <1>6 DEF ServeRead
    <3>2. call.made \cup none = call.made /\ c \in BOOLEAN /\ v \in Known
      BY <2>2
    <3> HIDE DEF c, v, none
    <3>3. /\ call' \in Calls
          /\ call'.op = call.op /\ call'.at = call.at /\ call'.id = call.id /\ call'.plan = call.plan
          /\ call'.made = call.made \cup none /\ call'.answered /\ call'.reply.status = "ok"
          /\ \/ call'.reply.id \in {call.id, NoId}
             \/ handlers.guarded
          /\ call'.reply.id = call.id /\ call'.reply.compatible => c
          /\ events' \in 0..MaxEvents
          /\ call'.turned = call.turned /\ Revealed(call.id, call'.reply.value)
      BY <2>1, <3>1, <3>2, Answered
    <3> QED
      BY <3>2, <3>3 DEF c
  <2>4. stale' \subseteq Ids
    BY <2>1, <2>3, RevealedIsTyped
  <2>5. MadeIsTold'
    BY <1>1, <1>2, <2>1, <2>3 DEF MadeIsTold
  <2>6. AnswersAreTrue'
    BY <1>1, <1>2, <2>1, <2>3 DEF AnswersAreTrue, Reading, Deleting, CallsAreInPlace
  <2>7. OnlyCompatibleIsDeleted'
    BY <1>1, <2>3, StillCompatible
  <2> QED
    BY <1>1, <1>3, <1>5, <2>3, <2>4, <2>5, <2>6, <2>7, ServesKeep
<1>7. CASE ServePageWithoutObject
  <2>1. UNCHANGED <<ours, stale, events>> /\ ~call.answered /\ call.at = "page" /\ call' = [call EXCEPT !.at = "main", !.tries = 0]
    BY <1>7 DEF ServePageWithoutObject, Waiting, history
  <2>2. /\ call' \in Calls
        /\ call'.op = call.op /\ call'.at = "main" /\ call'.id = call.id /\ call'.plan = call.plan
        /\ call'.made = call.made /\ ~call'.answered /\ call'.turned = call.turned
    BY <2>1, Paged
  <2>3. MadeIsTold' /\ AnswersAreTrue'
    BY <1>1, <1>2, <2>1, <2>2 DEF MadeIsTold, AnswersAreTrue
  <2>4. OnlyCompatibleIsDeleted'
    BY <1>1, <2>1, <2>2, StillCompatible
  <2> QED
    BY <1>1, <1>3, <1>5, <2>1, <2>2, <2>3, <2>4, ServesKeep DEF TypeOK
<1>8. CASE ServeMissing \/ RefuseArchived \/ Refuse
  <2>1. PICK status \in {"missing", "foreign", "error"} :
            /\ Respond(Failure(status), {})
            /\ status = "missing" /\ call.op # "create" => objects[call.id].status = "gone"
    BY <1>8 DEF ServeMissing, RefuseArchived, Refuse
  <2>2. Failure(status) \in Replies /\ Failure(status).status = status
    BY FailedReplies
  <2>3. /\ call' \in Calls
        /\ call'.op = call.op /\ call'.at = call.at /\ call'.id = call.id /\ call'.plan = call.plan
        /\ call'.made = call.made /\ call'.answered /\ call'.reply.status = status /\ call'.turned = call.turned
    <3> DEFINE none == {}
               r == Failure(status)
    <3>1. Respond(r, none) /\ none \in SUBSET Ids /\ r \in Replies /\ call.made \cup none = call.made
      BY <2>1, <2>2
    <3> HIDE DEF none, r
    <3>2. /\ call' \in Calls
          /\ call'.op = call.op /\ call'.at = call.at /\ call'.id = call.id /\ call'.plan = call.plan
          /\ call'.made = call.made \cup none /\ call'.answered /\ call'.reply = r /\ call'.turned = call.turned
      BY <3>1, Responded
    <3> QED
      BY <2>2, <3>1, <3>2 DEF r
  <2>4. stale' = stale /\ events' \in 0..MaxEvents
    BY <1>8, Spent DEF ServeMissing, RefuseArchived, Refuse, history, TypeOK
  <2>5. MadeIsTold' /\ AnswersAreTrue'
    BY <1>1, <1>2, <2>1, <2>3 DEF MadeIsTold, AnswersAreTrue
  <2>6. OnlyCompatibleIsDeleted'
    BY <1>1, <2>3, StillCompatible
  <2> QED
    BY <1>1, <1>3, <1>5, <2>3, <2>4, <2>5, <2>6, ServesKeep DEF TypeOK
<1>9. CASE Lose
  <2>1. /\ call' \in Calls
        /\ call'.op = call.op /\ call'.at = call.at /\ call'.id = call.id /\ call'.plan = call.plan /\ call'.made = call.made
        /\ call'.reply.status = "none"
        /\ ~Retried => call'.answered
        /\ call'.turned = call.turned
    BY <1>9, Resent
  <2>2. stale' = stale /\ events' \in 0..MaxEvents
    BY <1>9, Spent DEF Lose, history
  <2>3. call.op = "create" /\ "create" \notin handlers.retried => ~Retried
    BY DEF Retried, Reading, Deleting, CallsAreInPlace
  <2>4. MadeIsTold' /\ AnswersAreTrue'
    BY <1>1, <1>2, <2>1, <2>3 DEF MadeIsTold, AnswersAreTrue
  <2>5. OnlyCompatibleIsDeleted'
    BY <1>1, <2>1, StillCompatible
  <2> QED
    BY <1>1, <1>3, <1>5, <2>1, <2>2, <2>4, <2>5, ServesKeep DEF TypeOK
<1> QED
  BY <1>6, <1>7, <1>8, <1>9

\* An object gets another status and value; its type stays, or becomes the resource's.
LEMMA ObjectChanged ==
    ASSUME TypeOK, NEW id \in Ids, NEW st \in {"live", "archived", "gone"}, NEW v \in Known, NEW c \in BOOLEAN, objects[id].compatible => c,
           objects' = [objects EXCEPT ![id] = [status |-> st, value |-> v, compatible |-> c]]
    PROVE  /\ objects' \in ObjectsType
           /\ objects'[id].status = st
           /\ \A i \in Ids : i # id => objects'[i] = objects[i]
           /\ \A i \in Ids : objects[i].status # "none" => objects'[i].status # "none"
           /\ \A i \in Ids : objects[i].compatible => objects'[i].compatible
           /\ c => objects'[id].compatible
<1>1. objects \in ObjectsType
  BY DEF TypeOK, ObjectsType
<1>3. [status |-> st, value |-> v, compatible |-> c] \in [status : {"none", "live", "archived", "gone"}, value : Known, compatible : BOOLEAN]
  OBVIOUS
<1>4. objects' \in ObjectsType
  BY <1>1, <1>3 DEF ObjectsType
<1>5. /\ objects'[id] = [status |-> st, value |-> v, compatible |-> c]
      /\ \A i \in Ids : i # id => objects'[i] = objects[i]
  BY <1>1 DEF ObjectsType
<1>6. objects'[id].status = st /\ objects'[id].compatible = c
  BY <1>5
<1> QED
  BY <1>4, <1>5, <1>6

LEMMA CreateTargetsAre ==
    ASSUME IInv, handlers.create # "unsupported", NEW id \in CreateTargets
    PROVE  /\ id \in Ids
           /\ handlers.create = "post" => objects[id].status = "none"
           /\ handlers.create # "post" => id = 1
           /\ handlers.remove = "forget" => objects[id].status = "live"
<1>1. 1 \in Ids
  BY IdsOfCalls
<1>2. handlers.remove = "forget" => handlers.create # "post"
  BY KindIsTyped DEF IInv
<1> QED
  BY <1>1, <1>2 DEF CreateTargets, NewIds

LEMMA ServeCreateKeeps == ASSUME IInv, ServeCreate PROVE IInv'
<1> USE DEF IInv
<1>0. PICK id \in CreateTargets : \E v \in Stored(id) :
          /\ objects' = [objects EXCEPT ![id] = [status |-> "live", value |-> v, compatible |-> TRUE]]
          /\ ours' = ours \cup (IF objects[id].status = "live" THEN {} ELSE {id})
          /\ AnswerWith(id, v, TRUE, IF objects[id].status = "live" THEN {} ELSE {id})
  BY DEF ServeCreate
<1>1. PICK v \in Stored(id) :
          /\ objects' = [objects EXCEPT ![id] = [status |-> "live", value |-> v, compatible |-> TRUE]]
          /\ ours' = ours \cup (IF objects[id].status = "live" THEN {} ELSE {id})
          /\ AnswerWith(id, v, TRUE, IF objects[id].status = "live" THEN {} ELSE {id})
  BY <1>0
<1> DEFINE made == IF objects[id].status = "live" THEN {} ELSE {id}
<1>2. /\ UNCHANGED <<kind, config, tracked, deposed, fresh, excused>>
      /\ call.at # "idle" /\ ~call.answered /\ call.op = "create"
  BY DEF ServeCreate, Waiting, terraform
<1>3. handlers' = handlers /\ attribute' = attribute
  BY <1>2, SameKind
<1>4. handlers.create # "unsupported" /\ ~Tracks(tracked) /\ (handlers.create = "put" => call.id = 1) /\ ~Reading /\ ~Deleting /\ call.at # "check"
  BY <1>2 DEF CallIsAbout, CallsAreInPlace, Reading, Deleting
<1>5. /\ id \in Ids
      /\ handlers.create = "post" => objects[id].status = "none"
      /\ handlers.create # "post" => id = 1
      /\ handlers.remove = "forget" => objects[id].status = "live"
  BY <1>4, CreateTargetsAre
<1>6. v \in Known
  BY <1>2, <1>5, StoredIsTyped
<1>7. /\ objects' \in ObjectsType
      /\ objects'[id].status = "live" /\ objects'[id].compatible
      /\ \A i \in Ids : i # id => objects'[i] = objects[i]
      /\ \A i \in Ids : objects[i].status # "none" => objects'[i].status # "none"
      /\ \A i \in Ids : objects[i].compatible => objects'[i].compatible
  BY <1>1, <1>5, <1>6, ObjectChanged
<1>8. made \in SUBSET Ids /\ made \subseteq {id} /\ (objects[id].status # "live" => id \in made) /\ ours' = ours \cup made
      /\ AnswerWith(id, v, TRUE, made)
  BY <1>1, <1>5
<1> HIDE DEF made
<1>9. /\ call' \in Calls
      /\ call'.op = call.op /\ call'.at = call.at /\ call'.id = call.id /\ call'.plan = call.plan
      /\ call'.made = call.made \cup made /\ call'.answered
      /\ call'.reply.status = "ok"
      /\ call'.reply.id \in {id, NoId}
      /\ events' \in 0..MaxEvents
      /\ call'.turned = call.turned /\ Revealed(id, call'.reply.value)
  BY <1>4, <1>5, <1>6, <1>8, Answered
<1>10. stale' \subseteq Ids
  BY <1>5, <1>9, RevealedIsTyped
<1>11. SettingsMakeNothing'
  BY <1>1, <1>3, <1>5 DEF SettingsMakeNothing
<1>12. AnswersAreTrue'
  BY <1>2, <1>4, <1>9 DEF AnswersAreTrue, Reading, Deleting
<1>13. HasIdentity' => Target' = id
  <2>1. CASE handlers.identity
    BY <1>3, <1>9, <2>1 DEF HasIdentity, Target
  <2>2. CASE ~handlers.identity
    <3>1. handlers.create = "put"
      BY <1>4, <2>2, KindIsTyped DEF Handlers, Create
    <3> QED
      BY <1>3, <1>4, <1>5, <1>9, <2>2, <3>1 DEF HasIdentity, Target
  <2> QED
    BY <2>1, <2>2
<1>14. handlers.create = "post" => id # deposed.id
  BY <1>5, IdsOfCalls DEF StatesAreOfObjects, Tracks
<1>15. "create" \notin handlers.retried => call.made = {}
  BY <1>2 DEF MadeIsTold
<1>16. MadeIsTold'
  BY <1>2, <1>3, <1>5, <1>7, <1>8, <1>9, <1>13, <1>14, <1>15 DEF MadeIsTold
<1>17. fresh' \in BOOLEAN /\ ours' \subseteq Ids
  BY <1>2, <1>8 DEF TypeOK
<1>18. \A i \in Ids : objects'[i].status = "live" => objects[i].status = "live" \/ i \in call'.made
  BY <1>7, <1>8, <1>9
<1>19. OnlyCompatibleIsDeleted'
  BY <1>2, <1>7, <1>9, StillCompatible
<1> QED
  BY <1>2, <1>7, <1>8, <1>9, <1>10, <1>11, <1>12, <1>16, <1>17, <1>18, <1>19, ServesKeep

\* What others do to one live object, and what Delete notes of it.
LEMMA OthersChange ==
    ASSUME IInv, ChangedByOthers
    PROVE  /\ UNCHANGED <<kind, config, tracked, deposed, ours, excused>> /\ fresh' = FALSE
           /\ events' \in 0..MaxEvents /\ stale' \subseteq Ids /\ objects' \in ObjectsType
           /\ call' \in Calls
           /\ call'.op = call.op /\ call'.at = call.at /\ call'.id = call.id /\ call'.plan = call.plan
           /\ call'.made = call.made /\ call'.answered = call.answered /\ call'.reply = call.reply
           /\ call'.prior = call.prior /\ call'.swap = call.swap /\ call'.drifted = call.drifted
           /\ call.turned => call'.turned
           /\ call.at # "idle" \/ call' = call
           /\ Deleting /\ (call.at = "main" \/ call.answered) =>
                 call'.turned \/ objects'[call.id].compatible = objects[call.id].compatible
           /\ \E id \in Ids :
                 /\ objects[id].status = "live" /\ stale' = stale \cup {id}
                 /\ \A i \in Ids : i # id => objects'[i] = objects[i]
                 /\ objects'[id].status # "none"
                 /\ objects'[id].value = objects[id].value \/ objects'[id].value \in Remote \ {objects[id].value}
<1>1. TypeOK /\ objects \in ObjectsType /\ call \in Calls /\ Remote \subseteq Known
  BY ConfigIsTyped DEF IInv, TypeOK, ObjectsType
<1>2. UNCHANGED <<kind, config, tracked, deposed, ours, excused>> /\ fresh' = FALSE /\ events' \in 0..MaxEvents
  BY <1>1, Spent DEF ChangedByOthers
<1> DEFINE about(id) == Deleting /\ call.id = id /\ (call.at = "main" \/ call.answered)
<1>3. PICK id \in Ids :
          /\ objects[id].status = "live" /\ stale' = stale \cup {id}
          /\ \/ \E v \in Remote \ {objects[id].value} : objects' = [objects EXCEPT ![id].value = v] /\ UNCHANGED call
             \/ \E st \in {"gone", "archived"} : objects' = [objects EXCEPT ![id].status = st] /\ UNCHANGED call
             \/ /\ objects' = [objects EXCEPT ![id].compatible = ~@]
                /\ call' = [call EXCEPT !.turned = @ \/ about(id)]
  BY DEF ChangedByOthers
<1>4. stale' \subseteq Ids
  BY <1>1, <1>3 DEF TypeOK
<1>5. CASE \E v \in Remote \ {objects[id].value} : objects' = [objects EXCEPT ![id].value = v] /\ UNCHANGED call
  <2>1. PICK v \in Remote \ {objects[id].value} : objects' = [objects EXCEPT ![id].value = v]
    BY <1>5
  <2>2. /\ objects' \in ObjectsType
        /\ \A i \in Ids : i # id => objects'[i] = objects[i]
        /\ objects'[id].status = "live" /\ objects'[id].value = v
        /\ objects'[id].compatible = objects[id].compatible
    BY <1>1, <1>3, <2>1 DEF ObjectsType
  <2>3. Deleting => call.id \in Ids
    BY IdsOfCalls DEF Deleting
  <2> QED
    BY <1>1, <1>2, <1>3, <1>4, <1>5, <2>1, <2>2, <2>3
<1>6. CASE \E st \in {"gone", "archived"} : objects' = [objects EXCEPT ![id].status = st] /\ UNCHANGED call
  <2>1. PICK st \in {"gone", "archived"} : objects' = [objects EXCEPT ![id].status = st]
    BY <1>6
  <2>2. /\ objects' \in ObjectsType
        /\ \A i \in Ids : i # id => objects'[i] = objects[i]
        /\ objects'[id].status = st /\ objects'[id].value = objects[id].value
        /\ objects'[id].compatible = objects[id].compatible
    BY <1>1, <1>3, <2>1 DEF ObjectsType
  <2>3. Deleting => call.id \in Ids
    BY IdsOfCalls DEF Deleting
  <2> QED
    BY <1>1, <1>2, <1>3, <1>4, <1>6, <2>1, <2>2, <2>3
<1>7. CASE objects' = [objects EXCEPT ![id].compatible = ~@] /\ call' = [call EXCEPT !.turned = @ \/ about(id)]
  <2>1. objects[id].compatible \in BOOLEAN /\ (~objects[id].compatible) \in BOOLEAN
    BY <1>1, <1>3 DEF ObjectsType
  <2>2. /\ objects' \in ObjectsType
        /\ \A i \in Ids : i # id => objects'[i] = objects[i]
        /\ objects'[id].status = "live" /\ objects'[id].value = objects[id].value
    <3>1. \A b \in BOOLEAN :
              LET o == [objects EXCEPT ![id].compatible = b]
              IN  /\ o \in ObjectsType
                  /\ \A i \in Ids : i # id => o[i] = objects[i]
                  /\ o[id].status = objects[id].status /\ o[id].value = objects[id].value
      BY <1>1, <1>3 DEF ObjectsType
    <3>2. PICK b \in BOOLEAN : objects' = [objects EXCEPT ![id].compatible = b]
      BY <1>7, <2>1
    <3> QED
      BY <1>3, <3>1, <3>2
  <2> DEFINE b == about(id)
  <2>3. b \in BOOLEAN /\ call' = [call EXCEPT !.turned = @ \/ b]
    BY <1>1, <1>7 DEF Deleting, Calls
  <2> HIDE DEF b
  <2>4. /\ call' \in Calls
        /\ call'.op = call.op /\ call'.at = call.at /\ call'.id = call.id /\ call'.plan = call.plan
        /\ call'.made = call.made /\ call'.answered = call.answered /\ call'.reply = call.reply
        /\ call'.prior = call.prior /\ call'.swap = call.swap /\ call'.drifted = call.drifted
        /\ call.turned \/ b => call'.turned
        /\ ~b => call' = call
    BY <1>1, <2>3, Turned
  <2>5. call.at = "idle" => ~b
    BY IdleIsTyped DEF b, IInv, CallsAreInPlace, Deleting
  <2>6. Deleting => call.id \in Ids
    BY IdsOfCalls DEF Deleting
  <2>7. Deleting /\ (call.at = "main" \/ call.answered) =>
            call'.turned \/ objects'[call.id].compatible = objects[call.id].compatible
    BY <2>2, <2>4, <2>6 DEF b
  <2> QED
    BY <1>2, <1>3, <1>4, <2>2, <2>4, <2>5, <2>7
<1> QED
  BY <1>3, <1>5, <1>6, <1>7

LEMMA ChangesKeep ==
    ASSUME IInv, ServeUpdate \/ ServeDelete \/ ChangedByOthers
    PROVE  IInv'
<1> USE DEF IInv
<1>1. UNCHANGED <<kind, config, tracked, deposed, ours, excused>> /\ fresh' \in {fresh, FALSE}
  BY DEF ServeUpdate, ServeDelete, ChangedByOthers, terraform, history
<1>2. handlers' = handlers /\ attribute' = attribute
  BY <1>1, SameKind
<1>3. fresh' \in BOOLEAN /\ ours' \subseteq Ids
  <2>1. fresh \in BOOLEAN /\ ours \subseteq Ids
    BY DEF TypeOK
  <2> QED
    BY <1>1, <2>1
<1>4. SettingsMakeNothing'
  BY <1>1, <1>2 DEF SettingsMakeNothing
<1>5. objects \in ObjectsType
  BY DEF TypeOK, ObjectsType
<1>6. CASE ServeUpdate
  <2>1. call.id \in Ids /\ call.op = "update" /\ call.at # "idle" /\ ~call.answered
    BY <1>6, IdsOfCalls DEF ServeUpdate, Waiting
  <2>2. PICK v \in Stored(call.id) :
            objects' = [objects EXCEPT ![call.id].value = v] /\ AnswerWith(call.id, v, TRUE, {})
    BY <1>6 DEF ServeUpdate
  <2>3. v \in Known
    BY <2>1, StoredIsTyped
  <2>4. /\ objects' \in ObjectsType
        /\ \A i \in Ids : objects'[i].status = objects[i].status /\ objects'[i].compatible = objects[i].compatible
    BY <1>5, <2>1, <2>2, <2>3 DEF ObjectsType
  <2> DEFINE none == {}
  <2>5. AnswerWith(call.id, v, TRUE, none) /\ none \in SUBSET Ids /\ call.made \cup none = call.made
    BY <2>2
  <2> HIDE DEF none
  <2>6. /\ call' \in Calls
        /\ call'.op = call.op /\ call'.at = call.at /\ call'.id = call.id /\ call'.plan = call.plan
        /\ call'.made = call.made /\ call'.answered /\ call'.reply.status = "ok"
        /\ events' \in 0..MaxEvents
        /\ call'.turned = call.turned /\ Revealed(call.id, call'.reply.value)
    BY <2>1, <2>3, <2>5, Answered, ZenonT(40)
  <2>7. stale' \subseteq Ids
    BY <2>1, <2>6, RevealedIsTyped
  <2>8. MadeIsTold' /\ AnswersAreTrue'
    BY <1>1, <1>2, <2>1, <2>6 DEF MadeIsTold, AnswersAreTrue, Reading, Deleting, CallsAreInPlace
  <2>9. OnlyCompatibleIsDeleted'
    BY <1>1, <2>4, <2>6, StillCompatible
  <2> QED
    BY <1>1, <1>3, <1>4, <2>1, <2>4, <2>6, <2>7, <2>8, <2>9, ServesKeep
<1>7. CASE ServeDelete
  <2>1. call.id \in Ids /\ Deleting /\ call.at = "main" /\ ~call.answered
    BY <1>7, IdsOfCalls DEF ServeDelete, Waiting, Deleting
  <2>2. PICK st \in {"archived", "gone"} : objects' = [objects EXCEPT ![call.id].status = st]
    BY <1>7 DEF ServeDelete
  <2>3. objects[call.id].status # "none" /\ objects[call.id].value \in Known
    BY <1>5, <1>7, <2>1 DEF ServeDelete, ObjectsType
  <2>4. /\ objects' \in ObjectsType /\ objects'[call.id].status = st
        /\ \A i \in Ids : objects'[i].compatible = objects[i].compatible
        /\ \A i \in Ids : i # call.id => objects'[i].status = objects[i].status
    BY <1>5, <2>1, <2>2 DEF ObjectsType
  <2> DEFINE none == {}
             r == Good(call.id, objects[call.id].value, TRUE)
  <2>5. Respond(r, none) /\ none \in SUBSET Ids /\ call.made \cup none = call.made /\ UNCHANGED <<stale, events>>
    BY <1>7 DEF ServeDelete, history
  <2>6. r \in Replies /\ r.status = "ok"
    BY <2>1, <2>3, GoodReplies, ZenonT(40)
  <2> HIDE DEF none, r
  <2>7. /\ call' \in Calls
        /\ call'.op = call.op /\ call'.at = call.at /\ call'.id = call.id /\ call'.plan = call.plan
        /\ call'.made = call.made /\ call'.answered /\ call'.reply = r /\ call'.turned = call.turned
    BY <2>5, <2>6, Responded
  <2>8. MadeIsTold' /\ AnswersAreTrue'
    BY <1>1, <1>2, <2>1, <2>4, <2>6, <2>7 DEF MadeIsTold, AnswersAreTrue, Reading, Deleting
  <2>9. \A i \in Ids : /\ objects[i].status # "none" => objects'[i].status # "none"
                       /\ objects'[i].status = "live" => objects[i].status = "live"
    BY <2>3, <2>4
  <2>10. OnlyCompatibleIsDeleted'
    BY <1>1, <2>4, <2>7, StillCompatible
  <2> QED
    BY <1>1, <1>3, <1>4, <2>1, <2>4, <2>5, <2>7, <2>8, <2>9, <2>10, ServesKeep DEF TypeOK
<1>8. CASE ChangedByOthers
  <2>1. /\ events' \in 0..MaxEvents /\ stale' \subseteq Ids /\ objects' \in ObjectsType
        /\ call' \in Calls
        /\ call'.op = call.op /\ call'.at = call.at /\ call'.id = call.id /\ call'.plan = call.plan
        /\ call'.made = call.made /\ call'.answered = call.answered /\ call'.reply = call.reply
        /\ call.turned => call'.turned
        /\ call.at # "idle" \/ call' = call
        /\ Deleting /\ (call.at = "main" \/ call.answered) =>
              call'.turned \/ objects'[call.id].compatible = objects[call.id].compatible
    BY <1>8, OthersChange
  <2>2. PICK id \in Ids :
            /\ objects[id].status = "live"
            /\ \A i \in Ids : i # id => objects'[i] = objects[i]
            /\ objects'[id].status # "none"
    BY <1>8, OthersChange
  <2>3. \A i \in Ids : /\ objects[i].status # "none" => objects'[i].status # "none"
                       /\ objects'[i].status = "live" => objects[i].status = "live"
                       /\ objects[i].status = "gone" => objects'[i].status = "gone"
    BY <2>2
  <2>4. /\ call.op \notin {"none", "create"} => call.id \in Ids
        /\ call.answered => call.op # "none"
        /\ call.at = "check" => Deleting
    BY IdsOfCalls, IdleIsTyped DEF CallsAreInPlace
  <2>5. MadeIsTold'
    BY <1>1, <1>2, <2>1, <2>3 DEF MadeIsTold, HasIdentity, Target
  <2>6. AnswersAreTrue'
    <3>1. SUFFICES ASSUME call.answered PROVE AnswersAreTrue'
      BY <2>1 DEF AnswersAreTrue
    <3>2. call.op # "create" /\ call.reply.status = "missing" => objects'[call.id].status = "gone"
      BY <2>3, <2>4, <3>1 DEF AnswersAreTrue
    <3>3. Deleting /\ call.at = "main" /\ call.reply.status = "ok" => objects'[call.id].status # "live"
      BY <2>3, <2>4, <3>1 DEF AnswersAreTrue, Deleting
    <3>4. call.at = "check" /\ call.reply.status = "ok" /\ handlers.guarded
              /\ call.reply.id = call.id /\ call.reply.compatible =>
              objects'[call.id].compatible \/ call'.turned
      BY <2>1, <2>4, <3>1 DEF AnswersAreTrue
    <3>5. (Reading \/ call.at = "check") /\ call.reply.status = "ok" /\ ~handlers.guarded =>
              call.reply.id \in {NoId, call.id}
      BY <3>1 DEF AnswersAreTrue
    <3>6. Reading' = Reading /\ Deleting' = Deleting
      BY <2>1 DEF Reading, Deleting
    <3> QED
      BY <1>2, <2>1, <3>2, <3>3, <3>4, <3>5, <3>6 DEF AnswersAreTrue
  <2>7. OnlyCompatibleIsDeleted'
    BY <1>2, <2>1 DEF OnlyCompatibleIsDeleted, Deleting
  <2> QED
    BY <1>1, <1>3, <1>4, <2>1, <2>3, <2>5, <2>6, <2>7, ServesKeep DEF TypeOK
<1> QED
  BY <1>6, <1>7, <1>8

LEMMA NoStateIsTyped == NoState \in States /\ NoState.id = NoId /\ NoState.value = Null /\ ~Tracks(NoState)
<1>1. \A b \in BOOLEAN : [id |-> NoId, value |-> Null, tainted |-> b] \in States
  BY DEF States, Known
<1> QED
  BY <1>1 DEF NoState, Tracks

\* A handler returns: what it leaves in the states.
LEMMA ReturnsKeep ==
    ASSUME IInv, UNCHANGED <<kind, config, objects, ours, events>>, Finish, fresh' \in BOOLEAN,
           excused' \subseteq Ids, stale' \subseteq Ids, tracked' \in States, deposed' \in States,
           StatesAreOfObjects', NothingIsForgotten'
    PROVE  IInv'
<1> USE DEF IInv
<1>1. handlers' = handlers /\ attribute' = attribute /\ Configs' = Configs
  BY SameKind
<1>2. call' \in Calls /\ call' = Idle /\ call'.op = "none" /\ call'.at = "idle" /\ call'.made = {} /\ ~call'.answered
  BY IdleIsTyped DEF Finish
<1>3. TypeOK' /\ (config \in Configs)'
  BY <1>1, <1>2 DEF TypeOK
<1>4. Idle' = Idle
  BY DEF Idle, Pending, Failure
<1>5. CallsAreInPlace' /\ CallIsAbout' /\ PlansAreOfState' /\ MadeIsTold' /\ AnswersAreTrue'
  BY <1>2, <1>4 DEF CallsAreInPlace, CallIsAbout, PlansAreOfState, MadeIsTold, AnswersAreTrue, Reading, Deleting
<1>6. OnlyCompatibleIsDeleted' /\ SettingsMakeNothing'
  BY <1>1, <1>2 DEF OnlyCompatibleIsDeleted, SettingsMakeNothing, Deleting, Tracks
<1> QED
  BY <1>3, <1>5, <1>6

LEMMA NewState ==
    ASSUME NEW id \in Ids, NEW value \in Known, NEW tainted \in BOOLEAN
    PROVE  /\ [id |-> id, value |-> value, tainted |-> tainted] \in States
           /\ [id |-> id, value |-> value, tainted |-> tainted].id = id
BY DEF States

LEMMA ReturnCreateKeeps == ASSUME IInv, ReturnCreate PROVE IInv'
<1> USE DEF IInv
<1>1. /\ UNCHANGED <<kind, config, objects, fresh, ours, events>> /\ Finish
      /\ call.op = "create" /\ call.answered
  BY DEF ReturnCreate, Returning
<1>2. handlers' = handlers
  BY <1>1, SameKind
<1>3. ~Tracks(tracked) /\ tracked.id = NoId
  BY <1>1 DEF CallIsAbout, Tracks
<1>4. NoId \notin Ids /\ (Tracks(deposed) => deposed.id \in Ids)
  BY IdsOfCalls
<1>5. /\ deposed \in States /\ ours \subseteq Ids /\ excused \subseteq Ids /\ stale \subseteq Ids
      /\ call.made \subseteq Ids /\ fresh \in BOOLEAN
  BY DEF TypeOK, Calls
<1>6. NoState \in States /\ NoState.id = NoId
  BY NoStateIsTyped
<1>7. CASE CreateAccepted \/ CreateRecovered
  <2>1. call.reply.status = "ok" /\ HasIdentity
    BY <1>7 DEF CreateAccepted, CreateRecovered, Accepted
  <2>2. /\ Target \in Ids /\ objects[Target].status # "none"
        /\ handlers.create = "post" => Target # deposed.id
        /\ "create" \notin handlers.retried => call.made \subseteq {Target}
    BY <1>1, <2>1 DEF MadeIsTold
  <2>3. /\ tracked' \in States /\ tracked'.id = Target
        /\ deposed' = deposed /\ stale' \subseteq Ids
        /\ excused' = excused \cup (IF "create" \in handlers.retried THEN call.made \ {Target} ELSE {})
    <3>1. NullForUnknown(Applied) \in Known /\ NullForUnknown(call.plan) \in Known
      BY AppliedIsTyped
    <3>2. (~Consistent(Applied)) \in BOOLEAN
      BY DEF Consistent
    <3>3. CASE CreateAccepted
      <4>1. tracked' = [id |-> Target, value |-> NullForUnknown(Applied), tainted |-> ~Consistent(Applied)]
        BY <3>3 DEF CreateAccepted
      <4>2. tracked' \in States /\ tracked'.id = Target
        BY <2>2, <3>1, <3>2, <4>1, NewState
      <4> QED
        BY <1>5, <3>3, <4>2 DEF CreateAccepted, Excuse, Suspect
    <3>4. CASE CreateRecovered
      <4>1. PICK value \in Known : tracked' = [id |-> Target, value |-> value, tainted |-> TRUE]
        BY <3>1, <3>4 DEF CreateRecovered
      <4>2. \A b \in BOOLEAN : /\ [id |-> Target, value |-> value, tainted |-> b] \in States
                               /\ [id |-> Target, value |-> value, tainted |-> b].id = Target
        BY <2>2, NewState
      <4>3. tracked' \in States /\ tracked'.id = Target
        BY <4>1, <4>2
      <4> QED
        BY <1>5, <3>4, <4>3 DEF CreateRecovered, Excuse, Suspect
    <3> QED
      BY <1>7, <3>3, <3>4
  <2>4. StatesAreOfObjects'
    BY <1>1, <1>2, <1>4, <2>2, <2>3 DEF StatesAreOfObjects, Tracks
  <2>5. NothingIsForgotten'
    BY <1>1, <1>3, <1>4, <1>5, <2>2, <2>3 DEF NothingIsForgotten
  <2>7. excused' \subseteq Ids
    BY <1>5, <2>3
  <2> QED
    BY <1>1, <1>5, <2>3, <2>4, <2>5, <2>7, ReturnsKeep
<1>8. CASE CreateFailed
  <2>1. /\ \/ tracked' = deposed /\ deposed' = NoState
           \/ tracked' = NoState /\ deposed' = deposed
        /\ excused' = excused \cup call.made
        /\ stale' \subseteq Ids
    BY <1>5, <1>8 DEF CreateFailed, Excuse, Suspect
  <2>2. StatesAreOfObjects'
    BY <1>1, <1>2, <1>4, <1>6, <2>1 DEF StatesAreOfObjects, Tracks
  <2>3. NothingIsForgotten'
    BY <1>1, <1>3, <1>4, <1>5, <1>6, <2>1 DEF NothingIsForgotten
  <2>5. tracked' \in States /\ deposed' \in States /\ excused' \subseteq Ids
    BY <1>5, <1>6, <2>1
  <2> QED
    BY <1>1, <1>5, <2>1, <2>2, <2>3, <2>5, ReturnsKeep
<1> QED
  BY <1>7, <1>8 DEF ReturnCreate

\* An accepted answer to a read is about the object that was asked for.
LEMMA ReadIsOfTarget ==
    ASSUME IInv, call.answered, Reading \/ call.at = "check", Accepted, SameIdentity
    PROVE  /\ Target = call.id
           /\ handlers.guarded /\ call.at = "check" => objects[call.id].compatible \/ call.turned
<1> USE DEF IInv
<1>1. handlers.guarded => handlers.identity
  BY KindIsTyped
<1>2. /\ ~handlers.guarded => call.reply.id \in {NoId, call.id}
      /\ call.at = "check" /\ handlers.guarded /\ call.reply.id = call.id /\ call.reply.compatible =>
             objects[call.id].compatible \/ call.turned
  BY DEF AnswersAreTrue, Accepted
<1> QED
  BY <1>1, <1>2 DEF Accepted, SameIdentity, Target, HasIdentity

LEMMA ReturnReadKeeps == ASSUME IInv, ReturnRead PROVE IInv'
<1> USE DEF IInv
<1>1. /\ UNCHANGED <<kind, config, objects, deposed, ours, events>> /\ Finish
      /\ call.op \in {"read", "import"} /\ Reading /\ call.answered
  BY DEF ReturnRead, Returning, Reading
<1>2. handlers' = handlers
  BY <1>1, SameKind
<1>3. call.id \in Ids /\ NoId \notin Ids
  BY <1>1, IdsOfCalls
<1>4. tracked \in States /\ deposed \in States /\ ours \subseteq Ids /\ excused \subseteq Ids /\ stale \subseteq Ids /\ fresh \in BOOLEAN
  BY DEF TypeOK
<1>5. call.made = {}
  BY <1>1 DEF MadeIsTold
<1>6. tracked.id \in {NoId, call.id} /\ objects[call.id].status # "none" /\ (Tracks(tracked) \/ ~Tracks(deposed))
  BY <1>1, <1>3 DEF CallIsAbout, StatesAreOfObjects, Tracks
<1>7. NoState \in States /\ NoState.id = NoId
  BY NoStateIsTyped
<1>8. CASE ReadAccepted
  <2>1. Target = call.id
    BY <1>1, <1>8, ReadIsOfTarget DEF ReadAccepted
  <2>2. tracked' \in States /\ tracked'.id = call.id
    <3>1. NullForUnknown(Applied) \in Known /\ tracked.tainted \in BOOLEAN
      BY <1>4, AppliedIsTyped DEF States
    <3>2. tracked' = [id |-> call.id, value |-> NullForUnknown(Applied), tainted |-> tracked.tainted]
      BY <1>8, <2>1 DEF ReadAccepted
    <3> QED
      BY <1>3, <3>1, <3>2, NewState
  <2>3. UNCHANGED <<excused, stale>> /\ fresh' \in BOOLEAN
    BY <1>8 DEF ReadAccepted
  <2>4. StatesAreOfObjects'
    BY <1>1, <1>2, <1>3, <1>6, <2>2 DEF StatesAreOfObjects, Tracks
  <2>5. NothingIsForgotten'
    BY <1>1, <1>3, <1>4, <1>5, <1>6, <2>2, <2>3 DEF NothingIsForgotten
  <2> QED
    BY <1>1, <1>4, <2>2, <2>3, <2>4, <2>5, ReturnsKeep
<1>9. CASE ReadMissing
  <2>1. /\ tracked' = NoState /\ fresh' = TRUE
        /\ excused' = excused \cup (IF call.reply.status = "missing" THEN {} ELSE {call.id})
        /\ stale' \subseteq Ids
    BY <1>4, <1>9 DEF ReadMissing, Excuse, Suspect
  <2>2. call.reply.status = "missing" => objects[call.id].status = "gone"
    BY <1>1 DEF AnswersAreTrue
  <2>3. StatesAreOfObjects'
    BY <1>1, <1>2, <1>7, <2>1 DEF StatesAreOfObjects, Tracks
  <2>4. NothingIsForgotten'
    BY <1>1, <1>3, <1>5, <1>6, <1>7, <2>1, <2>2 DEF NothingIsForgotten
  <2>6. fresh' \in BOOLEAN
    BY <2>1
  <2>7. excused' \subseteq Ids
    BY <1>3, <1>4, <2>1
  <2> QED
    BY <1>1, <1>4, <1>7, <2>1, <2>3, <2>4, <2>6, <2>7, ReturnsKeep
<1>10. CASE ReadFailed
  <2>1. UNCHANGED <<tracked, fresh, excused>> /\ stale' \subseteq Ids
    BY <1>4, <1>10 DEF ReadFailed, Suspect
  <2>2. StatesAreOfObjects'
    BY <1>1, <1>2, <2>1 DEF StatesAreOfObjects, Tracks
  <2>3. NothingIsForgotten'
    BY <1>1, <1>5, <2>1 DEF NothingIsForgotten
  <2> QED
    BY <1>1, <1>4, <2>1, <2>2, <2>3, ReturnsKeep
<1> QED
  BY <1>8, <1>9, <1>10 DEF ReturnRead

LEMMA ReturnUpdateKeeps == ASSUME IInv, ReturnUpdate PROVE IInv'
<1> USE DEF IInv
<1>1. /\ UNCHANGED <<kind, config, objects, deposed, fresh, ours, excused, events>> /\ Finish
      /\ call.op = "update"
  BY DEF ReturnUpdate, Returning
<1>2. handlers' = handlers
  BY <1>1, SameKind
<1>3. Tracks(tracked) /\ call.made = {}
  BY <1>1 DEF MadeIsTold, CallIsAbout
<1>4. tracked \in States /\ deposed \in States /\ excused \subseteq Ids /\ stale \subseteq Ids /\ fresh \in BOOLEAN
  BY DEF TypeOK
<1>5. tracked' \in States /\ tracked'.id = tracked.id /\ stale' \subseteq Ids
  <2>1. NullForUnknown(Applied) \in Known
    BY AppliedIsTyped
  <2>2. [tracked EXCEPT !.value = NullForUnknown(Applied)] \in States
        /\ [tracked EXCEPT !.value = NullForUnknown(Applied)].id = tracked.id
    BY <1>4, <2>1 DEF States
  <2> QED
    BY <1>4, <2>2 DEF ReturnUpdate, Suspect
<1>6. StatesAreOfObjects'
  BY <1>1, <1>2, <1>3, <1>5 DEF StatesAreOfObjects, Tracks
<1>7. NothingIsForgotten'
  BY <1>1, <1>3, <1>5 DEF NothingIsForgotten
<1> QED
  BY <1>1, <1>4, <1>5, <1>6, <1>7, ReturnsKeep

LEMMA ReturnDeletionKeeps == ASSUME IInv, ReturnCheck \/ ReturnDelete PROVE IInv'
<1> USE DEF IInv
<1>1. /\ UNCHANGED <<kind, config, objects, fresh, ours, stale, events>>
      /\ call.op \in {"delete", "destroy"} /\ call.answered /\ Deleting /\ call.at \in {"check", "main"}
  BY DEF ReturnCheck, ReturnDelete, Returning, Deleting
<1>2. handlers' = handlers /\ attribute' = attribute /\ Configs' = Configs
  BY <1>1, SameKind
<1>3. call.id \in Ids /\ NoId \notin Ids
  BY <1>1, IdsOfCalls
<1>4. tracked \in States /\ deposed \in States /\ excused \subseteq Ids /\ stale \subseteq Ids /\ fresh \in BOOLEAN
  BY DEF TypeOK
<1>5. call.made = {}
  BY <1>1 DEF MadeIsTold
<1>6. NoState \in States /\ NoState.id = NoId
  BY NoStateIsTyped
<1>7. CASE Finish /\ Removed /\ (IsMissing \/ (call.at = "main" /\ call.reply.status = "ok"))
  <2>1. /\ \/ call.op = "destroy" /\ deposed' = NoState /\ tracked' = tracked
           \/ call.op = "delete" /\ tracked' = NoState /\ deposed' = deposed
        /\ excused' = excused \cup (IF call.reply.status = "foreign" THEN {call.id} ELSE {})
    BY <1>1, <1>7 DEF Removed, Excuse
  <2>2. objects[call.id].status # "live" \/ call.id \in excused'
    BY <1>1, <1>7, <2>1 DEF IsMissing, AnswersAreTrue, Reading
  <2>3. (call.op = "delete" => call.id = tracked.id) /\ (call.op = "destroy" => call.id = deposed.id)
    BY DEF CallIsAbout
  <2>4. StatesAreOfObjects'
    BY <1>1, <1>2, <1>6, <2>1 DEF StatesAreOfObjects, Tracks
  <2>5. NothingIsForgotten'
    BY <1>1, <1>5, <2>1, <2>2, <2>3 DEF NothingIsForgotten
  <2>7. tracked' \in States /\ deposed' \in States /\ excused' \subseteq Ids
    BY <1>3, <1>4, <1>6, <2>1
  <2> QED
    BY <1>1, <1>4, <1>7, <2>4, <2>5, <2>7, ReturnsKeep
<1>8. CASE Finish /\ UNCHANGED <<tracked, deposed, excused>>
  <2>1. StatesAreOfObjects'
    BY <1>1, <1>2, <1>8 DEF StatesAreOfObjects, Tracks
  <2>2. NothingIsForgotten'
    BY <1>1, <1>5, <1>8 DEF NothingIsForgotten
  <2> QED
    BY <1>1, <1>4, <1>8, <2>1, <2>2, ReturnsKeep
<1>9. CASE /\ call.at = "check" /\ Accepted /\ SameIdentity
           /\ call' = [call EXCEPT !.at = "main", !.answered = FALSE, !.tries = 0, !.reply = Pending]
           /\ UNCHANGED <<tracked, deposed, excused>>
  <2>1. /\ call' \in Calls
        /\ call'.op = call.op /\ call'.at = "main" /\ call'.id = call.id /\ call'.made = call.made /\ ~call'.answered
        /\ call'.turned = call.turned
    BY <1>9, Rechecked
  <2>2. handlers.guarded => objects[call.id].compatible \/ call.turned
    BY <1>1, <1>9, ReadIsOfTarget
  <2>3. TypeOK' /\ (config \in Configs)'
    BY <1>1, <1>2, <1>9, <2>1 DEF TypeOK
  <2>4. CallsAreInPlace' /\ CallIsAbout' /\ PlansAreOfState'
    BY <1>1, <1>2, <1>9, <2>1 DEF CallsAreInPlace, CallIsAbout, PlansAreOfState, Reading, Deleting, Tracks
  <2>5. StatesAreOfObjects' /\ MadeIsTold' /\ AnswersAreTrue'
    BY <1>1, <1>2, <1>5, <1>9, <2>1 DEF StatesAreOfObjects, MadeIsTold, AnswersAreTrue, Tracks
  <2>6. OnlyCompatibleIsDeleted' /\ SettingsMakeNothing'
    BY <1>1, <1>2, <1>9, <2>1, <2>2 DEF OnlyCompatibleIsDeleted, SettingsMakeNothing, Deleting, Tracks
  <2>7. NothingIsForgotten'
    BY <1>1, <1>9, <2>1 DEF NothingIsForgotten
  <2> QED
    BY <2>3, <2>4, <2>5, <2>6, <2>7
<1>10. CASE ReturnCheck
  BY <1>7, <1>8, <1>9, <1>10 DEF ReturnCheck
<1>11. CASE ReturnDelete
  BY <1>7, <1>8, <1>11 DEF ReturnDelete
<1> QED
  BY <1>10, <1>11

LEMMA NextKeeps == IInv /\ [Next]_vars => IInv'
<1> SUFFICES ASSUME IInv, [Next]_vars PROVE IInv'
  OBVIOUS
<1>1. CASE Terraform
  BY <1>1, StartsKeep, ReplacementKeeps, IdleKeeps DEF Terraform
<1>2. CASE ChangeConfig \/ Taint \/ StartUpdateOfAnother \/ StartImport
  BY <1>2, StartsKeep, IdleKeeps
<1>3. CASE API \/ Refuse \/ Lose \/ ChangedByOthers
  BY <1>3, AnswersKeep, ServeCreateKeeps, ChangesKeep DEF API
<1>4. CASE Return
  BY <1>4, ReturnCreateKeeps, ReturnReadKeeps, ReturnUpdateKeeps, ReturnDeletionKeeps DEF Return
<1>5. CASE UNCHANGED vars
  <2>1. UNCHANGED <<kind, config, objects, tracked, deposed, fresh, call, ours, excused, stale, events>>
    BY <1>5 DEF vars
  <2>2. handlers' = handlers /\ attribute' = attribute /\ Configs' = Configs
    BY <2>1, SameKind
  <2>3. HasIdentity' = HasIdentity /\ Target' = Target /\ Reading' = Reading /\ Deleting' = Deleting
    BY <2>1, <2>2 DEF HasIdentity, Target, Reading, Deleting
  <2>4. TypeOK' /\ (config \in Configs)' /\ NothingIsForgotten'
    BY <2>1, <2>2 DEF IInv, TypeOK, NothingIsForgotten
  <2>5. CallsAreInPlace' /\ CallIsAbout' /\ PlansAreOfState' /\ StatesAreOfObjects'
    BY <2>1, <2>2, <2>3 DEF IInv, CallsAreInPlace, CallIsAbout, PlansAreOfState, StatesAreOfObjects, Tracks
  <2>6. MadeIsTold' /\ AnswersAreTrue' /\ OnlyCompatibleIsDeleted' /\ SettingsMakeNothing'
    BY <2>1, <2>2, <2>3 DEF IInv, MadeIsTold, AnswersAreTrue, OnlyCompatibleIsDeleted, SettingsMakeNothing, Tracks
  <2> QED
    BY <2>4, <2>5, <2>6 DEF IInv
<1> QED
  BY <1>1, <1>2, <1>3, <1>4, <1>5 DEF Next

\* The inductive invariant holds in every reachable state.
THEOREM ManagedResourceInvariant == Spec => []IInv
<1>1. Init => IInv
  BY InitHolds
<1>2. IInv /\ [Next]_vars => IInv'
  BY NextKeeps
<1> QED
  BY <1>1, <1>2, PTL DEF Spec

\* Every variable has its type: the states, the objects, the running handler and the histories.
THEOREM ManagedResourceTypes == Spec => []TypeOK
<1>1. IInv => TypeOK
  BY DEF IInv
<1> QED
  BY <1>1, ManagedResourceInvariant, PTL

\* An object that a Create made is in the state, deposed or known to the Create that
\* runs, as long as it is alive and was not given up with a report.
THEOREM NothingIsEverForgotten == Spec => []NothingIsForgotten
<1>1. IInv => NothingIsForgotten
  BY DEF IInv
<1> QED
  BY <1>1, ManagedResourceInvariant, PTL

\* A handler that checks the discriminators sends its DELETE only for an object of its own
\* kind, whatever others make of the objects: only what they change after the check escapes it.
THEOREM OnlyCompatibleIsEverDeleted == Spec => []OnlyCompatibleIsDeleted
<1>1. IInv => OnlyCompatibleIsDeleted
  BY DEF IInv
<1> QED
  BY <1>1, ManagedResourceInvariant, PTL

\* Only a few steps change the states Terraform holds.
Keeping == UNCHANGED <<kind, tracked, deposed>>

LEMMA OthersKeepStates ==
    ASSUME [Next]_vars
    PROVE  \/ Keeping
           \/ StartReplacement \/ Forget \/ Taint
           \/ ReturnCreate \/ ReturnRead \/ ReturnUpdate \/ ReturnCheck \/ ReturnDelete
<1>1. CASE Terraform \/ ChangeConfig \/ Taint \/ StartUpdateOfAnother \/ StartImport
  BY <1>1 DEF Terraform, StartCreate, StartUpdate, StartRead, StartDelete, StartDestroyDeposed, ChangeConfig,
              StartUpdateOfAnother, StartImport, Begin, Keeping
<1>2. CASE API \/ Refuse \/ Lose \/ ChangedByOthers
  BY <1>2 DEF API, ServeCreate, ServeUpdate, ServeDelete, ServeRead, ServePageWithoutObject, ServeMissing, RefuseArchived,
              Refuse, Lose, ChangedByOthers, terraform, Keeping
<1>3. CASE Return
  BY <1>3 DEF Return
<1>4. CASE UNCHANGED vars
  BY <1>4 DEF vars, Keeping
<1> QED
  BY <1>1, <1>2, <1>3, <1>4 DEF Next

LEMMA CreateMovesStates ==
    ASSUME IInv, ReturnCreate
    PROVE  /\ tracked = NoState
           /\ \/ tracked'.id \in Ids /\ deposed' = deposed
              \/ tracked' = deposed /\ deposed' = NoState
              \/ tracked' = NoState /\ deposed' = deposed
<1> USE DEF IInv
<1>1. call.op = "create" /\ call.answered
  BY DEF ReturnCreate, Returning
<1>2. tracked = NoState
  BY <1>1 DEF CallIsAbout, StatesAreOfObjects
<1>3. CASE CreateFailed
  BY <1>2, <1>3 DEF CreateFailed
<1>4. CASE CreateAccepted
  <2>1. Target \in Ids
    BY <1>1, <1>4 DEF MadeIsTold, CreateAccepted, Accepted
  <2>2. tracked'.id = Target /\ deposed' = deposed
    BY <1>4 DEF CreateAccepted
  <2> QED
    BY <1>2, <2>1, <2>2
<1>5. CASE CreateRecovered
  <2>1. Target \in Ids
    BY <1>1, <1>5 DEF MadeIsTold, CreateRecovered
  <2>2. PICK value : tracked' = [id |-> Target, value |-> value, tainted |-> TRUE]
    BY <1>5, Zenon DEF CreateRecovered
  <2>3. tracked'.id = Target /\ deposed' = deposed
    BY <1>5, <2>2, Zenon DEF CreateRecovered
  <2> QED
    BY <1>2, <2>1, <2>3
<1> QED
  BY <1>3, <1>4, <1>5 DEF ReturnCreate

\* Whoever reads the message of a 404 and takes the object for missing is right.
LEMMA MissingIsGone ==
    ASSUME IInv, call.answered, call.op \notin {"create", "none"}, handlers.missing = "message", IsMissing
    PROVE  objects[call.id].status = "gone"
<1>1. handlers.read # "list"
  BY KindIsTyped DEF IInv
<1> QED
  BY <1>1 DEF IsMissing, IInv, AnswersAreTrue

LEMMA StepLeavesOnlyGone ==
    ASSUME IInv, [Next]_vars, NEW id \in Ids, handlers.missing = "message",
           id \in {tracked.id, deposed.id}, id \notin {tracked'.id, deposed'.id}
    PROVE  objects[id].status # "live"
<1>0. NoState.id = NoId /\ NoId \notin Ids
  BY NoStateIsTyped, IdsOfCalls
<1>1. CASE Keeping
  BY <1>1 DEF Keeping
<1>2. CASE StartReplacement
  BY <1>0, <1>2 DEF StartReplacement, Tracks
<1>3. CASE Forget
  BY <1>3, KindIsTyped DEF Forget, IInv
<1>4. CASE Taint
  <2>1. tracked' = [tracked EXCEPT !.tainted = TRUE] /\ tracked \in States /\ deposed' = deposed
    BY <1>4 DEF Taint, IInv, TypeOK
  <2>2. tracked'.id = tracked.id
    BY <2>1, Zenon DEF States
  <2> QED
    BY <2>1, <2>2
<1>5. CASE ReturnCreate
  BY <1>0, <1>5, CreateMovesStates
<1>6. CASE ReturnRead
  <2>1. call.op \in {"read", "import"} /\ Reading /\ call.answered /\ deposed' = deposed /\ id = tracked.id
    BY <1>6 DEF ReturnRead, Returning, Reading
  <2>2. call.id = id
    BY <1>0, <2>1 DEF IInv, CallIsAbout, Tracks
  <2>3. CASE ReadAccepted
    <3>1. Target = call.id
      BY <2>1, <2>3, ReadIsOfTarget DEF ReadAccepted
    <3>2. tracked'.id = Target
      BY <2>3 DEF ReadAccepted
    <3> QED
      BY <2>2, <3>1, <3>2
  <2>4. CASE ReadMissing
    BY <2>1, <2>2, <2>4, MissingIsGone DEF ReadMissing
  <2>5. CASE ReadFailed
    BY <2>1, <2>5 DEF ReadFailed
  <2> QED
    BY <1>6, <2>3, <2>4, <2>5 DEF ReturnRead
<1>7. CASE ReturnUpdate
  <2>1. tracked \in States /\ deposed' = deposed
    BY <1>7 DEF ReturnUpdate, IInv, TypeOK
  <2>2. tracked'.id = tracked.id
    BY <1>7, <2>1 DEF ReturnUpdate, States
  <2> QED
    BY <2>1, <2>2
<1>8. CASE ReturnCheck \/ ReturnDelete
  <2>1. call.op \in {"delete", "destroy"} /\ call.answered /\ call.at \in {"check", "main"} /\ Deleting
    BY <1>8 DEF ReturnCheck, ReturnDelete, Returning, Deleting
  <2>2. Removed /\ (IsMissing \/ (call.at = "main" /\ call.reply.status = "ok"))
    BY <1>8 DEF ReturnCheck, ReturnDelete
  <2>3. id = call.id
    BY <1>0, <2>1, <2>2 DEF Removed, IInv, CallIsAbout
  <2>4. CASE IsMissing
    BY <2>1, <2>3, <2>4, MissingIsGone
  <2>5. CASE call.at = "main" /\ call.reply.status = "ok"
    BY <2>1, <2>3, <2>5 DEF IInv, AnswersAreTrue
  <2> QED
    BY <2>2, <2>4, <2>5
<1> QED
  BY <1>1, <1>2, <1>3, <1>4, <1>5, <1>6, <1>7, <1>8, OthersKeepStates

\* A resource that reads the message of a 404 leaves the state, on a refresh or a
\* deletion, only when its object is really gone.
THEOREM StateIsLeftOnlyWhenGone == Spec => LeavesStateOnlyWhenGone
<1>1. IInv /\ [Next]_vars =>
          [\A id \in Ids : /\ handlers.missing = "message"
                           /\ id \in {tracked.id, deposed.id}
                           /\ id \notin {tracked'.id, deposed'.id}
                           => objects[id].status # "live"]_vars
  BY StepLeavesOnlyGone
<1> QED
  BY <1>1, ManagedResourceInvariant, PTL DEF Spec, LeavesStateOnlyWhenGone

LEMMA StepPreservesShownOnce ==
    ASSUME IInv, [Next]_vars, attribute.shown = {"create"}, tracked'.id = tracked.id
    PROVE  tracked'.value = tracked.value
<1>0. NoState.id = NoId /\ NoId \notin Ids /\ (~Tracks(tracked) => tracked = NoState) /\ (~Tracks(deposed) => deposed = NoState)
  BY NoStateIsTyped, IdsOfCalls DEF IInv, StatesAreOfObjects
<1>1. tracked \in States
  BY DEF IInv, TypeOK
<1>2. Unknown # tracked.value
  BY <1>1, UnknownAssumption DEF States, Known
<1>3. CASE Keeping
  BY <1>3 DEF Keeping
<1>4. CASE StartReplacement \/ Forget
  BY <1>0, <1>4 DEF StartReplacement, Forget, Tracks
<1>5. CASE Taint
  <2>1. tracked' = [tracked EXCEPT !.tainted = TRUE]
    BY <1>5 DEF Taint
  <2> QED
    BY <1>1, <2>1, Zenon DEF States
<1>6. CASE ReturnCreate
  BY <1>0, <1>6, CreateMovesStates DEF Tracks
<1>7. CASE ReturnRead
  <2>1. call.op \in {"read", "import"} /\ Reading /\ call.answered
    BY <1>7 DEF ReturnRead, Returning, Reading
  <2>2. CASE ReadAccepted
    <3>1. tracked'.id = Target /\ tracked'.value = NullForUnknown(Applied)
      BY <2>2 DEF ReadAccepted
    <3>2. Target = call.id /\ call.id \in Ids
      BY <2>1, <2>2, ReadIsOfTarget, IdsOfCalls DEF ReadAccepted
    <3>3. call.op = "read"
      BY <1>0, <2>1, <3>1, <3>2 DEF IInv, CallIsAbout, Tracks
    <3>4. Applied = call.plan
      <4>1. ~Shows
        BY <2>1 DEF Shows
      <4> QED
        BY <4>1 DEF Applied
    <3>5. call.plan = tracked.value
      BY <3>3 DEF IInv, PlansAreOfState
    <3> QED
      BY <1>2, <3>1, <3>4, <3>5 DEF NullForUnknown
  <2>3. CASE ReadMissing
    BY <1>0, <2>3 DEF ReadMissing, Tracks
  <2>4. CASE ReadFailed
    BY <2>4 DEF ReadFailed
  <2> QED
    BY <1>7, <2>2, <2>3, <2>4 DEF ReturnRead
<1>8. CASE ReturnUpdate
  <2>1. call.op = "update"
    BY <1>8 DEF ReturnUpdate, Returning
  <2>2. Applied = call.plan
    <3>1. ~Shows
      BY <2>1 DEF Shows, Reading
    <3> QED
      BY <3>1 DEF Applied
  <2>3. call.plan = tracked.value
    BY <2>1 DEF IInv, PlansAreOfState
  <2>4. NullForUnknown(Applied) = tracked.value
    BY <1>2, <2>2, <2>3 DEF NullForUnknown
  <2>5. tracked' = tracked \/ tracked' = [tracked EXCEPT !.value = tracked.value]
    BY <1>8, <2>4 DEF ReturnUpdate
  <2> QED
    BY <1>1, <2>5 DEF States
<1>9. CASE ReturnCheck \/ ReturnDelete
  BY <1>0, <1>9 DEF ReturnCheck, ReturnDelete, Removed, Tracks
<1> QED
  BY <1>3, <1>4, <1>5, <1>6, <1>7, <1>8, <1>9, OthersKeepStates

\* What only the answer to Create shows stays in the state through every other handler.
THEOREM ShownOnceIsAlwaysPreserved == Spec => ShownOnceIsPreserved
<1>1. IInv /\ [Next]_vars =>
          [attribute.shown = {"create"} /\ tracked'.id = tracked.id => tracked'.value = tracked.value]_vars
  BY StepPreservesShownOnce
<1> QED
  BY <1>1, ManagedResourceInvariant, PTL DEF Spec, ShownOnceIsPreserved

(***************************************************************************)
(* What the states say of the objects                                      *)
(***************************************************************************)

\* A POST to a known path is about one object.
OneObject == handlers.create = "put" => \A i \in Ids : objects[i].status # "none" => i = 1

NothingIsNull ==
    attribute.mode = "none" =>
        /\ \A i \in Ids : objects[i].value = Null
        /\ tracked.value = Null /\ deposed.value = Null
        /\ call.prior = Null /\ call.plan = Null

\* What a plan may be, by the mode of the attribute and what the request leaves out.
PlansFit ==
    /\ call.op = "create" =>
          /\ call.plan = Unknown => attribute.mode \in {"optionalComputed", "computed"}
          /\ attribute.mode = "computed" => call.plan = Unknown
          /\ call.plan = Null => attribute.mode \in {"optional", "none"}
    /\ call.op = "update" =>
          /\ call.plan = Unknown => attribute.mode \in {"optionalComputed", "computed"} /\ ~attribute.keep
          /\ attribute.mode = "computed" /\ ~attribute.keep => call.plan = Unknown
          /\ Sent = Omitted => call.plan \in {Unknown, tracked.value}

\* StateMirrorsObject, while a handler runs as well: an answer to a refresh may have told
\* what the state does not hold yet, and Update changes the object first.
Mirrors(s) == s.id \notin stale => s.value = objects[s.id].value

TrackedMirrors == Tracks(tracked) /\ call.op # "update" /\ ~(call.op = "read" /\ call.drifted) => Mirrors(tracked)

DeposedMirrors ==
    Tracks(deposed) /\ call.op = "create" /\ call.swap /\ handlers.create = "post" => Mirrors(deposed)

\* What a good answer puts into the state is what the object has.
AnswerMirrors ==
    call.answered /\ call.reply.status = "ok" =>
        /\ call.op \in {"read", "import", "update"} /\ call.id \notin stale =>
              NullForUnknown(Applied) = objects[call.id].value
        /\ call.op = "create" /\ HasIdentity /\ Target \notin stale =>
              NullForUnknown(Applied) = objects[Target].value

\* An update that leaves the attribute out finds it as planned, or as others left it.
UnsentIsKept ==
    call.op = "update" /\ Sent = Omitted /\ call.plan # Unknown => call.drifted \/ Mirrors(tracked)

AnswerAgrees ==
    call.answered /\ call.op \in {"create", "update"} /\ call.reply.status = "ok" => Consistent(Applied) \/ call.drifted

Mirror ==
    /\ OneObject /\ NothingIsNull /\ PlansFit
    /\ TrackedMirrors /\ DeposedMirrors
    /\ AnswerMirrors /\ UnsentIsKept /\ AnswerAgrees

LEMMA KnownIsPlain ==
    /\ Null \in Known /\ Null \notin Values /\ Unknown \notin Known /\ Omitted \notin Known
    /\ \A w \in Known : NullForUnknown(w) = w
BY UnknownAssumption DEF Known, NullForUnknown

LEMMA AttributeIs ==
    ASSUME TypeOK
    PROVE  /\ attribute.mode = "none" => attribute.shown = {}
           /\ attribute.mode = "optional" => handlers.create = "post" /\ attribute.update # "value"
           /\ attribute.create = "no" => attribute.mode \in {"computed", "none"}
           /\ attribute.update = "no" => attribute.replace \/ attribute.mode \in {"computed", "none"}
           /\ "create" \notin attribute.shown => attribute.mode \in {"required", "optional", "none"}
           /\ "update" \notin attribute.shown =>
                 attribute.mode \in {"required", "optional", "none"} \/ (attribute.mode = "computed" /\ attribute.keep)
           /\ attribute.mode \in {"required", "optional", "optionalComputed", "defaulted", "computed", "none"}
           /\ attribute.create \in {"value", "no"} /\ attribute.update \in {"value", "nullable", "no"}
           /\ attribute.shown \subseteq {"create", "read", "update"}
<1>1. kind \in Kinds
  BY DEF TypeOK
<1>2. attribute \in Attributes
  BY KindIsTyped
<1> QED
  BY <1>1, <1>2, AttributesAssumption DEF handlers, attribute, Attributes

LEMMA ConfigFits ==
    ASSUME TypeOK, config \in Configs, config # Absent
    PROVE  /\ config \in Known
           /\ attribute.mode = "required" => config # Null
           /\ attribute.mode \in {"computed", "none"} => config = Null
BY KnownIsPlain, AttributeIs DEF Configs, Known

\* What Terraform plans, when the provider is to tell what is computed or keeps it.
LEMMA ProposedIs ==
    ASSUME TypeOK, config \in Configs, config # Absent, NEW unset
    PROVE  /\ config # Null => Proposed(unset) = config
           /\ config = Null =>
                 /\ attribute.mode # "required"
                 /\ attribute.mode = "defaulted" => Proposed(unset) = Default
                 /\ attribute.mode \in {"optionalComputed", "computed"} => Proposed(unset) = unset
                 /\ attribute.mode \in {"optional", "none"} => Proposed(unset) = Null
BY ConfigFits, AttributeIs DEF Proposed, ComputedHere

LEMMA CreatePlanFits ==
    ASSUME TypeOK, config \in Configs, config # Absent
    PROVE  /\ Proposed(Unknown) = Unknown => attribute.mode \in {"optionalComputed", "computed"}
           /\ attribute.mode = "computed" => Proposed(Unknown) = Unknown
           /\ Proposed(Unknown) = Null => attribute.mode \in {"optional", "none"}
           /\ attribute.mode = "none" => Proposed(Unknown) = Null
BY KnownIsPlain, AttributeIs, ConfigFits, ProposedIs, DefaultAssumption DEF Known

\* The operators of a call that keeps its operation and its plan.
LEMMA SameCall ==
    ASSUME kind' = kind, call'.op = call.op, call'.plan = call.plan, call'.prior = call.prior
    PROVE  Reading' = Reading /\ Shows' = Shows /\ Sent' = Sent
<1>1. handlers' = handlers /\ attribute' = attribute
  BY SameKind
<1>2. Reading' = Reading
  BY DEF Reading
<1>3. Shows' = Shows
  BY <1>1, <1>2 DEF Shows
<1>4. ValueField(call.plan)' = ValueField(call.plan) /\ NullableField(call.plan, call.prior)' = NullableField(call.plan, call.prior)
  BY DEF ValueField, NullableField
<1>5. Sent' = Sent
  BY <1>1, <1>4 DEF Sent
<1> QED
  BY <1>2, <1>3, <1>5

\* What an answer makes of the suspicion, with the attribute or without it.
LEMMA RevealedIs ==
    ASSUME NEW id, NEW value, Revealed(id, value)
    PROVE  /\ \A i : i # id => (i \in stale' <=> i \in stale)
           /\ Reveals(value) => id \notin stale'
           /\ ~Reveals(value) => stale \subseteq stale'
           /\ ~Reveals(value) /\ (call.op = "import" \/ call.plan = Unknown \/ call.drifted) => id \in stale'
           /\ ~Reveals(value) => call.op # "create" \/ call.plan = Unknown
           /\ ~Reveals(value) => call.op # "update" \/ Sent = Omitted
           /\ ~Reveals(value) => ~Shows \/ value = Omitted
           /\ Reveals(value) =>
                 \/ Shows /\ value # Omitted
                 \/ call.op = "create" /\ call.plan # Unknown
                 \/ call.op = "update" /\ Sent # Omitted
<1>1. stale' = IF Reveals(value) THEN stale \ {id}
               ELSE IF call.op = "import" \/ call.plan = Unknown \/ call.drifted THEN stale \cup {id}
               ELSE stale
  BY DEF Revealed
<1>2. Reveals(value) <=> \/ Shows /\ value # Omitted
                         \/ call.op = "create" /\ call.plan # Unknown
                         \/ call.op = "update" /\ Sent # Omitted
  BY DEF Reveals
<1> QED
  BY <1>1, <1>2

\* What a good answer makes of the attribute.
LEMMA AppliedIs ==
    /\ ~Shows => Applied = call.plan
    /\ Shows /\ call.reply.value # Omitted => Applied = call.reply.value
    /\ call.reply.value = Omitted /\ call.plan # Unknown => Applied = call.plan
BY DEF Applied

\* What a request leaves out, and what it sends otherwise.
LEMMA SentIs ==
    ASSUME TypeOK, call.op \in {"create", "update"}
    PROVE  /\ Sent # Omitted => Sent = call.plan
           /\ call.op = "create" /\ attribute.create = "value" /\ call.plan \notin {Null, Unknown} => Sent = call.plan
           /\ call.op = "create" /\ call.plan \in {Null, Unknown} => Sent = Omitted
           /\ call.op = "update" /\ attribute.update # "no" /\ call.plan \in Values => Sent = call.plan
           /\ call.op = "update" /\ attribute.update = "nullable" /\ call.plan = Null /\ call.prior # Null => Sent = Null
           /\ call.op = "update" /\ call.plan = Null /\ call.prior = Null => Sent = Omitted
<1>1. attribute.create \in {"value", "no"} /\ attribute.update \in {"value", "nullable", "no"}
  BY AttributeIs
<1>2. Null # Unknown /\ Unknown \notin Values /\ Null \notin Values
  BY KnownIsPlain DEF Known
<1>3. /\ ValueField(call.plan) = IF call.plan \in {Null, Unknown} THEN Omitted ELSE call.plan
      /\ call.plan = Unknown => NullableField(call.plan, call.prior) = Omitted
      /\ call.plan = Null /\ call.prior = Null => NullableField(call.plan, call.prior) = Omitted
      /\ call.plan # Unknown /\ ~(call.plan = Null /\ call.prior = Null) => NullableField(call.plan, call.prior) = call.plan
  BY <1>2 DEF ValueField, NullableField
<1>4. /\ call.op = "create" /\ attribute.create = "no" => Sent = Omitted
      /\ call.op = "create" /\ attribute.create = "value" => Sent = ValueField(call.plan)
      /\ call.op = "update" /\ attribute.update = "no" => Sent = Omitted
      /\ call.op = "update" /\ attribute.update = "value" => Sent = ValueField(call.plan)
      /\ call.op = "update" /\ attribute.update = "nullable" => Sent = NullableField(call.plan, call.prior)
  BY <1>1 DEF Sent
<1> QED
  BY <1>1, <1>2, <1>3, <1>4

\* Without an attribute to follow, nothing but null is planned, stored and applied.
LEMMA NullStored ==
    ASSUME IInv, Mirror, call.op \in {"create", "update"}, attribute.mode = "none", NEW id \in Ids, NEW v \in Stored(id)
    PROVE  v = Null /\ call.plan = Null /\ ~Shows
<1>1. call.plan = Null /\ call.prior = Null /\ objects[id].value = Null
  BY DEF Mirror, NothingIsNull
<1>2. Sent = Omitted
  BY <1>1, SentIs DEF IInv
<1>3. ~Shows
  BY AttributeIs DEF Shows, IInv
<1> QED
  BY <1>1, <1>2, <1>3 DEF Stored, Unsent

\* What Create stores is what was planned, unless the provider is to tell.
LEMMA CreateStores ==
    ASSUME IInv, Mirror, call.op = "create", NEW id \in CreateTargets, id \in Ids,
           handlers.create = "post" => objects[id].status = "none", NEW v \in Stored(id)
    PROVE  /\ call.plan = Unknown \/ call.plan = v
           /\ call.plan = Unknown => Shows
<1>1. call.plan \in Known \cup {Unknown} /\ Known = Values \cup {Null}
  BY DEF IInv, TypeOK, Calls, Known
<1>2. CASE call.plan = Unknown
  <2>1. attribute.mode \in {"optionalComputed", "computed"}
    BY <1>2 DEF Mirror, PlansFit
  <2>2. "create" \in attribute.shown
    BY <2>1, AttributeIs DEF IInv
  <2> QED
    BY <1>2, <2>2 DEF Shows, Reading
<1>3. CASE call.plan \in Values
  <2>1. call.plan \notin {Null, Unknown} /\ call.plan # Omitted
    BY <1>1, <1>3, KnownIsPlain
  <2>2. CASE attribute.mode = "none"
    BY <2>1, <2>2, NullStored
  <2>3. CASE attribute.mode # "none"
    <3>1. attribute.create = "value"
      BY <2>1, <2>3, AttributeIs DEF Mirror, PlansFit, IInv
    <3>2. Sent = call.plan
      BY <2>1, <3>1, SentIs DEF IInv
    <3> QED
      BY <2>1, <3>2 DEF Stored
  <2> QED
    BY <2>2, <2>3
<1>4. CASE call.plan = Null
  <2>0. call.plan # Unknown
    BY <1>4, KnownIsPlain
  <2>1. attribute.mode \in {"optional", "none"}
    BY <1>4 DEF Mirror, PlansFit
  <2>2. CASE attribute.mode = "none"
    BY <2>0, <2>2, NullStored
  <2>3. CASE attribute.mode = "optional"
    <3>1. objects[id].status = "none"
      BY <2>3, AttributeIs DEF IInv
    <3>2. Sent = Omitted
      BY <1>4, SentIs DEF IInv
    <3> QED
      BY <1>4, <2>0, <2>3, <3>1, <3>2 DEF Stored, Unsent
  <2> QED
    BY <2>1, <2>2, <2>3
<1> QED
  BY <1>1, <1>2, <1>3, <1>4

\* What Update leaves out is kept, unless the provider is to tell.
LEMMA UpdateKeepsUnsent ==
    ASSUME IInv, Mirror, call.op = "update", objects[call.id].status = "live", Sent = Omitted, call.plan # Unknown,
           NEW v \in Stored(call.id)
    PROVE  v = objects[call.id].value /\ call.plan = tracked.value
<1>1. ~(attribute.mode = "computed" /\ ~attribute.keep)
  BY DEF Mirror, PlansFit
<1>2. call.plan = tracked.value
  BY DEF Mirror, PlansFit
<1> QED
  BY <1>1, <1>2 DEF Stored, Unsent

LEMMA UpdateStores ==
    ASSUME IInv, Mirror, call.op = "update", objects[call.id].status = "live", NEW v \in Stored(call.id)
    PROVE  /\ call.plan = Unknown \/ call.plan = v \/ call.drifted \/ call.id \in stale
           /\ call.plan = Unknown => Shows
           /\ Sent # Omitted => call.plan = v
<1>1. call.plan = Unknown => Shows
  <2>1. SUFFICES ASSUME call.plan = Unknown PROVE "update" \in attribute.shown
    BY DEF Shows, Reading
  <2>2. attribute.mode \in {"optionalComputed", "computed"} /\ ~attribute.keep
    BY <2>1 DEF Mirror, PlansFit
  <2> QED
    BY <2>2, AttributeIs DEF IInv
<1>2. Sent # Omitted => call.plan = v
  BY SentIs DEF Stored, IInv
<1>3. Sent = Omitted /\ call.plan # Unknown => call.plan = v \/ call.drifted \/ call.id \in stale
  <2>1. SUFFICES ASSUME Sent = Omitted, call.plan # Unknown PROVE call.plan = v \/ call.drifted \/ call.id \in stale
    OBVIOUS
  <2>2. v = objects[call.id].value /\ call.plan = tracked.value /\ call.id = tracked.id
    BY <2>1, UpdateKeepsUnsent DEF IInv, CallIsAbout
  <2>3. call.drifted \/ Mirrors(tracked)
    BY <2>1 DEF Mirror, UnsentIsKept
  <2> QED
    BY <2>2, <2>3 DEF Mirrors
<1> QED
  BY <1>1, <1>2, <1>3

\* The API answers, or an object changes.
LEMMA ServesMirror ==
    ASSUME IInv, Mirror, UNCHANGED <<kind, tracked, deposed>>,
           call'.op = call.op, call'.plan = call.plan, call'.prior = call.prior, call'.id = call.id, call'.swap = call.swap,
           OneObject', \A i \in Ids : attribute.mode = "none" => objects'[i].value = Null,
           TrackedMirrors', DeposedMirrors', AnswerMirrors', UnsentIsKept', AnswerAgrees'
    PROVE  Mirror'
<1>1. attribute' = attribute /\ Sent' = Sent
  BY SameKind, SameCall
<1>2. PlansFit'
  BY <1>1 DEF Mirror, PlansFit
<1>3. NothingIsNull'
  BY <1>1 DEF Mirror, NothingIsNull
<1> QED
  BY <1>2, <1>3 DEF Mirror

\* Answers that change no object and reveal nothing.
LEMMA AnswersMirror ==
    ASSUME IInv, Mirror, ServePageWithoutObject \/ ServeMissing \/ RefuseArchived \/ Refuse \/ Lose
    PROVE  Mirror'
<1>1. UNCHANGED <<kind, objects, tracked, deposed, stale>>
  BY DEF ServePageWithoutObject, ServeMissing, RefuseArchived, Refuse, Lose, terraform, history
<1>2. handlers' = handlers /\ attribute' = attribute
  BY <1>1, SameKind
<1>3. /\ call'.op = call.op /\ call'.plan = call.plan /\ call'.prior = call.prior /\ call'.id = call.id /\ call'.swap = call.swap
      /\ call.drifted => call'.drifted
      /\ ~call'.answered \/ call'.reply.status # "ok"
  <2>1. CASE ServePageWithoutObject
    <3>1. call' = [call EXCEPT !.at = "main", !.tries = 0] /\ ~call.answered
      BY <2>1 DEF ServePageWithoutObject, Waiting
    <3> QED
      BY <3>1, Paged DEF IInv
  <2>2. CASE ServeMissing \/ RefuseArchived \/ Refuse
    <3>1. PICK status \in {"missing", "foreign", "error"} : Respond(Failure(status), {})
      BY <2>2 DEF ServeMissing, RefuseArchived, Refuse
    <3>2. Failure(status) \in Replies /\ Failure(status).status = status
      BY FailedReplies
    <3> DEFINE none == {}
               r == Failure(status)
    <3>3. Respond(r, none) /\ none \in SUBSET Ids /\ r \in Replies /\ r.status # "ok"
      BY <3>1, <3>2
    <3> HIDE DEF none, r
    <3>4. /\ call'.op = call.op /\ call'.plan = call.plan /\ call'.prior = call.prior /\ call'.id = call.id /\ call'.swap = call.swap
          /\ call'.reply = r /\ (call.drifted => call'.drifted)
      BY <3>3, Responded DEF IInv
    <3> QED
      BY <3>3, <3>4
  <2>3. CASE Lose
    <3>1. /\ call'.op = call.op /\ call'.plan = call.plan /\ call'.prior = call.prior /\ call'.id = call.id /\ call'.swap = call.swap
          /\ call'.reply.status = "none" /\ call'.drifted = call.drifted
      BY <2>3, Resent DEF IInv
    <3> QED
      BY <3>1
  <2> QED
    BY <2>1, <2>2, <2>3
<1>4. Sent' = Sent
  BY <1>1, <1>3, SameCall
<1>5. OneObject' /\ \A i \in Ids : attribute.mode = "none" => objects'[i].value = Null
  BY <1>1, <1>2 DEF Mirror, OneObject, NothingIsNull
<1>6. TrackedMirrors' /\ DeposedMirrors' /\ UnsentIsKept'
  BY <1>1, <1>2, <1>3, <1>4 DEF Mirror, TrackedMirrors, DeposedMirrors, UnsentIsKept, Mirrors, Tracks
<1>7. AnswerMirrors' /\ AnswerAgrees'
  BY <1>3 DEF AnswerMirrors, AnswerAgrees
<1> QED
  BY <1>1, <1>3, <1>5, <1>6, <1>7, ServesMirror

LEMMA OthersMirror == ASSUME IInv, Mirror, ChangedByOthers PROVE Mirror'
<1>1. /\ UNCHANGED <<kind, tracked, deposed>>
      /\ call'.op = call.op /\ call'.id = call.id /\ call'.plan = call.plan
      /\ call'.answered = call.answered /\ call'.reply = call.reply
      /\ call'.prior = call.prior /\ call'.swap = call.swap /\ call'.drifted = call.drifted
  BY OthersChange
<1>2. handlers' = handlers /\ attribute' = attribute
  BY <1>1, SameKind
<1>3. PICK id \in Ids :
          /\ objects[id].status = "live" /\ stale' = stale \cup {id}
          /\ \A i \in Ids : i # id => objects'[i] = objects[i]
          /\ objects'[id].value = objects[id].value \/ objects'[id].value \in Remote \ {objects[id].value}
  BY OthersChange
<1>4. /\ \A i \in Ids : i # id => objects'[i] = objects[i]
      /\ objects'[id].value = objects[id].value \/ objects'[id].value \in Remote \ {objects[id].value}
  BY <1>3
<1>5. Sent' = Sent /\ Applied' = Applied /\ Target' = Target /\ HasIdentity' = HasIdentity
  <2>1. Shows' = Shows
    BY <1>1, SameCall
  <2> QED
    BY <1>1, <1>2, <2>1, SameCall DEF Applied, Target, HasIdentity
<1>6. OneObject'
  BY <1>2, <1>3, <1>4 DEF Mirror, OneObject
<1>7. ASSUME NEW i \in Ids, attribute.mode = "none" PROVE objects'[i].value = Null
  BY <1>3, <1>4, <1>7 DEF Mirror, NothingIsNull, Remote
<1>8. \A s : s.id \in Ids /\ Mirrors(s) /\ s.id \notin stale' => s.value = objects'[s.id].value
  BY <1>3, <1>4 DEF Mirrors
<1>9. (Tracks(tracked) => tracked.id \in Ids) /\ (Tracks(deposed) => deposed.id \in Ids)
      /\ (call.op \notin {"none", "create"} => call.id \in Ids) /\ (call.op = "update" => Tracks(tracked))
  BY IdsOfCalls DEF IInv, CallIsAbout
<1>10. TrackedMirrors' /\ DeposedMirrors' /\ UnsentIsKept'
  BY <1>1, <1>2, <1>5, <1>8, <1>9 DEF Mirror, TrackedMirrors, DeposedMirrors, UnsentIsKept, Mirrors, Tracks
<1>11. AnswerMirrors'
  <2>1. call.op = "create" /\ call.answered /\ call.reply.status = "ok" /\ HasIdentity => Target \in Ids
    BY DEF IInv, MadeIsTold
  <2>2. NullForUnknown(Applied)' = NullForUnknown(Applied)
    BY <1>5 DEF NullForUnknown
  <2> QED
    BY <1>1, <1>3, <1>4, <1>5, <1>9, <2>1, <2>2 DEF Mirror, AnswerMirrors
<1>12. AnswerAgrees'
  BY <1>1, <1>5 DEF Mirror, AnswerAgrees, Consistent
<1> QED
  BY <1>1, <1>6, <1>7, <1>10, <1>11, <1>12, ServesMirror

\* A good answer leaves the state with what was stored, or agrees with the plan.
LEMMA AnswerApplies ==
    ASSUME TypeOK, TypeOK', Shows' = Shows, NEW v \in Known,
           call'.plan = call.plan, call.plan = Unknown => Shows,
           call'.reply.value = v \/ (call'.reply.value = Omitted /\ Shows)
    PROVE  /\ Shows /\ call'.reply.value # Omitted => Applied' = v
           /\ (~Shows \/ call'.reply.value = Omitted) /\ call.plan # Unknown => Applied' = call.plan
           /\ call.plan = Unknown \/ Applied' \in {v, call.plan}
           /\ Applied' # Unknown
<1>1. v # Unknown /\ v # Omitted /\ Null # Unknown
  BY KnownIsPlain
<1>2. /\ ~Shows' => Applied' = call'.plan
      /\ Shows' /\ call'.reply.value # Omitted => Applied' = call'.reply.value
      /\ call'.reply.value = Omitted /\ call'.plan # Unknown => Applied' = call'.plan
      /\ Shows' /\ call'.reply.value = Omitted /\ call'.plan = Unknown => Applied' = Null
  BY DEF Applied
<1> QED
  BY <1>1, <1>2

LEMMA ServeCreateMirrors == ASSUME IInv, IInv', Mirror, ServeCreate PROVE Mirror'
<1>1. /\ UNCHANGED <<kind, tracked, deposed>> /\ call.op = "create"
  BY DEF ServeCreate, terraform
<1>2. handlers' = handlers /\ attribute' = attribute
  BY <1>1, SameKind
<1>3. handlers.create # "unsupported" /\ ~Tracks(tracked) /\ (handlers.create = "put" => call.id = 1)
      /\ ~Reading /\ ~Deleting /\ call.at # "check"
  BY <1>1 DEF IInv, CallIsAbout, CallsAreInPlace, Reading, Deleting
<1>4. PICK id \in CreateTargets : \E v \in Stored(id) :
          /\ objects' = [objects EXCEPT ![id] = [status |-> "live", value |-> v, compatible |-> TRUE]]
          /\ AnswerWith(id, v, TRUE, IF objects[id].status = "live" THEN {} ELSE {id})
  BY DEF ServeCreate
<1>5. /\ id \in Ids
      /\ handlers.create = "post" => objects[id].status = "none"
      /\ handlers.create # "post" => id = 1
  BY <1>3, CreateTargetsAre
<1>6. PICK v \in Stored(id) :
          /\ objects' = [objects EXCEPT ![id] = [status |-> "live", value |-> v, compatible |-> TRUE]]
          /\ AnswerWith(id, v, TRUE, IF objects[id].status = "live" THEN {} ELSE {id})
  BY <1>4
<1>7. v \in Known
  BY <1>1, <1>5, StoredIsTyped DEF IInv
<1>8. objects'[id].value = v /\ \A i \in Ids : i # id => objects'[i] = objects[i]
  BY <1>5, <1>6 DEF IInv, TypeOK
<1> DEFINE made == IF objects[id].status = "live" THEN {} ELSE {id}
<1>9. AnswerWith(id, v, TRUE, made) /\ made \in SUBSET Ids
  BY <1>5, <1>6
<1> HIDE DEF made
<1>10. /\ call'.op = call.op /\ call'.id = call.id /\ call'.plan = call.plan
       /\ call'.reply.id \in {id, NoId}
       /\ call'.prior = call.prior /\ call'.swap = call.swap
       /\ call'.reply.value = v \/ (call'.reply.value = Omitted /\ Shows)
       /\ Revealed(id, call'.reply.value)
  BY <1>3, <1>5, <1>7, <1>9, Answered DEF IInv
<1>11. (call.plan = Unknown \/ call.plan = v) /\ (call.plan = Unknown => Shows)
  BY <1>1, <1>5, CreateStores
<1>12. Shows' = Shows
  BY <1>1, <1>10, SameCall
<1>13. /\ Shows /\ call'.reply.value # Omitted => Applied' = v
       /\ call.plan # Unknown => Applied' = v
       /\ Applied' # Unknown /\ NullForUnknown(v) = v
  BY <1>7, <1>10, <1>11, <1>12, AnswerApplies, KnownIsPlain DEF IInv
<1>14. HasIdentity' => Target' = id
  <2>1. CASE handlers.identity
    BY <1>2, <1>10, <2>1 DEF HasIdentity, Target
  <2>2. CASE ~handlers.identity
    <3>1. handlers.create = "put"
      BY <1>3, <2>2, KindIsTyped DEF Handlers, Create, IInv
    <3> QED
      BY <1>2, <1>3, <1>5, <1>10, <2>2, <3>1 DEF HasIdentity, Target
  <2> QED
    BY <2>1, <2>2
<1>15. /\ \A i : i # id => (i \in stale' <=> i \in stale)
       /\ id \notin stale' => Applied' = v
  <2>1. /\ \A i : i # id => (i \in stale' <=> i \in stale)
        /\ id \notin stale' => call.plan # Unknown \/ (Shows /\ call'.reply.value # Omitted)
    BY <1>1, <1>10, RevealedIs
  <2> QED
    BY <1>13, <2>1
<1>16. OneObject'
  BY <1>2, <1>5, <1>8 DEF Mirror, OneObject
<1>17. ASSUME NEW i \in Ids, attribute.mode = "none" PROVE objects'[i].value = Null
  BY <1>1, <1>5, <1>8, <1>17, NullStored DEF Mirror, NothingIsNull
<1>18. TrackedMirrors' /\ UnsentIsKept'
  BY <1>1, <1>3, <1>10 DEF TrackedMirrors, UnsentIsKept, Tracks
<1>19. DeposedMirrors'
  <2>1. SUFFICES ASSUME Tracks(deposed), call.swap, handlers.create = "post", deposed.id \notin stale'
                 PROVE  deposed.value = objects'[deposed.id].value
    BY <1>1, <1>2, <1>10 DEF DeposedMirrors, Mirrors, Tracks
  <2>2. deposed.id \in Ids /\ deposed.id # id
    BY <1>5, <2>1, IdsOfCalls DEF IInv, StatesAreOfObjects
  <2>3. Mirrors(deposed)
    BY <1>1, <2>1 DEF Mirror, DeposedMirrors
  <2> QED
    BY <1>8, <1>15, <2>1, <2>2, <2>3 DEF Mirrors
<1>20. AnswerMirrors'
  BY <1>1, <1>8, <1>10, <1>13, <1>14, <1>15 DEF AnswerMirrors, NullForUnknown
<1>21. AnswerAgrees'
  BY <1>10, <1>11, <1>13 DEF AnswerAgrees, Consistent
<1> QED
  BY <1>1, <1>10, <1>16, <1>17, <1>18, <1>19, <1>20, <1>21, ServesMirror

LEMMA ServeUpdateMirrors == ASSUME IInv, IInv', Mirror, ServeUpdate PROVE Mirror'
<1>1. /\ UNCHANGED <<kind, tracked, deposed>> /\ call.op = "update" /\ objects[call.id].status = "live"
  BY DEF ServeUpdate, terraform
<1>2. handlers' = handlers /\ attribute' = attribute
  BY <1>1, SameKind
<1>3. call.id \in Ids /\ call.id = tracked.id /\ Tracks(tracked) /\ ~Reading /\ ~Deleting
  BY <1>1, IdsOfCalls DEF IInv, CallIsAbout, Reading, Deleting
<1>4. PICK v \in Stored(call.id) :
          objects' = [objects EXCEPT ![call.id].value = v] /\ AnswerWith(call.id, v, TRUE, {})
  BY DEF ServeUpdate
<1>5. v \in Known
  BY <1>1, <1>3, StoredIsTyped DEF IInv
<1>6. objects \in ObjectsType
  BY DEF IInv, TypeOK, ObjectsType
<1>7. /\ objects'[call.id].value = v
      /\ \A i \in Ids : objects'[i].status = objects[i].status
      /\ \A i \in Ids : i # call.id => objects'[i] = objects[i]
  BY <1>3, <1>4, <1>6 DEF ObjectsType
<1> DEFINE none == {}
<1>8. AnswerWith(call.id, v, TRUE, none) /\ none \in SUBSET Ids
  BY <1>4
<1> HIDE DEF none
<1>9. /\ call'.op = call.op /\ call'.id = call.id /\ call'.plan = call.plan
      /\ call'.prior = call.prior /\ call'.swap = call.swap
      /\ call.drifted \/ call.id \in stale => call'.drifted
      /\ call'.reply.value = v \/ (call'.reply.value = Omitted /\ Shows)
      /\ Revealed(call.id, call'.reply.value)
  BY <1>3, <1>5, <1>8, Answered DEF IInv
<1>10. /\ call.plan = Unknown \/ call.plan = v \/ call.drifted \/ call.id \in stale
       /\ call.plan = Unknown => Shows
       /\ Sent # Omitted => call.plan = v
  BY <1>1, UpdateStores
<1>11. Shows' = Shows /\ Sent' = Sent
  BY <1>1, <1>9, SameCall
<1>12. /\ Shows /\ call'.reply.value # Omitted => Applied' = v
       /\ (~Shows \/ call'.reply.value = Omitted) /\ call.plan # Unknown => Applied' = call.plan
       /\ call.plan = Unknown \/ Applied' \in {v, call.plan}
       /\ Applied' # Unknown
  BY <1>5, <1>9, <1>10, <1>11, AnswerApplies DEF IInv
<1>13. Sent = Omitted /\ call.plan # Unknown => v = objects[call.id].value /\ call.plan = tracked.value
  BY <1>1, UpdateKeepsUnsent
\* Without an answer that reveals it the attribute stays as it was.
<1>14. call.id \notin stale' => Applied' = v
  <2>1. SUFFICES ASSUME call.id \notin stale' PROVE Applied' = v
    OBVIOUS
  <2>2. CASE Reveals(call'.reply.value)
    <3>1. (Shows /\ call'.reply.value # Omitted) \/ Sent # Omitted
      BY <1>1, <1>9, <2>2, RevealedIs
    <3>2. Sent # Omitted => call.plan = v /\ call.plan # Unknown
      BY <1>5, <1>10, KnownIsPlain
    <3> QED
      BY <1>12, <3>1, <3>2
  <2>3. CASE ~Reveals(call'.reply.value)
    <3>1. /\ Sent = Omitted /\ (~Shows \/ call'.reply.value = Omitted) /\ stale \subseteq stale'
          /\ call.plan # Unknown /\ ~call.drifted
      BY <1>1, <1>9, <2>1, <2>3, RevealedIs
    <3>2. Mirrors(tracked) /\ tracked.id \notin stale
      BY <1>1, <1>3, <2>1, <3>1 DEF Mirror, UnsentIsKept
    <3>3. v = objects[call.id].value /\ call.plan = tracked.value
      BY <1>13, <3>1
    <3> QED
      BY <1>3, <1>12, <3>1, <3>2, <3>3 DEF Mirrors
  <2> QED
    BY <2>2, <2>3
<1>15. OneObject'
  BY <1>2, <1>7 DEF Mirror, OneObject
<1>16. ASSUME NEW i \in Ids, attribute.mode = "none" PROVE objects'[i].value = Null
  BY <1>1, <1>3, <1>7, <1>16, NullStored DEF Mirror, NothingIsNull
<1>17. TrackedMirrors'
  BY <1>1, <1>9 DEF TrackedMirrors
<1>18. DeposedMirrors'
  BY <1>1, <1>9 DEF DeposedMirrors
<1>19. AnswerMirrors'
  <2>1. SUFFICES ASSUME call.id \notin stale' PROVE NullForUnknown(Applied') = v
    BY <1>1, <1>7, <1>9 DEF AnswerMirrors, NullForUnknown
  <2> QED
    BY <1>5, <1>14, <2>1, KnownIsPlain
<1>20. UnsentIsKept'
  <2>1. SUFFICES ASSUME Sent = Omitted, call.plan # Unknown, ~call'.drifted PROVE tracked.value = v
    BY <1>1, <1>3, <1>7, <1>9, <1>11 DEF UnsentIsKept, Mirrors
  <2>2. Mirrors(tracked) /\ call.id \notin stale
    BY <1>1, <1>9, <2>1 DEF Mirror, UnsentIsKept
  <2> QED
    BY <1>3, <1>13, <2>1, <2>2 DEF Mirrors
<1>21. AnswerAgrees'
  BY <1>9, <1>10, <1>12 DEF AnswerAgrees, Consistent
<1> QED
  BY <1>1, <1>9, <1>15, <1>16, <1>17, <1>18, <1>19, <1>20, <1>21, ServesMirror

LEMMA ServeDeleteMirrors == ASSUME IInv, Mirror, ServeDelete PROVE Mirror'
<1>1. /\ UNCHANGED <<kind, tracked, deposed, stale>> /\ Deleting
  BY DEF ServeDelete, terraform, history
<1>2. handlers' = handlers /\ attribute' = attribute
  BY <1>1, SameKind
<1>3. call.id \in Ids /\ call.op \in {"delete", "destroy"}
  BY <1>1, IdsOfCalls DEF Deleting
<1>4. PICK st \in {"archived", "gone"} : objects' = [objects EXCEPT ![call.id].status = st]
  BY DEF ServeDelete
<1>5. objects \in ObjectsType /\ objects[call.id].status # "none"
  BY DEF IInv, TypeOK, ObjectsType, ServeDelete
<1>6. \A i \in Ids : /\ objects'[i].value = objects[i].value
                     /\ objects'[i].status # "none" => objects[i].status # "none"
  BY <1>3, <1>4, <1>5 DEF ObjectsType
<1> DEFINE none == {}
           r == Good(call.id, objects[call.id].value, TRUE)
<1>7. Respond(r, none) /\ none \in SUBSET Ids
  BY DEF ServeDelete
<1>8. r \in Replies
  <2>1. objects[call.id].value \in Known
    BY <1>3, <1>5 DEF ObjectsType
  <2> QED
    BY <1>3, <2>1, GoodReplies
<1> HIDE DEF none, r
<1>9. /\ call'.op = call.op /\ call'.plan = call.plan /\ call'.prior = call.prior /\ call'.id = call.id /\ call'.swap = call.swap
  BY <1>7, <1>8, Responded DEF IInv
<1>10. OneObject' /\ \A i \in Ids : attribute.mode = "none" => objects'[i].value = Null
  BY <1>2, <1>6 DEF Mirror, OneObject, NothingIsNull
<1>11. TrackedMirrors'
  BY <1>1, <1>3, <1>6, <1>9, IdsOfCalls DEF Mirror, TrackedMirrors, Mirrors, Tracks
<1>12. DeposedMirrors' /\ AnswerMirrors' /\ UnsentIsKept' /\ AnswerAgrees'
  BY <1>3, <1>9 DEF DeposedMirrors, AnswerMirrors, UnsentIsKept, AnswerAgrees
<1> QED
  BY <1>1, <1>9, <1>10, <1>11, <1>12, ServesMirror

LEMMA ServeReadMirrors == ASSUME IInv, IInv', Mirror, ServeRead PROVE Mirror'
<1>1. /\ UNCHANGED <<kind, objects, tracked, deposed>> /\ (Reading \/ call.at = "check") /\ call.at # "idle"
  BY DEF ServeRead, Waiting, terraform
<1>2. handlers' = handlers /\ attribute' = attribute
  BY <1>1, SameKind
<1>3. call.op \in {"read", "import", "delete", "destroy"} /\ call.id \in Ids
  BY <1>1, IdsOfCalls DEF IInv, CallsAreInPlace, Reading, Deleting
<1> DEFINE c == objects[call.id].compatible
           v == objects[call.id].value
           none == {}
<1>4. AnswerWith(call.id, v, c, none) /\ none \in SUBSET Ids
  BY DEF ServeRead
<1>5. c \in BOOLEAN /\ v \in Known
  BY <1>3 DEF IInv, TypeOK
<1> HIDE DEF c, none, v
<1>6. /\ call'.op = call.op /\ call'.id = call.id /\ call'.plan = call.plan
      /\ call'.prior = call.prior /\ call'.swap = call.swap
      /\ call.drifted \/ call.id \in stale => call'.drifted
      /\ call'.reply.value = v \/ (call'.reply.value = Omitted /\ Shows)
      /\ Revealed(call.id, call'.reply.value)
  BY <1>3, <1>4, <1>5, Answered DEF IInv
<1>7. Shows' = Shows
  BY <1>1, <1>6, SameCall
<1>8. /\ call.id \notin stale' => Reveals(call'.reply.value) \/ call.id \notin stale
      /\ \A i : i # call.id => (i \in stale' <=> i \in stale)
      /\ Reveals(call'.reply.value) => Shows /\ call'.reply.value # Omitted
      /\ ~Reveals(call'.reply.value) => ~Shows \/ call'.reply.value = Omitted
      /\ ~Reveals(call'.reply.value) /\ call.id \notin stale' => call.op # "import" /\ ~call.drifted
  BY <1>3, <1>6, RevealedIs
<1>9. call.op \in {"delete", "destroy"} => ~Shows
  BY AttributeIs DEF Shows, Reading, IInv
<1>13. OneObject' /\ \A i \in Ids : attribute.mode = "none" => objects'[i].value = Null
  BY <1>1, <1>2 DEF Mirror, OneObject, NothingIsNull
<1>14. TrackedMirrors'
  <2>1. SUFFICES ASSUME Tracks(tracked), ~(call.op = "read" /\ call'.drifted), tracked.id \notin stale'
                 PROVE  tracked.value = objects[tracked.id].value
    BY <1>1, <1>3, <1>6 DEF TrackedMirrors, Mirrors, Tracks
  <2>2. call.op # "import" /\ call.op # "update" /\ ~(call.op = "read" /\ call.drifted)
    BY <1>3, <1>6, <2>1 DEF IInv, CallIsAbout
  <2>3. Mirrors(tracked)
    BY <2>1, <2>2 DEF Mirror, TrackedMirrors
  <2>4. tracked.id \notin stale
    <3>1. CASE call.op = "read"
      BY <1>6, <2>1, <3>1 DEF IInv, CallIsAbout
    <3>2. CASE call.op # "read"
      BY <1>3, <1>8, <1>9, <2>1, <2>2, <3>2
    <3> QED
      BY <3>1, <3>2
  <2> QED
    BY <2>3, <2>4 DEF Mirrors
<1>15. AnswerMirrors'
  <2>1. SUFFICES ASSUME call.op \in {"read", "import"}, call.id \notin stale' PROVE NullForUnknown(Applied') = v
    BY <1>1, <1>3, <1>6 DEF AnswerMirrors, NullForUnknown, v
  <2>2. CASE Reveals(call'.reply.value)
    <3>1. Applied' = v
      BY <1>5, <1>6, <1>7, <1>8, <2>2, KnownIsPlain DEF Applied
    <3> QED
      BY <1>5, <3>1, KnownIsPlain
  <2>3. CASE ~Reveals(call'.reply.value)
    <3>1. call.op = "read" /\ ~call.drifted /\ call.id \notin stale /\ (~Shows \/ call'.reply.value = Omitted)
      BY <1>8, <2>1, <2>3
    <3>2. call.plan = tracked.value /\ Tracks(tracked) /\ call.id = tracked.id
      BY <3>1 DEF IInv, PlansAreOfState, CallIsAbout
    <3>3. tracked.value = v
      BY <3>1, <3>2 DEF Mirror, TrackedMirrors, Mirrors, v
    <3>4. Applied' = call'.plan
      <4>1. call'.plan # Unknown
        BY <1>5, <1>6, <3>2, <3>3, KnownIsPlain
      <4> QED
        BY <1>7, <3>1, <4>1 DEF Applied
    <3> QED
      BY <1>5, <1>6, <3>2, <3>3, <3>4, KnownIsPlain
  <2> QED
    BY <2>2, <2>3
<1>16. DeposedMirrors' /\ UnsentIsKept' /\ AnswerAgrees'
  BY <1>3, <1>6 DEF DeposedMirrors, UnsentIsKept, AnswerAgrees
<1> QED
  BY <1>1, <1>6, <1>13, <1>14, <1>15, <1>16, ServesMirror

\* While no handler runs.
LEMMA IdleMirrors ==
    ASSUME IInv, Mirror, IdleHere
    PROVE  /\ call = Idle /\ call.op = "none" /\ ~call.answered /\ call.plan = Null /\ call.prior = Null
           /\ Tracks(tracked) => Mirrors(tracked)
BY IdleIsTyped DEF IInv, CallsAreInPlace, IdleHere, Mirror, TrackedMirrors

\* Terraform calls a handler: its plan fits, and the states are as they were.
LEMMA StartsMirror ==
    ASSUME IInv, Mirror, IdleHere, UNCHANGED <<kind, objects, stale>>, ~call'.answered, PlansFit', TrackedMirrors', DeposedMirrors',
           call'.op = "update" => tracked' = tracked /\ Tracks(tracked),
           attribute.mode = "none" => call'.prior = Null /\ call'.plan = Null /\ tracked'.value = Null /\ deposed'.value = Null
    PROVE  Mirror'
<1>1. handlers' = handlers /\ attribute' = attribute
  BY SameKind
<1>2. OneObject' /\ NothingIsNull'
  BY <1>1 DEF Mirror, OneObject, NothingIsNull
<1>3. UnsentIsKept'
  BY IdleMirrors DEF UnsentIsKept, Mirrors
<1>4. AnswerMirrors' /\ AnswerAgrees'
  BY DEF AnswerMirrors, AnswerAgrees
<1> QED
  BY <1>2, <1>3, <1>4 DEF Mirror

\* A handler that is begun with the states unchanged.
LEMMA BegunMirrors ==
    ASSUME IInv, Mirror, UNCHANGED <<tracked, deposed>>,
           NEW op \in {"create", "read", "import", "update", "delete", "destroy"}, NEW at \in {"check", "page", "main"},
           NEW id \in {NoId} \cup Ids, NEW prior \in Known, NEW plan \in Known \cup {Unknown},
           Begin(op, at, id, prior, plan), PlansFit', op = "update" => Tracks(tracked),
           attribute.mode = "none" => prior = Null /\ plan = Null
    PROVE  Mirror'
<1>1. IdleHere /\ UNCHANGED <<kind, objects, stale>>
  BY DEF Begin, history
<1>2. call'.op = op /\ call'.prior = prior /\ call'.plan = plan /\ ~call'.answered
  BY Begun
<1>3. ~call'.swap
  <2>1. call' = [Idle EXCEPT !.op = op, !.at = at, !.id = id, !.prior = prior, !.plan = plan]
    BY DEF Begin
  <2> QED
    BY <2>1, IdleIsTyped DEF Calls
<1>4. TrackedMirrors' /\ DeposedMirrors'
  BY <1>1, <1>3, IdleMirrors DEF TrackedMirrors, DeposedMirrors, Mirrors, Tracks
<1>5. attribute.mode = "none" => tracked.value = Null /\ deposed.value = Null
  BY DEF Mirror, NothingIsNull
<1> QED
  BY <1>1, <1>2, <1>4, <1>5, StartsMirror

LEMMA StartUpdateMirrors == ASSUME IInv, Mirror, StartUpdate \/ StartUpdateOfAnother PROVE Mirror'
<1>1. /\ config # Absent /\ config \in Configs /\ Tracks(tracked) /\ UNCHANGED <<tracked, deposed>> /\ TypeOK
      /\ tracked.id \in {NoId} \cup Ids /\ tracked.value \in Known
  BY DEF StartUpdate, StartUpdateOfAnother, IInv, TypeOK, States
<1>2. attribute.mode = "none" => tracked.value = Null
  BY DEF Mirror, NothingIsNull
<1>3. CASE StartUpdate
  <2> DEFINE plan == Proposed(tracked.value)
  <2>1. Begin("update", "main", tracked.id, tracked.value, plan) /\ plan # tracked.value /\ ~attribute.replace
    BY <1>3 DEF StartUpdate, Differs, MustReplace
  <2>2. /\ plan \in Known
        /\ plan = Null => attribute.mode \in {"optional", "none"}
        /\ attribute.mode \notin {"computed", "none"}
    BY <1>1, <1>2, <2>1, ConfigFits, ProposedIs, AttributeIs, KnownIsPlain, DefaultAssumption DEF Known
  <2> HIDE DEF plan
  <2>3. call'.op = "update" /\ call'.prior = tracked.value /\ call'.plan = plan
    BY <1>1, <2>1, <2>2, Begun
  <2>4. attribute' = attribute
    BY <2>1, SameKind DEF Begin
  <2>5. Sent' # Omitted
    <3>1. attribute.update \in {"value", "nullable"} /\ (plan = Null => attribute.update = "nullable")
      BY <1>1, <2>1, <2>2, AttributeIs
    <3>2. plan # Unknown /\ plan # Omitted /\ ~(plan = Null /\ tracked.value = Null)
      BY <2>1, <2>2, KnownIsPlain
    <3>3. /\ attribute.update = "value" => Sent' = IF plan \in {Null, Unknown} THEN Omitted ELSE plan
          /\ attribute.update = "nullable" => Sent' = NullableField(plan, tracked.value)
      BY <2>3, <2>4 DEF Sent, ValueField, NullableField
    <3>4. NullableField(plan, tracked.value) = plan
      BY <3>2 DEF NullableField
    <3> QED
      BY <3>1, <3>2, <3>3, <3>4
  <2>6. PlansFit'
    BY <2>2, <2>3, <2>4, <2>5, KnownIsPlain DEF PlansFit
  <2> QED
    BY <1>1, <2>1, <2>2, <2>6, BegunMirrors
<1>4. CASE StartUpdateOfAnother
  <2>1. PICK unset \in Known \cup {Unknown} :
            /\ Begin("update", "main", tracked.id, tracked.value, Proposed(unset))
            /\ unset = IF attribute.keep THEN tracked.value ELSE Unknown
    BY <1>1, <1>4 DEF StartUpdateOfAnother
  <2> DEFINE plan == Proposed(unset)
  <2>2. Proposed(tracked.value) = tracked.value
    BY <1>4 DEF StartUpdateOfAnother, Differs
  <2>3. /\ plan \in Known \cup {Unknown}
        /\ plan = Unknown => attribute.mode \in {"optionalComputed", "computed"} /\ ~attribute.keep
        /\ attribute.mode = "computed" /\ ~attribute.keep => plan = Unknown
        /\ plan \in {Unknown, tracked.value}
        /\ attribute.mode = "none" => plan = Null
    <3>1. config = Null \/ plan = tracked.value
      BY <1>1, <2>2, ProposedIs
    <3>2. config = Null /\ attribute.mode \notin {"optionalComputed", "computed"} => plan = tracked.value
      BY <1>1, <2>2, ProposedIs, AttributeIs
    <3>3. config = Null /\ attribute.mode \in {"optionalComputed", "computed"} => plan = unset
      BY <1>1, ProposedIs
    <3>4. attribute.mode = "computed" => config = Null
      BY <1>1, ConfigFits
    <3> QED
      BY <1>1, <1>2, <2>1, <3>1, <3>2, <3>3, <3>4, KnownIsPlain
  <2>4. Begin("update", "main", tracked.id, tracked.value, plan)
    BY <2>1
  <2> HIDE DEF plan
  <2>5. call'.op = "update" /\ call'.prior = tracked.value /\ call'.plan = plan
    BY <1>1, <2>3, <2>4, Begun
  <2>6. attribute' = attribute
    BY <2>4, SameKind DEF Begin
  <2>7. PlansFit'
    BY <1>1, <2>3, <2>5, <2>6 DEF PlansFit
  <2> QED
    BY <1>1, <1>2, <2>3, <2>4, <2>7, BegunMirrors
<1> QED
  BY <1>3, <1>4

LEMMA OtherStartsMirror ==
    ASSUME IInv, Mirror, StartCreate \/ StartReplacement \/ StartRead \/ StartImport \/ StartDelete \/ StartDestroyDeposed
    PROVE  Mirror'
<1>1. /\ 1 \in {NoId} \cup Ids /\ NoId \in {NoId} \cup Ids /\ Null \in Known
      /\ tracked.id \in {NoId} \cup Ids /\ tracked.value \in Known /\ deposed.id \in {NoId} \cup Ids /\ deposed.value \in Known
      /\ config \in Configs /\ TypeOK
  BY IdsOfCalls DEF IInv, TypeOK, States, Known
<1>2. attribute.mode = "none" => tracked.value = Null /\ deposed.value = Null
  BY DEF Mirror, NothingIsNull
<1>3. CASE StartCreate
  <2> DEFINE plan == Proposed(Unknown)
  <2>1. config # Absent /\ UNCHANGED <<tracked, deposed>>
    BY <1>3 DEF StartCreate
  <2>2. PICK id \in {NoId} \cup Ids : Begin("create", "main", id, Null, plan)
    BY <1>1, <1>3 DEF StartCreate
  <2>3. /\ plan \in Known \cup {Unknown}
        /\ plan = Unknown => attribute.mode \in {"optionalComputed", "computed"}
        /\ attribute.mode = "computed" => plan = Unknown
        /\ plan = Null => attribute.mode \in {"optional", "none"}
        /\ attribute.mode = "none" => plan = Null
    BY <1>1, <2>1, ProposedIsTyped, CreatePlanFits
  <2> HIDE DEF plan
  <2>4. call'.op = "create" /\ call'.plan = plan
    BY <1>1, <2>2, <2>3, Begun
  <2>5. attribute' = attribute
    BY <2>2, SameKind DEF Begin
  <2>6. PlansFit'
    BY <2>3, <2>4, <2>5 DEF PlansFit
  <2> QED
    BY <1>1, <2>1, <2>2, <2>3, <2>6, BegunMirrors
<1>4. CASE StartReplacement
  <2> DEFINE plan == Proposed(Unknown)
  <2>1. /\ config # Absent /\ IdleHere /\ Tracks(tracked) /\ deposed' = tracked /\ tracked' = NoState
        /\ UNCHANGED <<kind, objects, stale>>
    BY <1>4 DEF StartReplacement, history
  <2>2. PICK id \in {NoId} \cup Ids :
            call' = [Idle EXCEPT !.op = "create", !.at = "main", !.swap = TRUE, !.plan = plan, !.id = id]
    BY <1>1, <1>4 DEF StartReplacement
  <2>3. /\ plan \in Known \cup {Unknown}
        /\ plan = Unknown => attribute.mode \in {"optionalComputed", "computed"}
        /\ attribute.mode = "computed" => plan = Unknown
        /\ plan = Null => attribute.mode \in {"optional", "none"}
        /\ attribute.mode = "none" => plan = Null
    BY <1>1, <2>1, ProposedIsTyped, CreatePlanFits
  <2> HIDE DEF plan
  <2>4. call'.op = "create" /\ call'.plan = plan /\ call'.prior = Null /\ ~call'.answered
    BY <2>2, <2>3, Replacing
  <2>5. PlansFit'
    BY <2>1, <2>3, <2>4, SameKind DEF PlansFit
  <2>6. TrackedMirrors' /\ DeposedMirrors'
    BY <2>1, IdleMirrors, NoStateIsTyped DEF TrackedMirrors, DeposedMirrors, Mirrors, Tracks
  <2>7. attribute.mode = "none" => tracked'.value = Null /\ deposed'.value = Null
    BY <1>2, <2>1, NoStateIsTyped
  <2> QED
    BY <2>1, <2>3, <2>4, <2>5, <2>6, <2>7, StartsMirror
<1>5. CASE StartRead \/ StartImport \/ StartDelete \/ StartDestroyDeposed
  <2>1. UNCHANGED <<tracked, deposed>> /\ ReadAt \in {"page", "main"} /\ DeleteAt \in {"check", "main"}
    BY <1>5 DEF StartRead, StartImport, StartDelete, StartDestroyDeposed, ReadAt, DeleteAt
  <2>2. PICK op \in {"read", "import", "delete", "destroy"} :
            \E at \in {"check", "page", "main"}, id \in {NoId} \cup Ids, prior \in Known, plan \in Known :
                /\ Begin(op, at, id, prior, plan)
                /\ attribute.mode = "none" => prior = Null /\ plan = Null
    <3>1. CASE StartRead
      BY <1>1, <1>2, <2>1, <3>1 DEF StartRead
    <3>2. CASE StartImport
      <4>1. PICK id \in Ids : Begin("import", ReadAt, id, Null, Null)
        BY <3>2 DEF StartImport
      <4> QED
        BY <1>1, <2>1, <4>1
    <3>3. CASE StartDelete
      BY <1>1, <1>2, <2>1, <3>3 DEF StartDelete
    <3>4. CASE StartDestroyDeposed
      BY <1>1, <1>2, <2>1, <3>4 DEF StartDestroyDeposed
    <3> QED
      BY <1>5, <3>1, <3>2, <3>3, <3>4
  <2>3. PICK at \in {"check", "page", "main"}, id \in {NoId} \cup Ids, prior \in Known, plan \in Known :
            /\ Begin(op, at, id, prior, plan)
            /\ attribute.mode = "none" => prior = Null /\ plan = Null
    BY <2>2
  <2>4. call'.op = op
    BY <2>3, Begun
  <2>5. PlansFit'
    BY <2>4 DEF PlansFit
  <2> QED
    BY <2>1, <2>3, <2>5, BegunMirrors
<1> QED
  BY <1>3, <1>4, <1>5

\* No handler runs afterwards: what it leaves in the states has been answered, or is suspected.
LEMMA IdleAgain ==
    ASSUME IInv, Mirror, UNCHANGED <<kind, objects>>, call' = Idle,
           Tracks(tracked') => (tracked'.id \notin stale' => tracked'.value = objects[tracked'.id].value),
           attribute.mode = "none" => tracked'.value = Null /\ deposed'.value = Null
    PROVE  Mirror'
<1>1. handlers' = handlers /\ attribute' = attribute
  BY SameKind
<1>2. call'.op = "none" /\ ~call'.answered /\ call'.plan = Null /\ call'.prior = Null
  BY IdleIsTyped
<1>3. OneObject' /\ NothingIsNull' /\ PlansFit'
  BY <1>1, <1>2 DEF Mirror, OneObject, NothingIsNull, PlansFit
<1>4. TrackedMirrors' /\ DeposedMirrors' /\ UnsentIsKept'
  BY <1>2 DEF TrackedMirrors, DeposedMirrors, UnsentIsKept, Mirrors, Tracks
<1>5. AnswerMirrors' /\ AnswerAgrees'
  BY <1>2 DEF AnswerMirrors, AnswerAgrees
<1> QED
  BY <1>3, <1>4, <1>5 DEF Mirror

LEMMA IdleStepsMirror == ASSUME IInv, Mirror, ChangeConfig \/ Taint \/ Forget PROVE Mirror'
<1>1. UNCHANGED <<kind, objects, call, stale>> /\ IdleHere
  BY DEF ChangeConfig, Taint, Forget, history
<1>2. /\ tracked' = NoState \/ (tracked'.id = tracked.id /\ tracked'.value = tracked.value)
      /\ deposed' \in {NoState, deposed}
  <2>1. CASE ChangeConfig
    BY <2>1 DEF ChangeConfig
  <2>2. CASE Taint
    <3>1. tracked' = [tracked EXCEPT !.tainted = TRUE] /\ tracked \in States /\ deposed' = deposed
      BY <2>2 DEF Taint, IInv, TypeOK
    <3>2. tracked'.id = tracked.id /\ tracked'.value = tracked.value
      BY <3>1, Zenon DEF States
    <3> QED
      BY <3>1, <3>2
  <2>3. CASE Forget
    BY <2>3 DEF Forget
  <2> QED
    BY <2>1, <2>2, <2>3
<1>3. call' = Idle /\ (Tracks(tracked) => Mirrors(tracked))
  BY <1>1, IdleMirrors
<1>4. attribute.mode = "none" => tracked'.value = Null /\ deposed'.value = Null
  BY <1>2, NoStateIsTyped DEF Mirror, NothingIsNull
<1>5. Tracks(tracked') => (tracked'.id \notin stale' => tracked'.value = objects[tracked'.id].value)
  BY <1>1, <1>2, <1>3, NoStateIsTyped DEF Mirrors, Tracks
<1> QED
  BY <1>1, <1>3, <1>4, <1>5, IdleAgain

\* A resource without the attribute puts null into the state.
LEMMA NullApplied ==
    ASSUME IInv, Mirror, attribute.mode = "none"
    PROVE  NullForUnknown(Applied) = Null /\ NullForUnknown(call.plan) = Null
<1>1. call.plan = Null
  BY DEF Mirror, NothingIsNull
<1>2. ~Shows
  BY AttributeIs DEF Shows, IInv
<1> QED
  BY <1>1, <1>2, AppliedIs, KnownIsPlain

LEMMA ReturnCreateMirrors == ASSUME IInv, Mirror, ReturnCreate PROVE Mirror'
<1>1. /\ UNCHANGED <<kind, objects>> /\ call' = Idle /\ call.op = "create" /\ call.answered
  BY DEF ReturnCreate, Returning, Finish
<1>2. /\ Tracks(tracked') => (tracked'.id \notin stale' => tracked'.value = objects[tracked'.id].value)
      /\ attribute.mode = "none" => tracked'.value = Null /\ deposed'.value = Null
  <2>0. attribute.mode = "none" => deposed.value = Null
    BY DEF Mirror, NothingIsNull
  <2>1. CASE CreateAccepted
    <3>1. /\ tracked' = [id |-> Target, value |-> NullForUnknown(Applied), tainted |-> ~Consistent(Applied)]
          /\ deposed' = deposed /\ call.reply.status = "ok" /\ HasIdentity
          /\ stale \subseteq stale'
      BY <2>1 DEF CreateAccepted, Accepted, Suspect
    <3>2. tracked'.id = Target /\ tracked'.value = NullForUnknown(Applied)
      BY <3>1
    <3>3. Target \notin stale => NullForUnknown(Applied) = objects[Target].value
      BY <1>1, <3>1 DEF Mirror, AnswerMirrors
    <3> QED
      BY <2>0, <3>1, <3>2, <3>3, NullApplied
  <2>2. CASE CreateRecovered
    <3>1. call.reply.status = "ok" /\ HasIdentity /\ deposed' = deposed /\ stale' = stale \cup ({Target} \cap Ids)
      BY <2>2 DEF CreateRecovered, Suspect
    <3>2. PICK value \in {call.plan, Applied} : tracked' = [id |-> Target, value |-> NullForUnknown(value), tainted |-> TRUE]
      BY <2>2 DEF CreateRecovered
    <3>3. Target \in Ids
      BY <1>1, <3>1 DEF IInv, MadeIsTold
    <3>4. tracked'.id = Target /\ tracked'.value = NullForUnknown(value)
      BY <3>2
    <3> QED
      BY <2>0, <3>1, <3>2, <3>3, <3>4, NullApplied
  <2>3. CASE CreateFailed
    <3>1. stale' = stale \cup ({call.id} \cap Ids)
      BY <2>3 DEF CreateFailed, Suspect
    <3>2. CASE tracked' = NoState /\ deposed' = deposed
      BY <2>0, <3>2, NoStateIsTyped
    <3>3. CASE call.swap /\ tracked' = deposed /\ deposed' = NoState
      <4>1. handlers.create \in {"post", "put"}
        BY <1>1, KindIsTyped DEF IInv, CallIsAbout, Handlers, Create
      <4>2. CASE handlers.create = "post"
        BY <1>1, <2>0, <3>1, <3>3, <4>2, NoStateIsTyped DEF Mirror, DeposedMirrors, Mirrors
      <4>3. CASE handlers.create = "put"
        <5>1. Tracks(deposed) => deposed.id = call.id /\ call.id \in Ids
          BY <1>1, <4>3, IdsOfCalls DEF Mirror, OneObject, IInv, StatesAreOfObjects, CallIsAbout
        <5> QED
          BY <2>0, <3>1, <3>3, <5>1, NoStateIsTyped
      <4> QED
        BY <4>1, <4>2, <4>3
    <3> QED
      BY <2>3, <3>2, <3>3 DEF CreateFailed
  <2> QED
    BY <2>1, <2>2, <2>3 DEF ReturnCreate
<1> QED
  BY <1>1, <1>2, IdleAgain

LEMMA ReturnReadMirrors == ASSUME IInv, Mirror, ReturnRead PROVE Mirror'
<1>1. /\ UNCHANGED <<kind, objects, deposed>> /\ call' = Idle /\ call.op \in {"read", "import"} /\ call.answered /\ Reading
  BY DEF ReturnRead, Returning, Finish, Reading
<1>2. call.id \in Ids
  BY <1>1, IdsOfCalls
<1>3. /\ Tracks(tracked') => (tracked'.id \notin stale' => tracked'.value = objects[tracked'.id].value)
      /\ attribute.mode = "none" => tracked'.value = Null
  <2>1. CASE ReadAccepted
    <3>1. Target = call.id
      BY <1>1, <2>1, ReadIsOfTarget DEF ReadAccepted
    <3>2. tracked'.id = call.id /\ tracked'.value = NullForUnknown(Applied) /\ stale' = stale /\ call.reply.status = "ok"
      BY <2>1, <3>1 DEF ReadAccepted, Accepted
    <3>3. call.id \notin stale => NullForUnknown(Applied) = objects[call.id].value
      BY <1>1, <3>2 DEF Mirror, AnswerMirrors
    <3> QED
      BY <3>2, <3>3, NullApplied
  <2>2. CASE ReadMissing
    BY <2>2, NoStateIsTyped DEF ReadMissing
  <2>3. CASE ReadFailed
    <3>1. tracked' = tracked /\ call.id \in stale'
      BY <1>2, <2>3 DEF ReadFailed, Suspect
    <3>2. Tracks(tracked) => tracked.id = call.id
      BY <1>1 DEF IInv, CallIsAbout
    <3> QED
      BY <3>1, <3>2 DEF Mirror, NothingIsNull
  <2> QED
    BY <2>1, <2>2, <2>3 DEF ReturnRead
<1>4. attribute.mode = "none" => deposed'.value = Null
  BY <1>1 DEF Mirror, NothingIsNull
<1> QED
  BY <1>1, <1>3, <1>4, IdleAgain

LEMMA ReturnUpdateMirrors == ASSUME IInv, Mirror, ReturnUpdate PROVE Mirror'
<1>1. /\ UNCHANGED <<kind, objects, deposed>> /\ call' = Idle /\ call.op = "update" /\ call.answered
  BY DEF ReturnUpdate, Returning, Finish
<1>2. call.id \in Ids /\ call.id = tracked.id /\ tracked \in States
  BY <1>1, IdsOfCalls DEF IInv, CallIsAbout, TypeOK
<1>3. /\ Tracks(tracked') => (tracked'.id \notin stale' => tracked'.value = objects[tracked'.id].value)
      /\ attribute.mode = "none" => tracked'.value = Null
  <2>1. CASE Accepted
    <3>1. /\ tracked' = [tracked EXCEPT !.value = NullForUnknown(Applied)] /\ stale \subseteq stale'
          /\ call.reply.status = "ok"
      BY <2>1 DEF ReturnUpdate, Suspect, Accepted
    <3>2. tracked'.id = call.id /\ tracked'.value = NullForUnknown(Applied)
      BY <1>2, <3>1 DEF States
    <3>3. call.id \notin stale => NullForUnknown(Applied) = objects[call.id].value
      BY <1>1, <3>1 DEF Mirror, AnswerMirrors
    <3> QED
      BY <3>1, <3>2, <3>3, NullApplied
  <2>2. CASE ~Accepted
    <3>1. tracked' = tracked /\ call.id \in stale'
      BY <1>2, <2>2 DEF ReturnUpdate, Suspect
    <3> QED
      BY <1>2, <3>1 DEF Mirror, NothingIsNull
  <2> QED
    BY <2>1, <2>2
<1>4. attribute.mode = "none" => deposed'.value = Null
  BY <1>1 DEF Mirror, NothingIsNull
<1> QED
  BY <1>1, <1>3, <1>4, IdleAgain

LEMMA ReturnDeletionMirrors == ASSUME IInv, Mirror, ReturnCheck \/ ReturnDelete PROVE Mirror'
<1>1. /\ UNCHANGED <<kind, objects, stale>> /\ call.op \in {"delete", "destroy"}
  BY DEF ReturnCheck, ReturnDelete, Returning
<1>2. tracked' \in {tracked, NoState} /\ deposed' \in {deposed, NoState}
  BY DEF ReturnCheck, ReturnDelete, Removed
<1>3. Tracks(tracked) => Mirrors(tracked)
  BY <1>1 DEF Mirror, TrackedMirrors
<1>4. attribute.mode = "none" => tracked'.value = Null /\ deposed'.value = Null
  BY <1>2, NoStateIsTyped DEF Mirror, NothingIsNull
<1>5. Tracks(tracked') => (tracked'.id \notin stale' => tracked'.value = objects[tracked'.id].value)
  BY <1>1, <1>2, <1>3, NoStateIsTyped DEF Mirrors, Tracks
<1>6. CASE Finish
  BY <1>1, <1>4, <1>5, <1>6, IdleAgain DEF Finish
<1>7. CASE call' = [call EXCEPT !.at = "main", !.answered = FALSE, !.tries = 0, !.reply = Pending] /\ UNCHANGED <<tracked, deposed>>
  <2>1. call'.op = call.op /\ call'.plan = call.plan /\ call'.prior = call.prior
    BY <1>7, Rechecked DEF IInv
  <2>2. handlers' = handlers /\ attribute' = attribute
    BY <1>1, SameKind
  <2>3. OneObject' /\ NothingIsNull' /\ PlansFit'
    BY <1>1, <1>7, <2>1, <2>2 DEF Mirror, OneObject, NothingIsNull, PlansFit
  <2>4. TrackedMirrors'
    BY <1>1, <1>3, <1>7 DEF TrackedMirrors, Mirrors, Tracks
  <2>5. DeposedMirrors' /\ AnswerMirrors' /\ UnsentIsKept' /\ AnswerAgrees'
    BY <1>1, <2>1 DEF DeposedMirrors, AnswerMirrors, UnsentIsKept, AnswerAgrees
  <2> QED
    BY <2>3, <2>4, <2>5 DEF Mirror
<1> QED
  BY <1>6, <1>7 DEF ReturnCheck, ReturnDelete

LEMMA InitMirrors == Init => Mirror
<1> SUFFICES ASSUME Init PROVE Mirror
  OBVIOUS
<1> USE DEF Init
<1>1. tracked = NoState /\ deposed = NoState /\ ~Tracks(NoState) /\ NoState.value = Null
  BY NoStateIsTyped
<1>2. call.op = "none" /\ ~call.answered /\ call.plan = Null /\ call.prior = Null
  BY IdleIsTyped
<1>3. PICK v \in Remote, theirs \in BOOLEAN, c \in BOOLEAN :
          objects = [id \in Ids |-> [status |-> IF id = 1 /\ theirs THEN "live" ELSE "none",
                                     value |-> IF id = 1 /\ theirs THEN v ELSE Null,
                                     compatible |-> id # 1 \/ c]]
  OBVIOUS
<1>4. \A i \in Ids : objects[i].status # "none" => i = 1
  BY <1>3
<1>5. attribute.mode = "none" => \A i \in Ids : objects[i].value = Null
  BY <1>3 DEF Remote
<1>6. OneObject /\ NothingIsNull /\ PlansFit
  BY <1>1, <1>2, <1>4, <1>5 DEF OneObject, NothingIsNull, PlansFit
<1>7. TrackedMirrors /\ DeposedMirrors /\ AnswerMirrors /\ UnsentIsKept /\ AnswerAgrees
  BY <1>1, <1>2 DEF TrackedMirrors, DeposedMirrors, AnswerMirrors, UnsentIsKept, AnswerAgrees
<1> QED
  BY <1>6, <1>7 DEF Mirror

LEMMA NextMirrors == IInv /\ IInv' /\ Mirror /\ [Next]_vars => Mirror'
<1> SUFFICES ASSUME IInv, IInv', Mirror, [Next]_vars PROVE Mirror'
  OBVIOUS
<1>1. CASE Terraform \/ ChangeConfig \/ Taint \/ StartUpdateOfAnother \/ StartImport
  BY <1>1, StartUpdateMirrors, OtherStartsMirror, IdleStepsMirror DEF Terraform
<1>2. CASE API \/ Refuse \/ Lose \/ ChangedByOthers
  BY <1>2, AnswersMirror, OthersMirror, ServeCreateMirrors, ServeUpdateMirrors, ServeDeleteMirrors, ServeReadMirrors DEF API
<1>3. CASE Return
  BY <1>3, ReturnCreateMirrors, ReturnReadMirrors, ReturnUpdateMirrors, ReturnDeletionMirrors DEF Return
<1>4. CASE UNCHANGED vars
  <2>1. UNCHANGED <<kind, config, objects, tracked, deposed, fresh, call, ours, excused, stale, events>>
    BY <1>4 DEF vars
  <2>2. handlers' = handlers /\ attribute' = attribute
    BY <2>1, SameKind
  <2>3. Shows' = Shows /\ Sent' = Sent
    BY <2>1, SameCall
  <2>4. HasIdentity' = HasIdentity /\ Target' = Target /\ Applied' = Applied
    BY <2>1, <2>2, <2>3 DEF HasIdentity, Target, Applied
  <2>5. OneObject' /\ NothingIsNull' /\ PlansFit'
    BY <2>1, <2>2, <2>3 DEF Mirror, OneObject, NothingIsNull, PlansFit
  <2>6. TrackedMirrors' /\ DeposedMirrors' /\ UnsentIsKept'
    BY <2>1, <2>2, <2>3 DEF Mirror, TrackedMirrors, DeposedMirrors, UnsentIsKept, Mirrors, Tracks
  <2>7. AnswerMirrors' /\ AnswerAgrees'
    BY <2>1, <2>3, <2>4 DEF Mirror, AnswerMirrors, AnswerAgrees, Consistent, NullForUnknown
  <2> QED
    BY <2>5, <2>6, <2>7 DEF Mirror
<1> QED
  BY <1>1, <1>2, <1>3, <1>4 DEF Next

\* What the states say of the objects holds in every reachable state.
THEOREM StatesAndAnswersMirror == Spec => []Mirror
<1>1. Init => Mirror
  BY InitMirrors
<1>2. IInv /\ IInv' /\ Mirror /\ [Next]_vars => Mirror'
  BY NextMirrors
<1> QED
  BY <1>1, <1>2, ManagedResourceInvariant, PTL DEF Spec

\* Unless others changed the object, or an answer was lost or came without what only it can
\* tell, the state holds what the object has: no sequence of creations, updates, refreshes and replacements parts them.
THEOREM StatesAlwaysMirror == Spec => []StateMirrorsObject
<1>1. IInv /\ Mirror => StateMirrorsObject
  BY IdleMirrors DEF StateMirrorsObject, Mirrors
<1> QED
  BY <1>1, ManagedResourceInvariant, StatesAndAnswersMirror, PTL

\* A handler returns a result that differs from the plan only for an object that had
\* changed behind the state's back.
THEOREM ResultsAreAlwaysConsistent == Spec => []ResultsAreConsistent
<1>1. Mirror => ResultsAreConsistent
  BY DEF Mirror, AnswerAgrees, ResultsAreConsistent, Accepted
<1> QED
  BY <1>1, StatesAndAnswersMirror, PTL

=============================================================================
