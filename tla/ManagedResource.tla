-------------------------- MODULE ManagedResource --------------------------
(***************************************************************************)
(* The life of one managed resource: the handlers Create, Read, Update,    *)
(* Delete and ImportState of a resource, driven by Terraform, against an   *)
(* API whose answers get lost or arrive damaged and whose objects others   *)
(* change.                                                                 *)
(*                                                                         *)
(* The handlers of the thirty resources are generated from one pattern and *)
(* differ in a few choices.  A kind is such a choice together with one     *)
(* attribute of the resource, the one that is followed here; the module    *)
(* Resources lists them.  Terraform (planning, tainting, deposed objects,  *)
(* its check of the results) and the API are the environment.              *)
(***************************************************************************)
EXTENDS Integers, FiniteSets

CONSTANTS
    Kinds,          \* set of [handlers, attribute]
    Values,         \* what the attribute may be set to
    Default,        \* the value of its schema default, if it has one
    Null, Unknown, Omitted,
    Absent,         \* the configuration does not mention the resource
    MaxObjects,     \* bound: objects that ever exist at the API
    MaxRetries,     \* bound: how often a request is repeated
    MaxEvents       \* bound: faults, changes by others, changes of the configuration

ASSUME DefaultAssumption == Default \in Values
ASSUME BoundsAssumption == MaxObjects \in Nat \ {0} /\ MaxRetries \in Nat /\ MaxEvents \in Nat

Ids == 1..MaxObjects
NoId == 0
Known == Values \cup {Null}

Create == {"post", "put", "unsupported"}        \* a new object, an object at a known path
Handlers == [create : Create, read : {"get", "list", "page"}, missing : {"any404", "message"},
             update : {"post", "unsupported"}, remove : {"delete", "archive", "forget"},
             retried : SUBSET {"create", "update", "delete"}, identity : BOOLEAN, guarded : BOOLEAN]
Attributes == [mode : {"required", "optional", "optionalComputed", "defaulted", "computed", "none"},
               replace : BOOLEAN, keep : BOOLEAN,
               create : {"value", "no"}, update : {"value", "nullable", "no"},
               shown : SUBSET {"create", "read", "update"}, demanded : BOOLEAN]

ASSUME KindsAssumption == Kinds \subseteq [handlers : Handlers, attribute : Attributes]

\* What the thirty resources have in common: who posts to a collection, or checks what it
\* reads, is told the object's identifier; settings are not posted to a collection; and
\* who reads the message of a 404 gets one object and deletes it.
ASSUME HandlersAssumption ==
    \A k \in Kinds :
        /\ k.handlers.create = "post" \/ k.handlers.guarded => k.handlers.identity
        /\ k.handlers.remove = "forget" => k.handlers.create # "post" /\ k.handlers.missing = "any404"
        /\ k.handlers.read = "list" => k.handlers.missing = "any404"

\* What only Create shows is computed, and kept by UseStateForUnknown.
ASSUME ShownOnceAssumption ==
    \A k \in Kinds : k.attribute.shown = {"create"} => k.attribute.mode = "computed" /\ k.attribute.keep

\* What is optional can be cleared, and belongs to objects that Create makes; what Create
\* or Update does not send is computed or replaces the object; and a handler that does not
\* take the attribute from its answer has it from the request, or it is fixed.
ASSUME AttributesAssumption ==
    \A k \in Kinds :
        LET a == k.attribute IN
        /\ a.mode = "none" => a.shown = {}
        /\ a.mode = "optional" => k.handlers.create = "post" /\ a.update # "value"
        /\ a.create = "no" => a.mode \in {"computed", "none"}
        /\ a.update = "no" => a.replace \/ a.mode \in {"computed", "none"}
        /\ "create" \notin a.shown => a.mode \in {"required", "optional", "none"}
        /\ "update" \notin a.shown => a.mode \in {"required", "optional", "none"} \/ (a.mode = "computed" /\ a.keep)

ASSUME UnknownAssumption == Values \cap {Null, Unknown, Omitted} = {} /\ Null \notin {Unknown, Omitted, Absent}

VARIABLES
    kind,       \* which resource and which of its attributes this is
    config,     \* the attribute in the configuration, or Absent
    objects,    \* the objects at the API
    tracked,    \* Terraform's state of the resource
    deposed,    \* what create_before_destroy has replaced and not yet destroyed
    fresh,      \* the state was refreshed after the last change
    call,       \* the handler that runs
    ours,       \* history: objects that Create made
    excused,    \* history: objects given up for a reason that was reported or is accepted
    stale,      \* history: objects whose attribute may differ from the state
    events

terraform == <<config, tracked, deposed, fresh>>
history == <<ours, excused, stale>>
vars == <<kind, config, objects, tracked, deposed, fresh, call, ours, excused, stale, events>>

handlers == kind.handlers
attribute == kind.attribute

States == [id : {NoId} \cup Ids, value : Known, tainted : BOOLEAN]
NoState == [id |-> NoId, value |-> Null, tainted |-> FALSE]
Tracks(s) == s.id # NoId

Replies == [status : {"ok", "missing", "foreign", "error", "none"}, id : {NoId} \cup Ids,
            value : Known \cup {Omitted}, whole : BOOLEAN, compatible : BOOLEAN]
Failure(status) == [status |-> status, id |-> NoId, value |-> Omitted, whole |-> FALSE, compatible |-> TRUE]
Pending == Failure("none")

Idle == [op |-> "none", at |-> "idle", id |-> NoId, prior |-> Null, plan |-> Null,
         swap |-> FALSE, tries |-> 0, made |-> {}, drifted |-> FALSE, turned |-> FALSE, answered |-> FALSE, reply |-> Pending]

Spend == events < MaxEvents /\ events' = events + 1

(***************************************************************************)
(* Terraform                                                               *)
(***************************************************************************)

Configs ==
    {Absent} \cup CASE attribute.mode = "required" -> Values
                    [] attribute.mode \in {"computed", "none"} -> {Null}
                    [] OTHER                       -> Known

\* The values the attribute has at the API.
Remote == CASE attribute.mode = "optional" -> Known
            [] attribute.mode = "none"     -> {Null}
            [] OTHER                       -> Values

ComputedHere == attribute.mode \in {"optionalComputed", "computed"} /\ config = Null

\* The planned value: the configured one, the default, or the provider's to tell.
Proposed(unset) ==
    IF config # Null THEN config
    ELSE CASE attribute.mode = "defaulted" -> Default
           [] ComputedHere                 -> unset
           [] OTHER                        -> Null

Differs == Proposed(tracked.value) # tracked.value
MustReplace == tracked.tainted \/ (Differs /\ attribute.replace)
IdleHere == call.at = "idle"
Reading == call.op \in {"read", "import"}
Deleting == call.op \in {"delete", "destroy"}

\* Terraform accepts a result that leaves nothing unknown and that agrees with
\* what was planned.
Consistent(value) == value # Unknown /\ call.plan \in {Unknown, value}

Init ==
    /\ kind \in Kinds
    /\ config \in Configs
    /\ \E v \in Known, theirs \in BOOLEAN, c \in BOOLEAN :
          /\ v \in Remote
          /\ handlers.remove = "forget" => theirs
          /\ ~handlers.guarded => c
          /\ objects = [id \in Ids |-> [status |-> IF id = 1 /\ theirs THEN "live" ELSE "none",
                                        value |-> IF id = 1 /\ theirs THEN v ELSE Null,
                                        compatible |-> id # 1 \/ c]]
    /\ tracked = NoState /\ deposed = NoState /\ fresh = FALSE
    /\ call = Idle
    /\ ours = {} /\ excused = {} /\ stale = {}
    /\ events = 0

ChangeConfig ==
    /\ Spend
    /\ config' \in Configs \ {config}
    /\ IdleHere
    /\ UNCHANGED <<kind, objects, tracked, deposed, fresh, call, history>>

\* terraform taint, or apply -replace.
Taint ==
    /\ Spend
    /\ IdleHere /\ Tracks(tracked)
    /\ tracked' = [tracked EXCEPT !.tainted = TRUE]
    /\ UNCHANGED <<kind, config, objects, deposed, fresh, call, history>>

Begin(op, at, id, prior, plan) ==
    /\ IdleHere
    /\ call' = [Idle EXCEPT !.op = op, !.at = at, !.id = id, !.prior = prior, !.plan = plan]
    /\ UNCHANGED <<kind, config, objects, history>>

(***************************************************************************)
(* What the handlers send                                                  *)
(***************************************************************************)

\* AddStringBodyField and its like leave out what is null or unknown.
ValueField(plan) == IF plan \in {Null, Unknown} THEN Omitted ELSE plan

\* Mutant: what is to be cleared is left out, as on creation.
LeftOutField(plan, prior) == ValueField(plan)

\* AddNullableStringBodyFieldForUpdate sends null for what is to be cleared.
NullableField(plan, prior) ==
    CASE plan = Unknown                  -> Omitted
      [] plan = Null /\ prior = Null     -> Omitted
      [] OTHER                           -> plan

Sent ==
    LET field == IF call.op = "create" THEN attribute.create ELSE attribute.update
    IN  CASE field = "no"       -> Omitted
          [] field = "value"    -> ValueField(call.plan)
          [] field = "nullable" -> NullableField(call.plan, call.prior)

\* Mutant: the answer only fills in what is unknown.
FilledIn ==
    IF call.plan # Unknown THEN call.plan
    ELSE IF call.reply.value # Omitted THEN call.reply.value ELSE Null

\* The Apply...ResponseField functions: an answer without the field leaves what
\* is known, and makes null of what is not.
Shows == (IF Reading THEN "read" ELSE call.op) \in attribute.shown

\* Mutant: a field that the answer leaves out becomes null.
NulledIfMissing == IF Shows /\ call.reply.value # Omitted THEN call.reply.value ELSE Null

Applied ==
    CASE Shows /\ call.reply.value # Omitted                         -> call.reply.value
      [] Shows /\ call.reply.value = Omitted /\ call.plan = Unknown  -> Null
      [] OTHER                                                        -> call.plan

(***************************************************************************)
(* Terraform calls a handler                                               *)
(***************************************************************************)

ReadAt == IF handlers.read = "page" THEN "page" ELSE "main"

\* Mutant: Delete does not read what it deletes.
DeleteUnread == "main"

DeleteAt == IF handlers.guarded THEN "check" ELSE "main"

StartCreate ==
    /\ handlers.create # "unsupported"
    /\ config # Absent
    /\ ~Tracks(tracked)
    /\ Begin("create", "main", IF handlers.create = "put" THEN 1 ELSE NoId, Null, Proposed(Unknown))
    /\ fresh' = FALSE
    /\ UNCHANGED <<tracked, deposed, events>>

\* create_before_destroy: the old object is deposed until its replacement is there.
StartReplacement ==
    /\ handlers.create # "unsupported"
    /\ config # Absent
    /\ Tracks(tracked) /\ MustReplace /\ ~Tracks(deposed)
    /\ IdleHere
    /\ call' = [Idle EXCEPT !.op = "create", !.at = "main", !.swap = TRUE, !.plan = Proposed(Unknown),
                            !.id = IF handlers.create = "put" THEN 1 ELSE NoId]
    /\ deposed' = tracked /\ tracked' = NoState /\ fresh' = FALSE
    /\ UNCHANGED <<kind, config, objects, history, events>>

StartUpdate ==
    /\ handlers.update = "post"
    /\ config # Absent
    /\ Tracks(tracked) /\ Differs /\ ~MustReplace
    /\ Begin("update", "main", tracked.id, tracked.value, Proposed(tracked.value))
    /\ fresh' = FALSE
    /\ UNCHANGED <<tracked, deposed, events>>

\* Another attribute changes: what the provider computes may change with it,
\* unless UseStateForUnknown keeps it.
StartUpdateOfAnother ==
    /\ Spend
    /\ handlers.update = "post"
    /\ config # Absent
    /\ Tracks(tracked) /\ ~Differs /\ ~MustReplace
    /\ Begin("update", "main", tracked.id, tracked.value,
             Proposed(IF attribute.keep THEN tracked.value ELSE Unknown))
    /\ fresh' = FALSE
    /\ UNCHANGED <<tracked, deposed>>

StartRead ==
    /\ Tracks(tracked) /\ ~fresh
    /\ Begin("read", ReadAt, tracked.id, tracked.value, tracked.value)
    /\ UNCHANGED <<tracked, deposed, fresh, events>>

\* ImportState splits the identifier into the state; Terraform reads it at once.
StartImport ==
    /\ Spend
    /\ config # Absent
    /\ ~Tracks(tracked) /\ ~Tracks(deposed)
    /\ \E id \in Ids : objects[id].status # "none" /\ Begin("import", ReadAt, id, Null, Null)
    /\ UNCHANGED <<tracked, deposed, fresh>>

StartDelete ==
    /\ handlers.remove # "forget"
    /\ Tracks(tracked) /\ (config = Absent \/ MustReplace)
    /\ Begin("delete", DeleteAt, tracked.id, tracked.value, Null)
    /\ fresh' = FALSE
    /\ UNCHANGED <<tracked, deposed, events>>

StartDestroyDeposed ==
    /\ handlers.remove # "forget"
    /\ Tracks(deposed)
    /\ Begin("destroy", DeleteAt, deposed.id, deposed.value, Null)
    /\ fresh' = FALSE
    /\ UNCHANGED <<tracked, deposed, events>>

\* A Delete that sends nothing.
Forget ==
    /\ handlers.remove = "forget"
    /\ IdleHere
    /\ \/ Tracks(tracked) /\ (config = Absent \/ MustReplace) /\ tracked' = NoState /\ UNCHANGED deposed
       \/ Tracks(deposed) /\ deposed' = NoState /\ UNCHANGED tracked
    /\ fresh' = FALSE
    /\ UNCHANGED <<kind, config, objects, call, history, events>>

(***************************************************************************)
(* The API                                                                 *)
(***************************************************************************)

Waiting == call.at # "idle" /\ ~call.answered

Respond(reply, made) ==
    call' = [call EXCEPT !.reply = reply, !.answered = TRUE, !.made = @ \cup made,
                         !.drifted = @ \/ call.id \in stale]

\* Whether an answer with this value leaves state and object with the same one: it is
\* taken from the answer, or it is what the request set.
Reveals(value) ==
    \/ Shows /\ value # Omitted
    \/ call.op = "create" /\ call.plan # Unknown
    \/ call.op = "update" /\ Sent # Omitted

\* Without it, what the state knows stays as it was, and the rest becomes null; what an
\* earlier answer to this request told may have been lost.
Revealed(id, value) ==
    stale' = IF Reveals(value) THEN stale \ {id}
             ELSE IF call.op = "import" \/ call.plan = Unknown \/ call.drifted THEN stale \cup {id}
             ELSE stale

Good(id, value, compatible) ==
    [status |-> "ok", id |-> id, value |-> value, whole |-> TRUE, compatible |-> compatible]

\* Answers with a field of the wrong type or without one that is demanded, without
\* the identifier, or about another object; the last for the handlers that check it.
Damaged(id, value, compatible) ==
    LET good == Good(id, value, compatible)
    IN  {[good EXCEPT !.whole = FALSE]}
        \cup (IF handlers.identity /\ call.at # "page" THEN {[good EXCEPT !.id = NoId]} ELSE {})
        \cup (IF handlers.guarded THEN {[good EXCEPT !.compatible = FALSE]} ELSE {})
        \cup (IF handlers.guarded /\ (Reading \/ call.at = "check")
              THEN {[good EXCEPT !.id = other] : other \in {i \in Ids \ {id} : objects[i].status = "live"}}
              ELSE {})

\* Any answer that need not have the attribute may come without it; one that would tell
\* the handler nothing new is no fault of the API.
AnswerWith(id, value, compatible, made) ==
    \/ /\ Respond(Good(id, value, compatible), made)
       /\ Revealed(id, value)
       /\ UNCHANGED events
    \/ /\ Shows /\ ~attribute.demanded
       /\ Respond(Good(id, Omitted, compatible), made)
       /\ Revealed(id, Omitted)
       /\ IF call.plan = value /\ id \notin stale THEN UNCHANGED events ELSE Spend
    \/ /\ Spend
       /\ \E reply \in Damaged(id, value, compatible) : Respond(reply, made)
       /\ Revealed(id, value)

\* What the attribute becomes when the request leaves it out.
Unsent(id) ==
    IF objects[id].status = "live" /\ ~(attribute.mode = "computed" /\ ~attribute.keep)
    THEN {objects[id].value}
    ELSE IF attribute.mode \in {"optionalComputed", "computed"} THEN Values ELSE {Null}

Stored(id) == IF Sent = Omitted THEN Unsent(id) ELSE {Sent}

NewIds == {id \in Ids : objects[id].status = "none" /\ \A i \in 1..(id - 1) : objects[i].status # "none"}

\* A POST to a collection makes an object each time; a POST to a known path
\* makes it or changes it.
CreateTargets ==
    IF handlers.create = "post" THEN NewIds
    ELSE IF handlers.remove = "forget" /\ objects[1].status # "live" THEN {} ELSE {1}

ServeCreate ==
    /\ Waiting /\ call.op = "create"
    /\ \E id \in CreateTargets : \E v \in Stored(id) :
          LET made == IF objects[id].status = "live" THEN {} ELSE {id}
          IN  /\ objects' = [objects EXCEPT ![id] = [status |-> "live", value |-> v, compatible |-> TRUE]]
              /\ ours' = ours \cup made
              /\ AnswerWith(id, v, TRUE, made)
    /\ UNCHANGED <<kind, terraform, excused>>

ServeUpdate ==
    /\ Waiting /\ call.op = "update"
    /\ objects[call.id].status = "live"
    /\ \E v \in Stored(call.id) :
          /\ objects' = [objects EXCEPT ![call.id].value = v]
          /\ AnswerWith(call.id, v, TRUE, {})
    /\ UNCHANGED <<kind, terraform, ours, excused>>

ServeDelete ==
    /\ Waiting /\ Deleting /\ call.at = "main"
    /\ objects[call.id].status \in {"live", "archived"}
    /\ objects' = [objects EXCEPT ![call.id].status = IF handlers.remove = "archive" THEN "archived" ELSE "gone"]
    /\ Respond(Good(call.id, objects[call.id].value, TRUE), {})
    /\ UNCHANGED <<kind, terraform, history, events>>

\* The list of projects includes the archived ones.
ServeRead ==
    /\ Waiting /\ (Reading \/ call.at = "check")
    /\ objects[call.id].status \in {"live", "archived"}
    /\ AnswerWith(call.id, objects[call.id].value, objects[call.id].compatible, {})
    /\ UNCHANGED <<kind, objects, terraform, ours, excused>>

\* The first page does not show the object, and there are more.
ServePageWithoutObject ==
    /\ Waiting /\ call.at = "page"
    /\ call' = [call EXCEPT !.at = "main", !.tries = 0]
    /\ UNCHANGED <<kind, objects, terraform, history, events>>

ServeMissing ==
    /\ Waiting
    /\ IF call.op = "create" THEN handlers.create = "put" /\ CreateTargets = {}
       ELSE objects[call.id].status = "gone"
    /\ Respond(Failure("missing"), {})
    /\ UNCHANGED <<kind, objects, terraform, history, events>>

\* An archived project is not updated.
RefuseArchived ==
    /\ Waiting /\ call.op = "update"
    /\ objects[call.id].status = "archived"
    /\ Respond(Failure("error"), {})
    /\ UNCHANGED <<kind, objects, terraform, history, events>>

\* Any request may be refused, or get a 404 that is not about its object.
Refuse ==
    /\ Waiting
    /\ Spend
    /\ \E status \in {"foreign", "error"} : Respond(Failure(status), {})
    /\ UNCHANGED <<kind, objects, terraform, history>>

\* A request or its answer is lost; Request sends it again, RequestWithoutRetries
\* does not, nor does Request when its retries are used up.
Retried ==
    \/ Reading \/ call.at = "check"
    \/ (IF Deleting THEN "delete" ELSE call.op) \in handlers.retried

Lose ==
    /\ Spend
    /\ call.at # "idle"
    /\ call' = IF Retried /\ call.tries < MaxRetries
               THEN [call EXCEPT !.tries = @ + 1, !.answered = FALSE, !.reply = Pending]
               ELSE [call EXCEPT !.answered = TRUE, !.reply = Failure("none")]
    /\ UNCHANGED <<kind, objects, terraform, history>>

\* Others set the attribute, delete or archive the object, or change what it is. The
\* last is noted when it happens after Delete was told what the object is.
ChangedByOthers ==
    /\ Spend
    /\ \E id \in Ids :
          /\ objects[id].status = "live"
          /\ \/ /\ \E v \in Remote \ {objects[id].value} :
                       objects' = [objects EXCEPT ![id].value = v]
                /\ UNCHANGED call
             \/ /\ \E status \in {"gone"} \cup (IF handlers.remove = "archive" THEN {"archived"} ELSE {}) :
                       objects' = [objects EXCEPT ![id].status = status]
                /\ UNCHANGED call
             \/ /\ handlers.guarded
                /\ objects' = [objects EXCEPT ![id].compatible = ~@]
                /\ call' = [call EXCEPT !.turned = @ \/ (Deleting /\ call.id = id /\ (call.at = "main" \/ call.answered))]
          /\ stale' = stale \cup {id}
    /\ fresh' = FALSE
    /\ UNCHANGED <<kind, config, tracked, deposed, ours, excused>>

(***************************************************************************)
(* The handler gets its answer and returns                                 *)
(***************************************************************************)

Returning(ops) == call.at # "idle" /\ call.answered /\ call.op \in ops
Finish == call' = Idle

\* Mutant: IsNotFound in place of IsNotFoundMessage.
IsAny404 ==
    \/ call.reply.status \in {"missing", "foreign"}
    \/ call.reply.status = "ok" /\ Reading /\ handlers.read = "list" /\ call.reply.id # call.id

\* Mutant: Delete reports the 404 of an object that is already gone.
IsMissingOnRead ==
    /\ Reading
    /\ \/ call.reply.status = "missing"
       \/ call.reply.status = "foreign" /\ handlers.missing = "any404"
       \/ call.reply.status = "ok" /\ handlers.read = "list" /\ call.reply.id # call.id

\* IsNotFound takes every 404, IsNotFoundMessage only the one about this object;
\* in a list the object is looked up by its identifier.
IsMissing ==
    \/ call.reply.status = "missing"
    \/ call.reply.status = "foreign" /\ handlers.missing = "any404"
    \/ call.reply.status = "ok" /\ Reading /\ handlers.read = "list" /\ call.reply.id # call.id

HasIdentity == handlers.identity => call.reply.id # NoId
Target == IF handlers.identity THEN call.reply.id ELSE call.id

\* Mutant: the discriminators are not looked at.
AcceptedAsAnyType == call.reply.status = "ok" /\ HasIdentity /\ call.reply.whole

\* Every field has its type, and the discriminators are those of the resource.
Accepted ==
    /\ call.reply.status = "ok" /\ HasIdentity /\ call.reply.whole
    /\ handlers.guarded => call.reply.compatible

\* Mutant: the identifier of the answer is taken as it is.
AnyIdentity == TRUE

SameIdentity == handlers.guarded => Target = call.id
\* Mutant: what is still unknown is saved as it is.
UnknownAsItIs(value) == value

NullForUnknown(value) == IF value = Unknown THEN Null ELSE value
Excuse(ids) == excused' = excused \cup ids
Suspect(ids) == stale' = stale \cup (ids \cap Ids)

\* What a request that was repeated made in vain is nobody's.
CreateAccepted ==
    /\ Accepted
    /\ tracked' = [id |-> Target, value |-> NullForUnknown(Applied), tainted |-> ~Consistent(Applied)]
    /\ Excuse(IF "create" \in handlers.retried THEN call.made \ {Target} ELSE {})
    /\ Suspect({})
    /\ UNCHANGED deposed

\* Mutant: the error is reported, and nothing is saved.
CreateUnrecovered ==
    /\ handlers.guarded
    /\ call.reply.status = "ok" /\ HasIdentity /\ ~Accepted
    /\ tracked' = IF call.swap THEN deposed ELSE NoState
    /\ deposed' = IF call.swap THEN NoState ELSE deposed
    /\ UNCHANGED <<excused, stale>>

\* A guarded Create saves what it has once it knows the identifier, the fields that it
\* had taken by then and the type and purpose it is for, and reports the error: Terraform
\* taints the object.
CreateRecovered ==
    /\ handlers.guarded
    /\ call.reply.status = "ok" /\ HasIdentity /\ ~Accepted
    /\ \E value \in {call.plan, Applied} :
          tracked' = [id |-> Target, value |-> NullForUnknown(value), tainted |-> TRUE]
    /\ Excuse(IF "create" \in handlers.retried THEN call.made \ {Target} ELSE {})
    /\ Suspect({Target})
    /\ UNCHANGED deposed

\* Otherwise nothing is saved; Terraform takes a deposed object back.
CreateFailed ==
    /\ ~Accepted
    /\ ~(handlers.guarded /\ call.reply.status = "ok" /\ HasIdentity)
    /\ tracked' = IF call.swap THEN deposed ELSE NoState
    /\ deposed' = IF call.swap THEN NoState ELSE deposed
    /\ Excuse(call.made)
    /\ Suspect({call.id})

ReturnCreate ==
    /\ Returning({"create"})
    /\ CreateAccepted \/ CreateRecovered \/ CreateFailed
    /\ Finish
    /\ UNCHANGED <<kind, config, objects, fresh, ours, events>>

ReadAccepted ==
    /\ ~IsMissing /\ Accepted /\ SameIdentity
    /\ tracked' = [id |-> Target, value |-> NullForUnknown(Applied), tainted |-> tracked.tainted]
    /\ fresh' = (objects[Target].status # "gone" /\ (Shows => Target \notin stale))
    /\ UNCHANGED <<excused, stale>>

ReadMissing ==
    /\ IsMissing
    /\ tracked' = NoState
    /\ fresh' = TRUE
    /\ Excuse(IF call.reply.status = "missing" THEN {} ELSE {call.id})
    /\ Suspect({call.id})

ReadFailed ==
    /\ ~IsMissing /\ ~(Accepted /\ SameIdentity)
    /\ Suspect({call.id})
    /\ UNCHANGED <<tracked, fresh, excused>>

ReturnRead ==
    /\ Returning({"read", "import"})
    /\ ReadAccepted \/ ReadMissing \/ ReadFailed
    /\ Finish
    /\ UNCHANGED <<kind, config, objects, deposed, ours, events>>

ReturnUpdate ==
    /\ Returning({"update"})
    /\ IF Accepted
       THEN tracked' = [tracked EXCEPT !.value = NullForUnknown(Applied)] /\ Suspect({})
       ELSE Suspect({call.id}) /\ UNCHANGED tracked
    /\ Finish
    /\ UNCHANGED <<kind, config, objects, deposed, fresh, ours, excused, events>>

Removed ==
    /\ IF call.op = "destroy" THEN deposed' = NoState /\ UNCHANGED tracked
                              ELSE tracked' = NoState /\ UNCHANGED deposed
    /\ Excuse(IF call.reply.status = "foreign" THEN {call.id} ELSE {})

\* A guarded Delete reads the object before it deletes it.
ReturnCheck ==
    /\ Returning({"delete", "destroy"}) /\ call.at = "check"
    /\ \/ IsMissing /\ Removed /\ Finish
       \/ /\ ~IsMissing /\ Accepted /\ SameIdentity
          /\ call' = [call EXCEPT !.at = "main", !.answered = FALSE, !.tries = 0, !.reply = Pending]
          /\ UNCHANGED <<tracked, deposed, excused>>
       \/ /\ ~IsMissing /\ ~(Accepted /\ SameIdentity)
          /\ Finish
          /\ UNCHANGED <<tracked, deposed, excused>>
    /\ UNCHANGED <<kind, config, objects, fresh, ours, stale, events>>

ReturnDelete ==
    /\ Returning({"delete", "destroy"}) /\ call.at = "main"
    /\ IF IsMissing \/ call.reply.status = "ok" THEN Removed ELSE UNCHANGED <<tracked, deposed, excused>>
    /\ Finish
    /\ UNCHANGED <<kind, config, objects, fresh, ours, stale, events>>

Terraform ==
    \/ StartCreate \/ StartReplacement \/ StartUpdate \/ StartRead
    \/ StartDelete \/ StartDestroyDeposed \/ Forget

API ==
    \/ ServeCreate \/ ServeUpdate \/ ServeDelete \/ ServeRead
    \/ ServePageWithoutObject \/ ServeMissing \/ RefuseArchived

Return == ReturnCreate \/ ReturnRead \/ ReturnUpdate \/ ReturnCheck \/ ReturnDelete

Next ==
    \/ Terraform \/ ChangeConfig \/ Taint \/ StartUpdateOfAnother \/ StartImport
    \/ API \/ Refuse \/ Lose \/ ChangedByOthers
    \/ Return

Spec == Init /\ [][Next]_vars

\* Terraform is applied again until there is nothing to do, and not forever without
\* a refresh; the API answers, and the handlers return; faults and changes by others
\* end after MaxEvents.
Fairness == WF_vars(Terraform) /\ SF_vars(StartRead) /\ WF_vars(API) /\ WF_vars(Return)

FairSpec == Spec /\ Fairness

(***************************************************************************)
(* Properties                                                              *)
(***************************************************************************)

Calls == [op : {"none", "create", "read", "import", "update", "delete", "destroy"},
          at : {"idle", "check", "page", "main"}, id : {NoId} \cup Ids,
          prior : Known, plan : Known \cup {Unknown}, swap : BOOLEAN, tries : 0..MaxRetries,
          made : SUBSET Ids, drifted : BOOLEAN, turned : BOOLEAN, answered : BOOLEAN, reply : Replies]

\* Every variable has its type.
TypeOK ==
    /\ kind \in Kinds
    /\ config \in Known \cup {Absent}
    /\ objects \in [Ids -> [status : {"none", "live", "archived", "gone"}, value : Known, compatible : BOOLEAN]]
    /\ tracked \in States /\ deposed \in States
    /\ fresh \in BOOLEAN
    /\ call \in Calls
    /\ ours \subseteq Ids /\ excused \subseteq Ids /\ stale \subseteq Ids
    /\ events \in 0..MaxEvents

\* An object that Create made stays in Terraform's state, as the resource or as
\* deposed, while it is alive; the exceptions are reported to the user (a Create
\* that failed, a 404 of another route taken for the object's) or are the price of
\* repeating a POST. No interleaving of failures, replacements and refreshes loses one.
NothingIsForgotten ==
    \A id \in ours \ excused :
        objects[id].status = "live" => id \in {tracked.id, deposed.id} \cup call.made

\* A resource that tells its own 404 from others, by the message, leaves the
\* state on a refresh or a deletion only when its object is really gone.
LeavesStateOnlyWhenGone ==
    [][ \A id \in Ids :
            /\ handlers.missing = "message"
            /\ id \in {tracked.id, deposed.id}
            /\ id \notin {tracked'.id, deposed'.id}
            => objects[id].status # "live" ]_vars

\* The handlers that check the discriminators ask for the deletion of no object that is
\* not of their own kind, whatever became of it since it was made, imported or read: only
\* a change after Delete was told what the object is goes unseen.
OnlyCompatibleIsDeleted ==
    handlers.guarded /\ Deleting /\ call.at = "main" => objects[call.id].compatible \/ call.turned

\* A value that only Create's answer shows, a webhook's signing secret, stays in the
\* state through every refresh and update of the object.
ShownOnceIsPreserved ==
    [][ attribute.shown = {"create"} /\ tracked'.id = tracked.id => tracked'.value = tracked.value ]_vars

\* Unless others changed the object since an answer last showed it, or an answer was lost
\* or came without what only it can tell, the state holds the attribute's value at the API.
StateMirrorsObject ==
    IdleHere /\ Tracks(tracked) /\ tracked.id \notin stale
        => tracked.value = objects[tracked.id].value

\* Terraform refuses a result that differs from the plan. The handlers return one
\* only for an object that had changed behind the state's back.
ResultsAreConsistent ==
    call.answered /\ call.op \in {"create", "update"} /\ Accepted
        => Consistent(Applied) \/ call.drifted

\* Users are not created, settings need the project they belong to, an archived project
\* is not updated, and what became another kind of object is neither read nor deleted.
Hopeless ==
    \/ /\ config # Absent /\ ~Tracks(tracked)
       /\ handlers.create = "unsupported" \/ (handlers.remove = "forget" /\ objects[1].status # "live")
    \/ config # Absent /\ Tracks(tracked) /\ objects[tracked.id].status = "archived"
    \/ \E s \in {tracked, deposed} :
          handlers.guarded /\ Tracks(s) /\ objects[s.id].status = "live" /\ ~objects[s.id].compatible

\* The object is there, with what the configuration asks for as far as the API
\* shows it, and nothing is left to do.
Settled ==
    /\ IdleHere /\ ~Tracks(deposed)
    /\ \/ config = Absent /\ ~Tracks(tracked)
       \/ /\ config # Absent
          /\ Tracks(tracked) /\ ~Differs /\ ~tracked.tainted
          /\ objects[tracked.id].status = "live"
          /\ "read" \in attribute.shown => objects[tracked.id].value = tracked.value

\* Applied again and again, every resource reaches its configuration, at the API
\* too: no sequence of failures, drift and replacements leaves it where each plan
\* shows the same change, or where no plan shows one that is needed.
Converges == <>[](Settled \/ Hopeless)
=============================================================================
