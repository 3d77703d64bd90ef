-------------------------- MODULE ProjectUserLookup --------------------------
(***************************************************************************)
(* The refresh of openai_project_user: the member is sought on the cached  *)
(* first page of the project's users and, when it is not there and there   *)
(* are further pages, asked for by itself.  The cache is present with what *)
(* it promises, the register ReadAfterWrite implements; the resources that *)
(* change the collection show in it as confirmed writes, others as commits *)
(* that nobody confirms.                                                   *)
(***************************************************************************)
EXTENDS CollectionRegister, Sequences, FiniteSets

CONSTANTS
    Users,        \* numbers of users, in the order of the API's pages
    PageLimit,    \* users on a page: limit=100
    MaxVersion    \* bound: changes of a project's users

VARIABLES
    members,   \* members[k]: the users of project k, by version
    gone,      \* gone[k]: whether the API answers 404 for project k
    lookup,    \* lookup[r]: where refresh r is
    sought,    \* sought[r]: the user it refreshes
    since,     \* history: since[r], newest version confirmed when it began
    astray     \* history: astray[r], it was answered a 404 of something else

lookupVars == <<members, gone, lookup, sought, since, astray>>
allVars == <<vars, lookupVars>>

LookupInit ==
    /\ Init
    /\ members \in [Collections -> {<<m>> : m \in SUBSET Users}]
    /\ gone = [k \in Collections |-> FALSE]
    /\ lookup = [r \in Readers |-> "none"]
    /\ sought \in [Readers -> Users]
    /\ since = [r \in Readers |-> 0]
    /\ astray = [r \in Readers |-> FALSE]

MembersAt(k, version) == members[k][version + 1]
MembersNow(k) == MembersAt(k, committed[k])

\* A page: the first users, and whether there are more.
FirstPage(m) == {u \in m : Cardinality({w \in m : w < u}) < PageLimit}
HasMore(m) == Cardinality(m) > PageLimit

Ends(r, how) == lookup' = [lookup EXCEPT ![r] = how]

Begin(r, k) ==
    /\ lookup[r] \notin {"page", "fallback"}
    /\ StartRead(r, k)
    /\ sought' \in {[sought EXCEPT ![r] = u] : u \in Users}
    /\ since' = [since EXCEPT ![r] = confirmed[k]]
    /\ astray' = [astray EXCEPT ![r] = FALSE]
    /\ Ends(r, "page")
    /\ UNCHANGED <<members, gone>>

\* Mutant: who is not on the first page is no member.
NeverMore(m) == FALSE

FallbackCondition(m) == HasMore(m)

\* What is read of the page, or of the user on it, may be malformed.
PageArrives(r) ==
    /\ lookup[r] = "page"
    /\ Succeed(r)
    /\ LET m == MembersAt(target[r], result'[r].response) IN
       \/ Ends(r, IF sought[r] \in FirstPage(m) THEN "kept"
                  ELSE IF FallbackCondition(m) THEN "fallback" ELSE "dropped")
       \/ Ends(r, "error")
    /\ UNCHANGED <<members, gone, sought, since, astray>>

\* Mutant: whatever goes wrong is taken for a 404.
AnyFailure(r, there) == Ends(r, "dropped") /\ UNCHANGED astray

\* IsNotFound takes any 404 for an answer about what was asked for; it may be of a gateway
\* or of another route while the project, or the member, is there.
NotFound(r, there) ==
    /\ Ends(r, "dropped")
    /\ astray' = [astray EXCEPT ![r] = there]

PageFails(r) ==
    /\ lookup[r] = "page"
    /\ Fail(r)
    /\ \/ Ends(r, "error") /\ UNCHANGED astray
       \/ NotFound(r, ~gone[target[r]])
    /\ UNCHANGED <<members, gone, sought, since>>

\* GET /organization/projects/{project_id}/users/{user_id}
Fallback(r) ==
    /\ lookup[r] = "fallback"
    /\ LET there == ~gone[target[r]] /\ sought[r] \in MembersNow(target[r]) IN
       \/ there /\ Ends(r, "kept") /\ UNCHANGED astray
       \/ Ends(r, "error") /\ UNCHANGED astray
       \/ NotFound(r, there)
    /\ UNCHANGED <<vars, members, gone, sought, since>>

\* Somebody adds or removes a user ...
ChangeMember(k) ==
    /\ committed[k] < MaxVersion
    /\ ~gone[k]
    /\ Commit(k)
    /\ \E u \in Users :
          LET m == MembersNow(k) IN
          members' = [members EXCEPT ![k] = Append(@, IF u \in m THEN m \ {u} ELSE m \cup {u})]
    /\ UNCHANGED <<gone, lookup, sought, since, astray>>

\* ... and a resource of this provider reports that it did.
Report(k) == EndWrite(k) /\ UNCHANGED lookupVars

EndProject(k) ==
    /\ ~gone[k]
    /\ gone' = [gone EXCEPT ![k] = TRUE]
    /\ UNCHANGED <<vars, members, lookup, sought, since, astray>>

Cancel(r) == EndContext(r) /\ UNCHANGED lookupVars

LookupNext ==
    \/ \E r \in Readers : PageArrives(r) \/ PageFails(r) \/ Fallback(r) \/ Cancel(r) \/ \E k \in Collections : Begin(r, k)
    \/ \E k \in Collections : ChangeMember(k) \/ Report(k) \/ EndProject(k)

LookupSpec == LookupInit /\ [][LookupNext]_allVars

(***************************************************************************)
(* Properties                                                              *)
(***************************************************************************)

\* What happened since the refresh began or the last write before it was confirmed.
Since(r) == {MembersAt(target[r], v) : v \in since[r]..committed[target[r]]}

\* A member leaves the state only if it, or the project, really was gone, or the API
\* answered a 404 that is not about them, which the code cannot tell; and it stays only
\* if it really was there: on whatever page it is, however old the cached page, and
\* whoever changes the members between the page and the second request.
LookupsAreTrue ==
    \A r \in Readers :
        /\ lookup[r] = "dropped" => astray[r] \/ gone[target[r]] \/ \E m \in Since(r) : sought[r] \notin m
        /\ lookup[r] = "kept" => \E m \in Since(r) : sought[r] \in m

=============================================================================
