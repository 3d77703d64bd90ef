---------------------------- MODULE CachedReads ----------------------------
(***************************************************************************)
(* What reads do with answers the response cache hands them: the data      *)
(* sources with one answer (DataSourceReads), and the refresh of a project *)
(* user with a cached page and what is behind it (ProjectUserLookup).  The *)
(* two share no state and a behaviour is of one of them.                   *)
(***************************************************************************)
EXTENDS DataSourceReads, FiniteSets

CONSTANTS
    Readers, Collections,      \* of project users
    Users, PageLimit,
    MaxUserVersion             \* bound: changes of a project's users

ASSUME UsersAssumption == Users \subseteq Nat /\ IsFiniteSet(Users)
ASSUME PageLimitAssumption == PageLimit \in Nat

VARIABLES
    reader,   \* "data source" or "project user"
    committed, confirmed, latest, reading, live, target, response, members, gone, lookup, sought, since, astray

userVars == <<committed, confirmed, latest, reading, live, target, response, members, gone, lookup, sought, since, astray>>

ProjectUsers == INSTANCE ProjectUserLookup WITH result <- response, MaxVersion <- MaxUserVersion

NoDataSource ==
    /\ clients = {} /\ source = <<>> /\ arg = <<>> /\ wanted = <<>> /\ held = <<>>
    /\ remote = <<>> /\ cache = {}
    /\ phase = <<>> /\ answer = <<>> /\ result = <<>> /\ shown = <<>>

NoProjectUser ==
    /\ committed = None /\ confirmed = None /\ latest = None /\ reading = None /\ live = None
    /\ target = None /\ response = None /\ members = None /\ gone = None /\ lookup = None
    /\ sought = None /\ since = None /\ astray = None

ReadsInit ==
    \/ reader = "data source" /\ Init /\ NoProjectUser
    \/ reader = "project user" /\ NoDataSource /\ ProjectUsers!LookupInit

ReadsNext ==
    \/ reader = "data source" /\ Next /\ UNCHANGED <<reader, userVars>>
    \/ reader = "project user" /\ ProjectUsers!LookupNext /\ UNCHANGED <<reader, vars>>

ReadsSpec == ReadsInit /\ [][ReadsNext]_<<reader, vars, userVars>>

(***************************************************************************)
(* Properties, besides AnswersAreOwn and StatesAreWholeAnswers             *)
(***************************************************************************)

\* ProjectUserLookup: a member leaves the state only if it, or the project, really was gone
\* or a 404 that is not about them was answered, and stays only if it really was there, on whatever page, however old the cached one.
LookupsAreTrue == reader = "project user" => ProjectUsers!LookupsAreTrue

=============================================================================
