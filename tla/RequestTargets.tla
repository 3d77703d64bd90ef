--------------------------- MODULE RequestTargets ---------------------------
(***************************************************************************)
(* Where a request goes: the origin with the key it carries                *)
(* (ProviderConfiguration) and the path (RequestPaths).  The two share no  *)
(* state and a behaviour is about one of them; what belongs to the other   *)
(* stays as it began.                                                      *)
(***************************************************************************)
EXTENDS ProviderConfiguration, RequestPaths

VARIABLE target   \* "origin" or "path"

NoOrigin ==
    /\ attribute = [a \in Audiences |-> "null"]
    /\ environment = [a \in Audiences |-> "blank"]
    /\ baseURL = None /\ pc = "new" /\ warned = FALSE
    /\ clients = [a \in {} |-> None] /\ request = None

NoPath ==
    /\ route = None /\ named = None /\ imported = FALSE /\ values = None
    /\ pending = None /\ path = None /\ pathPc = None

TargetInit ==
    \/ target = "origin" /\ Init /\ NoPath
    \/ target = "path" /\ NoOrigin /\ PathInit

TargetNext ==
    \/ target = "origin" /\ Next /\ UNCHANGED <<target, pathVars>>
    \/ target = "path" /\ PathNext /\ UNCHANGED <<target, vars>>

targetVars == <<target, vars, pathVars>>

TargetSpec == TargetInit /\ [][TargetNext]_targetVars

=============================================================================
