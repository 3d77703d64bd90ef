------------------------ MODULE ReleaseVerification ------------------------
(***************************************************************************)
(* The two commands of the release verifier: without --publish it verifies *)
(* and signs what a build left in dist, with --publish it verifies and     *)
(* publishes a draft release.  They share no state, so a behaviour is of   *)
(* one of them, and the other is idle.                                     *)
(***************************************************************************)
EXTENDS ReleaseSigning, ReleasePublication

VARIABLE command   \* "sign" or "publish"

runVars == <<command, vars, draftVars>>

IdleSigning ==
    /\ pc = "idle"
    /\ disk = None /\ sums = None /\ sbomSums = None /\ sig = None /\ sbomSig = None
    /\ manifest = None /\ found = None /\ snapshot = None /\ verified = None /\ published = None
    /\ leftover = None /\ changes = None /\ runs = None

IdlePublication ==
    /\ draftPc = "idle" /\ public = "idle"
    /\ draft = None /\ lists = None /\ nextId = None /\ assets = None /\ checked = None /\ late = None
    /\ draftChanges = None

RunInit ==
    \/ command = "sign" /\ Init /\ IdlePublication
    \/ command = "publish" /\ DraftInit /\ IdleSigning

RunSigning     == command = "sign" /\ Next /\ UNCHANGED <<command, draftVars>>
RunPublication == command = "publish" /\ DraftNext /\ UNCHANGED <<command, vars>>

RunNext == RunSigning \/ RunPublication

RunSpec == RunInit /\ [][RunNext]_runVars

=============================================================================
