---------------------------- MODULE RequestParts ----------------------------
(***************************************************************************)
(* The parts of a request, which share no state: where it goes             *)
(* (RequestTargets) and the body sent and read back (AttributeRoundTrip).  *)
(* A behaviour is about one part; what belongs to the other stays as it    *)
(* began.                                                                  *)
(***************************************************************************)
EXTENDS RequestTargets, AttributeRoundTrip

NoBody ==
    /\ kind = None /\ bodyPc = "none" /\ config = None /\ planned = None /\ remote = None
    /\ state = None /\ foreign = None /\ current = None /\ steps = None

PartsInit ==
    \/ TargetInit /\ NoBody
    \/ target = "body" /\ NoOrigin /\ NoPath /\ BodyInit

PartsNext ==
    \/ TargetNext /\ UNCHANGED bodyVars
    \/ target = "body" /\ BodyNext /\ UNCHANGED targetVars

partsVars == <<targetVars, bodyVars>>

PartsSpec == PartsInit /\ [][PartsNext]_partsVars

=============================================================================
