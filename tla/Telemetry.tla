------------------------------ MODULE Telemetry ------------------------------
(***************************************************************************)
(* Telemetry at both ends: the process tracker and the ETW collector that  *)
(* name processes on the endpoint, and the handler that stores a batch and *)
(* raises alerts from it in the control plane.  Between them is the spool, *)
(* which the Spool module has.  They share no state, and neither asks the  *)
(* other for anything, so an interleaving of both does to each what the    *)
(* moves of that one alone do.  One of them, chosen at the start, moves.   *)
(***************************************************************************)
EXTENDS Ingest, ProcessTracker

VARIABLE focus   \* the end that moves

telemetryVars == <<vars, trackerVars, focus>>

TelemetryInit ==
    /\ Init /\ TrackerInit
    /\ focus \in {"endpoint", "control plane"}
    \* where it does not move, one rule file is enough
    /\ focus = "endpoint" => ruleFile = CHOOSE f \in RuleFiles : TRUE

TelemetryNext ==
    /\ UNCHANGED focus
    /\ \/ focus = "endpoint" /\ TrackerNext /\ UNCHANGED vars
       \/ focus = "control plane" /\ Next /\ UNCHANGED trackerVars

TelemetrySpec == TelemetryInit /\ [][TelemetryNext]_telemetryVars
=============================================================================
