---------------------------- MODULE ControlPlane -----------------------------
(***************************************************************************)
(* The control plane but for ingest, tasks and credentials: cases, uploaded*)
(* evidence, the settings of a tenant, the scan for silent agents, what an *)
(* analyst is shown of the events, which tasks are let in, and start-up    *)
(* (open_edr_mdr_agent/api/app.py, store.py).                              *)
(*                                                                         *)
(* The parts share no row and no file that two of them write, and SQLite   *)
(* serialises each of their transactions whoever runs them, so an          *)
(* interleaving of all does to each what the moves of that one alone do.   *)
(* One of the parts, chosen at the start, moves.                           *)
(***************************************************************************)
EXTENDS Cases, Evidence, TenantSettings, AgentHealth, Investigation, TaskPolicy, Startup

VARIABLE focus   \* the part that moves

controlPlaneVars ==
    <<casesVars, evidenceVars, settingsVars, healthVars, investigationVars, task,
      startupVars, focus>>

-----------------------------------------------------------------------------
ControlPlaneInit ==
    /\ CasesInit /\ EvidenceInit /\ SettingsInit /\ HealthInit
    /\ PolicyInit /\ StartupInit
    /\ focus \in {"cases", "evidence", "settings", "health", "investigation", "policy",
                  "startup"}
    /\ InvestigationInit
    \* where it does not move, one history of processes is enough
    /\ focus # "investigation" => parentOf = [x \in Processes |-> Absent]

ControlPlaneNext ==
    /\ UNCHANGED focus
    /\ \/ /\ focus = "cases" /\ CasesNext
          /\ UNCHANGED <<evidenceVars, settingsVars, healthVars, investigationVars, task,
                         startupVars>>
       \/ /\ focus = "evidence" /\ EvidenceNext
          /\ UNCHANGED <<casesVars, settingsVars, healthVars, investigationVars, task,
                         startupVars>>
       \/ /\ focus = "settings" /\ SettingsNext
          /\ UNCHANGED <<casesVars, evidenceVars, healthVars, investigationVars, task,
                         startupVars>>
       \/ /\ focus = "health" /\ HealthNext
          /\ UNCHANGED <<casesVars, evidenceVars, settingsVars, investigationVars, task,
                         startupVars>>
       \/ /\ focus = "investigation" /\ InvestigationNext
          /\ UNCHANGED <<casesVars, evidenceVars, settingsVars, healthVars, task, startupVars>>
       \/ /\ focus = "policy" /\ PolicyNext
          /\ UNCHANGED <<casesVars, evidenceVars, settingsVars, healthVars, investigationVars,
                         startupVars>>
       \/ /\ focus = "startup" /\ StartupNext
          /\ UNCHANGED <<casesVars, evidenceVars, settingsVars, healthVars, investigationVars,
                         task>>

ControlPlaneSpec == ControlPlaneInit /\ [][ControlPlaneNext]_controlPlaneVars

-----------------------------------------------------------------------------
\* Type invariant.
ControlPlaneTypeOK ==
    /\ CasesTypeOK /\ EvidenceTypeOK /\ SettingsTypeOK /\ HealthTypeOK
    /\ InvestigationTypeOK /\ PolicyTypeOK /\ StartupTypeOK
=============================================================================
