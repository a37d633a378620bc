---------------------------- MODULE AgentHealth ------------------------------
(***************************************************************************)
(* Finding agents that fell silent (open_edr_mdr_agent/api/app.py:         *)
(* run_agent_health_detection; store.py: stale_agents,                     *)
(* mark_agents_offline, update_heartbeat, insert_alerts).                  *)
(*                                                                         *)
(* A scan fixes its limit, reads the stale agents and makes an alert of    *)
(* each, reads them again, marks those offline, and then inserts the       *)
(* alerts: four transactions, between which agents report and other scans  *)
(* run.  An alert is identified by the agent and its last_seen, and is     *)
(* inserted once.                                                          *)
(*                                                                         *)
(* Definitions named X_Y are mutants: X as a plausible slip would have it. *)
(***************************************************************************)
EXTENDS Naturals, FiniteSets

CONSTANTS
    Agents, Scanners,     \* agents, and threads that serve the endpoint
    StaleAfter,           \* stale_after_seconds, in ticks
    MaxClock, MaxScans    \* bounds

ASSUME HealthAssumption ==
    StaleAfter \in Nat /\ MaxClock \in Nat /\ MaxScans \in Nat

VARIABLES
    agents,    \* rows of agents: last_seen and status
    offline,   \* ids of the builtin.agent.offline alerts: <<agent, last_seen>>
    scan,      \* what each thread is in the middle of
    time,      \* utc_now
    beats,     \* history: when each agent reported
    overtaken, \* history: agents that reported after a scan's second reading
    dropped,   \* history: agents marked offline by a scan that then failed
    scans      \* history: how many

healthVars == <<agents, offline, scan, time, beats, overtaken, dropped, scans>>

-----------------------------------------------------------------------------
NoScan == [pc |-> "idle", before |-> 0, found |-> {}, mark |-> {}]

HealthInit ==
    /\ agents = [a \in Agents |-> [seen |-> 0, status |-> "enrolled"]]
    /\ offline = {} /\ time = 0 /\ scans = 0
    /\ scan = [s \in Scanners |-> NoScan]
    /\ beats = [a \in Agents |-> {0}] /\ overtaken = {} /\ dropped = {}

Tick ==
    /\ time < MaxClock /\ time' = time + 1
    /\ UNCHANGED <<agents, offline, scan, beats, overtaken, dropped, scans>>

\* update_heartbeat.  A revoked agent has no token to report with.
Heartbeat(a) ==
    /\ agents[a].status # "revoked"
    /\ agents' = [agents EXCEPT ![a] = [seen |-> time, status |-> "online"]]
    /\ beats' = [beats EXCEPT ![a] = @ \cup {time}]
    /\ overtaken' = IF \E s \in Scanners : scan[s].pc = "mark" /\ a \in scan[s].mark
                    THEN overtaken \cup {a} ELSE overtaken \ {a}
    /\ dropped' = dropped \ {a}
    /\ UNCHANGED <<offline, scan, time, scans>>

\* revoke_agent_credential, as far as this module goes.
RevokeAgent(a) ==
    /\ agents[a].status # "revoked"
    /\ agents' = [agents EXCEPT ![a].status = "revoked"]
    /\ UNCHANGED <<offline, scan, time, beats, overtaken, dropped, scans>>

\* stale_agents: last_seen < stale_before, whatever the status.
Stale(before) == {a \in Agents : agents[a].seen < before}

FindStale(s) ==
    LET before == IF time < StaleAfter THEN 0 ELSE time - StaleAfter
    IN /\ scan[s] = NoScan /\ scans < MaxScans
       /\ scan' = [scan EXCEPT ![s] = [pc |-> "again", before |-> before, mark |-> {},
                      found |-> {<<a, agents[a].seen>> : a \in Stale(before)}]]
       /\ scans' = scans + 1
       /\ UNCHANGED <<agents, offline, time, beats, overtaken, dropped>>

FindAgain(s) ==
    /\ scan[s].pc = "again"
    /\ scan' = [scan EXCEPT ![s].pc = "mark", ![s].mark = Stale(scan[s].before)]
    /\ UNCHANGED <<agents, offline, time, beats, overtaken, dropped, scans>>

\* mark_agents_offline: whatever their status is by now, revoked included.
Marked_FirstReading(s) == {f[1] : f \in scan[s].found}
Marked(s) == scan[s].mark

MarkOffline(s) ==
    /\ scan[s].pc = "mark"
    /\ agents' = [a \in Agents |-> IF a \in Marked(s)
                     THEN [agents[a] EXCEPT !.status = "offline"] ELSE agents[a]]
    /\ scan' = [scan EXCEPT ![s].pc = "alert"]
    /\ UNCHANGED <<offline, time, beats, overtaken, dropped, scans>>

\* insert_alerts: insert or ignore.
RaiseOffline(s) ==
    /\ scan[s].pc = "alert"
    /\ offline' = offline \cup scan[s].found
    /\ scan' = [scan EXCEPT ![s] = NoScan]
    /\ UNCHANGED <<agents, time, beats, overtaken, dropped, scans>>

\* A locked database or the end of the process: what is committed stays.
ScanFails(s) ==
    /\ scan[s] # NoScan
    /\ dropped' = IF scan[s].pc = "alert" THEN dropped \cup scan[s].mark ELSE dropped
    /\ scan' = [scan EXCEPT ![s] = NoScan]
    /\ UNCHANGED <<agents, offline, time, beats, overtaken, scans>>

HealthNext ==
    \/ Tick
    \/ \E a \in Agents : Heartbeat(a) \/ RevokeAgent(a)
    \/ \E s \in Scanners : \/ FindStale(s) \/ FindAgain(s) \/ MarkOffline(s)
                           \/ RaiseOffline(s) \/ ScanFails(s)

HealthSpec == HealthInit /\ [][HealthNext]_healthVars

-----------------------------------------------------------------------------
HealthTypeOK ==
    /\ agents \in [Agents -> [seen : 0..time,
                              status : {"enrolled", "online", "offline", "revoked"}]]
    /\ offline \subseteq Agents \X (0..time)
    /\ \A s \in Scanners : /\ scan[s].pc \in {"idle", "again", "mark", "alert"}
                           /\ scan[s].found \subseteq Agents \X (0..time)
                           /\ scan[s].mark \subseteq Agents
    /\ overtaken \cup dropped \subseteq Agents
    /\ time \in 0..MaxClock /\ scans \in 0..MaxScans

\* An agent that is offline has an alert for the very heartbeat it was last seen
\* with, or is about to get one, although the two come from different readings:
\* only an agent that reported between the second reading and the update, or a
\* scan that failed before its alerts, is an exception until the next heartbeat.
\* And an alert names a real gap: no heartbeat followed within the limit.
OfflineIsExplained ==
    /\ \A a \in Agents \ (overtaken \cup dropped) :
          agents[a].status = "offline" =>
             \/ <<a, agents[a].seen>> \in offline
             \/ \E s \in Scanners : <<a, agents[a].seen>> \in scan[s].found
    /\ \A gap \in offline :
          \A t \in beats[gap[1]] : t > gap[2] => t >= gap[2] + StaleAfter + 1
=============================================================================
