------------------------------- MODULE Ingest --------------------------------
(***************************************************************************)
(* A batch of telemetry on its way to an alert (open_edr_mdr_agent/api/    *)
(* app.py: ingest_events, store.py: insert_events, insert_alerts,          *)
(* _insert_raw_evidence, clickhouse_store.py, object_storage.py, core/).   *)
(*                                                                         *)
(* The handler of one request stores the events in the control plane,      *)
(* projects them to ClickHouse in three inserts, detects, and stores the   *)
(* alerts.  Nothing spans these steps: any may fail, the process may die   *)
(* between two, and a handler whose client gave up runs on.  The agent     *)
(* keeps a batch in its spool until a request for it succeeds, and sends   *)
(* it again; the agent gives its events no id, so every attempt stores     *)
(* copies with fresh ones.                                                 *)
(*                                                                         *)
(* Definitions named X_Y are mutants: X as a plausible slip would have it. *)
(***************************************************************************)
EXTENDS Detection, FiniteSets

CONSTANTS
    Observation,  \* what the agent observed
    Shape,        \* [Observation -> event], as Detection reads it
    Batches,      \* sets of observations, as the agent's spool holds them
    RuleFiles,    \* contents the rule file may have: sets of custom rules
    Malformed,    \* a rule file that load_rules rejects
    Separate,     \* whether the telemetry store is not the control plane
    MaxAttempts,  \* bound: requests the agent sends
    MaxFaults     \* bound: failures, crashes, timeouts and dropped batches

ASSUME IngestAssumption ==
    /\ Batches \subseteq SUBSET Observation
    /\ Malformed \notin RuleFiles /\ {} \in RuleFiles
    /\ Separate \in BOOLEAN
    /\ MaxAttempts \in Nat /\ MaxFaults \in Nat

Attempts == 1..MaxAttempts
Tables == {"events", "edges", "rollups"}
Handling == {"store"} \cup Tables \cup {"detect", "alerts"}

VARIABLES
    unacked,    \* batches the agent still has
    awaited,    \* the attempt it waits for, or 0
    attempt,    \* what each request carries and where its handler is
    up,         \* the backend process runs
    ruleFile,   \* the rule file on disk
    rules,      \* app.state.custom_rules
    objects,    \* files of the object store
    evidence,   \* rows of raw_evidence, by what they are about
    events,     \* rows of the control plane's events table
    projected,  \* rows of the three ClickHouse tables
    expired,    \* history: projected events the TTL removed
    alerts,     \* rows of alerts
    dropped,    \* history: batches the agent's spool gave up
    faults

vars == <<unacked, awaited, attempt, up, ruleFile, rules, objects, evidence,
          events, projected, expired, alerts, dropped, faults>>

-----------------------------------------------------------------------------
\* A row, and its object, is known by the attempt that wrote it, what it is
\* about, and the rule it is the alert of ("" for the event itself).
Row(k, o, r) == [try |-> k, obs |-> o, rule |-> r]
EventRows(k) == {Row(k, o, "") : o \in attempt[k].batch}
EventOf(alert) == [alert EXCEPT !.rule = ""]

Unused == [batch |-> {}, pc |-> "unused", found |-> {}]
Running(k) == attempt[k].pc \in Handling
At(k, pc) == up /\ attempt[k].pc = pc
Goto(k, pc) == attempt' = [attempt EXCEPT ![k].pc = pc]
Fault == faults < MaxFaults /\ faults' = faults + 1

Init ==
    /\ unacked = Batches /\ awaited = 0
    /\ attempt = [k \in Attempts |-> Unused]
    /\ up = TRUE /\ ruleFile \in RuleFiles /\ rules = ruleFile
    /\ objects = {} /\ evidence = {} /\ events = {} /\ alerts = {}
    /\ projected = [t \in Tables |-> {}] /\ expired = {}
    /\ dropped = {} /\ faults = 0

-----------------------------------------------------------------------------
(* The agent. *)

Send(k, b) ==
    /\ up /\ awaited = 0 /\ b \in unacked
    /\ attempt[k].pc = "unused" /\ \A j \in 1..(k - 1) : attempt[j].pc # "unused"
    /\ attempt' = [attempt EXCEPT ![k] = [batch |-> b, pc |-> "store", found |-> {}]]
    /\ awaited' = k
    /\ UNCHANGED <<unacked, up, ruleFile, rules, objects, evidence, events,
                   projected, expired, alerts, dropped, faults>>

\* The response, or the error: only a success takes the batch from the spool.
Answered(k) ==
    /\ awaited = k /\ attempt[k].pc \in {"done", "failed"}
    /\ awaited' = 0
    /\ unacked' = IF attempt[k].pc = "done" THEN unacked \ {attempt[k].batch}
                                            ELSE unacked
    /\ UNCHANGED <<attempt, up, ruleFile, rules, objects, evidence, events,
                   projected, expired, alerts, dropped, faults>>

\* The client's timeout; the handler is not told.
GiveUp(k) ==
    /\ awaited = k /\ Running(k) /\ Fault
    /\ awaited' = 0
    /\ UNCHANGED <<unacked, attempt, up, ruleFile, rules, objects, evidence,
                   events, projected, expired, alerts, dropped>>

\* A full spool drops a batch before it got through.
DropBatch(b) ==
    /\ b \in unacked /\ Fault
    /\ awaited # 0 => attempt[awaited].batch # b
    /\ unacked' = unacked \ {b} /\ dropped' = dropped \cup {b}
    /\ UNCHANGED <<awaited, attempt, up, ruleFile, rules, objects, evidence,
                   events, projected, expired, alerts>>

-----------------------------------------------------------------------------
(* The handler. *)

\* What the transaction of this step is about to store.
Pending(k) == IF attempt[k].pc = "store" THEN EventRows(k) ELSE attempt[k].found

\* put_json: the payload's file is written before the row that refers to it,
\* inside the database transaction but not part of it.
PutObject(k, ref) ==
    /\ up /\ attempt[k].pc \in {"store", "alerts"} /\ ref \in Pending(k) \ objects
    /\ objects' = objects \cup {ref}
    /\ UNCHANGED <<unacked, awaited, attempt, up, ruleFile, rules, evidence,
                   events, projected, expired, alerts, dropped, faults>>

\* The commit of insert_events: evidence and event rows together.
Stored_BeforeObjects(k) == TRUE
Stored(k) == Pending(k) \subseteq objects

CommitEvents(k) ==
    /\ At(k, "store") /\ Stored(k)
    /\ evidence' = evidence \cup EventRows(k) /\ events' = events \cup EventRows(k)
    /\ Goto(k, IF Separate THEN "events" ELSE "detect")
    /\ UNCHANGED <<unacked, awaited, up, ruleFile, rules, objects, projected,
                   expired, alerts, dropped, faults>>

\* One of the three inserts of ClickHouseTelemetryStore.insert_events; events
\* without a process identity have no edge, and an empty insert is not sent.
TableRows(k, t) ==
    {e \in EventRows(k) : t = "edges" => Shape[e.obs].identified}
After(t) == [events |-> "edges", edges |-> "rollups", rollups |-> "detect"][t]

Project(k, t) ==
    /\ At(k, t)
    /\ projected' = [projected EXCEPT ![t] = @ \cup TableRows(k, t)]
    /\ Goto(k, After(t))
    /\ UNCHANGED <<unacked, awaited, up, ruleFile, rules, objects, evidence,
                   events, expired, alerts, dropped, faults>>

\* The insert takes effect and its answer is lost: the handler fails.
ProjectUnanswered(k, t) ==
    /\ At(k, t) /\ TableRows(k, t) # {} /\ Fault
    /\ projected' = [projected EXCEPT ![t] = @ \cup TableRows(k, t)]
    /\ Goto(k, "failed")
    /\ UNCHANGED <<unacked, awaited, up, ruleFile, rules, objects, evidence,
                   events, expired, alerts, dropped>>

\* detect_many over the batch, with the rules of the moment: a rule that raises
\* ends the handler with a 500, and no alert of the batch is stored.
Found(k) == UNION {{Row(k, o, r) : r \in Detected(Shape[o], rules)} :
                      o \in attempt[k].batch}
Verdict_AnswersAnyway(k) ==
    IF \E o \in attempt[k].batch : Raises(Shape[o], rules)
    THEN [attempt[k] EXCEPT !.pc = "done"]
    ELSE [attempt[k] EXCEPT !.pc = "alerts", !.found = Found(k)]
Verdict(k) ==
    IF \E o \in attempt[k].batch : Raises(Shape[o], rules)
    THEN [attempt[k] EXCEPT !.pc = "failed"]
    ELSE [attempt[k] EXCEPT !.pc = "alerts", !.found = Found(k)]

Detect(k) ==
    /\ At(k, "detect")
    /\ attempt' = [attempt EXCEPT ![k] = Verdict(k)]
    /\ UNCHANGED <<unacked, awaited, up, ruleFile, rules, objects, evidence,
                   events, projected, expired, alerts, dropped, faults>>

\* insert_alerts, and the response.
CommitAlerts(k) ==
    /\ At(k, "alerts") /\ Stored(k)
    /\ evidence' = evidence \cup attempt[k].found
    /\ alerts' = alerts \cup attempt[k].found
    /\ Goto(k, "done")
    /\ UNCHANGED <<unacked, awaited, up, ruleFile, rules, objects, events,
                   projected, expired, dropped, faults>>

\* A full disk, a locked database, a ClickHouse that is down: the open
\* transaction is given up, the files already written stay.
HandlerFails(k) ==
    /\ up /\ Running(k) /\ attempt[k].pc # "detect" /\ Fault
    /\ Goto(k, "failed")
    /\ UNCHANGED <<unacked, awaited, up, ruleFile, rules, objects, evidence,
                   events, projected, expired, alerts, dropped>>

-----------------------------------------------------------------------------
(* Around it. *)

Crash ==
    /\ up /\ Fault
    /\ up' = FALSE
    /\ attempt' = [k \in Attempts |-> IF Running(k) THEN [attempt[k] EXCEPT !.pc = "failed"]
                                                    ELSE attempt[k]]
    /\ UNCHANGED <<unacked, awaited, ruleFile, rules, objects, evidence, events,
                   projected, expired, alerts, dropped>>

\* create_app loads the rules, and does not start with a malformed file.
Restart ==
    /\ ~up /\ ruleFile # Malformed
    /\ up' = TRUE /\ rules' = ruleFile
    /\ UNCHANGED <<unacked, awaited, attempt, ruleFile, objects, evidence, events,
                   projected, expired, alerts, dropped, faults>>

EditRules ==
    /\ Fault
    /\ ruleFile' \in (RuleFiles \cup {Malformed}) \ {ruleFile}
    /\ UNCHANGED <<unacked, awaited, attempt, up, rules, objects, evidence, events,
                   projected, expired, alerts, dropped>>

\* reload_rules: load_rules checks neither the operators nor the patterns of a
\* rule; a malformed file raises and leaves the loaded rules in place.
Reload ==
    /\ up /\ ruleFile # Malformed
    /\ rules' = ruleFile
    /\ UNCHANGED <<unacked, awaited, attempt, up, ruleFile, objects, evidence,
                   events, projected, expired, alerts, dropped, faults>>

\* The TTL of the tables: events and edges after 30 days, rollups after 180.
Expire(e) ==
    /\ e \in projected["events"] \ expired /\ ~Running(e.try) /\ Fault
    /\ projected' = [projected EXCEPT !["events"] = @ \ {e}, !["edges"] = @ \ {e}]
    /\ expired' = expired \cup {e}
    /\ UNCHANGED <<unacked, awaited, attempt, up, ruleFile, rules, objects,
                   evidence, events, alerts, dropped>>

-----------------------------------------------------------------------------
Agent == \E k \in Attempts :
            \/ \E b \in Batches : Send(k, b)
            \/ Answered(k)
            \/ GiveUp(k)

Handler == \E k \in Attempts :
            \/ \E ref \in Pending(k) : PutObject(k, ref)
            \/ CommitEvents(k)
            \/ \E t \in Tables : Project(k, t) \/ ProjectUnanswered(k, t)
            \/ Detect(k)
            \/ CommitAlerts(k)
            \/ HandlerFails(k)

Environment ==
    \/ \E b \in Batches : DropBatch(b)
    \/ Crash
    \/ Restart
    \/ EditRules
    \/ Reload
    \/ \E e \in projected["events"] : Expire(e)

Next == Agent \/ Handler \/ Environment

Spec == Init /\ [][Next]_vars

-----------------------------------------------------------------------------
\* No stored observation that a built-in rule finds suspicious is left without
\* an alert, whatever fails between insert_events, the projection, detect_many
\* and insert_alerts, and whatever custom rule raises: some copy of it has its
\* alerts, or the batch it came in is still in the agent's spool or a handler
\* is at it.  The exception is a batch the spool itself gave up: its events
\* stay without alerts, for nothing detects over stored events.
NoDetectionGap ==
    \A e \in events :
        \/ \A r \in Builtin(Shape[e.obs]) :
              \E a \in alerts : a.obs = e.obs /\ a.rule = r
        \/ Running(e.try)
        \/ attempt[e.try].batch \in unacked \cup dropped

\* Whatever is interrupted, references resolve: an evidence row has its object,
\* an event or alert its evidence row, an alert its event.  The projection
\* holds nothing the control plane does not, rollups and edges count only
\* events that are or were projected, and an alert whose event was projected
\* finds it there until the TTL removes it.
ReferencesResolve ==
    /\ evidence \subseteq objects
    /\ events \cup alerts \subseteq evidence
    /\ \A a \in alerts : EventOf(a) \in events
    /\ \A t \in Tables : projected[t] \subseteq events
    /\ projected["edges"] \cup projected["rollups"] \subseteq projected["events"] \cup expired
    /\ Separate => \A a \in alerts : EventOf(a) \in projected["events"] \cup expired
=============================================================================
