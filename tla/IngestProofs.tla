---------------------------- MODULE IngestProofs -----------------------------
(***************************************************************************)
(* Theorems about ingest, for any batches, rules and rule files, any       *)
(* number of requests and faults, with and without a separate projection.  *)
(*                                                                         *)
(* The inductive invariant IInv says what each handler did before the step *)
(* it is at, which is what the rows it writes next refer to, and who still *)
(* has the batch of a handler that failed.                                 *)
(***************************************************************************)
EXTENDS Ingest, TLAPS

\* The ids an alert's row may carry: a built-in rule or one of a rule file.
RuleIds == UNION {Detected(Shape[o], rs) : o \in Observation, rs \in RuleFiles}
Ref == [try : Attempts, obs : Observation, rule : RuleIds \cup {""}]
Ended == {"done", "failed"}
Stages == {"unused"} \cup Handling \cup Ended
Request == [batch : SUBSET Observation, pc : Stages, found : SUBSET Ref]

Types ==
    /\ attempt \in [Attempts -> Request]
    /\ ruleFile \in RuleFiles \cup {Malformed} /\ rules \in RuleFiles
    /\ projected \in [Tables -> SUBSET Ref]

\* A row is of an observation the request it names carried.
Carried ==
    /\ \A e \in events : e.try \in Attempts /\ e \in EventRows(e.try)
    /\ \A k \in Attempts :
          /\ attempt[k].pc = "unused" => attempt[k].batch = {}
          /\ \A f \in attempt[k].found : EventOf(f) \in EventRows(k)

\* What a handler did before the step it is at.
StoredBefore(k) ==
    attempt[k].pc \in Tables \cup {"detect", "alerts", "done"} =>
        EventRows(k) \subseteq events
ProjectedBefore(k) ==
    /\ Separate
    /\ attempt[k].pc \in {"edges", "rollups", "detect", "alerts", "done"}
    => EventRows(k) \subseteq projected["events"] \cup expired
DetectedBefore(k) ==
    \A o \in attempt[k].batch : \A r \in Builtin(Shape[o]) :
        /\ attempt[k].pc = "alerts" => Row(k, o, r) \in attempt[k].found
        /\ attempt[k].pc = "done" => Row(k, o, r) \in alerts

StagedAt(k) ==
    /\ attempt[k].pc \in Tables => Separate
    /\ StoredBefore(k) /\ ProjectedBefore(k) /\ DetectedBefore(k)
Staged == \A k \in Attempts : StagedAt(k)

\* The agent has every batch it sent, but those given up and those a request
\* got through.
Owed ==
    \A k \in Attempts : attempt[k].pc # "unused" =>
        \/ attempt[k].batch \in unacked \cup dropped
        \/ \E j \in Attempts : /\ attempt[j].pc = "done"
                               /\ attempt[j].batch = attempt[k].batch

IInv == Types /\ Carried /\ Staged /\ Owed /\ ReferencesResolve

-----------------------------------------------------------------------------
\* Rows, requests and findings

\* The event an alert is about is the row of the same request and observation.
LEMMA EventOfRow ==
    ASSUME NEW k, NEW o, NEW r
    PROVE  EventOf(Row(k, o, r)) = Row(k, o, "")
<1> DEFINE F(q) == [f \in {"try", "obs", "rule"} |->
                       IF f = "rule" THEN q ELSE IF f = "try" THEN k ELSE o]
<1>1. \A q : Row(k, o, q) = F(q)
  BY DEF Row
<1>2. [F(r) EXCEPT !.rule = ""] = F("")
  OBVIOUS
<1> HIDE DEF F
<1>3. QED
  BY <1>1, <1>2 DEF EventOf

\* What a step does to the requests: one moves on ...
LEMMA MoveShape ==
    ASSUME Types, NEW k \in Attempts, NEW pc \in Stages,
           Goto(k, pc)
    PROVE  /\ attempt' \in [Attempts -> Request]
           /\ attempt'[k].pc = pc /\ attempt'[k].batch = attempt[k].batch
           /\ attempt'[k].found = attempt[k].found
           /\ \A j \in Attempts : j # k => attempt'[j] = attempt[j]
           /\ \A j \in Attempts : EventRows(j)' = EventRows(j)
<1>1. attempt' = [attempt EXCEPT ![k] = [attempt[k] EXCEPT !.pc = pc]]
  BY DEF Goto
<1> DEFINE a == [attempt[k] EXCEPT !.pc = pc]
<1>2. /\ a \in Request
      /\ a.pc = pc /\ a.batch = attempt[k].batch /\ a.found = attempt[k].found
  BY DEF Types, Request
<1> HIDE DEF a
<1>3. /\ attempt' \in [Attempts -> Request]
      /\ attempt'[k] = a
      /\ \A j \in Attempts : j # k => attempt'[j] = attempt[j]
  BY <1>1, <1>2 DEF Types, a
<1>4. QED
  BY <1>2, <1>3 DEF EventRows

\* ... or one is sent, or has its alerts made, ...
LEMMA NewShape ==
    ASSUME Types, NEW k \in Attempts,
           NEW a \in Request,
           attempt' = [attempt EXCEPT ![k] = a]
    PROVE  /\ attempt' \in [Attempts -> Request]
           /\ attempt'[k] = a
      /\ \A j \in Attempts : j # k => attempt'[j] = attempt[j]
BY DEF Types

\* ... or all under way fail.
LEMMA CrashShape ==
    ASSUME Types, Crash
    PROVE  /\ attempt' \in [Attempts -> Request]
           /\ \A j \in Attempts :
                 /\ attempt'[j].batch = attempt[j].batch
                 /\ attempt'[j].found = attempt[j].found
                 /\ attempt'[j].pc = IF Running(j) THEN "failed"
                                                   ELSE attempt[j].pc
                 /\ EventRows(j)' = EventRows(j)
<1> DEFINE a(j) == IF Running(j) THEN [attempt[j] EXCEPT !.pc = "failed"]
                               ELSE attempt[j]
<1>1. attempt' = [j \in Attempts |-> a(j)]
  BY DEF Crash
<1>2. ASSUME NEW j \in Attempts
      PROVE  /\ a(j) \in Request
             /\ a(j).batch = attempt[j].batch /\ a(j).found = attempt[j].found
             /\ a(j).pc = IF Running(j) THEN "failed" ELSE attempt[j].pc
  BY DEF Types, Ended, Request, Stages
<1> HIDE DEF a
<1>3. attempt' \in [Attempts -> Request]
  BY <1>1, <1>2
<1>4. \A j \in Attempts : attempt'[j] = a(j)
  BY <1>1
<1>5. QED
  BY <1>2, <1>3, <1>4 DEF EventRows

\* A row of an event.
LEMMA EventRowsTyped ==
    ASSUME Types, NEW k \in Attempts
    PROVE  /\ EventRows(k) \subseteq Ref
           /\ \A e \in EventRows(k) :
                 /\ e.try = k /\ e.obs \in attempt[k].batch
                 /\ e = Row(k, e.obs, "")
           /\ \A o \in attempt[k].batch : Row(k, o, "") \in EventRows(k)
<1>1. attempt[k].batch \subseteq Observation
  BY DEF Types, Request
<1>2. ASSUME NEW e \in EventRows(k)
      PROVE  /\ e \in Ref /\ e.try = k /\ e.obs \in attempt[k].batch
             /\ e = Row(k, e.obs, "")
  <2>1. PICK o \in attempt[k].batch : e = Row(k, o, "")
    BY DEF EventRows
  <2>2. e.try = k /\ e.obs = o
    BY <2>1 DEF Row
  <2>3. Row(k, o, "") \in Ref
    BY <1>1, <2>1 DEF Row, Ref
  <2>4. QED
    BY <2>1, <2>2, <2>3
<1>3. QED
  BY <1>2 DEF EventRows

\* What detect_many finds in a batch is about its observations, and has what
\* the built-in rules find.
LEMMA FoundShape ==
    ASSUME Types, NEW k \in Attempts
    PROVE  /\ Found(k) \subseteq Ref
           /\ \A f \in Found(k) : EventOf(f) \in EventRows(k)
           /\ \A o \in attempt[k].batch : \A r \in Builtin(Shape[o]) :
                 Row(k, o, r) \in Found(k)
<1>1. attempt[k].batch \subseteq Observation /\ rules \in RuleFiles
  BY DEF Types, Request
<1>2. ASSUME NEW f \in Found(k)
      PROVE  f \in Ref /\ EventOf(f) \in EventRows(k)
  <2>1. PICK o \in attempt[k].batch :
            f \in {Row(k, o, r) : r \in Detected(Shape[o], rules)}
    BY <1>2 DEF Found
  <2>2. PICK r \in Detected(Shape[o], rules) : f = Row(k, o, r)
    BY <2>1
  <2>3. r \in RuleIds
    BY <1>1, <2>1, <2>2 DEF RuleIds
  <2>4. EventOf(f) = Row(k, o, "")
    BY <2>2, EventOfRow
  <2>5. QED
    BY <1>1, <2>1, <2>2, <2>3, <2>4 DEF Row, Ref, EventRows
<1>3. ASSUME NEW o \in attempt[k].batch, NEW r \in Builtin(Shape[o])
      PROVE  Row(k, o, r) \in Found(k)
  BY <1>3 DEF Found, Detected
<1>4. QED
  BY <1>2, <1>3

\* detect_many over a batch fails the request or finds its alerts.
LEMMA VerdictShape ==
    ASSUME Types, NEW k \in Attempts, Detect(k)
    PROVE  /\ attempt' \in [Attempts -> Request]
           /\ attempt'[k].batch = attempt[k].batch
           /\ \/ /\ attempt'[k].pc = "failed"
                 /\ attempt'[k].found = attempt[k].found
              \/ attempt'[k].pc = "alerts" /\ attempt'[k].found = Found(k)
           /\ \A j \in Attempts : j # k => attempt'[j] = attempt[j]
           /\ \A j \in Attempts : EventRows(j)' = EventRows(j)
<1> DEFINE f == [attempt[k] EXCEPT !.pc = "failed"]
           a == [attempt[k] EXCEPT !.pc = "alerts", !.found = Found(k)]
<1>1. attempt[k] \in Request /\ Found(k) \subseteq Ref
  BY FoundShape DEF Types
<1>2. /\ f \in Request /\ f.batch = attempt[k].batch /\ f.found = attempt[k].found
      /\ f.pc = "failed"
  BY <1>1 DEF Ended, Request, Stages
<1>3. /\ a \in Request /\ a.batch = attempt[k].batch /\ a.found = Found(k)
      /\ a.pc = "alerts"
  BY <1>1 DEF Handling, Request, Stages
<1>4. Verdict(k) = f \/ Verdict(k) = a
  BY DEF Verdict
<1> HIDE DEF f, a
<1>5. attempt' = [attempt EXCEPT ![k] = Verdict(k)]
  BY DEF Detect
<1>6. /\ attempt' \in [Attempts -> Request] /\ attempt'[k] = Verdict(k)
      /\ \A j \in Attempts : j # k => attempt'[j] = attempt[j]
  BY <1>2, <1>3, <1>4, <1>5, NewShape
<1>7. QED
  BY <1>2, <1>3, <1>4, <1>6 DEF EventRows

-----------------------------------------------------------------------------
\* The parts of the invariant, step by step

\* Every step keeps the types.
LEMMA TypesStep == Types /\ [Next]_vars => Types'
<1> SUFFICES ASSUME Types, [Next]_vars PROVE Types'
  OBVIOUS
<1>same. CASE UNCHANGED <<attempt, ruleFile, rules, projected>>
  BY <1>same DEF Types
<1>1. ASSUME NEW k \in Attempts, NEW b \in Batches, Send(k, b) PROVE Types'
  <2>1. [batch |-> b, pc |-> "store", found |-> {}]
          \in Request
    BY IngestAssumption DEF Handling, Request, Stages
  <2>2. QED
    BY <1>1, <2>1, NewShape DEF Send, Types
<1>2. ASSUME NEW k \in Attempts, Answered(k) PROVE Types'
  BY <1>2, <1>same DEF Answered
<1>3. ASSUME NEW k \in Attempts, GiveUp(k) PROVE Types'
  BY <1>3, <1>same DEF GiveUp
<1>4. ASSUME NEW k \in Attempts, NEW ref \in Pending(k), PutObject(k, ref)
      PROVE  Types'
  BY <1>4, <1>same DEF PutObject
<1>5. ASSUME NEW k \in Attempts, CommitEvents(k) PROVE Types'
  <2>0. Goto(k, IF Separate THEN "events" ELSE "detect")
    BY <1>5 DEF CommitEvents
  <2>1. (IF Separate THEN "events" ELSE "detect") \in Stages
    BY DEF Handling, Tables, After, Stages
  <2>2. QED
    BY <1>5, <2>0, <2>1, MoveShape DEF CommitEvents, Types
<1>6. ASSUME NEW k \in Attempts, NEW t \in Tables, Project(k, t) PROVE Types'
  <2>0. Goto(k, After(t))
    BY <1>6 DEF Project
  <2>1. (After(t)) \in Stages
    BY DEF Handling, Tables, After, Stages
  <2>2. attempt' \in [Attempts -> Request]
    BY <2>0, <2>1, MoveShape
  <2>3. TableRows(k, t) \subseteq Ref
    BY EventRowsTyped DEF TableRows
  <2>4. projected' \in [Tables -> SUBSET Ref]
    BY <1>6, <2>3 DEF Project, Types
  <2>5. QED
    BY <1>6, <2>2, <2>4 DEF Project, Types
<1>7. ASSUME NEW k \in Attempts, NEW t \in Tables, ProjectUnanswered(k, t)
      PROVE  Types'
  <2>0. Goto(k, "failed")
    BY <1>7 DEF ProjectUnanswered
  <2>1. ("failed") \in Stages
    BY DEF Ended, After, Stages
  <2>2. attempt' \in [Attempts -> Request]
    BY <2>0, <2>1, MoveShape
  <2>3. TableRows(k, t) \subseteq Ref
    BY EventRowsTyped DEF TableRows
  <2>4. projected' \in [Tables -> SUBSET Ref]
    BY <1>7, <2>3 DEF ProjectUnanswered, Types
  <2>5. QED
    BY <1>7, <2>2, <2>4 DEF ProjectUnanswered, Types
<1>8. ASSUME NEW k \in Attempts, Detect(k) PROVE Types'
  BY <1>8, VerdictShape DEF Detect, Types
<1>9. ASSUME NEW k \in Attempts, CommitAlerts(k) PROVE Types'
  <2>0. Goto(k, "done")
    BY <1>9 DEF CommitAlerts
  <2>1. ("done") \in Stages
    BY DEF Ended, After, Stages
  <2>2. QED
    BY <1>9, <2>0, <2>1, MoveShape DEF CommitAlerts, Types
<1>10. ASSUME NEW k \in Attempts, HandlerFails(k) PROVE Types'
  <2>0. Goto(k, "failed")
    BY <1>10 DEF HandlerFails
  <2>1. ("failed") \in Stages
    BY DEF Ended, After, Stages
  <2>2. QED
    BY <1>10, <2>0, <2>1, MoveShape DEF HandlerFails, Types
<1>11. ASSUME NEW b \in Batches, DropBatch(b) PROVE Types'
  BY <1>11, <1>same DEF DropBatch
<1>12. ASSUME Crash PROVE Types'
  BY <1>12, CrashShape DEF Crash, Types
<1>13. ASSUME Restart PROVE Types'
  BY <1>13 DEF Restart, Types
<1>14. ASSUME EditRules PROVE Types'
  BY <1>14 DEF EditRules, Types
<1>15. ASSUME Reload PROVE Types'
  BY <1>15 DEF Reload, Types
<1>16. ASSUME NEW e \in projected["events"], Expire(e) PROVE Types'
  <2>1. projected["events"] \in SUBSET Ref /\ projected["edges"] \in SUBSET Ref
    BY DEF Types, Tables
  <2>2. projected' \in [Tables -> SUBSET Ref]
    BY <1>16, <2>1 DEF Expire, Types
  <2>3. QED
    BY <1>16, <2>2 DEF Expire, Types
<1>17. CASE UNCHANGED vars
  BY <1>17, <1>same DEF vars
<1> QED
  BY <1>1, <1>2, <1>3, <1>4, <1>5, <1>6, <1>7, <1>8, <1>9, <1>10, <1>11,
     <1>12, <1>13, <1>14, <1>15, <1>16, <1>17
  DEF Next, Agent, Handler, Environment

\* A request is sent before anything is stored of it, and keeps its batch.
LEMMA CarriedStep == Types /\ Carried /\ [Next]_vars => Carried'
<1> SUFFICES ASSUME Types /\ Carried, [Next]_vars PROVE Carried'
  OBVIOUS
<1>same. CASE UNCHANGED <<attempt, events>>
  BY <1>same DEF Carried, EventRows
<1>1. ASSUME NEW k \in Attempts, NEW b \in Batches, Send(k, b) PROVE Carried'
  <2> DEFINE a == [batch |-> b, pc |-> "store", found |-> {}]
  <2>1. a \in Request
    BY IngestAssumption DEF Handling, Request, Stages
  <2>2. /\ attempt'[k] = a
        /\ \A j \in Attempts : j # k => attempt'[j] = attempt[j]
    BY <1>1, <2>1, NewShape DEF Send
  <2>3. EventRows(k) = {} /\ events' = events
    BY <1>1 DEF Send, Carried, EventRows
  <2>4. \A j \in Attempts : j # k => EventRows(j)' = EventRows(j)
    BY <2>2 DEF EventRows
  <2>5. QED
    BY <2>2, <2>3, <2>4 DEF Carried
<1>2. ASSUME NEW k \in Attempts, Answered(k) PROVE Carried'
  BY <1>2, <1>same DEF Answered
<1>3. ASSUME NEW k \in Attempts, GiveUp(k) PROVE Carried'
  BY <1>3, <1>same DEF GiveUp
<1>4. ASSUME NEW k \in Attempts, NEW ref \in Pending(k), PutObject(k, ref)
      PROVE  Carried'
  BY <1>4, <1>same DEF PutObject
<1>5. ASSUME NEW k \in Attempts, CommitEvents(k) PROVE Carried'
  <2>0. Goto(k, IF Separate THEN "events" ELSE "detect")
    BY <1>5 DEF CommitEvents
  <2>1. (IF Separate THEN "events" ELSE "detect") \in Stages
    BY DEF Handling, Tables, After, Stages
  <2>2. /\ attempt'[k].found = attempt[k].found /\ attempt'[k].pc # "unused"
        /\ \A j \in Attempts : j # k => attempt'[j] = attempt[j]
        /\ \A j \in Attempts : EventRows(j)' = EventRows(j)
    BY <2>0, <2>1, MoveShape DEF After
  <2>3. \A e \in events' : e \in events \/ (e \in EventRows(k) /\ e.try = k)
    BY <1>5, EventRowsTyped DEF CommitEvents
  <2>4. QED
    BY <2>2, <2>3 DEF Carried
<1>6. ASSUME NEW k \in Attempts, NEW t \in Tables, Project(k, t)
      PROVE  Carried'
  <2>0. Goto(k, After(t))
    BY <1>6 DEF Project
  <2>1. (After(t)) \in Stages
    BY DEF Handling, Tables, After, Stages
  <2>2. /\ attempt'[k].found = attempt[k].found /\ attempt'[k].pc # "unused"
        /\ \A j \in Attempts : j # k => attempt'[j] = attempt[j]
        /\ \A j \in Attempts : EventRows(j)' = EventRows(j)
    BY <2>0, <2>1, MoveShape DEF After, Tables
  <2>3. events' = events
    BY <1>6 DEF Project
  <2>4. QED
    BY <2>2, <2>3 DEF Carried
<1>7. ASSUME NEW k \in Attempts, NEW t \in Tables, ProjectUnanswered(k, t)
      PROVE  Carried'
  <2>0. Goto(k, "failed")
    BY <1>7 DEF ProjectUnanswered
  <2>1. ("failed") \in Stages
    BY DEF Ended, After, Stages
  <2>2. /\ attempt'[k].found = attempt[k].found /\ attempt'[k].pc # "unused"
        /\ \A j \in Attempts : j # k => attempt'[j] = attempt[j]
        /\ \A j \in Attempts : EventRows(j)' = EventRows(j)
    BY <2>0, <2>1, MoveShape DEF After
  <2>3. events' = events
    BY <1>7 DEF ProjectUnanswered
  <2>4. QED
    BY <2>2, <2>3 DEF Carried
<1>8. ASSUME NEW k \in Attempts, Detect(k) PROVE Carried'
  <2>1. events' = events
    BY <1>8 DEF Detect
  <2>2. QED
    BY <1>8, <2>1, VerdictShape, FoundShape DEF Carried
<1>9. ASSUME NEW k \in Attempts, CommitAlerts(k) PROVE Carried'
  <2>0. Goto(k, "done")
    BY <1>9 DEF CommitAlerts
  <2>1. ("done") \in Stages
    BY DEF Ended, After, Stages
  <2>2. /\ attempt'[k].found = attempt[k].found /\ attempt'[k].pc # "unused"
        /\ \A j \in Attempts : j # k => attempt'[j] = attempt[j]
        /\ \A j \in Attempts : EventRows(j)' = EventRows(j)
    BY <2>0, <2>1, MoveShape DEF After
  <2>3. events' = events
    BY <1>9 DEF CommitAlerts
  <2>4. QED
    BY <2>2, <2>3 DEF Carried
<1>10. ASSUME NEW k \in Attempts, HandlerFails(k) PROVE Carried'
  <2>0. Goto(k, "failed")
    BY <1>10 DEF HandlerFails
  <2>1. ("failed") \in Stages
    BY DEF Ended, After, Stages
  <2>2. /\ attempt'[k].found = attempt[k].found /\ attempt'[k].pc # "unused"
        /\ \A j \in Attempts : j # k => attempt'[j] = attempt[j]
        /\ \A j \in Attempts : EventRows(j)' = EventRows(j)
    BY <2>0, <2>1, MoveShape DEF After
  <2>3. events' = events
    BY <1>10 DEF HandlerFails
  <2>4. QED
    BY <2>2, <2>3 DEF Carried
<1>11. ASSUME NEW b \in Batches, DropBatch(b) PROVE Carried'
  BY <1>11, <1>same DEF DropBatch
<1>12. ASSUME Crash PROVE Carried'
  <2>1. events' = events
    BY <1>12 DEF Crash
  <2>2. \A j \in Attempts : Running(j) => attempt[j].pc # "unused"
    BY DEF Running, Handling, Tables
  <2>3. QED
    BY <1>12, <2>1, <2>2, CrashShape DEF Carried
<1>13. ASSUME Restart PROVE Carried'
  BY <1>13, <1>same DEF Restart
<1>14. ASSUME EditRules PROVE Carried'
  BY <1>14, <1>same DEF EditRules
<1>15. ASSUME Reload PROVE Carried'
  BY <1>15, <1>same DEF Reload
<1>16. ASSUME NEW e \in projected["events"], Expire(e) PROVE Carried'
  BY <1>16, <1>same DEF Expire
<1>17. CASE UNCHANGED vars
  BY <1>17, <1>same DEF vars
<1> QED
  BY <1>1, <1>2, <1>3, <1>4, <1>5, <1>6, <1>7, <1>8, <1>9, <1>10, <1>11,
     <1>12, <1>13, <1>14, <1>15, <1>16, <1>17
  DEF Next, Agent, Handler, Environment

\* What is stored stays stored: the TTL takes rows from the projection only,
\* and what it took is known.
Kept ==
    /\ events \subseteq events' /\ alerts \subseteq alerts'
    /\ projected["events"] \cup expired
          \subseteq projected'["events"] \cup expired'

\* No step takes back what was stored.
LEMMA KeptStep == Types /\ [Next]_vars => Kept
<1> SUFFICES ASSUME Types, [Next]_vars PROVE Kept
  OBVIOUS
<1>same. CASE UNCHANGED <<events, alerts, projected, expired>>
  BY <1>same DEF Kept
<1>1. ASSUME NEW k \in Attempts, NEW b \in Batches, Send(k, b) PROVE Kept
  BY <1>1, <1>same DEF Send
<1>2. ASSUME NEW k \in Attempts, Answered(k) PROVE Kept
  BY <1>2, <1>same DEF Answered
<1>3. ASSUME NEW k \in Attempts, GiveUp(k) PROVE Kept
  BY <1>3, <1>same DEF GiveUp
<1>4. ASSUME NEW k \in Attempts, NEW ref \in Pending(k), PutObject(k, ref)
      PROVE  Kept
  BY <1>4, <1>same DEF PutObject
<1>5. ASSUME NEW k \in Attempts, CommitEvents(k) PROVE Kept
  BY <1>5 DEF CommitEvents, Kept
<1>6. ASSUME NEW k \in Attempts, NEW t \in Tables, Project(k, t) PROVE Kept
  <2>1. projected["events"] \subseteq projected'["events"]
    BY <1>6 DEF Project
  <2>2. QED
    BY <1>6, <2>1 DEF Project, Kept
<1>7. ASSUME NEW k \in Attempts, NEW t \in Tables, ProjectUnanswered(k, t)
      PROVE  Kept
  <2>1. projected["events"] \subseteq projected'["events"]
    BY <1>7 DEF ProjectUnanswered
  <2>2. QED
    BY <1>7, <2>1 DEF ProjectUnanswered, Kept
<1>8. ASSUME NEW k \in Attempts, Detect(k) PROVE Kept
  BY <1>8, <1>same DEF Detect
<1>9. ASSUME NEW k \in Attempts, CommitAlerts(k) PROVE Kept
  BY <1>9 DEF CommitAlerts, Kept
<1>10. ASSUME NEW k \in Attempts, HandlerFails(k) PROVE Kept
  BY <1>10, <1>same DEF HandlerFails
<1>11. ASSUME NEW b \in Batches, DropBatch(b) PROVE Kept
  BY <1>11, <1>same DEF DropBatch
<1>12. ASSUME Crash PROVE Kept
  BY <1>12, <1>same DEF Crash
<1>13. ASSUME Restart PROVE Kept
  BY <1>13, <1>same DEF Restart
<1>14. ASSUME EditRules PROVE Kept
  BY <1>14, <1>same DEF EditRules
<1>15. ASSUME Reload PROVE Kept
  BY <1>15, <1>same DEF Reload
<1>16. ASSUME NEW e \in projected["events"], Expire(e) PROVE Kept
  <2>1. projected'["events"] = projected["events"] \ {e}
    BY <1>16 DEF Expire, Types, Tables
  <2>2. QED
    BY <1>16, <2>1 DEF Expire, Kept
<1>17. CASE UNCHANGED vars
  BY <1>17, <1>same DEF vars
<1> QED
  BY <1>1, <1>2, <1>3, <1>4, <1>5, <1>6, <1>7, <1>8, <1>9, <1>10, <1>11,
     <1>12, <1>13, <1>14, <1>15, <1>16, <1>17
  DEF Next, Agent, Handler, Environment

\* A request that does not move, or fails, is as far as it was.
LEMMA StagedStays ==
    ASSUME Staged, Kept, NEW j \in Attempts,
           attempt'[j].batch = attempt[j].batch,
           attempt'[j].found = attempt[j].found,
           attempt'[j].pc \in {attempt[j].pc, "failed"}
    PROVE  StagedAt(j)'
<1>1. EventRows(j)' = EventRows(j)
  BY DEF EventRows
<1>2. CASE attempt'[j].pc = attempt[j].pc
  <2>1. StagedAt(j)
    BY DEF Staged
  <2>2. StoredBefore(j)'
    BY <1>1, <1>2, <2>1 DEF StagedAt, StoredBefore, Kept
  <2>3. ProjectedBefore(j)'
    BY <1>1, <1>2, <2>1 DEF StagedAt, ProjectedBefore, Kept
  <2>4. DetectedBefore(j)'
    BY <1>2, <2>1 DEF StagedAt, DetectedBefore, Kept
  <2>5. QED
    BY <1>2, <2>1, <2>2, <2>3, <2>4 DEF StagedAt
<1>3. CASE attempt'[j].pc = "failed"
  BY <1>3 DEF StagedAt, StoredBefore, ProjectedBefore, DetectedBefore, Tables
<1>4. QED
  BY <1>2, <1>3

\* A handler does what the next step relies on before it goes on.
LEMMA StagedStep == Types /\ Carried /\ Staged /\ [Next]_vars => Staged'
<1> SUFFICES ASSUME Types /\ Carried /\ Staged, [Next]_vars PROVE Staged'
  OBVIOUS
<1>kept. Kept
  BY KeptStep
<1>same. CASE UNCHANGED attempt
  BY <1>kept, <1>same, StagedStays DEF Staged
<1>1. ASSUME NEW k \in Attempts, NEW b \in Batches, Send(k, b) PROVE Staged'
  <2> DEFINE a == [batch |-> b, pc |-> "store", found |-> {}]
  <2>1. a \in Request
    BY IngestAssumption DEF Handling, Request, Stages
  <2>2. /\ attempt'[k] = a
        /\ \A j \in Attempts : j # k => attempt'[j] = attempt[j]
    BY <1>1, <2>1, NewShape DEF Send
  <2>3. \A j \in Attempts : j # k => StagedAt(j)'
    BY <1>kept, <2>2, StagedStays
  <2>4. StagedAt(k)'
    BY <2>2
    DEF StagedAt, StoredBefore, ProjectedBefore, DetectedBefore, Tables
  <2>5. QED
    BY <2>3, <2>4 DEF Staged
<1>2. ASSUME NEW k \in Attempts, Answered(k) PROVE Staged'
  BY <1>2, <1>same DEF Answered
<1>3. ASSUME NEW k \in Attempts, GiveUp(k) PROVE Staged'
  BY <1>3, <1>same DEF GiveUp
<1>4. ASSUME NEW k \in Attempts, NEW ref \in Pending(k), PutObject(k, ref)
      PROVE  Staged'
  BY <1>4, <1>same DEF PutObject
<1>5. ASSUME NEW k \in Attempts, CommitEvents(k) PROVE Staged'
  <2>0. Goto(k, IF Separate THEN "events" ELSE "detect")
    BY <1>5 DEF CommitEvents
  <2>1. (IF Separate THEN "events" ELSE "detect") \in Stages
    BY DEF Handling, Tables, After, Stages
  <2>2. /\ attempt'[k].found = attempt[k].found
        /\ attempt'[k].batch = attempt[k].batch
        /\ attempt'[k].pc = (IF Separate THEN "events" ELSE "detect")
        /\ EventRows(k)' = EventRows(k)
        /\ \A j \in Attempts : j # k => attempt'[j] = attempt[j]
    BY <2>0, <2>1, MoveShape
  <2>3. \A j \in Attempts : j # k => StagedAt(j)'
    BY <1>kept, <2>2, StagedStays
  <2>4. StagedAt(k)'
    <3>1. StoredBefore(k)'
      BY <1>5, <2>2 DEF CommitEvents, StoredBefore
    <3>2. ProjectedBefore(k)' /\ DetectedBefore(k)'
      BY <2>2 DEF ProjectedBefore, DetectedBefore
    <3>3. QED
      BY <2>2, <3>1, <3>2 DEF StagedAt, Tables
  <2>5. QED
    BY <2>3, <2>4 DEF Staged
<1>6. ASSUME NEW k \in Attempts, NEW t \in Tables, Project(k, t) PROVE Staged'
  <2>0. Goto(k, After(t))
    BY <1>6 DEF Project
  <2>1. (After(t)) \in Stages
    BY DEF Handling, Tables, After, Stages
  <2>2. /\ attempt'[k].found = attempt[k].found
        /\ attempt'[k].batch = attempt[k].batch
        /\ attempt'[k].pc = (After(t)) /\ EventRows(k)' = EventRows(k)
        /\ \A j \in Attempts : j # k => attempt'[j] = attempt[j]
    BY <2>0, <2>1, MoveShape
  <2>3. \A j \in Attempts : j # k => StagedAt(j)'
    BY <1>kept, <2>2, StagedStays
  <2>4. StagedAt(k)'
    <3>1. StagedAt(k) /\ attempt[k].pc = t
      BY <1>6 DEF Staged, Project, At
    <3>2. StoredBefore(k)' /\ Separate
      BY <1>kept, <2>2, <3>1 DEF StagedAt, StoredBefore, Kept
    <3>3. ProjectedBefore(k)'
      <4>1. CASE t = "events"
        <5>1. TableRows(k, t) = EventRows(k)
          BY <4>1 DEF TableRows
        <5>2. EventRows(k) \subseteq projected'["events"]
          BY <1>6, <4>1, <5>1 DEF Project, Types
        <5>3. QED
          BY <2>2, <5>2 DEF ProjectedBefore
      <4>2. CASE t # "events"
        <5>1. EventRows(k) \subseteq projected["events"] \cup expired
          BY <3>1, <3>2, <4>2 DEF StagedAt, ProjectedBefore, Tables
        <5>2. QED
          BY <1>kept, <2>2, <5>1 DEF ProjectedBefore, Kept
      <4>3. QED
        BY <4>1, <4>2
    <3>4. attempt'[k].pc \notin {"alerts", "done"}
      BY <2>2 DEF After, Tables
    <3>5. QED
      BY <3>2, <3>3, <3>4 DEF StagedAt, DetectedBefore
  <2>5. QED
    BY <2>3, <2>4 DEF Staged
<1>7. ASSUME NEW k \in Attempts, NEW t \in Tables, ProjectUnanswered(k, t)
      PROVE  Staged'
  <2>0. Goto(k, "failed")
    BY <1>7 DEF ProjectUnanswered
  <2>1. ("failed") \in Stages
    BY DEF Ended, After, Stages
  <2>2. /\ attempt'[k].found = attempt[k].found
        /\ attempt'[k].batch = attempt[k].batch
        /\ attempt'[k].pc = ("failed") /\ EventRows(k)' = EventRows(k)
        /\ \A j \in Attempts : j # k => attempt'[j] = attempt[j]
    BY <2>0, <2>1, MoveShape
  <2>3. \A j \in Attempts : j # k => StagedAt(j)'
    BY <1>kept, <2>2, StagedStays
  <2>4. StagedAt(k)'
    BY <1>kept, <2>2, StagedStays
  <2>5. QED
    BY <2>3, <2>4 DEF Staged
<1>8. ASSUME NEW k \in Attempts, Detect(k) PROVE Staged'
  <2>1. /\ attempt'[k].batch = attempt[k].batch /\ attempt[k].pc = "detect"
        /\ EventRows(k)' = EventRows(k)
        /\ \A j \in Attempts : j # k => attempt'[j] = attempt[j]
    BY <1>8, VerdictShape DEF Detect, At
  <2>2. \A j \in Attempts : j # k => StagedAt(j)'
    BY <1>kept, <2>1, StagedStays
  <2>3. CASE attempt'[k].pc = "failed"
    <3>1. StagedAt(k)'
      BY <2>3
      DEF StagedAt, StoredBefore, ProjectedBefore, DetectedBefore, Tables
    <3>2. QED
      BY <2>2, <3>1 DEF Staged
  <2>4. CASE attempt'[k].pc = "alerts" /\ attempt'[k].found = Found(k)
    <3>1. StagedAt(k)
      BY DEF Staged
    <3>2. StoredBefore(k)' /\ ProjectedBefore(k)'
      BY <1>kept, <2>1, <2>4, <3>1
      DEF StagedAt, StoredBefore, ProjectedBefore, Kept
    <3>3. DetectedBefore(k)'
      BY <2>1, <2>4, FoundShape DEF DetectedBefore
    <3>4. StagedAt(k)'
      BY <2>4, <3>2, <3>3 DEF StagedAt, Tables
    <3>5. QED
      BY <2>2, <3>4 DEF Staged
  <2>5. QED
    BY <1>8, <2>3, <2>4, VerdictShape
<1>9. ASSUME NEW k \in Attempts, CommitAlerts(k) PROVE Staged'
  <2>0. Goto(k, "done")
    BY <1>9 DEF CommitAlerts
  <2>1. ("done") \in Stages
    BY DEF Ended, After, Stages
  <2>2. /\ attempt'[k].found = attempt[k].found
        /\ attempt'[k].batch = attempt[k].batch
        /\ attempt'[k].pc = ("done") /\ EventRows(k)' = EventRows(k)
        /\ \A j \in Attempts : j # k => attempt'[j] = attempt[j]
    BY <2>0, <2>1, MoveShape
  <2>3. \A j \in Attempts : j # k => StagedAt(j)'
    BY <1>kept, <2>2, StagedStays
  <2>4. StagedAt(k)'
    <3>1. /\ StagedAt(k) /\ attempt[k].pc = "alerts"
          /\ attempt[k].found \subseteq alerts'
      BY <1>9 DEF Staged, CommitAlerts, At
    <3>2. StoredBefore(k)' /\ ProjectedBefore(k)'
      BY <1>kept, <2>2, <3>1 DEF StagedAt, StoredBefore, ProjectedBefore, Kept
    <3>3. DetectedBefore(k)'
      BY <2>2, <3>1 DEF StagedAt, DetectedBefore
    <3>4. QED
      BY <2>2, <3>2, <3>3 DEF StagedAt, Tables
  <2>5. QED
    BY <2>3, <2>4 DEF Staged
<1>10. ASSUME NEW k \in Attempts, HandlerFails(k) PROVE Staged'
  <2>0. Goto(k, "failed")
    BY <1>10 DEF HandlerFails
  <2>1. ("failed") \in Stages
    BY DEF Ended, After, Stages
  <2>2. /\ attempt'[k].found = attempt[k].found
        /\ attempt'[k].batch = attempt[k].batch
        /\ attempt'[k].pc = ("failed") /\ EventRows(k)' = EventRows(k)
        /\ \A j \in Attempts : j # k => attempt'[j] = attempt[j]
    BY <2>0, <2>1, MoveShape
  <2>3. \A j \in Attempts : j # k => StagedAt(j)'
    BY <1>kept, <2>2, StagedStays
  <2>4. StagedAt(k)'
    BY <1>kept, <2>2, StagedStays
  <2>5. QED
    BY <2>3, <2>4 DEF Staged
<1>11. ASSUME NEW b \in Batches, DropBatch(b) PROVE Staged'
  BY <1>11, <1>same DEF DropBatch
<1>12. ASSUME Crash PROVE Staged'
  BY <1>12, <1>kept, CrashShape, StagedStays DEF Staged
<1>13. ASSUME Restart PROVE Staged'
  BY <1>13, <1>same DEF Restart
<1>14. ASSUME EditRules PROVE Staged'
  BY <1>14, <1>same DEF EditRules
<1>15. ASSUME Reload PROVE Staged'
  BY <1>15, <1>same DEF Reload
<1>16. ASSUME NEW e \in projected["events"], Expire(e) PROVE Staged'
  BY <1>16, <1>same DEF Expire
<1>17. CASE UNCHANGED vars
  BY <1>17, <1>same DEF vars
<1> QED
  BY <1>1, <1>2, <1>3, <1>4, <1>5, <1>6, <1>7, <1>8, <1>9, <1>10, <1>11,
     <1>12, <1>13, <1>14, <1>15, <1>16, <1>17
  DEF Next, Agent, Handler, Environment

\* As long as the batches kept are kept, and what is done is done, only a
\* request that is sent owes its batch anew.
LEMMA OwedStays ==
    ASSUME Owed, unacked \cup dropped \subseteq unacked' \cup dropped',
           \A j \in Attempts :
              /\ attempt'[j].batch = attempt[j].batch
              /\ attempt'[j].pc = "unused" <=> attempt[j].pc = "unused"
              /\ attempt[j].pc = "done" => attempt'[j].pc = "done"
    PROVE  Owed'
<1> SUFFICES ASSUME NEW k \in Attempts, attempt'[k].pc # "unused"
             PROVE  \/ attempt'[k].batch \in unacked' \cup dropped'
                    \/ \E j \in Attempts : /\ attempt'[j].pc = "done"
                                           /\ attempt'[j].batch = attempt'[k].batch
  BY DEF Owed
<1>1. CASE attempt[k].batch \in unacked \cup dropped
  BY <1>1
<1>2. CASE \E j \in Attempts : /\ attempt[j].pc = "done"
                               /\ attempt[j].batch = attempt[k].batch
  BY <1>2
<1>3. QED
  BY <1>1, <1>2 DEF Owed

\* A batch leaves the spool for a request that is done, or given up.
LEMMA OwedStep == Types /\ Carried /\ Owed /\ [Next]_vars => Owed'
<1> SUFFICES ASSUME Types /\ Carried /\ Owed, [Next]_vars PROVE Owed'
  OBVIOUS
<1>same. CASE UNCHANGED <<attempt, unacked, dropped>>
  BY <1>same, OwedStays
<1>1. ASSUME NEW k \in Attempts, NEW b \in Batches, Send(k, b) PROVE Owed'
  <2> DEFINE a == [batch |-> b, pc |-> "store", found |-> {}]
  <2>1. a \in Request
    BY IngestAssumption DEF Handling, Request, Stages
  <2>2. /\ attempt'[k] = a
        /\ \A j \in Attempts : j # k => attempt'[j] = attempt[j]
    BY <1>1, <2>1, NewShape DEF Send
  <2>3. /\ b \in unacked /\ attempt[k].pc = "unused"
        /\ UNCHANGED <<unacked, dropped>>
    BY <1>1 DEF Send
  <2>4. QED
    BY <2>2, <2>3 DEF Owed
<1>2. ASSUME NEW k \in Attempts, Answered(k) PROVE Owed'
  <2>1. attempt' = attempt /\ dropped' = dropped
    BY <1>2 DEF Answered
  <2>2. CASE attempt[k].pc = "done"
    <3>1. unacked' = unacked \ {attempt[k].batch}
      BY <1>2, <2>2 DEF Answered
    <3>2. QED
      BY <2>1, <2>2, <3>1 DEF Owed
  <2>3. CASE attempt[k].pc # "done"
    <3>1. unacked' = unacked
      BY <1>2, <2>3 DEF Answered
    <3>2. QED
      BY <1>same, <2>1, <3>1
  <2>4. QED
    BY <2>2, <2>3
<1>3. ASSUME NEW k \in Attempts, GiveUp(k) PROVE Owed'
  BY <1>3, <1>same DEF GiveUp
<1>4. ASSUME NEW k \in Attempts, NEW ref \in Pending(k), PutObject(k, ref)
      PROVE  Owed'
  BY <1>4, <1>same DEF PutObject
<1>5. ASSUME NEW k \in Attempts, CommitEvents(k) PROVE Owed'
  <2>0. Goto(k, IF Separate THEN "events" ELSE "detect")
    BY <1>5 DEF CommitEvents
  <2>1. (IF Separate THEN "events" ELSE "detect") \in Stages
    BY DEF Handling, Tables, After, Stages
  <2>2. /\ attempt'[k].batch = attempt[k].batch /\ attempt'[k].pc # "unused"
        /\ \A j \in Attempts : j # k => attempt'[j] = attempt[j]
    BY <2>0, <2>1, MoveShape DEF After
  <2>3. /\ UNCHANGED <<unacked, dropped>>
        /\ attempt[k].pc \notin {"unused", "done"}
    BY <1>5 DEF CommitEvents, At, Running
  <2>4. QED
    BY <2>2, <2>3, OwedStays
<1>6. ASSUME NEW k \in Attempts, NEW t \in Tables, Project(k, t) PROVE Owed'
  <2>0. Goto(k, After(t))
    BY <1>6 DEF Project
  <2>1. (After(t)) \in Stages
    BY DEF Handling, Tables, After, Stages
  <2>2. /\ attempt'[k].batch = attempt[k].batch /\ attempt'[k].pc # "unused"
        /\ \A j \in Attempts : j # k => attempt'[j] = attempt[j]
    BY <2>0, <2>1, MoveShape DEF After, Tables
  <2>3. /\ UNCHANGED <<unacked, dropped>>
        /\ attempt[k].pc \notin {"unused", "done"}
    BY <1>6 DEF Project, At, Running, Tables
  <2>4. QED
    BY <2>2, <2>3, OwedStays
<1>7. ASSUME NEW k \in Attempts, NEW t \in Tables, ProjectUnanswered(k, t)
      PROVE  Owed'
  <2>0. Goto(k, "failed")
    BY <1>7 DEF ProjectUnanswered
  <2>1. ("failed") \in Stages
    BY DEF Ended, After, Stages
  <2>2. /\ attempt'[k].batch = attempt[k].batch /\ attempt'[k].pc # "unused"
        /\ \A j \in Attempts : j # k => attempt'[j] = attempt[j]
    BY <2>0, <2>1, MoveShape DEF After
  <2>3. /\ UNCHANGED <<unacked, dropped>>
        /\ attempt[k].pc \notin {"unused", "done"}
    BY <1>7 DEF ProjectUnanswered, At, Running, Tables
  <2>4. QED
    BY <2>2, <2>3, OwedStays
<1>8. ASSUME NEW k \in Attempts, Detect(k) PROVE Owed'
  <2>1. UNCHANGED <<unacked, dropped>> /\ attempt[k].pc = "detect"
    BY <1>8 DEF Detect, At
  <2>2. QED
    BY <1>8, <2>1, VerdictShape, OwedStays
<1>9. ASSUME NEW k \in Attempts, CommitAlerts(k) PROVE Owed'
  <2>0. Goto(k, "done")
    BY <1>9 DEF CommitAlerts
  <2>1. ("done") \in Stages
    BY DEF Ended, After, Stages
  <2>2. /\ attempt'[k].batch = attempt[k].batch /\ attempt'[k].pc # "unused"
        /\ \A j \in Attempts : j # k => attempt'[j] = attempt[j]
    BY <2>0, <2>1, MoveShape DEF After
  <2>3. /\ UNCHANGED <<unacked, dropped>>
        /\ attempt[k].pc \notin {"unused", "done"}
    BY <1>9 DEF CommitAlerts, At, Running
  <2>4. QED
    BY <2>2, <2>3, OwedStays
<1>10. ASSUME NEW k \in Attempts, HandlerFails(k) PROVE Owed'
  <2>0. Goto(k, "failed")
    BY <1>10 DEF HandlerFails
  <2>1. ("failed") \in Stages
    BY DEF Ended, After, Stages
  <2>2. /\ attempt'[k].batch = attempt[k].batch /\ attempt'[k].pc # "unused"
        /\ \A j \in Attempts : j # k => attempt'[j] = attempt[j]
    BY <2>0, <2>1, MoveShape DEF After
  <2>3. /\ UNCHANGED <<unacked, dropped>>
        /\ attempt[k].pc \notin {"unused", "done"}
    BY <1>10 DEF HandlerFails, Running, Handling, Tables
  <2>4. QED
    BY <2>2, <2>3, OwedStays
<1>11. ASSUME NEW b \in Batches, DropBatch(b) PROVE Owed'
  BY <1>11, OwedStays DEF DropBatch
<1>12. ASSUME Crash PROVE Owed'
  <2>1. UNCHANGED <<unacked, dropped>>
    BY <1>12 DEF Crash
  <2>2. \A j \in Attempts :
            Running(j) => attempt[j].pc \notin {"unused", "done"}
    BY DEF Running, Handling, Tables
  <2>3. QED
    BY <1>12, <2>1, <2>2, CrashShape, OwedStays
<1>13. ASSUME Restart PROVE Owed'
  BY <1>13, <1>same DEF Restart
<1>14. ASSUME EditRules PROVE Owed'
  BY <1>14, <1>same DEF EditRules
<1>15. ASSUME Reload PROVE Owed'
  BY <1>15, <1>same DEF Reload
<1>16. ASSUME NEW e \in projected["events"], Expire(e) PROVE Owed'
  BY <1>16, <1>same DEF Expire
<1>17. CASE UNCHANGED vars
  BY <1>17, <1>same DEF vars
<1> QED
  BY <1>1, <1>2, <1>3, <1>4, <1>5, <1>6, <1>7, <1>8, <1>9, <1>10, <1>11,
     <1>12, <1>13, <1>14, <1>15, <1>16, <1>17
  DEF Next, Agent, Handler, Environment

\* What a row refers to is stored before it, or with it.
LEMMA ReferencesStep ==
    Types /\ Carried /\ Staged /\ ReferencesResolve /\ [Next]_vars
        => ReferencesResolve'
<1> SUFFICES ASSUME Types /\ Carried /\ Staged /\ ReferencesResolve,
                    [Next]_vars
             PROVE  ReferencesResolve'
  OBVIOUS
<1>same. CASE UNCHANGED <<objects, evidence, events, alerts, projected, expired>>
  BY <1>same DEF ReferencesResolve
<1>1. ASSUME NEW k \in Attempts, NEW b \in Batches, Send(k, b)
      PROVE  ReferencesResolve'
  BY <1>1, <1>same DEF Send
<1>2. ASSUME NEW k \in Attempts, Answered(k) PROVE ReferencesResolve'
  BY <1>2, <1>same DEF Answered
<1>3. ASSUME NEW k \in Attempts, GiveUp(k) PROVE ReferencesResolve'
  BY <1>3, <1>same DEF GiveUp
<1>4. ASSUME NEW k \in Attempts, NEW ref \in Pending(k), PutObject(k, ref)
      PROVE  ReferencesResolve'
  BY <1>4 DEF PutObject, ReferencesResolve
<1>5. ASSUME NEW k \in Attempts, CommitEvents(k) PROVE ReferencesResolve'
  <2>1. /\ attempt[k].pc = "store" /\ Pending(k) \subseteq objects
        /\ evidence' = evidence \cup EventRows(k)
        /\ events' = events \cup EventRows(k)
        /\ UNCHANGED <<objects, alerts, projected, expired>>
    BY <1>5 DEF CommitEvents, At, Stored
  <2>2. EventRows(k) \subseteq objects
    BY <2>1 DEF Pending
  <2>3. QED
    BY <2>1, <2>2 DEF ReferencesResolve
<1>6. ASSUME NEW k \in Attempts, NEW t \in Tables, Project(k, t)
      PROVE  ReferencesResolve'
  <2>1. /\ attempt[k].pc = t
        /\ UNCHANGED <<objects, evidence, events, alerts, expired>>
    BY <1>6 DEF Project, At
  <2>2. StagedAt(k) /\ TableRows(k, t) \subseteq EventRows(k)
    BY DEF Staged, TableRows
  <2>3. TableRows(k, t) \subseteq events
    BY <2>1, <2>2 DEF StagedAt, StoredBefore
  <2>4. /\ projected'[t] = projected[t] \cup TableRows(k, t)
        /\ \A s \in Tables : s # t => projected'[s] = projected[s]
    <3>1. projected'[t] = projected[t] \cup TableRows(k, t)
      BY <1>6 DEF Project, Types
    <3>2. ASSUME NEW s \in Tables, s # t
          PROVE  projected'[s] = projected[s]
      BY <1>6, <3>2 DEF Project
    <3>3. QED
      BY <3>1, <3>2
  <2>5. \A s \in Tables : projected'[s] \subseteq events'
    BY <2>1, <2>3, <2>4 DEF ReferencesResolve
  <2>6. projected["events"] \subseteq projected'["events"]
    BY <2>4 DEF Tables
  <2>7. t # "events" => TableRows(k, t) \subseteq projected["events"] \cup expired
    BY <2>1, <2>2 DEF StagedAt, ProjectedBefore, Tables
  <2>8. projected'["edges"] \cup projected'["rollups"]
            \subseteq projected'["events"] \cup expired'
    <3>1. ASSUME NEW s \in {"edges", "rollups"}
          PROVE  projected'[s] \subseteq projected'["events"] \cup expired'
      <4>1. projected[s] \subseteq projected["events"] \cup expired
        BY DEF ReferencesResolve
      <4>2. CASE s = t
        BY <2>1, <2>4, <2>6, <2>7, <4>1, <4>2
      <4>3. CASE s # t
        <5>1. projected'[s] = projected[s]
          BY <2>4, <4>3 DEF Tables
        <5>2. QED
          BY <2>1, <2>6, <4>1, <5>1
      <4>4. QED
        BY <4>2, <4>3
    <3>2. QED
      BY <3>1
  <2>9. QED
    BY <2>1, <2>5, <2>6, <2>8 DEF ReferencesResolve
<1>7. ASSUME NEW k \in Attempts, NEW t \in Tables, ProjectUnanswered(k, t)
      PROVE  ReferencesResolve'
  <2>1. /\ attempt[k].pc = t
        /\ UNCHANGED <<objects, evidence, events, alerts, expired>>
    BY <1>7 DEF ProjectUnanswered, At
  <2>2. StagedAt(k) /\ TableRows(k, t) \subseteq EventRows(k)
    BY DEF Staged, TableRows
  <2>3. TableRows(k, t) \subseteq events
    BY <2>1, <2>2 DEF StagedAt, StoredBefore
  <2>4. /\ projected'[t] = projected[t] \cup TableRows(k, t)
        /\ \A s \in Tables : s # t => projected'[s] = projected[s]
    <3>1. projected'[t] = projected[t] \cup TableRows(k, t)
      BY <1>7 DEF ProjectUnanswered, Types
    <3>2. ASSUME NEW s \in Tables, s # t
          PROVE  projected'[s] = projected[s]
      BY <1>7, <3>2 DEF ProjectUnanswered
    <3>3. QED
      BY <3>1, <3>2
  <2>5. \A s \in Tables : projected'[s] \subseteq events'
    BY <2>1, <2>3, <2>4 DEF ReferencesResolve
  <2>6. projected["events"] \subseteq projected'["events"]
    BY <2>4 DEF Tables
  <2>7. t # "events" => TableRows(k, t) \subseteq projected["events"] \cup expired
    BY <2>1, <2>2 DEF StagedAt, ProjectedBefore, Tables
  <2>8. projected'["edges"] \cup projected'["rollups"]
            \subseteq projected'["events"] \cup expired'
    <3>1. ASSUME NEW s \in {"edges", "rollups"}
          PROVE  projected'[s] \subseteq projected'["events"] \cup expired'
      <4>1. projected[s] \subseteq projected["events"] \cup expired
        BY DEF ReferencesResolve
      <4>2. CASE s = t
        BY <2>1, <2>4, <2>6, <2>7, <4>1, <4>2
      <4>3. CASE s # t
        <5>1. projected'[s] = projected[s]
          BY <2>4, <4>3 DEF Tables
        <5>2. QED
          BY <2>1, <2>6, <4>1, <5>1
      <4>4. QED
        BY <4>2, <4>3
    <3>2. QED
      BY <3>1
  <2>9. QED
    BY <2>1, <2>5, <2>6, <2>8 DEF ReferencesResolve
<1>8. ASSUME NEW k \in Attempts, Detect(k) PROVE ReferencesResolve'
  BY <1>8, <1>same DEF Detect
<1>9. ASSUME NEW k \in Attempts, CommitAlerts(k) PROVE ReferencesResolve'
  <2>1. /\ attempt[k].pc = "alerts" /\ Pending(k) \subseteq objects
        /\ evidence' = evidence \cup attempt[k].found
        /\ alerts' = alerts \cup attempt[k].found
        /\ UNCHANGED <<objects, events, projected, expired>>
    BY <1>9 DEF CommitAlerts, At, Stored
  <2>2. attempt[k].found \subseteq objects
    BY <2>1 DEF Pending
  <2>3. StagedAt(k)
    BY DEF Staged
  <2>4. \A f \in attempt[k].found :
            /\ EventOf(f) \in events
            /\ Separate => EventOf(f) \in projected["events"] \cup expired
    BY <2>1, <2>3 DEF StagedAt, StoredBefore, ProjectedBefore, Carried
  <2>5. QED
    BY <2>1, <2>2, <2>4 DEF ReferencesResolve
<1>10. ASSUME NEW k \in Attempts, HandlerFails(k) PROVE ReferencesResolve'
  BY <1>10, <1>same DEF HandlerFails
<1>11. ASSUME NEW b \in Batches, DropBatch(b) PROVE ReferencesResolve'
  BY <1>11, <1>same DEF DropBatch
<1>12. ASSUME Crash PROVE ReferencesResolve'
  BY <1>12, <1>same DEF Crash
<1>13. ASSUME Restart PROVE ReferencesResolve'
  BY <1>13, <1>same DEF Restart
<1>14. ASSUME EditRules PROVE ReferencesResolve'
  BY <1>14, <1>same DEF EditRules
<1>15. ASSUME Reload PROVE ReferencesResolve'
  BY <1>15, <1>same DEF Reload
<1>16. ASSUME NEW e \in projected["events"], Expire(e)
       PROVE  ReferencesResolve'
  <2>1. /\ expired' = expired \cup {e}
        /\ UNCHANGED <<objects, evidence, events, alerts>>
    BY <1>16 DEF Expire
  <2>2. /\ projected'["events"] = projected["events"] \ {e}
        /\ projected'["edges"] = projected["edges"] \ {e}
        /\ projected'["rollups"] = projected["rollups"]
    BY <1>16 DEF Expire, Types, Tables
  <2>3. QED
    BY <2>1, <2>2 DEF ReferencesResolve, Tables
<1>17. CASE UNCHANGED vars
  BY <1>17, <1>same DEF vars
<1> QED
  BY <1>1, <1>2, <1>3, <1>4, <1>5, <1>6, <1>7, <1>8, <1>9, <1>10, <1>11,
     <1>12, <1>13, <1>14, <1>15, <1>16, <1>17
  DEF Next, Agent, Handler, Environment

-----------------------------------------------------------------------------
\* The invariant, and what follows from it

\* Nothing is sent or stored at first.
LEMMA InitIInv == Init => IInv
<1> SUFFICES ASSUME Init PROVE IInv
  OBVIOUS
<1>1. \A k \in Attempts : /\ attempt[k].batch = {} /\ attempt[k].pc = "unused"
                          /\ attempt[k].found = {}
  BY DEF Init, Unused
<1>2. Types
  BY DEF Init, Unused, Types, Request, Stages
<1>3. Carried
  BY <1>1 DEF Init, Carried
<1>4. Staged
  BY <1>1
  DEF Staged, StagedAt, StoredBefore, ProjectedBefore, DetectedBefore, Tables
<1>5. Owed
  BY <1>1 DEF Owed
<1>6. ReferencesResolve
  BY DEF Init, ReferencesResolve, Tables
<1>7. QED
  BY <1>2, <1>3, <1>4, <1>5, <1>6 DEF IInv

\* The invariant holds in every state the agent, the handlers and what goes on
\* around them can reach.
THEOREM Inductive == Spec => []IInv
<1>1. Init => IInv
  BY InitIInv
<1>2. IInv /\ [Next]_vars => IInv'
  BY TypesStep, CarriedStep, StagedStep, OwedStep, ReferencesStep DEF IInv
<1>3. QED
  BY <1>1, <1>2, PTL DEF Spec

\* Whatever is interrupted between put_json, the transactions of insert_events
\* and insert_alerts and the three inserts of the projection, a row that is
\* there has what it refers to.
THEOREM ReferencesAreWhole == Spec => []ReferencesResolve
<1>1. IInv => ReferencesResolve
  BY DEF IInv
<1>2. QED
  BY <1>1, Inductive, PTL

\* An observation the built-in rules find suspicious is not stored for good
\* without its alerts, whatever ingest_events, the agent and a custom rule do:
\* as long as no copy has them, the batch is under way, in the spool, or given
\* up by it.
THEOREM DetectionIsOwed == Spec => []NoDetectionGap
<1>1. ASSUME IInv
      PROVE  NoDetectionGap
  <2> SUFFICES ASSUME NEW e \in events,
                      ~Running(e.try),
                      attempt[e.try].batch \notin unacked \cup dropped
               PROVE  \A r \in Builtin(Shape[e.obs]) :
                         \E a \in alerts : a.obs = e.obs /\ a.rule = r
    BY DEF NoDetectionGap
  <2> DEFINE k == e.try
  <2>1. k \in Attempts /\ e \in EventRows(k) /\ e.obs \in attempt[k].batch
    BY <1>1, EventRowsTyped DEF IInv, Carried
  <2>2. attempt[k].pc # "unused"
    BY <1>1, <2>1 DEF IInv, Carried
  <2>3. PICK j \in Attempts : /\ attempt[j].pc = "done"
                              /\ attempt[j].batch = attempt[k].batch
    BY <1>1, <2>1, <2>2 DEF IInv, Owed
  <2>4. ASSUME NEW r \in Builtin(Shape[e.obs])
        PROVE  Row(j, e.obs, r) \in alerts
    BY <1>1, <2>1, <2>3 DEF IInv, Staged, StagedAt, DetectedBefore
  <2>5. QED
    BY <2>4 DEF Row
<1>2. QED
  BY <1>1, Inductive, PTL

=============================================================================
