------------------------- MODULE TaskLifecycleProofs -------------------------
(***************************************************************************)
(* Theorems about the life of a task, for any number of tasks and threads, *)
(* any limits, and any number of retries and faults.                       *)
(*                                                                         *)
(* One inductive invariant, IInv, carries them all.  The two-step methods  *)
(* of the store make it necessary: between a SELECT and its UPDATE a row   *)
(* may be cancelled, retried and claimed again, so the status of a row     *)
(* alone says little.  IInv says what threads and agent hold meanwhile.    *)
(***************************************************************************)
EXTENDS TaskLifecycle, TLAPS

\* The agent has a result in hand.
Holding == {"flushWait", "send", "sendWait"}

\* A result on its way: spooled, in hand, or with a thread that is to store it.
InFlight(r) ==
    \/ r \in spooled
    \/ pc \in Holding /\ r = current
    \/ \E w \in Workers : worker[w].op = "complete" /\ worker[w].result = r

\* The agent awaits at most one request, and it is the one it is at.
CallsMatch ==
    /\ pc \in Holding => current \in Result
    /\ pc = "flushWait" => current \in spooled
    /\ \A w \in Workers :
          /\ worker[w].op = "complete" => worker[w].result \in Result
          /\ worker[w].awaited =>
                \/ worker[w].op = "claim" /\ pc = "claimWait"
                \/ /\ worker[w].op = "complete"
                   /\ pc \in {"flushWait", "sendWait"}
                   /\ worker[w].result = current
    /\ \A v, w \in Workers : worker[v].awaited /\ worker[w].awaited => v = w

\* No run of the task has begun, and no thread has selected it.
Untouched(t) ==
    /\ executions[t] = 0
    /\ t \notin todo
    /\ \A w \in Workers : t \notin worker[w].rows

\* A row that is absent or blocked has no run, no claim and no result.
Sealed ==
    /\ \A t \in blocked : row[t].status = "blocked_by_policy"
    /\ \A t \in Tasks :
          (row[t].status = "absent" \/ t \in blocked) => Untouched(t)
    /\ \A r \in Result : InFlight(r) =>
          row[r.task].status # "absent" /\ r.task \notin blocked

\* What a task may still be run, by where a claim of it is: in the queue, in a
\* response the agent awaits, or among the tasks the agent is to run.  A task
\* put back in the queue while the agent holds it is owed two runs.
Owed(t) ==
    /\ retries[t] <= MaxRetries
    /\ executions[t] <= 1 + retries[t]
    /\ row[t].status = "queued" => executions[t] <= retries[t]
    /\ \A w \in Workers :
          worker[w].op = "claim" /\ worker[w].awaited /\ t \in worker[w].rows
             => executions[t] <= retries[t]
    /\ t \in todo => executions[t] <= retries[t]
    /\ t \in todo /\ row[t].status = "queued" => executions[t] < retries[t]

Dispatched == \A t \in Tasks : Owed(t)

\* Results, in flight or stored, come from runs that took place.
RunsCounted ==
    /\ \A r \in Result : InFlight(r) => r.run <= executions[r.task]
    /\ \A t \in Tasks : row[t].content.run <= executions[t]
    /\ \A w \in Workers : worker[w].op = "complete" =>
          worker[w].existing.run <= executions[worker[w].result.task]

\* The audit is in the row, and in what a thread has read of the row.
AuditCarried ==
    /\ AuditKeptUntilRetry
    /\ \A w \in Workers :
          worker[w].op = "complete" /\ retries[worker[w].result.task] = 0
             => worker[w].existing.audit

\* What the flush may drop is stored; every result produced is somewhere.
Accounted ==
    /\ confirmed \subseteq written
    /\ \A r \in produced :
          r \in written \cup lost \cup spooled \/ (pc \in Holding /\ r = current)

IInv ==
    /\ TypeOK
    /\ CallsMatch
    /\ Sealed
    /\ Dispatched
    /\ RunsCounted
    /\ AuditCarried
    /\ Accounted
    /\ NoPhantomOutcome

-----------------------------------------------------------------------------
(* Types *)

\* The constants rows and threads start from have their types.
LEMMA StartTyped == IdleWorker \in Work /\ NoContent \in Content
  BY TaskAssumption DEF IdleWorker, NoContent, Work, Content

\* Setting the status of some rows keeps the table typed.
LEMMA SetStatusTyped ==
    ASSUME TypeOK, NEW ts, NEW s \in Statuses
    PROVE  SetStatus(ts, s) \in [Tasks -> Row]
  BY DEF TypeOK, SetStatus, Row

\* So does storing one row.
LEMMA RowTyped ==
    ASSUME TypeOK, NEW t \in Tasks, NEW s \in Statuses, NEW c \in Content
    PROVE  [row EXCEPT ![t] = [status |-> s, content |-> c]] \in [Tasks -> Row]
  BY DEF TypeOK, Row

\* A thread that takes up or ends work keeps the threads typed.
LEMMA WorkerTyped ==
    ASSUME TypeOK, NEW w \in Workers, NEW x \in Work
    PROVE  [worker EXCEPT ![w] = x] \in [Workers -> Work]
  BY DEF TypeOK

\* What a thread remembers of a selection.
LEMMA SelectionTyped ==
    ASSUME NEW ts \in SUBSET Tasks
    PROVE  /\ [IdleWorker EXCEPT !.op = "expire", !.rows = ts] \in Work
           /\ [IdleWorker EXCEPT !.op = "claim", !.rows = ts,
                                 !.awaited = TRUE] \in Work
  BY StartTyped DEF IdleWorker, Work

\* What a thread remembers of the result it is to store.
LEMMA ReadTyped ==
    ASSUME TypeOK, NEW w \in Workers, NEW r \in Result, CompleteRead(w, r)
    PROVE  worker' \in [Workers -> Work]
<1>1. r.task \in Tasks
  BY DEF Result
<1>2. row[r.task].content \in Content
  BY <1>1 DEF TypeOK, Row
<1>3. [IdleWorker EXCEPT !.op = "complete", !.result = r,
          !.existing = row[r.task].content, !.awaited = TRUE] \in Work
  BY <1>2, StartTyped DEF IdleWorker, Work
<1> QED
  BY <1>3, WorkerTyped DEF CompleteRead

\* An abandoned request is as typed as before.
LEMMA AbandonTyped ==
    ASSUME TypeOK
    PROVE  Abandon \in [Workers -> Work]
  BY DEF TypeOK, Abandon, Work

\* The spool takes results and loses results.
LEMMA SpoolTyped ==
    ASSUME TypeOK, NEW r \in Result, Spool(r)
    PROVE  spooled' \subseteq Result /\ lost' \subseteq Result
  BY DEF TypeOK, Spool

\* A failed call leaves the agent's variables typed.
LEMMA CallFailsTyped ==
    ASSUME TypeOK, CallsMatch, CallFails
    PROVE  /\ current' = NoResult
           /\ pc' \in {"flush", "run"}
           /\ spooled' \subseteq Result /\ tried' \subseteq Result
           /\ lost' \subseteq Result
  BY SpoolTyped DEF TypeOK, CallsMatch, Holding, CallFails

\* Storing a result keeps the table typed, and it was a result.
LEMMA WriteTyped ==
    ASSUME TypeOK, CallsMatch, NEW w \in Workers, CompleteWrite(w)
    PROVE  /\ row' \in [Tasks -> Row]
           /\ worker' \in [Workers -> Work]
           /\ written' \subseteq Result
<1> DEFINE r == worker[w].result
<1>1. /\ worker[w].op = "complete"
      /\ r \in Result
  BY DEF CompleteWrite, CallsMatch
<1>2. r.task \in Tasks /\ r.status \in Statuses /\ r.run \in 1..(MaxRetries + 1)
  BY <1>1, TaskAssumption DEF Result, Statuses
<1>3. worker[w].existing \in Content
  BY DEF TypeOK, Work
<1>4. Merged(worker[w].existing, r) \in Content
  BY <1>2, <1>3 DEF Merged, Content
<1>5. row' \in [Tasks -> Row]
  BY <1>2, <1>4, RowTyped DEF CompleteWrite
<1>6. worker' \in [Workers -> Work]
  BY WorkerTyped, StartTyped DEF CompleteWrite
<1> QED
  BY <1>1, <1>5, <1>6 DEF CompleteWrite, TypeOK

\* A run has a number a result may have.
LEMMA ExecuteTyped ==
    ASSUME TypeOK, Dispatched, NEW t \in todo, NEW s \in Reported, Execute(t, s)
    PROVE  /\ current' \in Result /\ produced' \subseteq Result
           /\ executions' \in [Tasks -> Nat]
<1>1. t \in Tasks /\ executions[t] \in Nat /\ retries[t] \in Nat
  BY DEF TypeOK
<1>2. executions[t] <= retries[t] /\ retries[t] <= MaxRetries
  BY <1>1 DEF Dispatched, Owed
<1>3. executions[t] + 1 \in 1..(MaxRetries + 1)
  BY <1>1, <1>2, TaskAssumption
<1>4. [task |-> t, run |-> executions[t] + 1, status |-> s] \in Result
  BY <1>1, <1>3 DEF Result
<1>5. current' \in Result /\ produced' \subseteq Result
  BY <1>4 DEF Execute, TypeOK
<1>6. executions' \in [Tasks -> Nat]
  BY <1>1 DEF Execute, TypeOK
<1> QED
  BY <1>5, <1>6

\* Every step keeps the types.
LEMMA TypeStep == IInv /\ [Next]_vars => TypeOK'
<1> SUFFICES ASSUME IInv, [Next]_vars PROVE TypeOK'
  OBVIOUS
<1>a. TypeOK /\ CallsMatch /\ Dispatched
  BY DEF IInv
<1>b. TypeOK
  BY <1>a
<1>1. ASSUME NEW t \in Tasks, Create(t) PROVE TypeOK'
  <2>1. [audit |-> TRUE, run |-> 0] \in Content
    BY TaskAssumption DEF Content
  <2>2. row' \in [Tasks -> Row]
    BY <1>1, <1>b, <2>1, RowTyped DEF Create, Statuses
  <2> QED
    BY <1>1, <1>b, <2>2 DEF Create, TypeOK, agentVars, history
<1>2. ASSUME NEW t \in Tasks, CreateBlocked(t) PROVE TypeOK'
  <2>1. [audit |-> TRUE, run |-> 0] \in Content
    BY TaskAssumption DEF Content
  <2>2. row' \in [Tasks -> Row]
    BY <1>2, <1>b, <2>1, RowTyped DEF CreateBlocked, Statuses
  <2> QED
    BY <1>2, <1>b, <2>2 DEF CreateBlocked, TypeOK, agentVars
<1>3. ASSUME NEW t \in Tasks, Cancel(t) PROVE TypeOK'
  <2>1. row' \in [Tasks -> Row]
    BY <1>3, <1>b, SetStatusTyped DEF Cancel, Statuses
  <2> QED
    BY <1>3, <1>b, <2>1 DEF Cancel, TypeOK, agentVars, history
<1>4. ASSUME NEW t \in Tasks, Retry(t) PROVE TypeOK'
  <2>1. row' \in [Tasks -> Row]
    BY <1>4, <1>b, RowTyped, StartTyped DEF Retry, Statuses
  <2> QED
    BY <1>4, <1>b, <2>1 DEF Retry, TypeOK, agentVars
<1>5. ASSUME NEW t \in Tasks, ClaimAges(t) PROVE TypeOK'
  BY <1>5, <1>b DEF ClaimAges, TypeOK, agentVars, history
<1>6. ASSUME NEW w \in Workers, ExpireSelect(w) PROVE TypeOK'
  <2>1. worker' \in [Workers -> Work]
    BY <1>6, <1>b, SelectionTyped, WorkerTyped DEF ExpireSelect, Claimed
  <2> QED
    BY <1>6, <1>b, <2>1 DEF ExpireSelect, TypeOK, agentVars, history
<1>7. ASSUME NEW w \in Workers, ExpireUpdate(w) PROVE TypeOK'
  <2>1. row' \in [Tasks -> Row]
    BY <1>7, <1>b, SetStatusTyped DEF ExpireUpdate, Statuses
  <2>2. worker' \in [Workers -> Work]
    BY <1>7, <1>b, StartTyped, WorkerTyped DEF ExpireUpdate
  <2> QED
    BY <1>7, <1>b, <2>1, <2>2 DEF ExpireUpdate, TypeOK, agentVars, history
<1>8. ASSUME NEW r \in spooled, FlushSendFails(r) PROVE TypeOK'
  BY <1>8, <1>b DEF FlushSendFails, TypeOK, history
<1>9. ASSUME NEW r \in spooled, NEW w \in Workers, FlushSend(w, r) PROVE TypeOK'
  <2>1. r \in Result
    BY <1>b DEF TypeOK
  <2>2. worker' \in [Workers -> Work]
    BY <1>9, <1>b, <2>1, ReadTyped DEF FlushSend
  <2> QED
    BY <1>9, <1>b, <2>1, <2>2 DEF FlushSend, TypeOK, history
<1>10. ASSUME FlushDone PROVE TypeOK'
  BY <1>10, <1>b DEF FlushDone, TypeOK, history
<1>11. ASSUME NEW w \in Workers, ClaimSelect(w) PROVE TypeOK'
  <2>1. PICK ts \in SUBSET Tasks :
            worker' = [worker EXCEPT ![w] = [IdleWorker EXCEPT
                           !.op = "claim", !.rows = ts, !.awaited = TRUE]]
    BY <1>11 DEF ClaimSelect, Queued
  <2>2. worker' \in [Workers -> Work]
    BY <1>b, <2>1, SelectionTyped, WorkerTyped
  <2> QED
    BY <1>11, <1>b, <2>2 DEF ClaimSelect, TypeOK, history
<1>12. ASSUME ClaimFails PROVE TypeOK'
  BY <1>12, <1>b DEF ClaimFails, TypeOK, history
<1>13. ASSUME NEW w \in Workers, ClaimUpdate(w) PROVE TypeOK'
  <2>1. row' \in [Tasks -> Row]
    BY <1>13, <1>b, SetStatusTyped DEF ClaimUpdate, Statuses
  <2>2. worker' \in [Workers -> Work]
    BY <1>13, <1>b, StartTyped, WorkerTyped DEF ClaimUpdate
  <2>3. worker[w].rows \subseteq Tasks
    BY <1>b DEF TypeOK, Work
  <2> QED
    BY <1>13, <1>b, <2>1, <2>2, <2>3 DEF ClaimUpdate, TypeOK, history
<1>14. ASSUME NEW t \in todo, NEW s \in Reported, Execute(t, s) PROVE TypeOK'
  <2>1. /\ current' \in Result /\ produced' \subseteq Result
        /\ executions' \in [Tasks -> Nat]
    BY <1>14, <1>a, ExecuteTyped
  <2> QED
    BY <1>14, <1>b, <2>1 DEF Execute, TypeOK
<1>15. ASSUME CycleEnds PROVE TypeOK'
  BY <1>15, <1>b DEF CycleEnds, TypeOK, history
<1>16. ASSUME NEW w \in Workers, Send(w) PROVE TypeOK'
  <2>1. current \in Result
    BY <1>16, <1>a DEF Send, CallsMatch, Holding
  <2>2. worker' \in [Workers -> Work]
    BY <1>16, <1>b, <2>1, ReadTyped DEF Send
  <2> QED
    BY <1>16, <1>b, <2>2 DEF Send, TypeOK, history
<1>17. ASSUME SendFails PROVE TypeOK'
  <2>1. current \in Result
    BY <1>17, <1>a DEF SendFails, CallsMatch, Holding
  <2>2. spooled' \subseteq Result /\ lost' \subseteq Result
    BY <1>17, <1>b, <2>1, SpoolTyped DEF SendFails
  <2> QED
    BY <1>17, <1>b, <2>2 DEF SendFails, TypeOK
<1>18. ASSUME SpoolFails PROVE TypeOK'
  <2>1. current \in Result
    BY <1>18, <1>a DEF SpoolFails, CallsMatch, Holding
  <2> QED
    BY <1>18, <1>b, <2>1 DEF SpoolFails, Fault, TypeOK
<1>19. ASSUME NEW w \in Workers, Complete(w) PROVE TypeOK'
  <2>1. /\ row' \in [Tasks -> Row]
        /\ worker' \in [Workers -> Work]
        /\ written' \subseteq Result
    BY <1>19, <1>a, WriteTyped DEF Complete
  <2>2. worker[w].awaited => current \in Result
    BY <1>19, <1>a DEF Complete, CompleteWrite, CallsMatch
  <2> QED
    BY <1>19, <1>b, <2>1, <2>2 DEF Complete, TypeOK
<1>20. ASSUME AgentTimesOut PROVE TypeOK'
  <2>1. worker' \in [Workers -> Work]
    BY <1>20, <1>b, AbandonTyped DEF AgentTimesOut
  <2> QED
    BY <1>20, <1>a, <2>1, CallFailsTyped DEF AgentTimesOut, Fault, TypeOK
<1>21. ASSUME NEW w \in Workers, RequestDies(w) PROVE TypeOK'
  <2>1. worker' \in [Workers -> Work]
    BY <1>21, <1>b, StartTyped, WorkerTyped DEF RequestDies
  <2>2. CASE worker[w].awaited
    BY <1>21, <1>a, <2>1, <2>2, CallFailsTyped DEF RequestDies, Fault, TypeOK
  <2>3. CASE ~worker[w].awaited
    BY <1>21, <1>b, <2>1, <2>3 DEF RequestDies, Fault, TypeOK
  <2> QED
    BY <2>2, <2>3
<1>22. ASSUME AgentCrash PROVE TypeOK'
  <2>1. worker' \in [Workers -> Work]
    BY <1>22, <1>b, AbandonTyped DEF AgentCrash
  <2> QED
    BY <1>22, <1>b, <2>1 DEF AgentCrash, Fault, TypeOK
<1>23. CASE UNCHANGED vars
  BY <1>23, <1>b DEF vars, agentVars, history, TypeOK
<1> QED
  BY <1>1, <1>2, <1>3, <1>4, <1>5, <1>6, <1>7, <1>8, <1>9, <1>10, <1>11,
     <1>12, <1>13, <1>14, <1>15, <1>16, <1>17, <1>18, <1>19, <1>20, <1>21,
     <1>22, <1>23
  DEF Next, AdminStep, AgentStep, WorkerStep

-----------------------------------------------------------------------------
(* Requests *)

\* The agent awaits at most one request, and it is the one it is at.
LEMMA CallsStep == IInv /\ [Next]_vars => CallsMatch'
<1> SUFFICES ASSUME IInv, [Next]_vars PROVE CallsMatch'
  OBVIOUS
<1>a. TypeOK /\ CallsMatch /\ Dispatched
  BY DEF IInv
<1>1. ASSUME NEW t \in Tasks, Create(t) PROVE CallsMatch'
  BY <1>1, <1>a DEF Create, TypeOK, CallsMatch, agentVars
<1>2. ASSUME NEW t \in Tasks, CreateBlocked(t) PROVE CallsMatch'
  BY <1>2, <1>a DEF CreateBlocked, TypeOK, CallsMatch, agentVars
<1>3. ASSUME NEW t \in Tasks, Cancel(t) PROVE CallsMatch'
  BY <1>3, <1>a DEF Cancel, TypeOK, CallsMatch, agentVars
<1>4. ASSUME NEW t \in Tasks, Retry(t) PROVE CallsMatch'
  BY <1>4, <1>a DEF Retry, TypeOK, CallsMatch, agentVars
<1>5. ASSUME NEW t \in Tasks, ClaimAges(t) PROVE CallsMatch'
  BY <1>5, <1>a DEF ClaimAges, TypeOK, CallsMatch, agentVars
<1>6. ASSUME NEW w \in Workers, ExpireSelect(w) PROVE CallsMatch'
  BY <1>6, <1>a DEF ExpireSelect, IdleWorker, TypeOK, CallsMatch, agentVars
<1>7. ASSUME NEW w \in Workers, ExpireUpdate(w) PROVE CallsMatch'
  BY <1>7, <1>a DEF ExpireUpdate, IdleWorker, TypeOK, CallsMatch, agentVars
<1>8. ASSUME NEW r \in spooled, FlushSendFails(r) PROVE CallsMatch'
  BY <1>8, <1>a DEF FlushSendFails, TypeOK, CallsMatch
<1>9. ASSUME NEW r \in spooled, NEW w \in Workers, FlushSend(w, r) PROVE CallsMatch'
  BY <1>9, <1>a DEF FlushSend, CompleteRead, IdleWorker, TypeOK, CallsMatch
<1>10. ASSUME FlushDone PROVE CallsMatch'
  BY <1>10, <1>a DEF FlushDone, TypeOK, CallsMatch, Holding
<1>11. ASSUME NEW w \in Workers, ClaimSelect(w) PROVE CallsMatch'
  BY <1>11, <1>a DEF ClaimSelect, IdleWorker, TypeOK, CallsMatch, Holding
<1>12. ASSUME ClaimFails PROVE CallsMatch'
  BY <1>12, <1>a DEF ClaimFails, TypeOK, CallsMatch, Holding
<1>13. ASSUME NEW w \in Workers, ClaimUpdate(w) PROVE CallsMatch'
  BY <1>13, <1>a DEF ClaimUpdate, IdleWorker, TypeOK, CallsMatch, Holding
<1>14. ASSUME NEW t \in todo, NEW s \in Reported, Execute(t, s) PROVE CallsMatch'
  BY <1>14, <1>a, ExecuteTyped DEF Execute, CallsMatch
<1>15. ASSUME CycleEnds PROVE CallsMatch'
  BY <1>15, <1>a DEF CycleEnds, TypeOK, CallsMatch, Holding
<1>16. ASSUME NEW w \in Workers, Send(w) PROVE CallsMatch'
  BY <1>16, <1>a
  DEF Send, CompleteRead, IdleWorker, TypeOK, CallsMatch, Holding
<1>17. ASSUME SendFails PROVE CallsMatch'
  BY <1>17, <1>a DEF SendFails, Spool, TypeOK, CallsMatch, Holding
<1>18. ASSUME SpoolFails PROVE CallsMatch'
  BY <1>18, <1>a DEF SpoolFails, Fault, TypeOK, CallsMatch, Holding
<1>19. ASSUME NEW w \in Workers, Complete(w) PROVE CallsMatch'
  BY <1>19, <1>a
  DEF Complete, CompleteWrite, IdleWorker, TypeOK, CallsMatch, Holding
<1>20. ASSUME AgentTimesOut PROVE CallsMatch'
  BY <1>20, <1>a
  DEF AgentTimesOut, Fault, Abandon, CallFails, Spool, TypeOK, CallsMatch,
      Holding, Work
<1>21. ASSUME NEW w \in Workers, RequestDies(w) PROVE CallsMatch'
  BY <1>21, <1>a
  DEF RequestDies, Fault, CallFails, Spool, IdleWorker, TypeOK, CallsMatch,
      Holding
<1>22. ASSUME AgentCrash PROVE CallsMatch'
  BY <1>22, <1>a
  DEF AgentCrash, Fault, Abandon, TypeOK, CallsMatch, Holding, Work
<1>23. CASE UNCHANGED vars
  BY <1>23, <1>a DEF TypeOK, CallsMatch, agentVars, vars
<1> QED
  BY <1>1, <1>2, <1>3, <1>4, <1>5, <1>6, <1>7, <1>8, <1>9, <1>10, <1>11,
     <1>12, <1>13, <1>14, <1>15, <1>16, <1>17, <1>18, <1>19, <1>20, <1>21,
     <1>22, <1>23
  DEF Next, AdminStep, AgentStep, WorkerStep

-----------------------------------------------------------------------------
(* Results in flight *)

\* The agent has just run a task, with the result r.
Launched(r) == \E t \in todo, s \in Reported : Execute(t, s) /\ r = current'

\* In flight after the step: in flight before, or just produced.
Flights == \A r \in Result : InFlight(r)' => InFlight(r) \/ Launched(r)

\* A result in flight was in flight before, or a task has just been run.
LEMMA FlightStep == IInv /\ [Next]_vars => Flights
<1> SUFFICES ASSUME IInv, [Next]_vars PROVE Flights
  OBVIOUS
<1>a. TypeOK /\ CallsMatch
  BY DEF IInv
<1>1. ASSUME NEW t \in Tasks, Create(t) PROVE Flights
  BY <1>1, <1>a DEF Create, Flights, InFlight, TypeOK, agentVars
<1>2. ASSUME NEW t \in Tasks, CreateBlocked(t) PROVE Flights
  BY <1>2, <1>a DEF CreateBlocked, Flights, InFlight, TypeOK, agentVars
<1>3. ASSUME NEW t \in Tasks, Cancel(t) PROVE Flights
  BY <1>3, <1>a DEF Cancel, Flights, InFlight, TypeOK, agentVars
<1>4. ASSUME NEW t \in Tasks, Retry(t) PROVE Flights
  BY <1>4, <1>a DEF Retry, Flights, InFlight, TypeOK, agentVars
<1>5. ASSUME NEW t \in Tasks, ClaimAges(t) PROVE Flights
  BY <1>5, <1>a DEF ClaimAges, Flights, InFlight, TypeOK, agentVars
<1>6. ASSUME NEW w \in Workers, ExpireSelect(w) PROVE Flights
  BY <1>6, <1>a
  DEF ExpireSelect, IdleWorker, Flights, InFlight, TypeOK, agentVars
<1>7. ASSUME NEW w \in Workers, ExpireUpdate(w) PROVE Flights
  BY <1>7, <1>a
  DEF ExpireUpdate, IdleWorker, Flights, InFlight, TypeOK, agentVars
<1>8. ASSUME NEW r \in spooled, FlushSendFails(r) PROVE Flights
  BY <1>8, <1>a DEF FlushSendFails, Flights, InFlight, TypeOK
<1>9. ASSUME NEW r \in spooled, NEW w \in Workers, FlushSend(w, r) PROVE Flights
  BY <1>9, <1>a
  DEF FlushSend, CompleteRead, IdleWorker, Flights, InFlight, TypeOK
<1>10. ASSUME FlushDone PROVE Flights
  BY <1>10, <1>a DEF FlushDone, Flights, InFlight, TypeOK, Holding
<1>11. ASSUME NEW w \in Workers, ClaimSelect(w) PROVE Flights
  BY <1>11, <1>a
  DEF ClaimSelect, IdleWorker, Flights, InFlight, TypeOK, Holding
<1>12. ASSUME ClaimFails PROVE Flights
  BY <1>12, <1>a DEF ClaimFails, Flights, InFlight, TypeOK, Holding
<1>13. ASSUME NEW w \in Workers, ClaimUpdate(w) PROVE Flights
  BY <1>13, <1>a
  DEF ClaimUpdate, IdleWorker, Flights, InFlight, TypeOK, Holding
<1>14. ASSUME NEW t \in todo, NEW s \in Reported, Execute(t, s) PROVE Flights
  BY <1>14, <1>a DEF Execute, Flights, Launched, InFlight
<1>15. ASSUME CycleEnds PROVE Flights
  BY <1>15, <1>a DEF CycleEnds, Flights, InFlight, TypeOK, Holding
<1>16. ASSUME NEW w \in Workers, Send(w) PROVE Flights
  BY <1>16, <1>a
  DEF Send, CompleteRead, IdleWorker, Flights, InFlight, TypeOK, Holding
<1>17. ASSUME SendFails PROVE Flights
  BY <1>17, <1>a DEF SendFails, Spool, Flights, InFlight, TypeOK, Holding
<1>18. ASSUME SpoolFails PROVE Flights
  BY <1>18, <1>a DEF SpoolFails, Fault, Flights, InFlight, TypeOK, Holding
<1>19. ASSUME NEW w \in Workers, Complete(w) PROVE Flights
  BY <1>19, <1>a
  DEF Complete, CompleteWrite, IdleWorker, Flights, InFlight, TypeOK, Holding
<1>20. ASSUME AgentTimesOut PROVE Flights
  BY <1>20, <1>a
  DEF AgentTimesOut, Fault, Abandon, CallFails, Spool, Flights, InFlight,
      TypeOK, Holding, Work
<1>21. ASSUME NEW w \in Workers, RequestDies(w) PROVE Flights
  BY <1>21, <1>a
  DEF RequestDies, Fault, CallFails, Spool, IdleWorker, Flights, InFlight,
      TypeOK, Holding
<1>22. ASSUME AgentCrash PROVE Flights
  BY <1>22, <1>a
  DEF AgentCrash, Fault, Abandon, Flights, InFlight, TypeOK, Holding, Work
<1>23. CASE UNCHANGED vars
  BY <1>23, <1>a DEF Flights, InFlight, TypeOK, agentVars, vars
<1> QED
  BY <1>1, <1>2, <1>3, <1>4, <1>5, <1>6, <1>7, <1>8, <1>9, <1>10, <1>11,
     <1>12, <1>13, <1>14, <1>15, <1>16, <1>17, <1>18, <1>19, <1>20, <1>21,
     <1>22, <1>23
  DEF Next, AdminStep, AgentStep, WorkerStep

-----------------------------------------------------------------------------
(* Rows that are absent or blocked *)

\* No row is deleted, and only an absent row is created blocked.
Created ==
    /\ \A t \in Tasks : row[t].status # "absent" => row'[t].status # "absent"
    /\ \A t \in blocked' : t \in blocked \/ row[t].status = "absent"

\* No row is deleted, and only a row that was absent is created blocked.
LEMMA CreatedStep == IInv /\ [Next]_vars => Created
<1> SUFFICES ASSUME IInv, [Next]_vars PROVE Created
  OBVIOUS
<1>a. TypeOK /\ CallsMatch
  BY DEF IInv
<1>1. ASSUME NEW t \in Tasks, Create(t) PROVE Created
  BY <1>1, <1>a DEF Create, TypeOK, Created, history
<1>2. ASSUME NEW t \in Tasks, CreateBlocked(t) PROVE Created
  BY <1>2, <1>a DEF CreateBlocked, TypeOK, Created
<1>3. ASSUME NEW t \in Tasks, Cancel(t) PROVE Created
  BY <1>3, <1>a DEF Cancel, SetStatus, TypeOK, Created, history
<1>4. ASSUME NEW t \in Tasks, Retry(t) PROVE Created
  BY <1>4, <1>a DEF Retry, TypeOK, Created
<1>5. ASSUME NEW t \in Tasks, ClaimAges(t) PROVE Created
  BY <1>5, <1>a DEF ClaimAges, TypeOK, Created, history
<1>6. ASSUME NEW w \in Workers, ExpireSelect(w) PROVE Created
  BY <1>6, <1>a DEF ExpireSelect, IdleWorker, TypeOK, Created, history
<1>7. ASSUME NEW w \in Workers, ExpireUpdate(w) PROVE Created
  BY <1>7, <1>a
  DEF ExpireUpdate, SetStatus, IdleWorker, TypeOK, Created, history
<1>8. ASSUME NEW r \in spooled, FlushSendFails(r) PROVE Created
  BY <1>8, <1>a DEF FlushSendFails, TypeOK, Created, history
<1>9. ASSUME NEW r \in spooled, NEW w \in Workers, FlushSend(w, r) PROVE Created
  BY <1>9, <1>a
  DEF FlushSend, CompleteRead, IdleWorker, TypeOK, Created, history
<1>10. ASSUME FlushDone PROVE Created
  BY <1>10, <1>a DEF FlushDone, TypeOK, Created, history
<1>11. ASSUME NEW w \in Workers, ClaimSelect(w) PROVE Created
  BY <1>11, <1>a DEF ClaimSelect, IdleWorker, TypeOK, Created, history
<1>12. ASSUME ClaimFails PROVE Created
  BY <1>12, <1>a DEF ClaimFails, TypeOK, Created, history
<1>13. ASSUME NEW w \in Workers, ClaimUpdate(w) PROVE Created
  BY <1>13, <1>a
  DEF ClaimUpdate, SetStatus, IdleWorker, TypeOK, Created, history
<1>14. ASSUME NEW t \in todo, NEW s \in Reported, Execute(t, s) PROVE Created
  BY <1>14, <1>a DEF Execute, TypeOK, Created
<1>15. ASSUME CycleEnds PROVE Created
  BY <1>15, <1>a DEF CycleEnds, TypeOK, Created, history
<1>16. ASSUME NEW w \in Workers, Send(w) PROVE Created
  BY <1>16, <1>a DEF Send, CompleteRead, IdleWorker, TypeOK, Created, history
<1>17. ASSUME SendFails PROVE Created
  BY <1>17, <1>a DEF SendFails, Spool, TypeOK, Created
<1>18. ASSUME SpoolFails PROVE Created
  BY <1>18, <1>a DEF SpoolFails, Fault, TypeOK, Created
<1>19. ASSUME NEW w \in Workers, Complete(w) PROVE Created
  <2>1. worker[w].result.task \in Tasks /\ worker[w].result.status \in Reported
    BY <1>19, <1>a DEF Complete, CompleteWrite, CallsMatch, Result
  <2>2. worker[w].result.status # "absent"
    BY <2>1, TaskAssumption
  <2> QED
    BY <1>19, <1>a, <2>1, <2>2 DEF Complete, CompleteWrite, TypeOK, Created
<1>20. ASSUME AgentTimesOut PROVE Created
  BY <1>20, <1>a
  DEF AgentTimesOut, Fault, Abandon, CallFails, Spool, TypeOK, Created
<1>21. ASSUME NEW w \in Workers, RequestDies(w) PROVE Created
  BY <1>21, <1>a
  DEF RequestDies, Fault, CallFails, Spool, IdleWorker, TypeOK, Created
<1>22. ASSUME AgentCrash PROVE Created
  BY <1>22, <1>a DEF AgentCrash, Fault, Abandon, TypeOK, Created
<1>23. CASE UNCHANGED vars
  BY <1>23, <1>a DEF TypeOK, Created, history, vars
<1> QED
  BY <1>1, <1>2, <1>3, <1>4, <1>5, <1>6, <1>7, <1>8, <1>9, <1>10, <1>11,
     <1>12, <1>13, <1>14, <1>15, <1>16, <1>17, <1>18, <1>19, <1>20, <1>21,
     <1>22, <1>23
  DEF Next, AdminStep, AgentStep, WorkerStep

\* After the step absent and blocked rows are as they were.
Kept ==
    /\ \A t \in blocked' : row'[t].status = "blocked_by_policy"
    /\ \A t \in Tasks :
          (row'[t].status = "absent" \/ t \in blocked') => Untouched(t)'

\* Nothing touches a row that is absent or blocked.
LEMMA KeptStep == IInv /\ [Next]_vars => Kept
<1> SUFFICES ASSUME IInv, [Next]_vars PROVE Kept
  OBVIOUS
<1>a. TypeOK /\ CallsMatch /\ Sealed
  BY DEF IInv
<1>b. Created
  BY CreatedStep
<1>1. ASSUME NEW t \in Tasks, Create(t) PROVE Kept
  BY <1>1, <1>a, <1>b
  DEF Create, TypeOK, Sealed, Untouched, Created, Kept, agentVars, history
<1>2. ASSUME NEW t \in Tasks, CreateBlocked(t) PROVE Kept
  BY <1>2, <1>a, <1>b
  DEF CreateBlocked, TypeOK, Sealed, Untouched, Created, Kept, agentVars
<1>3. ASSUME NEW t \in Tasks, Cancel(t) PROVE Kept
  BY <1>3, <1>a, <1>b
  DEF Cancel, SetStatus, TypeOK, Sealed, Untouched, Created, Kept, agentVars,
      history
<1>4. ASSUME NEW t \in Tasks, Retry(t) PROVE Kept
  BY <1>4, <1>a, <1>b
  DEF Retry, Retryable, TypeOK, Sealed, Untouched, Created, Kept, agentVars
<1>5. ASSUME NEW t \in Tasks, ClaimAges(t) PROVE Kept
  BY <1>5, <1>a, <1>b
  DEF ClaimAges, TypeOK, Sealed, Untouched, Created, Kept, agentVars, history
<1>6. ASSUME NEW w \in Workers, ExpireSelect(w) PROVE Kept
  BY <1>6, <1>a, <1>b
  DEF ExpireSelect, IdleWorker, Claimed, TypeOK, Sealed, Untouched, Created,
      Kept, agentVars, history
<1>7. ASSUME NEW w \in Workers, ExpireUpdate(w) PROVE Kept
  BY <1>7, <1>a, <1>b
  DEF ExpireUpdate, SetStatus, IdleWorker, TypeOK, Sealed, Untouched, Created,
      Kept, agentVars, history
<1>8. ASSUME NEW r \in spooled, FlushSendFails(r) PROVE Kept
  BY <1>8, <1>a, <1>b
  DEF FlushSendFails, TypeOK, Sealed, Untouched, Created, Kept, history
<1>9. ASSUME NEW r \in spooled, NEW w \in Workers, FlushSend(w, r) PROVE Kept
  BY <1>9, <1>a, <1>b
  DEF FlushSend, CompleteRead, IdleWorker, TypeOK, Sealed, Untouched, Created,
      Kept, history
<1>10. ASSUME FlushDone PROVE Kept
  BY <1>10, <1>a, <1>b
  DEF FlushDone, TypeOK, Sealed, Untouched, Created, Kept, history
<1>11. ASSUME NEW w \in Workers, ClaimSelect(w) PROVE Kept
  BY <1>11, <1>a, <1>b
  DEF ClaimSelect, IdleWorker, Queued, TypeOK, Sealed, Untouched, Created,
      Kept, history
<1>12. ASSUME ClaimFails PROVE Kept
  BY <1>12, <1>a, <1>b
  DEF ClaimFails, TypeOK, Sealed, Untouched, Created, Kept, history
<1>13. ASSUME NEW w \in Workers, ClaimUpdate(w) PROVE Kept
  BY <1>13, <1>a, <1>b
  DEF ClaimUpdate, SetStatus, IdleWorker, TypeOK, Sealed, Untouched, Created,
      Kept, history
<1>14. ASSUME NEW t \in todo, NEW s \in Reported, Execute(t, s) PROVE Kept
  BY <1>14, <1>a, <1>b DEF Execute, TypeOK, Sealed, Untouched, Created, Kept
<1>15. ASSUME CycleEnds PROVE Kept
  BY <1>15, <1>a, <1>b
  DEF CycleEnds, TypeOK, Sealed, Untouched, Created, Kept, history
<1>16. ASSUME NEW w \in Workers, Send(w) PROVE Kept
  BY <1>16, <1>a, <1>b
  DEF Send, CompleteRead, IdleWorker, TypeOK, Sealed, Untouched, Created,
      Kept, history
<1>17. ASSUME SendFails PROVE Kept
  BY <1>17, <1>a, <1>b
  DEF SendFails, Spool, TypeOK, Sealed, Untouched, Created, Kept
<1>18. ASSUME SpoolFails PROVE Kept
  BY <1>18, <1>a, <1>b
  DEF SpoolFails, Fault, TypeOK, Sealed, Untouched, Created, Kept
<1>19. ASSUME NEW w \in Workers, Complete(w) PROVE Kept
  <2>1. InFlight(worker[w].result) /\ worker[w].result \in Result
    BY <1>19, <1>a DEF Complete, CompleteWrite, CallsMatch, InFlight
  <2>2. worker[w].result.task \in Tasks \ blocked
    BY <1>a, <2>1 DEF Sealed, Result
  <2> QED
    BY <1>19, <1>a, <1>b, <2>2
    DEF Complete, CompleteWrite, IdleWorker, TypeOK, Sealed, Untouched,
        Created, Kept
<1>20. ASSUME AgentTimesOut PROVE Kept
  BY <1>20, <1>a, <1>b
  DEF AgentTimesOut, Fault, Abandon, CallFails, Spool, TypeOK, Sealed,
      Untouched, Created, Kept, Work
<1>21. ASSUME NEW w \in Workers, RequestDies(w) PROVE Kept
  BY <1>21, <1>a, <1>b
  DEF RequestDies, Fault, CallFails, Spool, IdleWorker, TypeOK, Sealed,
      Untouched, Created, Kept
<1>22. ASSUME AgentCrash PROVE Kept
  BY <1>22, <1>a, <1>b
  DEF AgentCrash, Fault, Abandon, TypeOK, Sealed, Untouched, Created, Kept,
      Work
<1>23. CASE UNCHANGED vars
  BY <1>23, <1>a, <1>b
  DEF TypeOK, Sealed, Untouched, Created, Kept, agentVars, history, vars
<1> QED
  BY <1>1, <1>2, <1>3, <1>4, <1>5, <1>6, <1>7, <1>8, <1>9, <1>10, <1>11,
     <1>12, <1>13, <1>14, <1>15, <1>16, <1>17, <1>18, <1>19, <1>20, <1>21,
     <1>22, <1>23
  DEF Next, AdminStep, AgentStep, WorkerStep

\* A row that is absent or blocked stays out of every flight.
LEMMA SealedStep == IInv /\ [Next]_vars => Sealed'
<1> SUFFICES ASSUME IInv, [Next]_vars PROVE Sealed'
  OBVIOUS
<1>a. Sealed /\ Kept /\ Created /\ Flights
  BY CreatedStep, KeptStep, FlightStep DEF IInv
<1>1. ASSUME NEW r \in Result, InFlight(r)'
      PROVE  row'[r.task].status # "absent" /\ r.task \notin blocked'
  <2>1. r.task \in Tasks
    BY DEF Result
  <2>2. CASE InFlight(r)
    BY <1>a, <2>1, <2>2 DEF Sealed, Created
  <2>3. CASE Launched(r)
    <3>1. r.task \in todo /\ blocked' = blocked /\ row' = row
      BY <2>3 DEF Launched, Execute
    <3> QED
      BY <1>a, <2>1, <3>1 DEF Sealed, Untouched
  <2> QED
    BY <1>1, <1>a, <2>2, <2>3 DEF Flights
<1> QED
  BY <1>1, <1>a DEF Sealed, Kept

-----------------------------------------------------------------------------
(* Runs *)

\* No step runs a task that is not owed a run.
LEMMA DispatchStep == IInv /\ [Next]_vars => Dispatched'
<1> SUFFICES ASSUME IInv, [Next]_vars PROVE Dispatched'
  OBVIOUS
<1>a. TypeOK /\ CallsMatch /\ Sealed /\ Dispatched
  BY DEF IInv
<1>1. ASSUME NEW t \in Tasks, Create(t) PROVE Dispatched'
  <2>1. executions[t] = 0 /\ t \notin todo
    BY <1>1, <1>a DEF Create, Sealed, Untouched
  <2> QED
    BY <1>1, <1>a, <2>1
    DEF Create, TypeOK, Dispatched, Owed, agentVars, history
<1>2. ASSUME NEW t \in Tasks, CreateBlocked(t) PROVE Dispatched'
  BY <1>2, <1>a DEF CreateBlocked, TypeOK, Dispatched, Owed, agentVars
<1>3. ASSUME NEW t \in Tasks, Cancel(t) PROVE Dispatched'
  BY <1>3, <1>a
  DEF Cancel, SetStatus, TypeOK, Dispatched, Owed, agentVars, history
<1>4. ASSUME NEW t \in Tasks, Retry(t) PROVE Dispatched'
  BY <1>4, <1>a, TaskAssumption DEF Retry, TypeOK, Dispatched, Owed, agentVars
<1>5. ASSUME NEW t \in Tasks, ClaimAges(t) PROVE Dispatched'
  BY <1>5, <1>a DEF ClaimAges, TypeOK, Dispatched, Owed, agentVars, history
<1>6. ASSUME NEW w \in Workers, ExpireSelect(w) PROVE Dispatched'
  BY <1>6, <1>a
  DEF ExpireSelect, IdleWorker, TypeOK, Dispatched, Owed, agentVars, history
<1>7. ASSUME NEW w \in Workers, ExpireUpdate(w) PROVE Dispatched'
  BY <1>7, <1>a
  DEF ExpireUpdate, SetStatus, IdleWorker, TypeOK, Dispatched, Owed,
      agentVars, history
<1>8. ASSUME NEW r \in spooled, FlushSendFails(r) PROVE Dispatched'
  BY <1>8, <1>a DEF FlushSendFails, TypeOK, Dispatched, Owed, history
<1>9. ASSUME NEW r \in spooled, NEW w \in Workers, FlushSend(w, r) PROVE Dispatched'
  BY <1>9, <1>a
  DEF FlushSend, CompleteRead, IdleWorker, TypeOK, Dispatched, Owed, history
<1>10. ASSUME FlushDone PROVE Dispatched'
  BY <1>10, <1>a DEF FlushDone, TypeOK, Dispatched, Owed, history
<1>11. ASSUME NEW w \in Workers, ClaimSelect(w) PROVE Dispatched'
  BY <1>11, <1>a
  DEF ClaimSelect, IdleWorker, Queued, TypeOK, Dispatched, Owed, history
<1>12. ASSUME ClaimFails PROVE Dispatched'
  BY <1>12, <1>a DEF ClaimFails, TypeOK, Dispatched, Owed, history
<1>13. ASSUME NEW w \in Workers, ClaimUpdate(w) PROVE Dispatched'
  BY <1>13, <1>a
  DEF ClaimUpdate, SetStatus, IdleWorker, TypeOK, Dispatched, Owed, history
<1>14. ASSUME NEW t \in todo, NEW s \in Reported, Execute(t, s) PROVE Dispatched'
  BY <1>14, <1>a DEF Execute, TypeOK, CallsMatch, Dispatched, Owed
<1>15. ASSUME CycleEnds PROVE Dispatched'
  BY <1>15, <1>a DEF CycleEnds, TypeOK, Dispatched, Owed, history
<1>16. ASSUME NEW w \in Workers, Send(w) PROVE Dispatched'
  BY <1>16, <1>a
  DEF Send, CompleteRead, IdleWorker, TypeOK, Dispatched, Owed, history
<1>17. ASSUME SendFails PROVE Dispatched'
  BY <1>17, <1>a DEF SendFails, Spool, TypeOK, Dispatched, Owed
<1>18. ASSUME SpoolFails PROVE Dispatched'
  BY <1>18, <1>a DEF SpoolFails, Fault, TypeOK, Dispatched, Owed
<1>19. ASSUME NEW w \in Workers, Complete(w) PROVE Dispatched'
  <2>1. worker[w].result.task \in Tasks /\ worker[w].result.status \in Reported
    BY <1>19, <1>a DEF Complete, CompleteWrite, CallsMatch, Result
  <2>2. worker[w].result.status # "queued"
    BY <2>1, TaskAssumption
  <2> QED
    BY <1>19, <1>a, <2>1, <2>2
    DEF Complete, CompleteWrite, IdleWorker, TypeOK, Dispatched, Owed
<1>20. ASSUME AgentTimesOut PROVE Dispatched'
  BY <1>20, <1>a
  DEF AgentTimesOut, Fault, Abandon, CallFails, Spool, TypeOK, Dispatched,
      Owed, Work
<1>21. ASSUME NEW w \in Workers, RequestDies(w) PROVE Dispatched'
  BY <1>21, <1>a
  DEF RequestDies, Fault, CallFails, Spool, IdleWorker, TypeOK, Dispatched,
      Owed
<1>22. ASSUME AgentCrash PROVE Dispatched'
  BY <1>22, <1>a
  DEF AgentCrash, Fault, Abandon, TypeOK, Dispatched, Owed, Work
<1>23. CASE UNCHANGED vars
  BY <1>23, <1>a DEF TypeOK, Dispatched, Owed, agentVars, history, vars
<1> QED
  BY <1>1, <1>2, <1>3, <1>4, <1>5, <1>6, <1>7, <1>8, <1>9, <1>10, <1>11,
     <1>12, <1>13, <1>14, <1>15, <1>16, <1>17, <1>18, <1>19, <1>20, <1>21,
     <1>22, <1>23
  DEF Next, AdminStep, AgentStep, WorkerStep

\* The count of the runs of a task never falls.
Counted == \A t \in Tasks : executions[t] <= executions'[t]

\* The count of the runs of a task never falls.
LEMMA CountStep == IInv /\ [Next]_vars => Counted
<1> SUFFICES ASSUME IInv, [Next]_vars PROVE Counted
  OBVIOUS
<1>a. TypeOK /\ CallsMatch
  BY DEF IInv
<1>1. ASSUME NEW t \in Tasks, Create(t) PROVE Counted
  BY <1>1, <1>a DEF Create, TypeOK, Counted, history
<1>2. ASSUME NEW t \in Tasks, CreateBlocked(t) PROVE Counted
  BY <1>2, <1>a DEF CreateBlocked, TypeOK, Counted
<1>3. ASSUME NEW t \in Tasks, Cancel(t) PROVE Counted
  BY <1>3, <1>a DEF Cancel, TypeOK, Counted, history
<1>4. ASSUME NEW t \in Tasks, Retry(t) PROVE Counted
  BY <1>4, <1>a DEF Retry, TypeOK, Counted
<1>5. ASSUME NEW t \in Tasks, ClaimAges(t) PROVE Counted
  BY <1>5, <1>a DEF ClaimAges, TypeOK, Counted, history
<1>6. ASSUME NEW w \in Workers, ExpireSelect(w) PROVE Counted
  BY <1>6, <1>a DEF ExpireSelect, TypeOK, Counted, history
<1>7. ASSUME NEW w \in Workers, ExpireUpdate(w) PROVE Counted
  BY <1>7, <1>a DEF ExpireUpdate, TypeOK, Counted, history
<1>8. ASSUME NEW r \in spooled, FlushSendFails(r) PROVE Counted
  BY <1>8, <1>a DEF FlushSendFails, TypeOK, Counted, history
<1>9. ASSUME NEW r \in spooled, NEW w \in Workers, FlushSend(w, r) PROVE Counted
  BY <1>9, <1>a DEF FlushSend, TypeOK, Counted, history
<1>10. ASSUME FlushDone PROVE Counted
  BY <1>10, <1>a DEF FlushDone, TypeOK, Counted, history
<1>11. ASSUME NEW w \in Workers, ClaimSelect(w) PROVE Counted
  BY <1>11, <1>a DEF ClaimSelect, TypeOK, Counted, history
<1>12. ASSUME ClaimFails PROVE Counted
  BY <1>12, <1>a DEF ClaimFails, TypeOK, Counted, history
<1>13. ASSUME NEW w \in Workers, ClaimUpdate(w) PROVE Counted
  BY <1>13, <1>a DEF ClaimUpdate, TypeOK, Counted, history
<1>14. ASSUME NEW t \in todo, NEW s \in Reported, Execute(t, s) PROVE Counted
  BY <1>14, <1>a DEF Execute, TypeOK, Counted
<1>15. ASSUME CycleEnds PROVE Counted
  BY <1>15, <1>a DEF CycleEnds, TypeOK, Counted, history
<1>16. ASSUME NEW w \in Workers, Send(w) PROVE Counted
  BY <1>16, <1>a DEF Send, TypeOK, Counted, history
<1>17. ASSUME SendFails PROVE Counted
  BY <1>17, <1>a DEF SendFails, TypeOK, Counted
<1>18. ASSUME SpoolFails PROVE Counted
  BY <1>18, <1>a DEF SpoolFails, TypeOK, Counted
<1>19. ASSUME NEW w \in Workers, Complete(w) PROVE Counted
  BY <1>19, <1>a DEF Complete, TypeOK, Counted
<1>20. ASSUME AgentTimesOut PROVE Counted
  BY <1>20, <1>a DEF AgentTimesOut, TypeOK, Counted
<1>21. ASSUME NEW w \in Workers, RequestDies(w) PROVE Counted
  BY <1>21, <1>a DEF RequestDies, TypeOK, Counted
<1>22. ASSUME AgentCrash PROVE Counted
  BY <1>22, <1>a DEF AgentCrash, TypeOK, Counted
<1>23. CASE UNCHANGED vars
  BY <1>23, <1>a DEF TypeOK, Counted, history, vars
<1> QED
  BY <1>1, <1>2, <1>3, <1>4, <1>5, <1>6, <1>7, <1>8, <1>9, <1>10, <1>11,
     <1>12, <1>13, <1>14, <1>15, <1>16, <1>17, <1>18, <1>19, <1>20, <1>21,
     <1>22, <1>23
  DEF Next, AdminStep, AgentStep, WorkerStep

\* After the step rows and threads hold runs that took place.
RowRuns ==
    /\ \A t \in Tasks : row'[t].content.run <= executions'[t]
    /\ \A w \in Workers : worker'[w].op = "complete" =>
          worker'[w].existing.run <= executions'[worker'[w].result.task]

\* What rows and threads hold are runs the task has had.
LEMMA RowRunsStep == IInv /\ [Next]_vars => RowRuns
<1> SUFFICES ASSUME IInv, [Next]_vars PROVE RowRuns
  OBVIOUS
<1>a. TypeOK /\ CallsMatch /\ RunsCounted
  BY DEF IInv
<1>b. Counted
  BY CountStep
<1>1. ASSUME NEW t \in Tasks, Create(t) PROVE RowRuns
  BY <1>1, <1>a, <1>b
  DEF Create, TypeOK, RunsCounted, Counted, RowRuns, history
<1>2. ASSUME NEW t \in Tasks, CreateBlocked(t) PROVE RowRuns
  BY <1>2, <1>a, <1>b DEF CreateBlocked, TypeOK, RunsCounted, Counted, RowRuns
<1>3. ASSUME NEW t \in Tasks, Cancel(t) PROVE RowRuns
  BY <1>3, <1>a, <1>b
  DEF Cancel, SetStatus, TypeOK, RunsCounted, Counted, RowRuns, history
<1>4. ASSUME NEW t \in Tasks, Retry(t) PROVE RowRuns
  BY <1>4, <1>a, <1>b
  DEF Retry, NoContent, TypeOK, RunsCounted, Counted, RowRuns
<1>5. ASSUME NEW t \in Tasks, ClaimAges(t) PROVE RowRuns
  BY <1>5, <1>a, <1>b
  DEF ClaimAges, TypeOK, RunsCounted, Counted, RowRuns, history
<1>6. ASSUME NEW w \in Workers, ExpireSelect(w) PROVE RowRuns
  BY <1>6, <1>a, <1>b
  DEF ExpireSelect, IdleWorker, TypeOK, RunsCounted, Counted, RowRuns, history
<1>7. ASSUME NEW w \in Workers, ExpireUpdate(w) PROVE RowRuns
  BY <1>7, <1>a, <1>b
  DEF ExpireUpdate, SetStatus, IdleWorker, TypeOK, RunsCounted, Counted,
      RowRuns, history
<1>8. ASSUME NEW r \in spooled, FlushSendFails(r) PROVE RowRuns
  BY <1>8, <1>a, <1>b
  DEF FlushSendFails, TypeOK, RunsCounted, Counted, RowRuns, history
<1>9. ASSUME NEW r \in spooled, NEW w \in Workers, FlushSend(w, r) PROVE RowRuns
  BY <1>9, <1>a, <1>b
  DEF FlushSend, CompleteRead, IdleWorker, TypeOK, RunsCounted, Counted,
      RowRuns, Result, history
<1>10. ASSUME FlushDone PROVE RowRuns
  BY <1>10, <1>a, <1>b
  DEF FlushDone, TypeOK, RunsCounted, Counted, RowRuns, history
<1>11. ASSUME NEW w \in Workers, ClaimSelect(w) PROVE RowRuns
  BY <1>11, <1>a, <1>b
  DEF ClaimSelect, IdleWorker, TypeOK, RunsCounted, Counted, RowRuns, history
<1>12. ASSUME ClaimFails PROVE RowRuns
  BY <1>12, <1>a, <1>b
  DEF ClaimFails, TypeOK, RunsCounted, Counted, RowRuns, history
<1>13. ASSUME NEW w \in Workers, ClaimUpdate(w) PROVE RowRuns
  BY <1>13, <1>a, <1>b
  DEF ClaimUpdate, SetStatus, IdleWorker, TypeOK, RunsCounted, Counted,
      RowRuns, history
<1>14. ASSUME NEW t \in todo, NEW s \in Reported, Execute(t, s) PROVE RowRuns
  BY <1>14, <1>a, <1>b
  DEF Execute, TypeOK, RunsCounted, Counted, RowRuns, Work, Row, Content
<1>15. ASSUME CycleEnds PROVE RowRuns
  BY <1>15, <1>a, <1>b
  DEF CycleEnds, TypeOK, RunsCounted, Counted, RowRuns, history
<1>16. ASSUME NEW w \in Workers, Send(w) PROVE RowRuns
  <2>1. current \in Result
    BY <1>16, <1>a DEF Send, CallsMatch, Holding
  <2>2. current.task \in Tasks
    BY <2>1 DEF Result
  <2> QED
    BY <1>16, <1>a, <2>2
    DEF Send, CompleteRead, IdleWorker, TypeOK, RunsCounted, RowRuns, history
<1>17. ASSUME SendFails PROVE RowRuns
  BY <1>17, <1>a, <1>b
  DEF SendFails, Spool, TypeOK, RunsCounted, Counted, RowRuns
<1>18. ASSUME SpoolFails PROVE RowRuns
  BY <1>18, <1>a, <1>b
  DEF SpoolFails, Fault, TypeOK, RunsCounted, Counted, RowRuns
<1>19. ASSUME NEW w \in Workers, Complete(w) PROVE RowRuns
  BY <1>19, <1>a, <1>b
  DEF Complete, CompleteWrite, Merged, IdleWorker, TypeOK, RunsCounted,
      Counted, RowRuns, CallsMatch, InFlight
<1>20. ASSUME AgentTimesOut PROVE RowRuns
  BY <1>20, <1>a, <1>b
  DEF AgentTimesOut, Fault, Abandon, CallFails, Spool, TypeOK, RunsCounted,
      Counted, RowRuns, Work
<1>21. ASSUME NEW w \in Workers, RequestDies(w) PROVE RowRuns
  BY <1>21, <1>a, <1>b
  DEF RequestDies, Fault, CallFails, Spool, IdleWorker, TypeOK, RunsCounted,
      Counted, RowRuns
<1>22. ASSUME AgentCrash PROVE RowRuns
  BY <1>22, <1>a, <1>b
  DEF AgentCrash, Fault, Abandon, TypeOK, RunsCounted, Counted, RowRuns, Work
<1>23. CASE UNCHANGED vars
  BY <1>23, <1>a, <1>b
  DEF TypeOK, RunsCounted, Counted, RowRuns, history, vars
<1> QED
  BY <1>1, <1>2, <1>3, <1>4, <1>5, <1>6, <1>7, <1>8, <1>9, <1>10, <1>11,
     <1>12, <1>13, <1>14, <1>15, <1>16, <1>17, <1>18, <1>19, <1>20, <1>21,
     <1>22, <1>23
  DEF Next, AdminStep, AgentStep, WorkerStep

\* A result never names a run its task has not had.
LEMMA RunsStep == IInv /\ [Next]_vars => RunsCounted'
<1> SUFFICES ASSUME IInv, [Next]_vars PROVE RunsCounted'
  OBVIOUS
<1>a. TypeOK /\ RunsCounted /\ RowRuns /\ Counted /\ Flights
  BY CountStep, RowRunsStep, FlightStep DEF IInv
<1>b. TypeOK'
  BY TypeStep
<1>1. ASSUME NEW r \in Result, InFlight(r)' PROVE r.run <= executions'[r.task]
  <2>1. r.task \in Tasks /\ r.run \in Nat
    BY DEF Result
  <2>2. executions[r.task] \in Nat /\ executions'[r.task] \in Nat
    BY <1>a, <1>b, <2>1 DEF TypeOK
  <2>3. CASE InFlight(r)
    <3>1. r.run <= executions[r.task] /\ executions[r.task] <= executions'[r.task]
      BY <1>a, <2>1, <2>3 DEF RunsCounted, Counted
    <3> QED
      BY <2>1, <2>2, <3>1
  <2>4. CASE Launched(r)
    <3>1. r.run = executions[r.task] + 1 /\ r.task \in todo
          /\ executions' = [executions EXCEPT ![r.task] = @ + 1]
      BY <2>4 DEF Launched, Execute
    <3> QED
      BY <1>a, <2>1, <2>2, <3>1 DEF TypeOK
  <2> QED
    BY <1>1, <1>a, <2>3, <2>4 DEF Flights
<1> QED
  BY <1>1, <1>a DEF RunsCounted, RowRuns

-----------------------------------------------------------------------------
(* What rows say, and what becomes of results *)

\* The audit stays in the row, and in what a thread read of it.
LEMMA AuditStep == IInv /\ [Next]_vars => AuditCarried'
<1> SUFFICES ASSUME IInv, [Next]_vars PROVE AuditCarried'
  OBVIOUS
<1>a. TypeOK /\ CallsMatch /\ Sealed /\ Dispatched /\ AuditCarried
  BY DEF IInv
<1>1. ASSUME NEW t \in Tasks, Create(t) PROVE AuditCarried'
  BY <1>1, <1>a DEF Create, TypeOK, AuditCarried, AuditKeptUntilRetry, history
<1>2. ASSUME NEW t \in Tasks, CreateBlocked(t) PROVE AuditCarried'
  BY <1>2, <1>a DEF CreateBlocked, TypeOK, AuditCarried, AuditKeptUntilRetry
<1>3. ASSUME NEW t \in Tasks, Cancel(t) PROVE AuditCarried'
  BY <1>3, <1>a
  DEF Cancel, SetStatus, TypeOK, AuditCarried, AuditKeptUntilRetry, history
<1>4. ASSUME NEW t \in Tasks, Retry(t) PROVE AuditCarried'
  BY <1>4, <1>a DEF Retry, TypeOK, AuditCarried, AuditKeptUntilRetry
<1>5. ASSUME NEW t \in Tasks, ClaimAges(t) PROVE AuditCarried'
  BY <1>5, <1>a
  DEF ClaimAges, TypeOK, AuditCarried, AuditKeptUntilRetry, history
<1>6. ASSUME NEW w \in Workers, ExpireSelect(w) PROVE AuditCarried'
  BY <1>6, <1>a
  DEF ExpireSelect, IdleWorker, TypeOK, AuditCarried, AuditKeptUntilRetry,
      history
<1>7. ASSUME NEW w \in Workers, ExpireUpdate(w) PROVE AuditCarried'
  BY <1>7, <1>a
  DEF ExpireUpdate, SetStatus, IdleWorker, TypeOK, AuditCarried,
      AuditKeptUntilRetry, Sealed, Untouched, history
<1>8. ASSUME NEW r \in spooled, FlushSendFails(r) PROVE AuditCarried'
  BY <1>8, <1>a
  DEF FlushSendFails, TypeOK, AuditCarried, AuditKeptUntilRetry, history
<1>9. ASSUME NEW r \in spooled, NEW w \in Workers, FlushSend(w, r) PROVE AuditCarried'
  <2>1. r \in Result /\ r.task \in Tasks /\ row[r.task].status # "absent"
    BY <1>9, <1>a DEF FlushSend, TypeOK, Sealed, InFlight, Result
  <2> QED
    BY <1>9, <1>a, <2>1
    DEF FlushSend, CompleteRead, IdleWorker, TypeOK, AuditCarried,
        AuditKeptUntilRetry, history
<1>10. ASSUME FlushDone PROVE AuditCarried'
  BY <1>10, <1>a
  DEF FlushDone, TypeOK, AuditCarried, AuditKeptUntilRetry, history
<1>11. ASSUME NEW w \in Workers, ClaimSelect(w) PROVE AuditCarried'
  BY <1>11, <1>a
  DEF ClaimSelect, IdleWorker, TypeOK, AuditCarried, AuditKeptUntilRetry,
      history
<1>12. ASSUME ClaimFails PROVE AuditCarried'
  BY <1>12, <1>a
  DEF ClaimFails, TypeOK, AuditCarried, AuditKeptUntilRetry, history
<1>13. ASSUME NEW w \in Workers, ClaimUpdate(w) PROVE AuditCarried'
  BY <1>13, <1>a
  DEF ClaimUpdate, SetStatus, IdleWorker, TypeOK, AuditCarried,
      AuditKeptUntilRetry, Sealed, Untouched, history
<1>14. ASSUME NEW t \in todo, NEW s \in Reported, Execute(t, s) PROVE AuditCarried'
  BY <1>14, <1>a DEF Execute, TypeOK, AuditCarried, AuditKeptUntilRetry
<1>15. ASSUME CycleEnds PROVE AuditCarried'
  BY <1>15, <1>a
  DEF CycleEnds, TypeOK, AuditCarried, AuditKeptUntilRetry, history
<1>16. ASSUME NEW w \in Workers, Send(w) PROVE AuditCarried'
  <2>1. current \in Result /\ InFlight(current)
    BY <1>16, <1>a DEF Send, CallsMatch, InFlight, Holding
  <2>2. current.task \in Tasks /\ row[current.task].status # "absent"
    BY <1>a, <2>1 DEF Sealed, Result
  <2> QED
    BY <1>16, <1>a, <2>2
    DEF Send, CompleteRead, IdleWorker, TypeOK, AuditCarried,
        AuditKeptUntilRetry, history
<1>17. ASSUME SendFails PROVE AuditCarried'
  BY <1>17, <1>a
  DEF SendFails, Spool, TypeOK, AuditCarried, AuditKeptUntilRetry
<1>18. ASSUME SpoolFails PROVE AuditCarried'
  BY <1>18, <1>a
  DEF SpoolFails, Fault, TypeOK, AuditCarried, AuditKeptUntilRetry
<1>19. ASSUME NEW w \in Workers, Complete(w) PROVE AuditCarried'
  BY <1>19, <1>a
  DEF Complete, CompleteWrite, Merged, IdleWorker, TypeOK, AuditCarried,
      AuditKeptUntilRetry
<1>20. ASSUME AgentTimesOut PROVE AuditCarried'
  BY <1>20, <1>a
  DEF AgentTimesOut, Fault, Abandon, CallFails, Spool, TypeOK, AuditCarried,
      AuditKeptUntilRetry, Work
<1>21. ASSUME NEW w \in Workers, RequestDies(w) PROVE AuditCarried'
  BY <1>21, <1>a
  DEF RequestDies, Fault, CallFails, Spool, IdleWorker, TypeOK, AuditCarried,
      AuditKeptUntilRetry
<1>22. ASSUME AgentCrash PROVE AuditCarried'
  BY <1>22, <1>a
  DEF AgentCrash, Fault, Abandon, TypeOK, AuditCarried, AuditKeptUntilRetry,
      Work
<1>23. CASE UNCHANGED vars
  BY <1>23, <1>a DEF TypeOK, AuditCarried, AuditKeptUntilRetry, history, vars
<1> QED
  BY <1>1, <1>2, <1>3, <1>4, <1>5, <1>6, <1>7, <1>8, <1>9, <1>10, <1>11,
     <1>12, <1>13, <1>14, <1>15, <1>16, <1>17, <1>18, <1>19, <1>20, <1>21,
     <1>22, <1>23
  DEF Next, AdminStep, AgentStep, WorkerStep

\* No step loses track of a result.
LEMMA AccountedStep == IInv /\ [Next]_vars => Accounted'
<1> SUFFICES ASSUME IInv, [Next]_vars PROVE Accounted'
  OBVIOUS
<1>a. TypeOK /\ CallsMatch /\ Sealed /\ Dispatched /\ Accounted
  BY DEF IInv
<1>1. ASSUME NEW t \in Tasks, Create(t) PROVE Accounted'
  BY <1>1, <1>a DEF Create, TypeOK, Accounted, agentVars, history
<1>2. ASSUME NEW t \in Tasks, CreateBlocked(t) PROVE Accounted'
  BY <1>2, <1>a DEF CreateBlocked, TypeOK, Accounted, agentVars
<1>3. ASSUME NEW t \in Tasks, Cancel(t) PROVE Accounted'
  BY <1>3, <1>a DEF Cancel, TypeOK, Accounted, agentVars, history
<1>4. ASSUME NEW t \in Tasks, Retry(t) PROVE Accounted'
  BY <1>4, <1>a DEF Retry, TypeOK, Accounted, agentVars
<1>5. ASSUME NEW t \in Tasks, ClaimAges(t) PROVE Accounted'
  BY <1>5, <1>a DEF ClaimAges, TypeOK, Accounted, agentVars, history
<1>6. ASSUME NEW w \in Workers, ExpireSelect(w) PROVE Accounted'
  BY <1>6, <1>a
  DEF ExpireSelect, IdleWorker, TypeOK, Accounted, agentVars, history
<1>7. ASSUME NEW w \in Workers, ExpireUpdate(w) PROVE Accounted'
  BY <1>7, <1>a
  DEF ExpireUpdate, IdleWorker, TypeOK, Accounted, agentVars, history
<1>8. ASSUME NEW r \in spooled, FlushSendFails(r) PROVE Accounted'
  BY <1>8, <1>a DEF FlushSendFails, TypeOK, Accounted, history
<1>9. ASSUME NEW r \in spooled, NEW w \in Workers, FlushSend(w, r) PROVE Accounted'
  BY <1>9, <1>a
  DEF FlushSend, CompleteRead, IdleWorker, TypeOK, Holding, Accounted, history
<1>10. ASSUME FlushDone PROVE Accounted'
  BY <1>10, <1>a DEF FlushDone, TypeOK, Holding, Accounted, history
<1>11. ASSUME NEW w \in Workers, ClaimSelect(w) PROVE Accounted'
  BY <1>11, <1>a
  DEF ClaimSelect, IdleWorker, TypeOK, Holding, Accounted, history
<1>12. ASSUME ClaimFails PROVE Accounted'
  BY <1>12, <1>a DEF ClaimFails, TypeOK, Holding, Accounted, history
<1>13. ASSUME NEW w \in Workers, ClaimUpdate(w) PROVE Accounted'
  BY <1>13, <1>a
  DEF ClaimUpdate, IdleWorker, TypeOK, CallsMatch, Holding, Accounted, history
<1>14. ASSUME NEW t \in todo, NEW s \in Reported, Execute(t, s) PROVE Accounted'
  BY <1>14, <1>a DEF Execute, TypeOK, Holding, Accounted
<1>15. ASSUME CycleEnds PROVE Accounted'
  BY <1>15, <1>a DEF CycleEnds, TypeOK, Holding, Accounted, history
<1>16. ASSUME NEW w \in Workers, Send(w) PROVE Accounted'
  BY <1>16, <1>a
  DEF Send, CompleteRead, IdleWorker, TypeOK, Holding, Accounted, history
<1>17. ASSUME SendFails PROVE Accounted'
  BY <1>17, <1>a DEF SendFails, Spool, TypeOK, Accounted
<1>18. ASSUME SpoolFails PROVE Accounted'
  BY <1>18, <1>a DEF SpoolFails, Fault, TypeOK, Accounted
<1>19. ASSUME NEW w \in Workers, Complete(w) PROVE Accounted'
  BY <1>19, <1>a
  DEF Complete, CompleteWrite, IdleWorker, TypeOK, CallsMatch, Accounted
<1>20. ASSUME AgentTimesOut PROVE Accounted'
  BY <1>20, <1>a
  DEF AgentTimesOut, Fault, Abandon, CallFails, Spool, TypeOK, CallsMatch,
      Holding, Accounted
<1>21. ASSUME NEW w \in Workers, RequestDies(w) PROVE Accounted'
  BY <1>21, <1>a
  DEF RequestDies, Fault, CallFails, Spool, IdleWorker, TypeOK, CallsMatch,
      Holding, Accounted
<1>22. ASSUME AgentCrash PROVE Accounted'
  BY <1>22, <1>a, NoResultAssumption
  DEF AgentCrash, Fault, Abandon, TypeOK, Accounted
<1>23. CASE UNCHANGED vars
  BY <1>23, <1>a DEF TypeOK, Accounted, agentVars, history, vars
<1> QED
  BY <1>1, <1>2, <1>3, <1>4, <1>5, <1>6, <1>7, <1>8, <1>9, <1>10, <1>11,
     <1>12, <1>13, <1>14, <1>15, <1>16, <1>17, <1>18, <1>19, <1>20, <1>21,
     <1>22, <1>23
  DEF Next, AdminStep, AgentStep, WorkerStep

\* An outcome is stored with the run it came from.
LEMMA OutcomeStep == IInv /\ [Next]_vars => NoPhantomOutcome'
<1> SUFFICES ASSUME IInv, [Next]_vars PROVE NoPhantomOutcome'
  OBVIOUS
<1>a. TypeOK /\ CallsMatch /\ Sealed /\ Dispatched /\ RunsCounted /\ NoPhantomOutcome
  BY DEF IInv
<1>1. ASSUME NEW t \in Tasks, Create(t) PROVE NoPhantomOutcome'
  BY <1>1, <1>a DEF Create, TypeOK, NoPhantomOutcome, history
<1>2. ASSUME NEW t \in Tasks, CreateBlocked(t) PROVE NoPhantomOutcome'
  BY <1>2, <1>a DEF CreateBlocked, TypeOK, NoPhantomOutcome
<1>3. ASSUME NEW t \in Tasks, Cancel(t) PROVE NoPhantomOutcome'
  BY <1>3, <1>a DEF Cancel, SetStatus, TypeOK, NoPhantomOutcome, history
<1>4. ASSUME NEW t \in Tasks, Retry(t) PROVE NoPhantomOutcome'
  BY <1>4, <1>a DEF Retry, TypeOK, NoPhantomOutcome
<1>5. ASSUME NEW t \in Tasks, ClaimAges(t) PROVE NoPhantomOutcome'
  BY <1>5, <1>a DEF ClaimAges, TypeOK, NoPhantomOutcome, history
<1>6. ASSUME NEW w \in Workers, ExpireSelect(w) PROVE NoPhantomOutcome'
  BY <1>6, <1>a
  DEF ExpireSelect, IdleWorker, TypeOK, NoPhantomOutcome, history
<1>7. ASSUME NEW w \in Workers, ExpireUpdate(w) PROVE NoPhantomOutcome'
  BY <1>7, <1>a
  DEF ExpireUpdate, SetStatus, IdleWorker, TypeOK, NoPhantomOutcome, history
<1>8. ASSUME NEW r \in spooled, FlushSendFails(r) PROVE NoPhantomOutcome'
  BY <1>8, <1>a DEF FlushSendFails, TypeOK, NoPhantomOutcome, history
<1>9. ASSUME NEW r \in spooled, NEW w \in Workers, FlushSend(w, r) PROVE NoPhantomOutcome'
  BY <1>9, <1>a
  DEF FlushSend, CompleteRead, IdleWorker, TypeOK, NoPhantomOutcome, history
<1>10. ASSUME FlushDone PROVE NoPhantomOutcome'
  BY <1>10, <1>a DEF FlushDone, TypeOK, NoPhantomOutcome, history
<1>11. ASSUME NEW w \in Workers, ClaimSelect(w) PROVE NoPhantomOutcome'
  BY <1>11, <1>a
  DEF ClaimSelect, IdleWorker, TypeOK, NoPhantomOutcome, history
<1>12. ASSUME ClaimFails PROVE NoPhantomOutcome'
  BY <1>12, <1>a DEF ClaimFails, TypeOK, NoPhantomOutcome, history
<1>13. ASSUME NEW w \in Workers, ClaimUpdate(w) PROVE NoPhantomOutcome'
  BY <1>13, <1>a
  DEF ClaimUpdate, SetStatus, IdleWorker, TypeOK, NoPhantomOutcome, history
<1>14. ASSUME NEW t \in todo, NEW s \in Reported, Execute(t, s) PROVE NoPhantomOutcome'
  BY <1>14, <1>a DEF Execute, TypeOK, NoPhantomOutcome
<1>15. ASSUME CycleEnds PROVE NoPhantomOutcome'
  BY <1>15, <1>a DEF CycleEnds, TypeOK, NoPhantomOutcome, history
<1>16. ASSUME NEW w \in Workers, Send(w) PROVE NoPhantomOutcome'
  BY <1>16, <1>a
  DEF Send, CompleteRead, IdleWorker, TypeOK, NoPhantomOutcome, history
<1>17. ASSUME SendFails PROVE NoPhantomOutcome'
  BY <1>17, <1>a DEF SendFails, Spool, TypeOK, NoPhantomOutcome
<1>18. ASSUME SpoolFails PROVE NoPhantomOutcome'
  BY <1>18, <1>a DEF SpoolFails, Fault, TypeOK, NoPhantomOutcome
<1>19. ASSUME NEW w \in Workers, Complete(w) PROVE NoPhantomOutcome'
  <2> DEFINE r == worker[w].result
  <2>1. r \in Result /\ InFlight(r)
    BY <1>19, <1>a DEF Complete, CompleteWrite, CallsMatch, InFlight
  <2>2. r.task \in Tasks /\ r.run \in 1..(MaxRetries + 1)
    BY <2>1 DEF Result
  <2>3. r.run <= executions[r.task] /\ executions[r.task] <= 1 + retries[r.task]
    BY <1>a, <2>1, <2>2 DEF RunsCounted, Dispatched, Owed
  <2>4. worker[w].existing.run <= executions[r.task]
    BY <1>19, <1>a DEF Complete, CompleteWrite, RunsCounted
  <2>5. /\ executions[r.task] \in Nat /\ retries[r.task] \in Nat
        /\ worker[w].existing.run \in 0..(MaxRetries + 1)
    BY <1>a, <2>2 DEF TypeOK, Work, Content
  <2>6. retries[r.task] = 0 => Merged(worker[w].existing, r).run = r.run
    BY <2>2, <2>3, <2>4, <2>5 DEF Merged
  <2>7. row'[r.task] = [status |-> r.status,
                        content |-> Merged(worker[w].existing, r)]
    BY <1>19, <1>a, <2>2 DEF Complete, CompleteWrite, TypeOK
  <2>8. /\ \A t \in Tasks \ {r.task} : row'[t] = row[t]
        /\ written' = written \cup {r} /\ retries' = retries
    BY <1>19, <1>a, <2>2 DEF Complete, CompleteWrite, TypeOK
  <2> QED
    BY <1>a, <2>2, <2>6, <2>7, <2>8 DEF NoPhantomOutcome
<1>20. ASSUME AgentTimesOut PROVE NoPhantomOutcome'
  BY <1>20, <1>a
  DEF AgentTimesOut, Fault, Abandon, CallFails, Spool, TypeOK,
      NoPhantomOutcome
<1>21. ASSUME NEW w \in Workers, RequestDies(w) PROVE NoPhantomOutcome'
  BY <1>21, <1>a
  DEF RequestDies, Fault, CallFails, Spool, IdleWorker, TypeOK,
      NoPhantomOutcome
<1>22. ASSUME AgentCrash PROVE NoPhantomOutcome'
  BY <1>22, <1>a DEF AgentCrash, Fault, Abandon, TypeOK, NoPhantomOutcome
<1>23. CASE UNCHANGED vars
  BY <1>23, <1>a DEF TypeOK, NoPhantomOutcome, history, vars
<1> QED
  BY <1>1, <1>2, <1>3, <1>4, <1>5, <1>6, <1>7, <1>8, <1>9, <1>10, <1>11,
     <1>12, <1>13, <1>14, <1>15, <1>16, <1>17, <1>18, <1>19, <1>20, <1>21,
     <1>22, <1>23
  DEF Next, AdminStep, AgentStep, WorkerStep

-----------------------------------------------------------------------------
(* The theorems *)

\* The initial state satisfies IInv.
LEMMA InitHolds == Init => IInv
<1> SUFFICES ASSUME Init PROVE IInv
  OBVIOUS
<1>1. TypeOK
  BY StartTyped DEF Init, TypeOK, Row, Statuses
<1>2. CallsMatch
  BY DEF Init, CallsMatch, Holding, IdleWorker
<1>3. Sealed
  BY DEF Init, Sealed, Untouched, InFlight, Holding, IdleWorker
<1>4. Dispatched
  BY TaskAssumption DEF Init, Dispatched, Owed, IdleWorker
<1>5. RunsCounted
  BY DEF Init, RunsCounted, InFlight, Holding, IdleWorker, NoContent
<1>6. AuditCarried
  BY DEF Init, AuditCarried, AuditKeptUntilRetry, IdleWorker
<1>7. Accounted /\ NoPhantomOutcome
  BY DEF Init, Accounted, NoPhantomOutcome
<1> QED
  BY <1>1, <1>2, <1>3, <1>4, <1>5, <1>6, <1>7 DEF IInv

\* IInv holds in every reachable state.
LEMMA Invariance == Spec => []IInv
<1>1. IInv /\ [Next]_vars => IInv'
  BY TypeStep, CallsStep, SealedStep, DispatchStep, RunsStep, AuditStep,
     AccountedStep, OutcomeStep
  DEF IInv
<1> QED
  BY InitHolds, <1>1, PTL DEF Spec

\* The variables keep their types.
THEOREM TypeCorrect == Spec => []TypeOK
<1>1. IInv => TypeOK
  BY DEF IInv
<1> QED
  BY <1>1, Invariance, PTL

\* However claims are abandoned, overwritten and repeated, the agent runs a
\* task at most once for each time it was queued.
THEOREM RunOncePerDispatch == Spec => []ExecutedOncePerDispatch
<1>1. IInv => ExecutedOncePerDispatch
  BY DEF IInv, Dispatched, Owed, ExecutedOncePerDispatch
<1> QED
  BY <1>1, Invariance, PTL

\* A task create_blocked_task stored is never claimed, run or changed.
THEOREM BlockIsFinal == Spec => []PolicyBlockHolds
<1>1. IInv => PolicyBlockHolds
  BY DEF IInv, TypeOK, Sealed, Untouched, PolicyBlockHolds
<1> QED
  BY <1>1, Invariance, PTL

\* A row complete_task marked succeeded or failed has a stored run behind it.
THEOREM OutcomesAreReal == Spec => []NoPhantomOutcome
<1>1. IInv => NoPhantomOutcome
  BY DEF IInv
<1> QED
  BY <1>1, Invariance, PTL

\* complete_task's merge never loses the policy audit, stale reads included.
THEOREM AuditIsKept == Spec => []AuditKeptUntilRetry
<1>1. IInv => AuditKeptUntilRetry
  BY DEF IInv, AuditCarried
<1> QED
  BY <1>1, Invariance, PTL

\* The result of every run is stored, spooled, in hand or counted as lost.
THEOREM ResultsAreAccounted == Spec => []NoResultVanishes
<1>1. IInv => NoResultVanishes
  BY DEF IInv, Accounted, NoResultVanishes
<1> QED
  BY <1>1, Invariance, PTL

=============================================================================
