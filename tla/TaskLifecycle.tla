---------------------------- MODULE TaskLifecycle ----------------------------
(***************************************************************************)
(* The life of a task: the rows of the tasks table, the store methods that *)
(* read and write them (open_edr_mdr_agent/api/store.py), and the agent    *)
(* that claims tasks, runs them and reports results                        *)
(* (agent/cmd/open-edr-agent/main.go, runCycleWithContext, executeAndReport)*)
(*                                                                         *)
(* The API handlers run on the threads of a pool.  A store method that     *)
(* selects rows and then updates them does so in two steps: SQLite takes   *)
(* its write lock at the UPDATE, so another thread may commit in between.  *)
(* A method of one statement is one step.  The agent waits for a response  *)
(* until its client times out, and the thread goes on regardless.          *)
(*                                                                         *)
(* Definitions named X_Y are mutants: X as a plausible slip would have it. *)
(***************************************************************************)
EXTENDS Integers, FiniteSets

CONSTANTS
    Tasks,          \* the tasks an administrator may create
    Workers,        \* threads that run two-step store methods
    MaxClaim,       \* max_tasks of a claim (5 in the agent)
    SpoolCap,       \* task results the agent's spool has room for
    Reported,       \* the statuses executeAndReport reports, or some of them
    RetriedTasks,   \* bound: the tasks the administrator may retry, and
    MaxRetries,     \* bound: how often each of them
    MaxFaults,      \* bound: crashes, failed appends, abandoned or dead requests
    NoResult        \* "no result"

ASSUME TaskAssumption ==
    /\ MaxClaim \in Nat \ {0} /\ SpoolCap \in Nat \ {0}
    /\ Reported \subseteq {"succeeded", "failed", "blocked_by_policy"}
    /\ MaxRetries \in Nat /\ MaxFaults \in Nat

VARIABLES
    row,         \* the tasks table: status, result_json
    overdue,     \* claimed tasks whose timeout_seconds have passed
    worker,      \* what each thread is in the middle of
    pc,          \* where the agent's cycle is
    todo,        \* claimed tasks the agent has yet to run
    current,     \* the result the agent is sending
    spooled,     \* the results in the agent's spool
    tried,       \* those this cycle's flush has sent, and
    confirmed,   \* those of them the backend acknowledged
    executions,  \* history: how often each task was run
    retries,     \* history: how often it was put back in the queue
    produced,    \* history: the results of all runs
    written,     \* history: results stored by the backend
    lost,        \* history: results the agent or its spool lost
    blocked,     \* history: tasks the policy blocked at creation
    faults       \* history: how many of those faults so far

agentVars == <<pc, todo, current, spooled, tried, confirmed>>
history == <<executions, retries, produced, written, lost, blocked, faults>>
vars == <<row, overdue, worker, agentVars, history>>

-----------------------------------------------------------------------------
\* A result is told apart by the run that produced it.
Result == [task : Tasks, run : 1..(MaxRetries + 1), status : Reported]

ASSUME NoResultAssumption == NoResult \notin Result

\* result_json: the policy audit written at creation and the result keys,
\* named by the run they came from (0: none).
Content == [audit : BOOLEAN, run : 0..(MaxRetries + 1)]
NoContent == [audit |-> FALSE, run |-> 0]

IdleWorker == [op |-> "idle", rows |-> {}, result |-> NoResult,
               existing |-> NoContent, awaited |-> FALSE]

Queued == {t \in Tasks : row[t].status = "queued"}
Claimed == {t \in Tasks : row[t].status = "claimed"}

SetStatus(ts, s) ==
    [t \in Tasks |-> IF t \in ts THEN [row[t] EXCEPT !.status = s] ELSE row[t]]

Init ==
    /\ row = [t \in Tasks |-> [status |-> "absent", content |-> NoContent]]
    /\ overdue = {}
    /\ worker = [w \in Workers |-> IdleWorker]
    /\ pc = "flush"
    /\ todo = {} /\ current = NoResult
    /\ spooled = {} /\ tried = {} /\ confirmed = {}
    /\ executions = [t \in Tasks |-> 0]
    /\ retries = [t \in Tasks |-> 0]
    /\ produced = {} /\ written = {} /\ lost = {} /\ blocked = {}
    /\ faults = 0

-----------------------------------------------------------------------------
(* The administrator *)

\* create_task: the policy audit goes into result_json
Create(t) ==
    /\ row[t].status = "absent"
    /\ row' = [row EXCEPT ![t] = [status |-> "queued",
                                  content |-> [audit |-> TRUE, run |-> 0]]]
    /\ UNCHANGED <<overdue, worker, agentVars, history>>

\* create_blocked_task
CreateBlocked(t) ==
    /\ row[t].status = "absent"
    /\ row' = [row EXCEPT ![t] = [status |-> "blocked_by_policy",
                                  content |-> [audit |-> TRUE, run |-> 0]]]
    /\ blocked' = blocked \cup {t}
    /\ UNCHANGED <<overdue, worker, agentVars, executions, retries, produced,
                   written, lost, faults>>

\* cancel_task
Cancel(t) ==
    /\ row[t].status \in {"queued", "claimed"}
    /\ row' = SetStatus({t}, "cancelled")
    /\ UNCHANGED <<overdue, worker, agentVars, history>>

Retryable_AnyEnded == {"failed", "timed_out", "cancelled", "blocked_by_policy"}

Retryable == {"failed", "timed_out", "cancelled"}

\* retry_task clears result_json
Retry(t) ==
    /\ t \in RetriedTasks /\ retries[t] < MaxRetries
    /\ row[t].status \in Retryable
    /\ row' = [row EXCEPT ![t] = [status |-> "queued", content |-> NoContent]]
    /\ retries' = [retries EXCEPT ![t] = @ + 1]
    /\ UNCHANGED <<overdue, worker, agentVars, executions, produced, written,
                   lost, blocked, faults>>

\* Time passes: a claim reaches its timeout.
ClaimAges(t) ==
    /\ t \in Claimed \ overdue
    /\ overdue' = overdue \cup {t}
    /\ UNCHANGED <<row, worker, agentVars, history>>

\* expire_stale_tasks selects the claimed rows that are overdue ...
ExpireSelect(w) ==
    /\ worker[w] = IdleWorker
    /\ overdue \cap Claimed # {}
    /\ worker' = [worker EXCEPT ![w] = [IdleWorker EXCEPT
                      !.op = "expire", !.rows = overdue \cap Claimed]]
    /\ UNCHANGED <<row, overdue, agentVars, history>>

\* ... and updates them by task_id, whatever their status is by then.
ExpireUpdate_MarksFailed(w) ==
    /\ worker[w].op = "expire"
    /\ row' = SetStatus(worker[w].rows, "failed")
    /\ worker' = [worker EXCEPT ![w] = IdleWorker]
    /\ UNCHANGED <<overdue, agentVars, history>>

ExpireUpdate_NotCommitted(w) ==
    /\ worker[w].op = "expire"
    /\ worker' = [worker EXCEPT ![w] = IdleWorker]
    /\ UNCHANGED <<row, overdue, agentVars, history>>

ExpireUpdate(w) ==
    /\ worker[w].op = "expire"
    /\ row' = SetStatus(worker[w].rows, "timed_out")
    /\ worker' = [worker EXCEPT ![w] = IdleWorker]
    /\ UNCHANGED <<overdue, agentVars, history>>

-----------------------------------------------------------------------------
(* The agent's cycle and the two-step methods it calls *)

Fault == faults < MaxFaults /\ faults' = faults + 1

\* The thread w starts complete_task for r: it reads the stored result_json.
CompleteRead(w, r) ==
    /\ worker[w] = IdleWorker
    /\ worker' = [worker EXCEPT ![w] = [IdleWorker EXCEPT
                      !.op = "complete", !.result = r,
                      !.existing = row[r.task].content, !.awaited = TRUE]]

\* The stored keys win over the reported ones.
Merged_ReportOnly(existing, r) == [audit |-> FALSE, run |-> r.run]

Merged(existing, r) ==
    [audit |-> existing.audit,
     run |-> IF existing.run = 0 THEN r.run ELSE existing.run]

\* complete_task stores status and merged result, whatever the status was.
CompleteWrite(w) ==
    LET r == worker[w].result IN
    /\ worker[w].op = "complete"
    /\ row' = [row EXCEPT ![r.task] =
                  [status |-> r.status, content |-> Merged(worker[w].existing, r)]]
    /\ written' = written \cup {r}
    /\ worker' = [worker EXCEPT ![w] = IdleWorker]

\* FlushBounded sends the next spooled result ...
FlushSend(w, r) ==
    /\ pc = "flush"
    /\ r \in spooled \ tried
    /\ CompleteRead(w, r)
    /\ current' = r
    /\ pc' = "flushWait"
    /\ UNCHANGED <<row, overdue, todo, spooled, tried, confirmed, history>>

\* ... or cannot reach the backend.
FlushSendFails(r) ==
    /\ pc = "flush"
    /\ r \in spooled \ tried
    /\ tried' = tried \cup {r}
    /\ UNCHANGED <<row, overdue, worker, pc, todo, current, spooled, confirmed,
                   history>>

\* After the loop the file is rewritten without what was acknowledged.
FlushDone_KeepsNothing ==
    /\ pc = "flush"
    /\ spooled \subseteq tried
    /\ spooled' = {}
    /\ tried' = {} /\ confirmed' = {}
    /\ pc' = "claim"
    /\ UNCHANGED <<row, overdue, worker, todo, current, history>>

FlushDone ==
    /\ pc = "flush"
    /\ spooled \subseteq tried
    /\ spooled' = spooled \ confirmed
    /\ tried' = {} /\ confirmed' = {}
    /\ pc' = "claim"
    /\ UNCHANGED <<row, overdue, worker, todo, current, history>>

\* claim_tasks selects up to MaxClaim queued rows ...
ClaimSelect(w) ==
    /\ pc = "claim"
    /\ worker[w] = IdleWorker
    /\ \E ts \in SUBSET Queued :
          /\ Cardinality(ts) <= MaxClaim
          /\ Cardinality(ts) = MaxClaim \/ ts = Queued
          /\ worker' = [worker EXCEPT ![w] = [IdleWorker EXCEPT
                            !.op = "claim", !.rows = ts, !.awaited = TRUE]]
    /\ pc' = "claimWait"
    /\ UNCHANGED <<row, overdue, todo, current, spooled, tried, confirmed,
                   history>>

\* ... and the claim cannot reach the backend: the cycle ends.
ClaimFails ==
    /\ pc = "claim"
    /\ pc' = "flush"
    /\ UNCHANGED <<row, overdue, worker, todo, current, spooled, tried,
                   confirmed, history>>

\* claim_tasks marks them claimed, whatever their status is by then, and
\* returns them; the agent has them if it still waits.
ClaimUpdate_AlsoToAbandoned(w) ==
    /\ worker[w].op = "claim"
    /\ row' = SetStatus(worker[w].rows, "claimed")
    /\ overdue' = overdue \ worker[w].rows
    /\ worker' = [worker EXCEPT ![w] = IdleWorker]
    /\ todo' = todo \cup worker[w].rows
    /\ pc' = IF worker[w].awaited THEN "run" ELSE pc
    /\ UNCHANGED <<current, spooled, tried, confirmed, history>>

ClaimUpdate(w) ==
    /\ worker[w].op = "claim"
    /\ row' = SetStatus(worker[w].rows, "claimed")
    /\ overdue' = overdue \ worker[w].rows
    /\ worker' = [worker EXCEPT ![w] = IdleWorker]
    /\ IF worker[w].awaited
       THEN todo' = worker[w].rows /\ pc' = "run"
       ELSE UNCHANGED <<todo, pc>>
    /\ UNCHANGED <<current, spooled, tried, confirmed, history>>

\* executeAndReport runs the task (tasks.Execute, evidence upload)
Execute(t, s) ==
    /\ pc = "run"
    /\ t \in todo
    /\ todo' = todo \ {t}
    /\ executions' = [executions EXCEPT ![t] = @ + 1]
    /\ LET r == [task |-> t, run |-> executions[t] + 1, status |-> s]
       IN  current' = r /\ produced' = produced \cup {r}
    /\ pc' = "send"
    /\ UNCHANGED <<row, overdue, worker, spooled, tried, confirmed, retries,
                   written, lost, blocked, faults>>

CycleEnds ==
    /\ pc = "run"
    /\ todo = {}
    /\ pc' = "flush"
    /\ UNCHANGED <<row, overdue, worker, todo, current, spooled, tried,
                   confirmed, history>>

\* SendTaskResult reaches the backend ...
Send(w) ==
    /\ pc = "send"
    /\ CompleteRead(w, current)
    /\ pc' = "sendWait"
    /\ UNCHANGED <<row, overdue, todo, current, spooled, tried, confirmed,
                   history>>

\* AppendTaskResultBounded: when the spool is full an older result makes room.
Spool(r) ==
    \/ /\ Cardinality(spooled \cup {r}) <= SpoolCap
       /\ spooled' = spooled \cup {r}
       /\ UNCHANGED lost
    \/ /\ Cardinality(spooled \cup {r}) > SpoolCap
       /\ \E d \in spooled \ {r} :
             /\ spooled' = (spooled \cup {r}) \ {d}
             /\ lost' = lost \cup {d}

\* ... or does not: the result goes to the spool.
SendFails ==
    /\ pc = "send"
    /\ Spool(current)
    /\ current' = NoResult
    /\ pc' = "run"
    /\ UNCHANGED <<row, overdue, worker, todo, tried, confirmed, executions,
                   retries, produced, written, blocked, faults>>

\* The spool takes nothing either: the result is logged and gone.
SpoolFails ==
    /\ pc = "send"
    /\ Fault
    /\ lost' = lost \cup {current}
    /\ current' = NoResult
    /\ pc' = "run"
    /\ UNCHANGED <<row, overdue, worker, todo, spooled, tried, confirmed,
                   executions, retries, produced, written, blocked>>

\* complete_task commits; the response goes to the agent if it still waits.
Complete_TrustsAnyResponse(w) ==
    /\ CompleteWrite(w)
    /\ IF pc \in {"flushWait", "sendWait"}
       THEN /\ current' = NoResult
            /\ pc' = IF pc = "flushWait" THEN "flush" ELSE "run"
            /\ tried' = IF pc = "flushWait" THEN tried \cup {current} ELSE tried
            /\ confirmed' = IF pc = "flushWait" THEN confirmed \cup {current}
                            ELSE confirmed
       ELSE UNCHANGED <<pc, current, tried, confirmed>>
    /\ UNCHANGED <<overdue, todo, spooled, executions, retries, produced, lost,
                   blocked, faults>>

Complete(w) ==
    /\ CompleteWrite(w)
    /\ IF worker[w].awaited
       THEN /\ current' = NoResult
            /\ pc' = IF pc = "flushWait" THEN "flush" ELSE "run"
            /\ tried' = IF pc = "flushWait" THEN tried \cup {current} ELSE tried
            /\ confirmed' = IF pc = "flushWait" THEN confirmed \cup {current}
                            ELSE confirmed
       ELSE UNCHANGED <<pc, current, tried, confirmed>>
    /\ UNCHANGED <<overdue, todo, spooled, executions, retries, produced, lost,
                   blocked, faults>>

\* The agent's call fails: a claim ends the cycle, a flushed result stays in
\* the spool, a fresh one goes there.
CallFails ==
    /\ current' = NoResult
    /\ \/ /\ pc = "claimWait"
          /\ pc' = "flush"
          /\ UNCHANGED <<spooled, tried, lost>>
       \/ /\ pc = "flushWait"
          /\ pc' = "flush"
          /\ tried' = tried \cup {current}
          /\ UNCHANGED <<spooled, lost>>
       \/ /\ pc = "sendWait"
          /\ pc' = "run"
          /\ Spool(current)
          /\ UNCHANGED tried

\* The client gives up: the request runs on and its response reaches nobody.
Abandon == [w \in Workers |-> [worker[w] EXCEPT !.awaited = FALSE]]

AgentTimesOut ==
    /\ \E w \in Workers : worker[w].awaited
    /\ Fault
    /\ worker' = Abandon
    /\ CallFails
    /\ UNCHANGED <<row, overdue, todo, confirmed, executions, retries,
                   produced, written, blocked>>

\* A request dies between its two steps: the backend restarts, or the UPDATE
\* finds the database locked.
RequestDies(w) ==
    /\ worker[w].op # "idle"
    /\ Fault
    /\ worker' = [worker EXCEPT ![w] = IdleWorker]
    /\ IF worker[w].awaited THEN CallFails
       ELSE UNCHANGED <<current, pc, spooled, tried, lost>>
    /\ UNCHANGED <<row, overdue, todo, confirmed, executions, retries,
                   produced, written, blocked>>

\* The agent dies and starts again; the spool is on disk.
AgentCrash ==
    /\ Fault
    /\ pc' = "flush"
    /\ todo' = {} /\ current' = NoResult /\ tried' = {} /\ confirmed' = {}
    /\ worker' = Abandon
    /\ lost' = lost \cup ({current} \ (spooled \cup {NoResult}))
    /\ UNCHANGED <<row, overdue, spooled, executions, retries, produced,
                   written, blocked>>

-----------------------------------------------------------------------------
AgentStep ==
    \/ \E r \in spooled : FlushSendFails(r) \/ \E w \in Workers : FlushSend(w, r)
    \/ FlushDone
    \/ \E w \in Workers : ClaimSelect(w)
    \/ ClaimFails
    \/ \E t \in todo, s \in Reported : Execute(t, s)
    \/ CycleEnds
    \/ \E w \in Workers : Send(w)
    \/ SendFails

WorkerStep(w) == ExpireUpdate(w) \/ ClaimUpdate(w) \/ Complete(w)

AdminStep ==
    \E t \in Tasks : Create(t) \/ CreateBlocked(t) \/ Cancel(t) \/ Retry(t)

Next ==
    \/ AdminStep
    \/ \E t \in Tasks : ClaimAges(t)
    \/ \E w \in Workers : ExpireSelect(w) \/ WorkerStep(w)
    \/ AgentStep
    \/ SpoolFails
    \/ AgentTimesOut
    \/ \E w \in Workers : RequestDies(w)
    \/ AgentCrash

Spec == Init /\ [][Next]_vars

\* Threads run on; the agent's loop goes round; a claim ages; a flush that is
\* tried often enough gets a result through; and the operator calls expire-stale again
\* and again: nothing in the backend does it by itself.
Fairness ==
    /\ \A w \in Workers : WF_vars(WorkerStep(w))
    /\ WF_vars(AgentStep)
    /\ \A t \in Tasks : WF_vars(ClaimAges(t))
    /\ SF_vars(\E w \in Workers, r \in spooled : FlushSend(w, r))
    /\ SF_vars(\E w \in Workers : ExpireSelect(w))

FairSpec == Spec /\ Fairness

-----------------------------------------------------------------------------
\* A row of the tasks table, and what a thread is in the middle of.
Statuses == {"absent", "queued", "claimed", "succeeded", "failed",
             "timed_out", "cancelled", "blocked_by_policy"}
Row == [status : Statuses, content : Content]
Work == [op : {"idle", "claim", "complete", "expire"}, rows : SUBSET Tasks,
         result : Result \cup {NoResult}, existing : Content,
         awaited : BOOLEAN]

\* Type invariant.
TypeOK ==
    /\ row \in [Tasks -> Row]
    /\ overdue \subseteq Tasks
    /\ worker \in [Workers -> Work]
    /\ pc \in {"flush", "flushWait", "claim", "claimWait", "run", "send", "sendWait"}
    /\ todo \subseteq Tasks
    /\ current \in Result \cup {NoResult}
    /\ spooled \subseteq Result /\ tried \subseteq Result
    /\ confirmed \subseteq Result
    /\ executions \in [Tasks -> Nat] /\ retries \in [Tasks -> Nat]
    /\ produced \subseteq Result /\ written \subseteq Result
    /\ lost \subseteq Result /\ blocked \subseteq Tasks
    /\ faults \in Nat

\* docs/SPEC.md:672, for one agent process: however claims are abandoned and
\* repeated, a task is run at most once each time it was put in the queue.
ExecutedOncePerDispatch ==
    \A t \in Tasks : executions[t] <= 1 + retries[t]

\* A task the policy blocked at creation is never claimed, run or changed.
PolicyBlockHolds ==
    \A t \in blocked :
        /\ row[t].status = "blocked_by_policy"
        /\ executions[t] = 0
        /\ t \notin todo
        /\ \A w \in Workers : t \notin worker[w].rows

\* A row says succeeded or failed only if the backend stored a run of that
\* task that ended so; until a retry, its result is that run's.
NoPhantomOutcome ==
    \A t \in Tasks : row[t].status \in {"succeeded", "failed"} =>
        \E r \in written :
            /\ r.task = t /\ r.status = row[t].status
            /\ retries[t] = 0 => row[t].content.run = r.run

\* The policy audit of a task stays in its result until a retry clears it.
AuditKeptUntilRetry ==
    \A t \in Tasks : row[t].status # "absent" /\ retries[t] = 0 =>
        row[t].content.audit

\* The result of every run is stored by the backend, in the agent's hands or
\* spool, or counted as lost: a request that may still die does not count.
NoResultVanishes ==
    \A r \in produced : r \in written \cup lost \cup spooled \cup {current}

\* Every result ends up stored by the backend, or was lost to a crash or to
\* the spool's limits.
ResultsArrive ==
    \A r \in Result : r \in produced ~> r \in written \cup lost

\* No task stays claimed for ever.
ClaimsSettle ==
    \A t \in Tasks : []<>(row[t].status # "claimed")

\* docs/SPEC.md:679: queued -> claimed -> running ->
\* succeeded|failed|timed_out|cancelled|blocked_by_policy, and a retry.
Lifecycle ==
    ({"absent"} \X {"queued", "blocked_by_policy"})
    \cup ({"queued"} \X {"claimed", "cancelled"})
    \cup ({"claimed"} \X {"succeeded", "failed", "timed_out", "cancelled",
                          "blocked_by_policy"})
    \cup (Retryable \X {"queued"})
LifecycleRespected ==
    [][\A t \in Tasks : row'[t].status # row[t].status =>
          <<row[t].status, row'[t].status>> \in Lifecycle]_vars

=============================================================================
