# Specifications of Shigure EDR

TLA+ models of the Shigure endpoint agent (Go, `agent/`) and its control plane
(Python, `open_edr_mdr_agent/`), the TLC runs that check them on small instances,
and TLAPS proofs for every value of the parameters. Paths are relative to the
repository root; `src/` in `PROJECT.json` is that root.

## The system

An agent runs on each endpoint as a service. One goroutine runs a cycle: flush the
local spool, send a heartbeat (and take a rotated credential or a configuration from
the answer), start or stop the collectors, collect and upload telemetry, claim tasks,
run them and report their results. What cannot be uploaded goes to the spool. The
control plane is a FastAPI application whose handlers run on the threads of a pool over
a SQL store (SQLite, or PostgreSQL through the same methods), with ClickHouse as a
projection of the telemetry. Nothing on the server runs by itself: offline marking and
the expiry of claims are calls of an operator.

### Inventory

| Component | State | Operations | What is hard | What makes it correct |
|---|---|---|---|---|
| Agent spool, `agent/internal/spool` | the JSONL file, the metadata file | append with limits, flush, summary | crash or full disk between the two files, lost responses, both limits at once, records that never upload | no accepted record disappears except by the limits; drops in order of worth; everything sendable is sent |
| Task lifecycle, `api/store.py`, `agent/cmd/open-edr-agent/main.go` | `tasks` rows; the agent's claimed tasks and spooled results | create, claim, complete, expire, cancel, retry; execute and report | SELECT then UPDATE by id, client timeouts while the handler runs on, agent crashes | run at most once per dispatch; an outcome only from a run; no result vanishes; policy blocks hold |
| Agent credential, `api/store.py`, `api/app.py`, `agent/internal/state`, `main.go` | enrollment tokens, `agents` rows, state file, config file | enroll, heartbeat, rotate, revoke, mark offline, scrub | two-step handlers that race, activation before delivery, files overwritten in place | revocation is final; an endpoint keeps or gets a credential that works; identities are not minted needlessly |
| Windows Event Log subscriber, `agent/internal/collect/eventlog_subscription*.go` | queue, drain buffer, checkpoints in memory and on disk, the source process | start, stop, enqueue, observe, drain | four goroutines and a child process, overlapping sources, restarts | in order and once; what is missed shows; the subscription comes back |
| Process tracker and ETW collector, `agent/internal/collect/process_*.go`, `etw_process*.go` | processes by PID and by entity, retained exits, the ETW queue | snapshot, start, exit, purge; start and stop of the collector | PID reuse, late exits, maps shared by two goroutines without a lock | an event names its own process and its true parent, or there is a reason why not |
| Ingest, alerts, projection, `api/app.py`, `api/store.py`, `api/clickhouse_store.py`, `core/detection.py`, `core/rules.py` | objects, evidence rows, events, alerts, three ClickHouse tables, the loaded rules | ingest a batch, reload rules | a failure between any two of the stores, batches sent again under new ids, a rule that raises | a stored suspicious event gets its alert; references resolve |
| Cases, `api/store.py`, `api/app.py` | cases, links to evidence | create, start a workspace, update, attach | read-then-write handlers, late task results | a case has its alert's evidence; one case per alert |
| Configuration and hunts, `api/store.py`, `api/app.py` | a configuration and its version, hunts, their runs | put, create, update, run | read-then-write handlers | a version names one configuration; a hunt keeps a criterion |
| Raw evidence, `api/evidence.py`, `api/object_storage.py` | object files, evidence rows | upload, read back | a file written in place outside the transaction, keys that coincide | what is read back is what was uploaded under that hash |
| Agent health, `api/app.py`, `api/store.py` | `agents` rows, offline alerts | heartbeat, revoke, scan | four transactions in one scan, scans that overlap, heartbeats in between | an agent marked offline was silent, and there is an alert |
| Process graph and investigation, `api/app.py`, the three event stores | none | graph, chain, timeline, hunt, workspace | windows and pages that cut, lost and late events, PID reuse, SQL dialects | what is shown is true, what is missing is flagged, the stores agree |
| Task policy, `api/task_catalog.py`; agent tasks, `agent/internal/tasks` | none | verdict on a request; run a task | tables kept by hand on both sides | what the policy lets through the agent runs, and the reverse |
| Start-up and downloads, `api/app.py` | the running profile, enrollment tokens per database | start, mint, download, revoke | tokens minted before a refusal, restarts in another profile | every live token has an owner |
| API client, `agent/internal/agentapi` | none | one request each | outcome unknown after a timeout | an error never means "not done" |
| PostgreSQL store, rules and normalizers, release validation, service glue, scripts | -- | translation, mapping, reports | little of it concurrent | see "Not modelled" |

`PROJECT.json` lists every component with its status, and under `hazards` every place
of the code where an order, a crash, a limit or a stale value can do harm, with the
properties aimed at it.

## Modules

| Module | Role |
|---|---|
| `Outbox` | what a store-and-forward spool promises, without files or counters |
| `Spool` | the spool file, the metadata file, and each call split where the process can die |
| `SpoolProofs` | theorems about `Spool`, among them that it implements `Outbox` |
| `TaskLifecycle` | task rows, store threads, the agent's cycle as far as tasks go |
| `TaskLifecycleProofs` | theorems about `TaskLifecycle` |
| `Credential` | enrollment token, agents table, state and config files, heartbeats, rotation |
| `CredentialProofs` | theorems about `Credential` |
| `EventLog` | source processes, queue, run goroutine, checkpoint file, run loop |
| `EventLogProofs` | theorems about `EventLog` |
| `ProcessTracker` | the tracker's maps under the run loop's snapshots and the ETW goroutine |
| `Detection` | built-in rules and the matcher of custom rules, as operators |
| `Ingest` | one batch through objects, SQL, ClickHouse, detection and alerts, and the agent that sends it again |
| `IngestProofs` | theorems about `Ingest` |
| `Telemetry` | `ProcessTracker` and `Ingest`: both ends of telemetry |
| `TrackerProofs` | theorems about `ProcessTracker` and about `Telemetry` |
| `Selection` | the rows a query selects from a table, as the positions they are at |
| `Cases` | cases, the links of evidence, the steps of a workspace start |
| `CasesProofs` | theorems about `Cases` |
| `Evidence` | uploads: object file and row |
| `TenantSettings` | configuration versions, saved hunts and their runs |
| `AgentHealth` | heartbeats, revocation, the scan for silent agents |
| `EventQueries` | list, count and related queries of the three event stores, as operators |
| `ProcessGraph` | graph, chain, gaps and timeline over a window of events, as operators |
| `Investigation` | every history of events of an endpoint, and what the pages show of it |
| `TaskPolicy` | catalog, policy and argument checks of the server, and the agent's own |
| `Startup` | what a profile refuses, and where enrollment tokens come from |
| `ControlPlane` | `Cases` and the modules after it, side by side |
| `ControlPlaneProofs` | theorems about `ControlPlane` and six of its parts |
| `MC...` | instances for TLC |

Definitions named `X_Y` are mutants: `X` as a plausible slip would have it. They are
used by nothing in the specifications; each shows that a property can fail.

### Spool

`file` is the sequence of records, `meta` the counters; `Torn` is a metadata file cut
short. A call is split at `rewrite` and `saveSummary`: `AppendBegin`, `DropOne` (a turn
of the loops of `trimRecords`), `AppendRewrite`, `SaveSummary`; `FlushBegin`,
`UploadOk`/`UploadFails`/`ResponseLost` for one record, `FlushRewrite`, `SaveSummary`.
`Crash` and the `...Fails` actions may come at each point. A record has an id (the order
it was handed over in), a kind, a size and the `CreatedAt` by which `trimRecords`
recognises it; with a coarse clock two neighbours may share it. `Readable` is the limit of
`bufio.Scanner`. `enforceLimits` has no caller and is left out; `Summary` writes nothing.

### TaskLifecycle

`row` is the table. A store method of one statement is one step. `claim_tasks`,
`complete_task` and `expire_stale_tasks` read and then write, so they are two steps of a
thread (`worker`), and anything may happen in between. `awaited` says whether the agent
still waits for the thread's answer: `AgentTimesOut` is the client giving up,
`RequestDies` a restart of the backend or a locked database. The agent is a program counter over
`runCycleWithContext` (`pc`) with the tasks and results it holds. `result_json` is
reduced to the policy audit and the run whose keys it has, `complete_task` merging with
the stored keys winning. A task's run is one step that ends in one of the statuses
`executeAndReport` reports. The spool is a set with a capacity here; that a spool can
become unreadable is the subject of `Spool`, and `SpoolFails` is an append that fails.

### Credential

One endpoint, which may enroll more than once; `agents` has every identity it was given.
`enroll_agent` and `rotate_agent_credential` read and then write; the heartbeat handler
authenticates, updates the row, reads the pending credential and activates it, in four steps.
`disk` and `config` are overwritten in place and can be torn. Bootstrap-token expiry
and revocation are one action (`TokenEnds`); `MarkOffline` is one step for one agent.

### EventLog

`source` has the child processes that exist, each with its pipe and reader. `Start`,
`Stop` and `Stopped` are the run loop's calls, `Read` is the reader's scan and `Enqueue`,
`Receive` and `Save` are the two halves of `Observe`, `Exits` and `WatcherStops` the
goroutine that waits for the process and then stops the subscriber -- whichever one is
running by then. `cmd.Wait` closes the pipe when the process has exited, so that what was not read
is lost. Draining and uploading are one step, since nothing but a crash can tell them
apart, and a crash before the drain loses the same. The snapshot collection is on
(`collect_snapshot`, without which the buffer is not drained at all) and the ETW collector,
which is drained first, off. The log has one profile; the others are handled alike and
independently.

### ProcessTracker

`procs` is the world: each process has a process id, which may be used again once its
owner has exited, and a parent. `active` and `retained` are the tracker's maps.
`retained` is a function from the number of a recorded stop, the lists of all ids in one.
`TakeSnapshot` is the operating system's answer, `ObserveRow` the turn of one row;
`ObserveStart` and the three steps of an exit (`ExitLooksUp`, `ExitForgets`, `ExitRetains`)
are the collector's goroutine, and anything of the run loop may come between them, since
neither takes a lock. `Spawn` and `Exit` put a record in the queue if the source runs
and there is room. An identity is a process and the format its create time came in: a
snapshot has CIM's, a trace a file time, so a process observed both ways has two identities.
`Events` are the events the next step would put out; the properties are about them.

### Detection, Ingest and Telemetry

An attempt is one request: its handler goes from `store` through the three tables of the
projection to `detect` and `alerts`. `PutObject` writes a payload inside the open
transaction but not as part of it. `HandlerFails`, `Crash` and `GiveUp` (the client's
timeout) may come at each point; the agent sends the batch again until a request succeeds, and each attempt
stores copies with ids of its own (`Row(k, o, "")`). `ProjectUnanswered` is an insert ClickHouse made
without an answer. `Detection` reads an event as what the rules can tell
apart; `Match` is "yes", "no" or "raise", and a batch with an event on which a rule raises
gets no alert at all (`Verdict`). `Telemetry` runs either end: they share nothing, and
what is between them is `Spool`.

### Cases, Evidence, TenantSettings, AgentHealth

Each handler is split at its transactions: `StartRead`, `StartCreate`, `StartUpdate`;
`AttachRead`, `AttachInsert`; `PutRead`, `PutWrite`; `UpdateRead`, `UpdateWrite`;
`RunRead`, `RunRecord`; `FindStale`, `FindAgain`, `MarkOffline`, `RaiseOffline`. Uploads are split where a fault can
separate the file from the row: `Receive`, `Open`, `Write`, `Commit`. A thread holds
what it read in a record. A link has what `case_handoff` reads of it (its type, `ref_id` and `data.raw_ref`) and, as history, the
operation that made it: `create_case`, the attaching of a task, or an analyst, who may link any row (`ByHand`). History
variables (`raced`, `crossed`,
`overtaken`, `disturbed`) tell which rows an overlap has touched, so that the properties
can be exact for all others.

### EventQueries, ProcessGraph, Investigation

Texts and needles have a spelling, and `Like`, `Within` and `JsonText` say what `LIKE`, `positionCaseInsensitive` and
the JSON encoding make of it: wildcards and case, and the backslash, which escapes in PostgreSQL, is a letter in the other two and is written
twice in `event_json`. `Pages` are the pages a store may give, since rows of one timestamp come in any order and ClickHouse
keeps milliseconds. The operators take a window of events and compute what
`_build_process_graph`, `process_chain`, `_build_workspace_package` and the helpers under them
return. `Investigation` lets the events of a few processes arrive in any order, with
any of them lost, and compares what is shown with the true parents. Its events name true
parents: that the agent may name a wrong one is the subject of `ProcessTracker`.

### TaskPolicy

One task with arguments of every kind (missing, wrong type, below, at and above each bound,
blank, in and out of an enumeration) passes the server's policy and validation and then
the agent's own. The catalog is transcribed entry by entry.

### Startup and ControlPlane

`Refusals` is the configuration check of `_runtime_config`; a server that starts may create its bootstrap
token, and administrators mint tokens, directly or by a download. `ControlPlane` chooses one
of its seven parts at the start and lets it move: they write no common row, and SQLite
serialises their transactions, so an interleaving does to each what its own moves do.

## Runs

| Run | Shows | Bounds |
|---|---|---|
| `spool` | loss, limits, counters, drop order, refinement, replay | 3 records of 1, 2 or 4 bytes, limits of 2 records and 4 bytes, a 3-byte line limit, 1 fault, one record the backend always refuses |
| `spool_oversize` | violation: one long line stops all replay | 2 records, no fault |
| `tasks` | dispatch, policy, outcome, audit, results | 2 tasks, 2 threads, 1 retry, 1 fault |
| `tasks_live` | results arrive, claims settle | 1 task, 2 threads, 1 retry, 2 faults |
| `tasks_lifecycle` | violation: a cancelled task is claimed and run | 1 task, 2 threads |
| `credential` | revocation, lockout, identities, files, rotation | 2 threads, 2 uses, 2 rotations, 1 fresh set-up, 1 fault |
| `credential_use_limit` | violation: a token for one use enrolls twice | 1 use, 1 fault |
| `credential_rotation` | violation: two rotations lock an endpoint out | no fault |
| `eventlog` | order, gaps, restart, stop, drain | 3 records, 2 processes, queue and drain of 1, 1 restart, 1 fault |
| `eventlog_loss` | violation: a restart loses records silently | no fault |
| `telemetry` | detection without gaps, references; identities and parents | control plane: 2 batches of 3 observations, 3 requests, 3 faults, a rule file with and without a rule that raises; endpoint: 3 processes over 2 process ids, a queue of 2, 1 retained exit, 1 tick |
| `control_plane` | cases, evidence, settings, health, investigation, policy, start-up | 1 alert, 2 analysts, 2 cases, 3 edits, 2 reports of each task, rows linked by hand of several types; 3 uploads of 2 paths with one key; 2 administrators, 4 requests; 2 agents, 2 scans, 4 instants; 3 processes and 2 addresses, one contained in the other, names with a backslash, a wildcard or neither, 4 events in two milliseconds in a window of 3 and pages of 2; every request to every task; 2 starts of a server |

Why the bounds are enough to be of interest: three records against limits of two make
every trim case occur (telemetry kept or not, an incoming record turned away, a record over the
byte limit on its own), and a record that follows a refused one. Two threads are what a
race between two handlers takes, and the second can also be the leftover of an abandoned request. Two
tasks let one claim return several and a full spool choose between results. Two
rotations are what the version comparison takes to go wrong. Two processes overlap, and
three records make a gap between two that arrived. Three processes over two ids are a
process, its successor under the same id and a child that has to be told which of the two
was its parent. A second attempt finds the copies of the first, and three faults let an attempt fail,
its retry fail otherwise and the rules change. A window of three and pages of two cut the
history of three processes. Counters that only grow are bounded by the named constants
(`MaxAppends`, `MaxFaults`, `MaxRetries`, `MaxRotations`, `MaxReprovisions`,
`MaxRecord`, `MaxRestarts`, `RetriedCap`, `Slots`, `MaxAttempts`, `MaxProcesses`, `MaxTime`, `MaxCases`,
`MaxEdits`, `MaxUploads`, `MaxFailures`, `MaxVersion`, `MaxChanges`, `MaxClock`, `MaxScans`,
`MaxEvents`, `MaxStarts`); none of them exists in the code.

`spool`, `spool_oversize`, `telemetry` and `control_plane` are run without the deadlock check:
a bounded number of appends, requests, processes or edits comes to an end. In the others some process can
always go on.

### Fairness

- The run loop goes round: it is one goroutine that sleeps between cycles, so a cycle that can take a
  step takes one, and each cycle flushes first.
- Threads of the backend and goroutines that can take a step take it in the end.
- A record or a result that is sent again and again gets through (strong fairness): the backend
  is not unreachable for ever. `Rejected` records never get through.
- A heartbeat finds a free thread again and again.
- The operator calls `expire-stale` again and again. Nothing in the code does; without it
  `ClaimsSettle` is false, which is why it is a hazard of its own.
- A Go `select` that is offered a cancelled context again and again takes it.
- A process whose context is cancelled is killed, and the run loop calls `Stop` and `Start` as the
  configuration says: what `SubscriptionTurns` needs.
- Faults, restarts and administrator calls are not fair; faults are bounded.

`telemetry` and `control_plane` check safety only: nothing in those handlers retries or waits, and
that a batch is sent again until it succeeds is liveness of `Spool`.

## What was found

Where the code does something else than the repository's documents say, a run shows
the behaviour and `findings` quotes the line.

1. `spool.go` writes lines of any length and reads them with a 64 KiB scanner: one larger record
   makes every later append and flush fail (`spool_oversize`).
2. `claim_tasks` updates by id what it selected by status: a cancellation in
   between is undone and the task runs (`tasks_lifecycle`).
3. `enroll_agent` checks the use limit before it counts the use (`credential_use_limit`).
4. `rotate_agent_credential` can store a new secret under a version the agent has
   already: the agent ignores it and is locked out (`credential_rotation`).
5. The event log checkpoint is saved before the event is uploaded, so a restart skips it
   without a gap (`eventlog_loss`).

The passing properties state what does hold, with its exceptions, and each exception is something the
code does:

- `ReplayedWhileReadable`, `LockoutHasCause`, `MissedIsReported`: the findings above.
- `ImplementsOutbox`: `dropCandidateIndex` keeps old task results over newer telemetry, as
  `docs/adr/0001-bounded-local-spool.md` wants; `docs/DEPLOYMENT_V1.md:98` says the oldest record goes.
- `ExactWithoutReuse`: a `process_stop` has the identity its start had unless a snapshot came
  between, whose create time has another format; `docs/WINDOWS_ETW_PROCESS_LAB.md:29` makes no such
  exception. Every stop event also carries a reason for a missing parent.
- `ConfusionHasCause`: parents are linked by process id without comparing create times
  (`docs/adr/0003-process-entity-identity.md:9` says ids alone are not enough), the exit of an earlier
  process takes away a later one -- so that an earlier process under the same id may be named although the true
  parent was seen, while an exit is being moved to the retained ones -- and what the collector's queue holds when it is stopped is observed
  when it starts again.
- `NoDetectionGap`: a batch the spool gave up after its events were stored keeps them without alerts; nothing
  detects over stored events. A custom rule with an unknown operator raises on the first event that
  reaches it, and the batch fails on every retry while its copies pile up.
- `UncertaintyExplained`: the graph says nothing of a parent that is named but outside the window of events it
  looked at (`docs/RELEASE_VALIDATION.md:31` and `docs/adr/0003-process-entity-identity.md:41` ask for it).
- `CasesCarryTheirEvidence`: `POST /cases/{id}/evidence` takes any type, reference and data and looks only at the case, so a
  row made by hand may be called `task_result` and name a report that was never made, or another case's evidence.
- `OneCaseWithItsEdits`: two starts that overlap make two cases, and a start may write back a priority it
  read before another was set.
- `VersionsIncrease`, `HuntsKeepACriterion`: two `PUT`s that overlap may store one version for two
  configurations, two updates of a hunt may each undo the other's criterion. A hunt may be saved with
  query keys that no run reads.
- `EvidenceHolds`: the row keeps the metadata of the first upload and the object is that of the last; an interrupted
  write leaves half an object under a row that says otherwise.
- `OfflineIsExplained`: an agent may be marked offline although it reported after the second reading; a
  revoked agent is shown as offline (it still cannot authenticate, since `credential_revoked_at` decides).
- `StoresAgree`: `LIKE` ignores case in SQLite and keeps it in PostgreSQL, where a backslash in the needle (a path, `DOMAIN\user`)
  escapes the next character: the text itself is not found, and one without the backslash is. ClickHouse takes wildcards
  literally and cuts timestamps to milliseconds, so a page may end with other events. A parent's process id is searched in another
  column in SQLite and PostgreSQL. A needle with one backslash between two letters finds nothing in the JSON of an event, where it is written twice,
  so a hunt for a path as it is spelled finds nothing in any store. `docs/adr/0007-postgresql-control-plane-store.md:36` says
  that tests exercise the same behaviors across the stores.
- `TablesAgree`: a blank reason or case id passes the server and is refused by the agent.
- `TokensHaveCause`: a configuration download refused for its naming profile leaves a live token behind. So does
  each start outside production with a blank enrollment token: `create_enrollment_token` makes a random one, whose value
  `create_app` does not keep. And a restart outside production revives a revoked bootstrap token.

## Proofs

`SpoolProofs` proves, for all limits, sizes, numbers of records and numbers of faults:

- `TypeCorrect`: `Spec => []TypeOK`;
- `NothingIsLostSilently`: `Spec => []NoSilentLoss`;
- `RecordLimitHolds`: `Spec => []RecordsBounded`;
- `CountersAreRight`: `Spec => []CountersAccount`;
- `DropsAreNeeded`: `Spec => NothingDroppedNeedlessly`, an action property;
- `SpoolImplementsOutbox`: `Spec => ImplementsOutbox`.

The only assumption is `SpoolAssumption` (limits and bounds are naturals, sizes positive),
which TLC evaluates in every run of `MCSpool`.

None of the properties is inductive. `NoSilentLoss` is disturbed when `FlushRewrite`
replaces the file by `kept`: one must know that each record of the file is still in `work`, in `kept`, or
delivered (`Flushing`). The refinement is disturbed when `AppendRewrite` lets records go:
one must know that during the trim everything left out is worth less than
everything still there (`Trimming`), which follows turn by turn from what `DropCandidate`
chooses, and that needs the ids to increase along the sequence (`Order`). `Between` says that
`kept` is empty outside a flush. `IInv` is their conjunction with `TypeOK` and the two invariants. The lemmas are, in order: facts
about sequences (`Append`, `Tail`, `Without`), what `DropCandidate` returns, `TypeStep`, one lemma per
action that disturbs the rest, `InvStep`, `Invariance`, and then `RefinementStep`, which
maps each step to `Accept`, `Deliver`, `Retire` or a stutter. `DropCandidate`'s `CHOOSE` of a
least position exists by well-founded induction on the naturals, cited in its instance for a
set.

`CountersAccount` speaks of the time between two calls, so `Counted` says what the call's copy of the counters accounts
for at each point (`Balanced`): the records in memory while it trims or sends, those in the file once that is
replaced; and that a record turned away was counted as blocked or has a twin by timestamp (`BlockedCounted`). For
`NothingDroppedNeedlessly`, `Needed` keeps during a trim that the record dropped last is the foremost of those dropped
and would not fit beside what is left. That needs `SizeWithout`, that leaving a record out takes its size off
`RecordsSize`, which is a loop over the records: `SizesOf` is what the loop computes up to each position, it exists
(`SizesExist`) and is the only one (`SizeIsLast`), each shown by taking the least position that fails.

`TaskLifecycleProofs` proves, for any number of tasks and store threads, any limits, retries and faults:

- `TypeCorrect`: `Spec => []TypeOK`, which no run checks by itself;
- `RunOncePerDispatch`: `Spec => []ExecutedOncePerDispatch`;
- `BlockIsFinal`: `Spec => []PolicyBlockHolds`;
- `OutcomesAreReal`: `Spec => []NoPhantomOutcome`;
- `AuditIsKept`: `Spec => []AuditKeptUntilRetry`;
- `ResultsAreAccounted`: `Spec => []NoResultVanishes`.

They assume `TaskAssumption` and that `NoResult` is not a result (`NoResultAssumption`), which the runs of `MCTaskLifecycle`
evaluate. A status says little while a thread is between a `SELECT` and its `UPDATE`: the row it selected
may be cancelled, retried, queued and claimed again meanwhile. So `IInv` says what threads and agent hold.
`CallsMatch`: the agent awaits at most one request, and which one follows from `pc`; every other request
is abandoned, and its claim reaches nobody. `Dispatched`: a task in the queue, in the claim the agent awaits, or in `todo` is
owed a run, and one that was queued again while the agent holds it is owed two; this is what makes
`ExecutedOncePerDispatch` inductive. `Sealed`: a row that is absent or blocked was never selected, run
or reported, so that a create finds nothing in flight. `RunsCounted`: no result names a run that has not
taken place; with `Dispatched` it pins a never retried task to its one run, which
`NoPhantomOutcome` needs. `AuditCarried`: the audit is also in what a thread has read. `Accounted`: what the flush may drop
is stored. Each part has a lemma with one step per action; `FlightStep` says once where results in flight come
from, and `SealedStep` and `RunsStep` use it instead of the actions.

`CredentialProofs` proves, for any number of threads, uses of a token, rotations, fresh set-ups and faults:

- `LockoutsAreExplained`: `Spec => []LockoutHasCause`;
- `DuplicatesAreExplained`: `Spec => []DuplicatesHaveCause`;
- `IdentitySurvivesRestart`: `Spec => []RestartKeepsIdentity`;
- `RevocationHolds`: `Spec => RevocationIsFinal`.

They assume `CredentialAssumption`, which has the threads finite in number, and `FilesAssumption`: no file is a state and
missing or torn at once. `InStep` says what `LockoutHasCause` does not: while nothing failed and no rotation raced,
a pending credential is one version ahead, the heartbeat that delivers one is still awaited, and the version it will
activate is the next one. `Minted` counts the enrollments under way together with the rows, since `enroll_agent` adds its
row in its second step; `Kept` is what the disk has at each point of the agent's start, and `Awaiting` ties the one
request that is awaited to the step the agent is at. `RevocationIsFinal` is an action property.
It is about what the handlers write, not about what `authenticate_agent` reads: `RevokedRow` goes through every write of a row
(an activation that reset `credential_revoked_at`, or a heartbeat that stored the whole row it had read, would break it), and
`TakenUp` says where a thread's identity comes from.

`EventLogProofs` proves, for any log, query, queue and buffer, any number of source processes, restarts and faults:

- `UploadsFollowTheLog`: `Spec => []UploadedInOrder`;
- `MissesAreReported`: `Spec => []MissedIsReported`.

They assume `EventLogAssumption`. That a record comes through once cannot be seen from the checkpoint alone, which a restart can
set back to a file that is older: `Ahead` says that what run let through is behind the checkpoint or else behind
everything that can still arrive, over the pipes of all sources and the queue. `Order` then carries it to the buffer, the
record in hand and the uploads; `Saved` says how far the file is behind, and `Accounted` is `MissedIsReported` over sets
instead of the sequence it counts.

`IngestProofs` proves, for any batches, rules and rule files, any number of requests and faults, with and without ClickHouse:

- `ReferencesAreWhole`: `Spec => []ReferencesResolve`;
- `DetectionIsOwed`: `Spec => []NoDetectionGap`.

They assume `IngestAssumption`. `Staged` says what each handler did before the step it is at, which is what its
next row refers to and what lets a batch that ended count as detected; `Owed` follows every batch to
the agent, the spool's losses or a request that got through.

`TrackerProofs` proves, for any number of processes, process ids, records and snapshots, any queue, retention and time:

- `TrackerIsExact`: `TrackerSpec => []ExactWithoutReuse`;
- `ConfusionIsExplained`: `TrackerSpec => []ConfusionHasCause`;
- `EachEndAlone`: a behaviour of `Telemetry` is one of `Ingest` and one of the tracker;
- `TelemetryIsSound`: `TelemetrySpec` has all four properties its run checks.

They assume `TrackerAssumption` and `NothingAssumption` (`Nothing` is neither an identity nor a stop). What the two maps
hold is right only in relation to a history: which records the queue still has (`InOrder`), which stops were observed
and how many of them retention and its limit have taken away since (`LogOK`, `KeptOK`), and what a stop that is
half observed has found (`StoppingOK`). `ActiveOK` says which process an active entry can be of: the last one
under its id that was observed, or an earlier one whose record came late. `SnapshotOK` says
that the rows of a snapshot were running together, from which a late row can be told. The two properties follow from that by
cases on where the parent is found: active, among the retained, or nowhere. The attempt to prove an earlier
`ConfusionHasCause` showed it to be false of larger instances than TLC checked (it takes four processes): the wrong
process can be named while an exit under the id is being moved, and the property now says so.

`CasesProofs` proves, for any alerts, analysts, tasks, cases and edits:

- `OneCaseForAnAlert`: `CasesSpec => []OneCaseWithItsEdits`;
- `EvidenceStaysWithItsCase`: `CasesSpec => []CasesCarryTheirEvidence`.

`CaseInv` says what a start has read and not yet written: `OneCase`, that there is no case
while one start is to make it; `EditsKept`, that the priority a start will write back is the one asked for last.
That the case `Chosen` takes is one of the alert's needs a least `updated_at`, by well-founded induction over the naturals.
`LinkInv` adds what is true of the links: each belongs to a case that exists and, unless it was made by hand, refers to
that case's alert or to a stored report of a task that may be linked to it (`LinksOK`), which an analyst between reading a
task and linking it also holds (`JobsOK`); and the first link of a case is its alert, with the alert's evidence behind it
(`Linked`). `MentionedOnce` says of any sequence that taking first mentions keeps each reference once and the first one first. Which links a case lists is a query, and the
prover has no definition of `SelectSeq` (nor of `@@`, which the modules proved about avoid): `Selection` says it by positions,
and `PickedByRank` that what is picked is what was at the positions, each once and in order.

`ControlPlaneProofs` proves, for any number of agents, threads, hunts, uploads, servers, processes and events:

- `OfflineHasItsAlert`: `ControlPlaneSpec => []OfflineIsExplained`;
- `VersionsNameConfigurations`, `HuntsSearchForSomething`: the same of `VersionsIncrease` and `HuntsKeepACriterion`;
- `EvidenceIsKept`: of `EvidenceHolds`;
- `TokensAreExplained`: of `TokensHaveCause`;
- `ServerAndAgentAgree`: of `TablesAgree`;
- `CasesKeepTheirEdits`, `CasesKeepTheirEvidence`: of `OneCaseWithItsEdits` and `CasesCarryTheirEvidence`;
- `StoresGiveTheSame`: of `StoresAgree`;
- `WorkspaceShowsItsEvents`: of `WorkspaceIsComplete`;
- `GraphShowsNothingUntrue`, `GapsAreWhereItStops`: of `GraphIsTrue` and `UncertaintyExplained`;
- `ControlPlaneTypes`: of `ControlPlaneTypeOK`, the types and bounds of all seven parts.

Each part is proved by itself, with an invariant of what its handlers hold between two transactions, and
the lemma `EachPartAlone`, that a behaviour of `ControlPlane` is one of each part, carries it over. For the scan for silent agents that is `Readings`, that an agent that is stale now was stale,
with the same `last_seen`, at both readings, and `Explained`, that an offline agent's alert is stored or held by the very
scan that marked it; for the settings, that the one `PUT` under way has a version beyond all others, and that
the one update of a hunt will write what was asked for; for the uploads, which writer can have an object half
written (`TornIsExplained`) and that a key's second writer finds the object there (`WrittenOnce`). `TokensHaveCause` is inductive
as it stands. `TablesAgree` is not about steps but about two tables: the catalogue is split by what the
policy asks of a type (`Harmless`, `Sensitive`, `Responses`), the verdicts are compared kind by kind, and
`TakenAsTheyAre` goes through every check of the agent with arguments the schema has let through. `StoresAgree` compares queries: a needle that is within a text can be laid along it with the two `%` around it (`WithinIsLike`); one
without wildcards can be laid in no other way, by induction over its letters (`LikeIsWithin`); and without a backslash nothing
escapes (`NothingEscapes`), so that PostgreSQL lays it as SQLite does but for case (`CaseIsAll`). `FoundToo` carries that over to
filters, `PagesDiffer` compares two pages of the same rows, and `InvestigationInv` says that what is stored are events.
`WorkspaceIsComplete` needs what a loop computes, and the library's induction theorems cannot be used in this prover: `UpTo` is an
induction over a set of numbers, from the least number that is missing. With it, `GatherExists` gives the hunt's recursive
function a value, and `GatherHas` says of every prefix of the indicators that what was found has no event
twice and misses none that they list (`PageOf`), unless those are more than a page.

The graph needs three steps. `GraphInv` adds to `InvestigationInv` what `ApplyProcessIdentity` guarantees of an event
(`Says`: it names the true parent or none, with a reason if there was one) and that parents are older (`ParentsOK`); both
are inductive. The climb is a path that cannot go on (`PathEnds`): a path longer than the number of known processes
would have one twice. Parents are older, so a chain of true parents descends, and every such chain is a beginning of
the true ancestry (`ChainIsPrefix`); the graph's climb, the chain by identity and, where `PidsDistinct`, the chain by
process id are each shown to be one. The visit of the descendants keeps `VisitInv`: what it lists is below the process and
listed once, the children of what is listed are listed or wait, and the steps taken and the events that wait are together
the events pushed. No process is below itself, so each event is pushed once, and at the bound of the recursion nothing
waits (`VisitEnds`). That the two directions agree is then an induction down the ancestry: each
process on it is a child of the one before.
The types need little beyond those invariants; the bounds that are missing from one (`HealthBounds`, `EvidenceBounds`,
`SettingsBounds`) are proved beside it. The assumptions are those of
the modules, and `ObjectsAssumption`: no upload is the same as no file or a torn one.

Every assumption is evaluated by the runs. What is proved of a module alone (`Ingest`, `ProcessTracker`, the parts of
`ControlPlane`) is checked by the run of the composition, and the two composition theorems close that gap.

### Only model-checked

Liveness, which is out of the prover's reach under fairness: `ReplayedWhileReadable`, `ResultsArrive`, `ClaimsSettle`,
`RotationIsPickedUp`, `SubscriptionTurns`, `QueuedIsUploaded`.

## Plan

Written: every module of the table above, and the proofs listed: every invariant and every action property that the
runs expect to hold is proved for all values of the constants. What stays with TLC is liveness.

## Not modelled

- Encoding, TLS, HTTP routing and authentication headers; what a task reads from the host, and host inventory.
- The normalizers, the provider record and the JSON adapter: stateless mappings of one record.
- The administration page (a constant text in `api/app.py`), CLI, release validation and scripts; read-only
  listings of one table; the schema migrations `init` makes on an old database.
- Of PostgreSQL, what is not in a query's answer: serialisation failures and connections. READ COMMITTED
  leaves the same gap between a `SELECT` and an `UPDATE` as SQLite's deferred transactions.
- Of the queries: what a needle finds in the names and punctuation of `event_json`, or across two fields of it; letters beyond
  ASCII; timestamps with different offsets, which the SQL stores order as text, and the collation PostgreSQL orders them by.
- Of the investigation: the fallbacks of `_related_timeline` by process id and by host, for events without an identity; the
  children `process_chain` lists; the parent id `0` that a Windows snapshot reports with a reason. An observed stop
  may name its parent here, which the agent never does.
- Of the spool: an error of `os.Remove` when a flush leaves nothing, which the code ignores. `TaskLifecycle` counts a result as lost
  also where only the metadata failed after the rewrite.
- Of the event log: lines that the scanner of a reader that has exited still enqueues, after its slot is free; of process
  tracking, records still in the pipe of a source that was cancelled.
- Of agent health: a heartbeat let in before a revocation may write `online` over it, which `Credential` has; here a revoked
  agent reports no more.
- The agent's cycle as a whole: each of its parts is in the module of its subject, and the parts
  exchange nothing but what these modules have on both sides.
- Of cases: one made without an alert; `data` with a `raw_ref` that is not a text; links are listed as they
  were inserted, where the code orders them by `created_at`, which the two links of `create_case` share.
- Health reports of the tracker, the collectors and the spool, which derive values from modelled state.
