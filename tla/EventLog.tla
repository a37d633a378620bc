------------------------------ MODULE EventLog -------------------------------
(***************************************************************************)
(* The agent's Windows Event Log subscription,                             *)
(* agent/internal/collect/eventlog_subscription.go and                     *)
(* eventlog_subscription_windows.go, and its use by the run loop in        *)
(* agent/cmd/open-edr-agent/main.go.                                       *)
(*                                                                         *)
(* A source process writes one line per matching record of the log to a    *)
(* pipe.  One goroutine reads the pipe into a bounded queue, one (run)     *)
(* moves records from the queue to the buffer of events and saves the      *)
(* checkpoint, one waits for the process and stops the subscriber when it  *)
(* has exited.  The run loop starts or stops the subscriber in every cycle,*)
(* drains the buffer, and uploads what it drained.  The log has one profile*)
(* and numbers its records.                                                *)
(*                                                                         *)
(* Definitions named X_Y are mutants: X as a plausible slip would have it. *)
(***************************************************************************)
EXTENDS Integers, Sequences, Functions

CONSTANTS
    Slots,        \* bound: source processes not yet waited for
    QueueSize,    \* capacity of the queue (1024 in the code)
    Room,         \* events a cycle drains (max_snapshot_events less one)
    MaxRecord,    \* bound: records the log gets
    Matching,     \* those of them the profile's query selects
    TooLong,      \* those whose line exceeds bufio.Scanner's buffer
    MaxRestarts,  \* bound: orderly restarts of the agent
    MaxFaults,    \* bound: crashes, exits of a source, failed writes or starts
    NoSlot

ASSUME EventLogAssumption ==
    /\ QueueSize \in Nat \ {0} /\ Room \in Nat \ {0} /\ MaxRecord \in Nat
    /\ Matching \subseteq 1..MaxRecord /\ TooLong \subseteq Matching
    /\ MaxRestarts \in Nat /\ MaxFaults \in Nat
    /\ NoSlot \notin Slots

VARIABLES
    log,         \* how many records the log has
    source,      \* the source processes, with their pipes and goroutines
    current,     \* the process Start launched last
    cancelled,   \* its context, and run's, is done
    running,     \* s.running: the run goroutine has not returned
    inHand,      \* the record run is checkpointing, 0 for none
    queue,       \* records read from the pipe
    events,      \* records in the drain buffer
    checkpoint,  \* s.checkpoints of the profile, 0 for none
    disk,        \* the checkpoint file, or Torn
    pc,          \* where the run loop is
    feature,     \* windows_eventlog_subscriptions in its configuration
    first,       \* history: the first record since the checkpoint was empty
    uploaded,    \* history: records handed to the backend or the spool
    reported,    \* history: records a counter or last_error accounted for
    forgotten,   \* history: records in memory only when the agent ended
    restarts, faults   \* history: how many

subscription == <<source, current, cancelled>>
run == <<running, inHand>>
buffers == <<queue, events>>
checkpoints == <<checkpoint, disk, first>>
loop == <<pc, feature>>
history == <<uploaded, reported, forgotten>>
ends == <<restarts, faults>>
vars == <<log, subscription, run, buffers, checkpoints, loop, history, ends>>

-----------------------------------------------------------------------------
RecordId == 1..MaxRecord
Torn == -1

\* A slot without a process; a process has a watcher, the goroutine that waits
\* for it, and a reader of its pipe.
FreeSlot == [state |-> "free", reading |-> FALSE, pipe |-> <<>>]

\* run has returned, so its context is done, before there is another process.
ContextDone(g) == g # current \/ cancelled

Init ==
    /\ log = 0
    /\ source = [g \in Slots |-> FreeSlot]
    /\ current = NoSlot /\ cancelled = TRUE
    /\ running = FALSE /\ inHand = 0
    /\ queue = <<>> /\ events = <<>>
    /\ checkpoint = 0 /\ disk = 0
    /\ pc = "cycle" /\ feature = FALSE
    /\ first = 0
    /\ uploaded = {} /\ reported = {} /\ forgotten = {}
    /\ restarts = 0 /\ faults = 0

Fault == faults < MaxFaults /\ faults' = faults + 1 /\ UNCHANGED restarts

-----------------------------------------------------------------------------
(* The run loop *)

\* The heartbeat of an earlier cycle brought another configuration.
Configure ==
    /\ pc = "cycle"
    /\ feature' = ~feature
    /\ UNCHANGED <<log, subscription, run, buffers, checkpoints, pc, history,
                   ends>>

\* Start launches run and a source process ...
Start(g) ==
    /\ pc = "cycle" /\ feature /\ ~running
    /\ source[g] = FreeSlot
    /\ source' = [source EXCEPT ![g] = [FreeSlot EXCEPT !.state = "live",
                                                        !.reading = TRUE]]
    /\ current' = g /\ cancelled' = FALSE
    /\ running' = TRUE
    /\ pc' = "upload"
    /\ UNCHANGED <<log, inHand, buffers, checkpoints, feature, history, ends>>

\* ... or, when the process does not start, run alone, which it stops again ...
StartFails ==
    /\ pc = "cycle" /\ feature /\ ~running
    /\ Fault
    /\ current' = NoSlot /\ cancelled' = TRUE
    /\ running' = TRUE
    /\ pc' = "stopping"
    /\ UNCHANGED <<log, source, inHand, buffers, checkpoints, feature,
                   history>>

\* ... or nothing, when run is there already.
StartAgain ==
    /\ pc = "cycle" /\ feature /\ running
    /\ pc' = "upload"
    /\ UNCHANGED <<log, subscription, run, buffers, checkpoints, feature,
                   history, ends>>

Stop_WithoutCancel ==
    /\ pc = "cycle" /\ ~feature
    /\ pc' = IF running THEN "stopping" ELSE "cycle"
    /\ UNCHANGED <<log, subscription, run, buffers, checkpoints, feature,
                   history, ends>>

\* Stop cancels the context and waits for run to return.
Stop ==
    /\ pc = "cycle" /\ ~feature
    /\ cancelled' = TRUE
    /\ pc' = IF running THEN "stopping" ELSE "cycle"
    /\ UNCHANGED <<log, source, current, run, buffers, checkpoints, feature,
                   history, ends>>

Stopped ==
    /\ pc = "stopping"
    /\ ~running
    /\ pc' = IF feature THEN "upload" ELSE "cycle"
    /\ UNCHANGED <<log, subscription, run, buffers, checkpoints, feature,
                   history, ends>>

DrainCount_OffByOne == IF Len(events) < Room - 1 THEN Len(events) ELSE Room - 1

DrainCount == IF Len(events) < Room THEN Len(events) ELSE Room

\* DrainEvents takes the oldest events out of the buffer, and IngestEvents or,
\* when that fails, AppendEventsBounded takes them over.
Upload ==
    /\ pc = "upload"
    /\ events' = SubSeq(events, DrainCount + 1, Len(events))
    /\ uploaded' = uploaded \cup Range(SubSeq(events, 1, DrainCount))
    /\ pc' = "cycle"
    /\ UNCHANGED <<log, subscription, run, queue, checkpoints, feature,
                   reported, forgotten, ends>>

\* Both fail: the events are gone, and only the agent's own log says so.
UploadFails ==
    /\ pc = "upload"
    /\ Fault
    /\ events' = SubSeq(events, DrainCount + 1, Len(events))
    /\ forgotten' = forgotten \cup Range(SubSeq(events, 1, DrainCount))
    /\ pc' = "cycle"
    /\ UNCHANGED <<log, subscription, run, queue, checkpoints, feature,
                   uploaded, reported>>

-----------------------------------------------------------------------------
(* The source process, its reader and its watcher *)

\* A record is written; every source process there is picks it up.
LogWrites ==
    /\ log < MaxRecord
    /\ log' = log + 1
    /\ source' = [g \in Slots |->
           IF source[g].state = "live" /\ log' \in Matching
           THEN [source[g] EXCEPT !.pipe = Append(@, log')] ELSE source[g]]
    /\ UNCHANGED <<current, cancelled, run, buffers, checkpoints, loop,
                   history, ends>>

Full == Len(queue) = QueueSize

\* The reader enqueues the next record, or drops it when the queue is full;
\* a line that is too long ends the reader, with last_error set.
Read(g) ==
    LET r == Head(source[g].pipe) IN
    /\ source[g].reading /\ source[g].pipe # <<>>
    /\ source' = [source EXCEPT ![g].pipe = Tail(@), ![g].reading = r \notin TooLong]
    /\ \/ /\ r \notin TooLong /\ ~Full
          /\ queue' = Append(queue, r)
          /\ UNCHANGED reported
       \/ /\ r \in TooLong \/ Full
          /\ reported' = reported \cup {r}
          /\ UNCHANGED queue
    /\ UNCHANGED <<log, current, cancelled, run, events, checkpoints, loop,
                   uploaded, forgotten, ends>>

\* The process is killed when its context is done, or ends by itself: then the
\* watcher goes on to stop the subscriber.  cmd.Wait has closed the pipe, whether
\* or not it was read to its end.
Exits(g) ==
    /\ source[g].state = "live"
    /\ \/ /\ ContextDone(g)
          /\ source' = [source EXCEPT ![g] = FreeSlot]
          /\ UNCHANGED ends
       \/ /\ ~ContextDone(g)
          /\ source' = [source EXCEPT ![g] = [FreeSlot EXCEPT !.state = "leaving"]]
          /\ Fault
    /\ UNCHANGED <<log, current, cancelled, run, buffers, checkpoints, loop,
                   history>>

\* The watcher's Stop cancels whatever context is the current one by now.
WatcherStops(g) ==
    /\ source[g].state = "leaving"
    /\ source' = [source EXCEPT ![g] = FreeSlot]
    /\ cancelled' = TRUE
    /\ UNCHANGED <<log, current, run, buffers, checkpoints, loop, history,
                   ends>>

-----------------------------------------------------------------------------
(* The run goroutine *)

\* Observe moves the checkpoint, counts a jump of the record numbers, and
\* skips a record at or behind the checkpoint.
Observe_OffByOne(r) ==
    /\ checkpoint' = IF r < checkpoint THEN checkpoint ELSE r
    /\ inHand' = IF r < checkpoint THEN 0 ELSE r
    /\ first' = IF checkpoint = 0 THEN r ELSE first
    /\ reported' = reported \cup
           (IF r < checkpoint THEN {r}
            ELSE IF checkpoint > 0 THEN (checkpoint + 1)..(r - 1) ELSE {})

Observe_ToleratesOne(r) ==
    /\ checkpoint' = IF r <= checkpoint THEN checkpoint ELSE r
    /\ inHand' = IF r <= checkpoint THEN 0 ELSE r
    /\ first' = IF checkpoint = 0 THEN r ELSE first
    /\ reported' = reported \cup
           (IF r <= checkpoint THEN {r}
            ELSE IF checkpoint > 0 /\ r > checkpoint + 2 THEN (checkpoint + 1)..(r - 1)
            ELSE {})

Observe(r) ==
    /\ checkpoint' = IF r <= checkpoint THEN checkpoint ELSE r
    /\ inHand' = IF r <= checkpoint THEN 0 ELSE r
    /\ first' = IF checkpoint = 0 THEN r ELSE first
    /\ reported' = reported \cup
           (IF r <= checkpoint THEN {r}
            ELSE IF checkpoint > 0 THEN (checkpoint + 1)..(r - 1) ELSE {})

\* run receives from the queue, although its context may be done already.
Receive ==
    /\ running /\ inHand = 0
    /\ queue # <<>>
    /\ Observe(Head(queue))
    /\ queue' = Tail(queue)
    /\ UNCHANGED <<log, subscription, running, events, disk, loop, uploaded,
                   forgotten, ends>>

\* saveCheckpoints writes the file, and the event goes into the buffer ...
Save ==
    /\ inHand # 0
    /\ disk' = checkpoint
    /\ events' = Append(events, inHand)
    /\ inHand' = 0
    /\ UNCHANGED <<log, subscription, running, queue, checkpoint, first, loop,
                   history, ends>>

\* ... or fails, perhaps with the file truncated, and the event is dropped.
SaveFails ==
    /\ inHand # 0
    /\ Fault
    /\ disk' \in {disk, Torn}
    /\ reported' = reported \cup {inHand}
    /\ inHand' = 0
    /\ UNCHANGED <<log, subscription, running, buffers, checkpoint, first,
                   loop, uploaded, forgotten>>

RunReturns ==
    /\ running /\ inHand = 0
    /\ cancelled
    /\ running' = FALSE
    /\ UNCHANGED <<log, subscription, inHand, buffers, checkpoints, loop,
                   history, ends>>

-----------------------------------------------------------------------------
(* The agent process ends and is started again *)

\* What is left is the checkpoint file; loadCheckpoints reads it.
Restart(left) ==
    /\ disk' = left
    /\ checkpoint' = IF left = Torn THEN 0 ELSE left
    /\ first' = IF left \in {0, Torn} THEN 0 ELSE first
    /\ forgotten' = forgotten \cup Range(events)
    /\ source' = [g \in Slots |-> FreeSlot] /\ current' = NoSlot /\ cancelled' = TRUE
    /\ running' = FALSE /\ inHand' = 0 /\ queue' = <<>> /\ events' = <<>>
    /\ pc' = "cycle" /\ feature' = FALSE
    /\ UNCHANGED <<log, uploaded, reported>>

\* The service is stopped between two cycles.
StopAgent ==
    /\ pc = "cycle"
    /\ restarts < MaxRestarts /\ restarts' = restarts + 1 /\ UNCHANGED faults
    /\ Restart(disk)

Crash ==
    /\ Fault
    /\ \E left \in {disk} \cup (IF inHand # 0 THEN {Torn} ELSE {}) : Restart(left)

-----------------------------------------------------------------------------
AgentStep ==
    \/ \E g \in Slots : Start(g)
    \/ StartAgain
    \/ Stop
    \/ Stopped
    \/ Upload

SourceStep(g) == Read(g) \/ WatcherStops(g)

Next ==
    \/ Configure
    \/ AgentStep
    \/ \E g \in Slots : SourceStep(g) \/ Exits(g)
    \/ StartFails \/ UploadFails
    \/ LogWrites
    \/ Receive \/ Save \/ SaveFails \/ RunReturns
    \/ StopAgent
    \/ Crash

Spec == Init /\ [][Next]_vars

\* The run loop goes round, the goroutines run, a process whose context is done
\* is killed, and a select that is offered both ways takes each in the end.
FairSpec ==
    /\ Spec
    /\ WF_vars(AgentStep)
    /\ \A g \in Slots : WF_vars(Read(g)) /\ WF_vars(WatcherStops(g))
                        /\ WF_vars(ContextDone(g) /\ Exits(g))
    /\ WF_vars(Receive) /\ WF_vars(Save) /\ SF_vars(RunReturns)

-----------------------------------------------------------------------------
\* Records leave in the log's order and none leaves twice, although two source
\* processes may overlap and a restart or a torn checkpoint file forgets what
\* was seen.
Hand == IF inHand = 0 THEN <<>> ELSE <<inHand>>
Held == events \o Hand
UploadedInOrder ==
    /\ \A i, j \in DOMAIN Held : i < j => Held[i] < Held[j]
    /\ \A i \in DOMAIN Held, r \in uploaded : r < Held[i]

\* Once a first record has been seen, a record behind the checkpoint -- missed
\* while there was no source, left in a pipe, dropped from a full queue,
\* overtaken, not saved -- is on its way, uploaded, or reported; unless it
\* was in the buffer or in an upload when the agent ended or both ways out failed.
Behind == {r \in Matching : 0 < first /\ first <= r /\ r <= checkpoint}
MissedIsReported ==
    Behind \subseteq Range(Held) \cup uploaded \cup reported \cup forgotten

\* docs/WINDOWS_EVENT_LOG_SUBSCRIPTION_LAB.md:39: no "silent loss around the
\* checkpoint".
NoLossAroundCheckpoint ==
    Behind \subseteq Range(Held) \cup uploaded \cup reported

\* Turning the subscription on and off keeps working.  Whatever ends the source --
\* its own exit, a failed start, a watcher that is late and stops the next one --
\* there is one again while the feature is on; and Stop, which waits for run,
\* does not keep the run loop from its heartbeats and tasks for ever.
Subscribed == \E g \in Slots : source[g].state = "live" /\ ~ContextDone(g)
SubscriptionTurns ==
    /\ []<>(~feature \/ Subscribed)
    /\ pc = "stopping" ~> pc # "stopping"

\* A record in the queue gets through the buffer and out of it, or the feature
\* is turned off: a cycle drains faster than nothing.
Waiting(r) == r \in Range(queue \o Held)
QueuedIsUploaded ==
    \A r \in Matching : Waiting(r) ~> ~Waiting(r) \/ ~feature

=============================================================================
