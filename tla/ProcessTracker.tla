--------------------------- MODULE ProcessTracker ----------------------------
(***************************************************************************)
(* The process tracker of the agent and the ETW collector that feeds it    *)
(* (agent/internal/collect: process_tracker.go, process_identity.go,       *)
(* etw_process.go, etw_process_windows.go).                                *)
(*                                                                         *)
(* The run loop observes snapshots of the running processes, row by row;   *)
(* the collector's goroutine observes the starts and stops that the trace  *)
(* source queued.  Both use the same maps and no lock.  A step is a use of *)
(* the maps that only the other goroutine's whole steps come between; the  *)
(* Go runtime that notices two uses at once ends the process.  All of the  *)
(* state is in memory: an agent that died starts over, as Init allows.     *)
(*                                                                         *)
(* An identity is made of the process id and the create time.  Snapshot    *)
(* and trace have the create time in two formats, and a stop has none: so  *)
(* <<"snapshot", x>>, <<"trace", x>> and <<"pid", p>>.  activeByEntity and *)
(* the counters are only reported in Health and are left out.              *)
(*                                                                         *)
(* Definitions named X_Y are mutants: X as a plausible slip would have it. *)
(***************************************************************************)
EXTENDS Naturals, Sequences, FiniteSets, SequencesExt

CONSTANTS
    Pids,                  \* process ids
    QueueSize, MaxExited,  \* limits of the queue and of the retained exits
    Retention,             \* ExitedRetention, in ticks
    Nothing,
    MaxProcesses, MaxTime  \* bounds

ASSUME TrackerAssumption ==
    /\ Pids # {}
    /\ {QueueSize, MaxExited, Retention, MaxProcesses, MaxTime} \subseteq Nat

Entity   == ({"snapshot", "trace"} \X Nat) \cup ({"pid"} \X Pids)
Stopping == [of : Nat, forgotten : BOOLEAN, entity : Entity]
ASSUME NothingAssumption == Nothing \notin Entity \cup Stopping

VARIABLES
    procs,     \* the processes there have been: process id, parent (0: none)
    running,   \* those that run
    now,
    etw,       \* the collector and its source run
    queue,     \* records the source has queued
    stopping,  \* the stop the collector's goroutine is at, or Nothing
    snapshot,  \* rows of a snapshot still to observe, and all it has
    active,    \* activeByPID: the identity under each process id
    retained,  \* retainedExitedPID: the lists of all ids, each exit under its
               \* number in ended
    known,     \* history: processes whose start or row the tracker has observed
    late,      \* history: those it observed so when they had exited, or whose stop
               \* it observed when their process id was another's
    ended      \* history: stops it has recorded, with the time

machine == <<etw, queue, stopping, snapshot, active, retained>>
world   == <<procs, running, now>>
history == <<known, late, ended>>
trackerVars == <<machine, world, history>>

-----------------------------------------------------------------------------
Idle == [rows |-> <<>>, all |-> {}]

TrackerInit ==
    /\ procs = <<>> /\ running = {} /\ now = 0
    /\ etw = FALSE /\ queue = <<>> /\ stopping = Nothing /\ snapshot = Idle
    /\ active = [p \in Pids |-> Nothing] /\ retained = <<>>
    /\ known = {} /\ late = {} /\ ended = <<>>

Pid(x) == procs[x].pid

-----------------------------------------------------------------------------
(* The endpoint.  With a full queue the record is dropped. *)

Trace(kind, x) ==
    /\ queue' = IF etw /\ Len(queue) < QueueSize
                THEN Append(queue, [kind |-> kind, of |-> x]) ELSE queue
    /\ UNCHANGED <<now, etw, stopping, snapshot, active, retained, history>>

Spawn(p, parent) ==
    /\ Len(procs) < MaxProcesses
    /\ \A x \in running : Pid(x) # p
    /\ procs' = Append(procs, [pid |-> p, parent |-> parent])
    /\ running' = running \cup {Len(procs) + 1}
    /\ Trace("start", Len(procs) + 1)

Exit(x) ==
    /\ running' = running \ {x}
    /\ Trace("stop", x)
    /\ UNCHANGED procs

\* Only the age of the retained exits is ever asked for.
TimePasses ==
    /\ DOMAIN retained # {}
    /\ now < MaxTime /\ now' = now + 1
    /\ UNCHANGED <<procs, running, machine, history>>

-----------------------------------------------------------------------------
(* The maps *)

\* retainedParent: the last exit under a process id that is not too old.
Fresh(exits) == {i \in DOMAIN exits : now - exits[i].at <= Retention}
RetainedParent(p) ==
    LET mine == {i \in Fresh(retained) : retained[i].pid = p}
    IN IF mine = {} THEN Nothing ELSE retained[Max(mine)].entity

\* resolveParent: by process id, in the snapshot, among the active, among the exits.
Parent_NotRetained(x, rows) ==
    LET p == Pid(procs[x].parent) IN
    IF \E y \in rows : Pid(y) = p THEN <<"snapshot", CHOOSE y \in rows : Pid(y) = p>>
    ELSE active[p]
Parent(x, rows) ==
    LET p == Pid(procs[x].parent) IN
    IF \E y \in rows : Pid(y) = p THEN <<"snapshot", CHOOSE y \in rows : Pid(y) = p>>
    ELSE IF active[p] # Nothing THEN active[p]
    ELSE RetainedParent(p)

Started(x, source, rows) ==
    [kind |-> "start", of |-> x, entity |-> <<source, x>>,
     parent |-> IF procs[x].parent = 0 THEN Nothing ELSE Parent(x, rows)]

\* rememberActive
Remember(x, source) ==
    /\ active' = [active EXCEPT ![Pid(x)] = <<source, x>>]
    /\ known' = known \cup {x}
    /\ late' = IF x \in running THEN late ELSE late \cup {x}

\* purgeExited: what is too old, and over the limit one with the oldest time.
Purged(exits) ==
    LET fresh == Fresh(exits)
        oldest == {i \in fresh : \A j \in fresh :
                      /\ exits[i].at <= exits[j].at
                      /\ exits[i].pid = exits[j].pid => i <= j}
    IN IF Cardinality(fresh) <= MaxExited THEN {Restrict(exits, fresh)}
       ELSE {Restrict(exits, fresh \ {i}) : i \in oldest}

-----------------------------------------------------------------------------
(* The run loop: the collector switched on or off, and snapshots *)

StartETW ==
    /\ ~etw /\ snapshot = Idle
    /\ etw' = TRUE
    /\ UNCHANGED <<world, queue, stopping, snapshot, active, retained, history>>

\* Stop waits for the goroutine, but what is queued stays for the next start.  It
\* is called by the run loop, and by the watcher of a source that has exited.
StopETW ==
    /\ etw /\ stopping = Nothing
    /\ etw' = FALSE
    /\ UNCHANGED <<world, queue, stopping, snapshot, active, retained, history>>

\* platformProcessSnapshot: as many rows of the list as it asked for.
TakeSnapshot ==
    /\ snapshot = Idle
    /\ \E rows \in SetToAllKPermutations(running) \ {<<>>} :
          snapshot' = [rows |-> rows, all |-> ToSet(rows)]
    /\ UNCHANGED <<world, etw, queue, stopping, active, retained, history>>

\* ObserveSnapshot, the turn of one row.
ObserveRow ==
    /\ snapshot.rows # <<>>
    /\ LET x == Head(snapshot.rows)
           rest == Tail(snapshot.rows)
       IN /\ Remember(x, "snapshot")
          /\ snapshot' = IF rest = <<>> THEN Idle ELSE [snapshot EXCEPT !.rows = rest]
          /\ retained' \in IF rest = <<>> THEN Purged(retained) ELSE {retained}
    /\ UNCHANGED <<world, etw, queue, stopping, ended>>

-----------------------------------------------------------------------------
(* The collector's goroutine *)

HeadIs(kind) == etw /\ stopping = Nothing /\ queue # <<>> /\ Head(queue).kind = kind

ObserveStart ==
    /\ HeadIs("start")
    /\ Remember(Head(queue).of, "trace")
    /\ queue' = Tail(queue)
    /\ retained' \in Purged(retained)
    /\ UNCHANGED <<world, etw, stopping, snapshot, ended>>

\* ObserveProcessExit: the identity is that of the active process with the id ...
ExitLooksUp ==
    /\ HeadIs("stop")
    /\ LET x == Head(queue).of IN
       stopping' = [of |-> x, forgotten |-> FALSE,
                    entity |-> IF active[Pid(x)] = Nothing THEN <<"pid", Pid(x)>>
                               ELSE active[Pid(x)]]
    /\ queue' = Tail(queue)
    /\ UNCHANGED <<world, etw, snapshot, active, retained, history>>

\* ... which is no longer active ...
ForgetsLate ==
    /\ stopping' = [stopping EXCEPT !.forgotten = TRUE]
    /\ late' = IF \E y \in DOMAIN procs : y > stopping.of /\ Pid(y) = Pid(stopping.of)
               THEN late \cup {stopping.of} ELSE late
ExitForgets_OnlyIfTraced ==
    /\ stopping # Nothing /\ ~stopping.forgotten
    /\ active' = IF stopping.entity[1] = "trace"
                 THEN [active EXCEPT ![Pid(stopping.of)] = Nothing] ELSE active
    /\ ForgetsLate
    /\ UNCHANGED <<world, etw, queue, snapshot, retained, known, ended>>
ExitForgets ==
    /\ stopping # Nothing /\ ~stopping.forgotten
    /\ active' = [active EXCEPT ![Pid(stopping.of)] = Nothing]
    /\ ForgetsLate
    /\ UNCHANGED <<world, etw, queue, snapshot, retained, known, ended>>

\* ... but retained.
ExitRetains ==
    /\ stopping # Nothing /\ stopping.forgotten
    /\ LET new == Len(ended) + 1
           exit == [pid |-> Pid(stopping.of), entity |-> stopping.entity, at |-> now]
       IN retained' \in Purged([i \in DOMAIN retained \cup {new} |->
                                  IF i = new THEN exit ELSE retained[i]])
    /\ ended' = Append(ended, [of |-> stopping.of, at |-> now])
    /\ stopping' = Nothing
    /\ UNCHANGED <<world, etw, queue, snapshot, active, known, late>>

\* The events that ObserveRow, ObserveStart and ExitRetains would put out now.
Events ==
    UNION {IF snapshot.rows = <<>> THEN {}
             ELSE {Started(Head(snapshot.rows), "snapshot", snapshot.all)},
           IF HeadIs("start") THEN {Started(Head(queue).of, "trace", {})} ELSE {},
           IF stopping # Nothing /\ stopping.forgotten
             THEN {[kind |-> "stop", of |-> stopping.of, entity |-> stopping.entity,
                    parent |-> Nothing]}
             ELSE {}}

-----------------------------------------------------------------------------
\* Nothing but equality tells process ids apart: any will do for the first.
Candidates == IF procs = <<>> THEN {CHOOSE p \in Pids : TRUE} ELSE Pids

TrackerNext ==
    \/ \E p \in Candidates, q \in IF running = {} THEN {0} ELSE running : Spawn(p, q)
    \/ \E x \in running : Exit(x)
    \/ TimePasses
    \/ StartETW
    \/ StopETW
    \/ TakeSnapshot
    \/ ObserveRow
    \/ ObserveStart
    \/ ExitLooksUp
    \/ ExitForgets
    \/ ExitRetains

TrackerSpec == TrackerInit /\ [][TrackerNext]_trackerVars

-----------------------------------------------------------------------------
Reused(p) == Cardinality({x \in DOMAIN procs : Pid(x) = p}) > 1
Unseen(x) == x \notin known \ late   \* while it ran
Unended(x) == \A i \in DOMAIN ended : ended[i].of # x

\* A recorded exit is too old to be a parent, or one with as recent a time took
\* its place.
Gone(x) == \E i \in DOMAIN ended :
    /\ ended[i].of = x
    /\ \/ now - ended[i].at > Retention
       \/ Cardinality({j \in DOMAIN ended : ended[j].at >= ended[i].at}) > MaxExited

\* The stop of x is between the active and the retained.
Moving(x) == stopping # Nothing /\ stopping.of = x /\ stopping.forgotten

\* Where no process id is used twice, the tracker is exact, whatever is lost and
\* however snapshots and traces interleave.  The stop of a process it knew has an
\* identity of that process, and the one its start had unless a snapshot came
\* between (docs/WINDOWS_ETW_PROCESS_LAB.md:29 makes no such exception).  A parent
\* that is named is the true one; one that is not named was never observed, has
\* been gone too long, or is this moment being moved from the active to the exits.
ExactWithoutReuse ==
    \A e \in Events :
        LET x == e.of
            q == procs[x].parent
        IN /\ e.kind = "stop" /\ ~Reused(Pid(x)) =>
                \/ e.entity \in {<<"trace", x>>, <<"snapshot", x>>}
                \/ e.entity = <<"pid", Pid(x)>> /\ Unseen(x)
           /\ e.kind = "start" /\ q # 0 /\ ~Reused(Pid(q)) =>
                /\ e.parent \in {<<"trace", q>>, <<"snapshot", q>>, <<"pid", Pid(q)>>, Nothing}
                /\ e.parent = Nothing =>
                     \/ q \notin known /\ Unended(q)
                     \/ Gone(q)
                     \/ Moving(q)

MovingUnder(p) == \E x \in DOMAIN procs : Pid(x) = p /\ Moving(x)

\* What was observed of an earlier process with the id of x came late.
Overtaken(x) == \E y \in late : y < x /\ Pid(y) = Pid(x)

\* With a process id used twice, an event may name the wrong process, but only so:
\* a later process, if a snapshot had it before the earlier one's stop was
\* observed, or, as a parent, once the true parent has exited; an earlier process,
\* if what was observed of it came late, or nothing was observed of the later one
\* while it ran -- and for a stop, no stop of the earlier one either --, or, as a
\* parent, while an exit under that process id is being moved.
ConfusionHasCause ==
    \A e \in Events :
        LET x == e.of
            q == procs[x].parent
        IN /\ e.kind = "stop" /\ e.entity[1] # "pid" =>
                LET y == e.entity[2] IN
                \/ y = x
                \/ y > x /\ e.entity[1] = "snapshot"
                \/ y < x /\ (Overtaken(x) \/ (Unseen(x) /\ Unended(y)))
           /\ e.kind = "start" /\ e.parent # Nothing /\ e.parent[1] # "pid" =>
                LET y == e.parent[2] IN
                \/ y = q
                \/ y > q /\ q \notin running
                \/ y < q /\ (Overtaken(q) \/ Unseen(q) \/ MovingUnder(Pid(q)))
=============================================================================
