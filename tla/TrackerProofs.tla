---------------------------- MODULE TrackerProofs ----------------------------
(***************************************************************************)
(* Proofs about the process tracker: where no process id is used twice it  *)
(* is exact, and where one is, an event names the wrong process only for   *)
(* one of the reasons that ConfusionHasCause gives.  What it has to know   *)
(* for that is TrackerInv: in what order the records of one process id are *)
(* observed, what each map holds under it, and what a stop that is half    *)
(* observed has found.                                                     *)
(***************************************************************************)
EXTENDS Telemetry, IngestProofs, FiniteSetTheorems, WellFoundedInduction, TLAPS

(* The inductive invariant, in parts *)

Process == [pid : Pids, parent : Nat]
Record  == [kind : {"start", "stop"}, of : Nat]
Stop    == [of : Nat, at : Nat]
Exited  == [pid : Pids, entity : Entity, at : Nat]

\* e is an identity of process y, or of some process with id p.
Is(e, y)    == e \in {<<"snapshot", y>>, <<"trace", y>>}
Named(e, p) == \E y \in DOMAIN procs : Is(e, y) /\ Pid(y) = p

\* The stop of x is being observed, or has taken its process id from the
\* active.
Stops(x)   == stopping # Nothing /\ stopping.of = x
Stopped(x) == Moving(x) \/ ~Unended(x)

\* A parent is earlier, and a process id is one running process's.
WorldOK ==
    /\ procs \in Seq(Process) /\ now \in Nat
    /\ \A x \in DOMAIN procs : procs[x].parent < x
    /\ running \subseteq DOMAIN procs
    /\ \A x, y \in DOMAIN procs : Pid(x) = Pid(y) /\ x < y => x \notin running

QueueTypes ==
    /\ queue \in Seq(Record)
    /\ \A i \in DOMAIN queue : queue[i].of \in DOMAIN procs
    /\ stopping # Nothing => stopping \in Stopping /\ stopping.of \in DOMAIN procs

\* The rows of a snapshot are of processes that ran together.
SnapshotOK ==
    /\ snapshot \in [rows : Seq(Nat), all : SUBSET DOMAIN procs]
    /\ \A i \in DOMAIN snapshot.rows : snapshot.rows[i] \in snapshot.all
    /\ \A y, z \in snapshot.all : \A q \in DOMAIN procs :
          q > y /\ Pid(q) = Pid(y) => q > z

\* An identity under a process id is of a process with that id.
MapTypes ==
    /\ active \in [Pids -> Entity \cup {Nothing}]
    /\ \A p \in Pids : active[p] # Nothing => Named(active[p], p)
    /\ known \subseteq DOMAIN procs /\ late \subseteq DOMAIN procs
    /\ stopping # Nothing =>
          \/ stopping.entity = <<"pid", Pid(stopping.of)>>
          \/ Named(stopping.entity, Pid(stopping.of))

\* The stops that are recorded, and which of them are retained: of one process
\* id the last ones, and what is missing of the others has a reason.
Expired(i, log) ==
    \/ now - log[i].at > Retention
    \/ Cardinality({j \in DOMAIN log : log[j].at >= log[i].at}) > MaxExited
LogOK(log) ==
    /\ log \in Seq(Stop)
    /\ \A i \in DOMAIN log : log[i].of \in DOMAIN procs /\ log[i].at <= now
    /\ \A i, j \in DOMAIN log : i < j => log[i].at <= log[j].at
KeptOK(exits, log) ==
    /\ exits \in [DOMAIN exits -> Exited]
    /\ DOMAIN exits \subseteq DOMAIN log
    /\ \A i \in DOMAIN exits :
          LET p == Pid(log[i].of)
          IN /\ exits[i].pid = p /\ exits[i].at = log[i].at
             /\ exits[i].entity = <<"pid", p>> \/ Named(exits[i].entity, p)
    /\ \A i \in DOMAIN log : i \in DOMAIN exits \/ Expired(i, log)
    /\ \A i \in DOMAIN exits, k \in DOMAIN log :
          i < k /\ Pid(log[k].of) = Pid(log[i].of) => k \in DOMAIN exits
ExitsOK == LogOK(ended) /\ KeptOK(retained, ended)

\* A process stops once, when it no longer runs.
StopsOK ==
    /\ \A x \in running : ~Stops(x) /\ Unended(x)
    /\ \A i \in DOMAIN queue : queue[i].kind = "stop" =>
          /\ queue[i].of \notin running
          /\ ~Stops(queue[i].of) /\ Unended(queue[i].of)
    /\ \A i, j \in DOMAIN queue :
          /\ queue[i].kind = "stop" /\ queue[j].kind = "stop"
          /\ queue[i].of = queue[j].of
          => i = j
    /\ stopping # Nothing => Unended(stopping.of)

\* Records are observed in their order.
InOrder ==
    /\ \A i, j \in DOMAIN queue :
          /\ i < j /\ queue[i].kind = "start" /\ queue[j].kind = "stop"
          /\ Pid(queue[i].of) = Pid(queue[j].of)
          => queue[i].of <= queue[j].of
    /\ \A j \in DOMAIN queue, y \in Nat :
          queue[j].kind = "stop" /\ active[Pid(queue[j].of)] = <<"trace", y>>
          => y <= queue[j].of
    /\ \A y \in Nat :
          stopping # Nothing /\ stopping.entity = <<"trace", y>> => y <= stopping.of

\* An earlier process that is active, or one that has stopped, is so by an
\* observation that came late; and a process is no longer active only if it,
\* or a later one, has stopped, or the stop of an earlier one came late.
ActiveOK ==
    /\ \A x \in known \ late, y \in Nat :
          Is(active[Pid(x)], y) /\ y < x => Overtaken(x)
    /\ \A p \in Pids, y \in Nat : Is(active[p], y) /\ Stopped(y) => y \in late
    /\ \A q \in known : active[Pid(q)] = Nothing =>
          \/ Overtaken(q)
          \/ \E z \in DOMAIN procs : z >= q /\ Pid(z) = Pid(q) /\ Stopped(z)

\* So it was when a stop of x looked and found e.
FoundOK(x, e) ==
    /\ \A y \in Nat : Is(e, y) =>
          /\ y < x => Overtaken(x) \/ (Unseen(x) /\ Unended(y))
          /\ \A q \in known \ late :
                Pid(q) = Pid(x) /\ y < q /\ q <= x => Overtaken(q)
    /\ /\ e = <<"pid", Pid(x)>>
       /\ \A y \in DOMAIN procs : Pid(y) = Pid(x) => y = x
       => Unseen(x)
Belated(x) ==
    \A k \in DOMAIN ended :
       Pid(ended[k].of) = Pid(x) /\ ended[k].of > x => x \in late
StoppingOK ==
    stopping # Nothing =>
       /\ FoundOK(stopping.of, stopping.entity)
       /\ stopping.forgotten => Belated(stopping.of)

\* So it was for those that are retained, and a stop recorded after that of a
\* later process with its id was late.
EndedOK ==
    /\ \A k, i \in DOMAIN ended :
          k < i /\ Pid(ended[k].of) = Pid(ended[i].of) /\ ended[k].of > ended[i].of
          => ended[i].of \in late
    /\ \A i \in DOMAIN retained, y \in Nat, q \in known \ late :
          /\ Is(retained[i].entity, y) /\ Pid(q) = Pid(ended[i].of)
          /\ y < q /\ q <= ended[i].of
          => Overtaken(q)

TrackerInv == /\ WorldOK /\ QueueTypes /\ SnapshotOK /\ MapTypes /\ ExitsOK /\ StopsOK
              /\ InOrder /\ ActiveOK /\ StoppingOK /\ EndedOK

-----------------------------------------------------------------------------
(* Maxima, cardinalities *)

\* Where a process id is used once it is one process's.
LEMMA UsedOnce ==
    ASSUME WorldOK, NEW x \in DOMAIN procs, ~Reused(Pid(x)),
           NEW y \in DOMAIN procs, Pid(y) = Pid(x)
    PROVE  y = x
<1> DEFINE S == {z \in DOMAIN procs : Pid(z) = Pid(x)}
<1>1. IsFiniteSet(1..Len(procs)) /\ Len(procs) \in Nat /\ DOMAIN procs = 1..Len(procs)
  BY FS_Interval
<1>2. IsFiniteSet(S)
  BY <1>1, FS_Subset
<1>3. SUFFICES ASSUME y # x PROVE FALSE
  OBVIOUS
<1>4. {x, y} \subseteq S
  OBVIOUS
<1>5. IsFiniteSet({x}) /\ Cardinality({x}) = 1
  BY FS_Singleton
<1>6. IsFiniteSet({x} \cup {y}) /\ Cardinality({x} \cup {y}) = 2
  BY <1>3, <1>5, FS_AddElement
<1>7. {x, y} = {x} \cup {y}
  OBVIOUS
<1>8. Cardinality({x, y}) <= Cardinality(S) /\ Cardinality(S) \in Nat
  BY <1>2, <1>4, FS_Subset, FS_CardinalityType
<1>9. Cardinality(S) > 1
  BY <1>6, <1>7, <1>8
<1>10. QED
  BY <1>9 DEF Reused

\* A set of numbers of entries of a log has a largest.
LEMMA LargestIsOne ==
    ASSUME NEW n \in Nat, NEW S \in SUBSET (1..n), S # {}
    PROVE  Max(S) \in S /\ \A i \in S : i <= Max(S)
<1> DEFINE Rest == {n - i : i \in S}
<1>0. \A i \in S : i \in Nat /\ n - i \in Nat
  OBVIOUS
<1>1. Rest \subseteq Nat /\ Rest # {}
  BY <1>0
<1>2. \A i \in S : n - i \in Rest
  OBVIOUS
<1>3. \A m \in Rest : \E i \in S : m = n - i
  OBVIOUS
<1> HIDE DEF Rest
<1>4. PICK m \in Rest : \A k \in Rest : <<k, m>> \notin OpToRel(<, Nat)
  BY <1>1, NatLessThanWellFounded, WFMin
<1>5. \A k \in Rest : ~(k < m)
  BY <1>1, <1>4, Zenon DEF OpToRel
<1>6. PICK i \in S : m = n - i
  BY <1>3, <1>4
<1>7. \A j \in S : i >= j
  BY <1>0, <1>2, <1>5, <1>6
<1>8. QED
  BY <1>6, <1>7 DEF Max

\* What a purge leaves is as it was; it takes the earlier of a process id
\* first, and what it takes has expired.
LEMMA PurgeShape ==
    ASSUME now \in Nat, NEW log, LogOK(log), NEW exits, KeptOK(exits, log),
           NEW kept \in Purged(exits)
    PROVE  /\ DOMAIN kept \subseteq DOMAIN exits
           /\ kept \in [DOMAIN kept -> Exited]
           /\ \A i \in DOMAIN kept : kept[i] = exits[i]
           /\ \A i \in DOMAIN exits \ DOMAIN kept : Expired(i, log)
           /\ \A i \in DOMAIN kept, k \in DOMAIN exits :
                 i < k /\ exits[k].pid = exits[i].pid => k \in DOMAIN kept
<1> DEFINE fresh == Fresh(exits)
           oldest == {i \in fresh : \A j \in fresh :
                         /\ exits[i].at <= exits[j].at
                         /\ exits[i].pid = exits[j].pid => i <= j}
<1>1. IsFiniteSet(DOMAIN log) /\ DOMAIN log \subseteq Nat
  <2>1. DOMAIN log = 1..Len(log) /\ Len(log) \in Nat
    BY DEF LogOK
  <2>2. QED
    BY <2>1, FS_Interval
<1>2. \A i \in DOMAIN log : log[i].at \in Nat /\ log[i].of \in DOMAIN procs
  <2>1. \A i \in DOMAIN log : log[i] \in Stop /\ log[i].of \in DOMAIN procs
    BY DEF LogOK
  <2>2. QED
    BY <2>1 DEF Stop
<1>3. /\ DOMAIN exits \subseteq DOMAIN log /\ exits \in [DOMAIN exits -> Exited]
      /\ \A i \in DOMAIN exits :
               exits[i].at = log[i].at /\ exits[i].pid = Pid(log[i].of)
  BY DEF KeptOK
<1>4. /\ fresh \subseteq DOMAIN exits
      /\ \A i \in DOMAIN exits : i \in fresh <=> now - exits[i].at <= Retention
  BY DEF Fresh
<1>5. \A i, j \in DOMAIN exits : i < j => exits[i].at <= exits[j].at
  BY <1>3 DEF LogOK
<1> HIDE DEF fresh
<1>6. \A i \in DOMAIN exits \ fresh : Expired(i, log)
  BY <1>2, <1>3, <1>4, TrackerAssumption DEF Expired
<1>7. \A i \in fresh, k \in DOMAIN exits : i < k => k \in fresh
  BY <1>1, <1>2, <1>3, <1>4, <1>5, TrackerAssumption
<1>8. CASE Cardinality(fresh) <= MaxExited
  <2>1. kept = Restrict(exits, fresh)
    BY <1>8 DEF Purged, fresh
  <2>2. DOMAIN kept = fresh /\ \A i \in fresh : kept[i] = exits[i]
    BY <2>1 DEF Restrict
  <2>3. kept \in [fresh -> Exited]
    BY <1>3, <1>4, <2>1 DEF Restrict
  <2>4. QED
    BY <1>4, <1>6, <1>7, <2>2, <2>3
<1>9. CASE ~(Cardinality(fresh) <= MaxExited)
  <2>1. PICK o \in oldest : kept = Restrict(exits, fresh \ {o})
    BY <1>9 DEF Purged, fresh
  <2>2. /\ DOMAIN kept = fresh \ {o} /\ \A i \in fresh \ {o} : kept[i] = exits[i]
        /\ o \in fresh
        /\ \A j \in fresh : /\ exits[o].at <= exits[j].at
                            /\ exits[o].pid = exits[j].pid => o <= j
    BY <2>1 DEF Restrict
  <2>3. kept \in [fresh \ {o} -> Exited]
    BY <1>3, <1>4, <2>1 DEF Restrict
  <2>4. Expired(o, log)
    <3> DEFINE S == {j \in DOMAIN log : log[j].at >= log[o].at}
    <3>1. IsFiniteSet(S)
      BY <1>1, FS_Subset
    <3>2. fresh \subseteq S
      BY <1>2, <1>3, <1>4, <2>2
    <3>3. /\ Cardinality(fresh) <= Cardinality(S)
          /\ Cardinality(fresh) \in Nat /\ Cardinality(S) \in Nat
      BY <3>1, <3>2, FS_Subset, FS_CardinalityType
    <3>4. Cardinality(S) > MaxExited
      BY <1>9, <3>3, TrackerAssumption
    <3>5. QED
      BY <3>4 DEF Expired
  <2>5. \A i \in DOMAIN kept, k \in DOMAIN exits :
            i < k /\ exits[k].pid = exits[i].pid => k \in DOMAIN kept
    BY <1>1, <1>3, <1>4, <1>7, <2>2
  <2>6. QED
    BY <1>4, <1>6, <2>2, <2>3, <2>4, <2>5
<1>10. QED
  BY <1>8, <1>9

\* So what is kept stays in order.
LEMMA PurgeKeeps ==
    ASSUME now \in Nat, NEW log, LogOK(log), NEW exits, KeptOK(exits, log),
           NEW kept \in Purged(exits)
    PROVE  KeptOK(kept, log)
<1>1. /\ DOMAIN kept \subseteq DOMAIN exits
      /\ kept \in [DOMAIN kept -> Exited]
      /\ \A i \in DOMAIN kept : kept[i] = exits[i]
      /\ \A i \in DOMAIN exits \ DOMAIN kept : Expired(i, log)
      /\ \A i \in DOMAIN kept, k \in DOMAIN exits :
            i < k /\ exits[k].pid = exits[i].pid => k \in DOMAIN kept
  BY PurgeShape
<1>2. DOMAIN kept \subseteq DOMAIN log
  BY <1>1 DEF KeptOK
<1>3. ASSUME NEW i \in DOMAIN kept
      PROVE  LET p == Pid(log[i].of)
             IN /\ kept[i].pid = p /\ kept[i].at = log[i].at
                /\ kept[i].entity = <<"pid", p>> \/ Named(kept[i].entity, p)
  BY <1>1 DEF KeptOK
<1>4. \A i \in DOMAIN log : i \in DOMAIN kept \/ Expired(i, log)
  BY <1>1 DEF KeptOK
<1>5. ASSUME NEW i \in DOMAIN kept, NEW k \in DOMAIN log,
             i < k, Pid(log[k].of) = Pid(log[i].of)
      PROVE  k \in DOMAIN kept
  BY <1>1, <1>5 DEF KeptOK
<1>6. QED
  BY <1>1, <1>2, <1>3, <1>4, <1>5 DEF KeptOK

-----------------------------------------------------------------------------
(* What the steps do *)

\* A process has an id, and an earlier parent or none.
LEMMA ProcessTyped ==
    ASSUME WorldOK, NEW x \in DOMAIN procs
    PROVE  /\ x \in Nat /\ Pid(x) \in Pids
           /\ procs[x].parent # 0 => procs[x].parent \in DOMAIN procs
<1>1. procs[x] \in Process /\ DOMAIN procs = 1..Len(procs) /\ Len(procs) \in Nat
  BY DEF WorldOK
<1>2. procs[x].pid \in Pids /\ procs[x].parent \in Nat
  BY <1>1 DEF Process
<1>3. QED
  BY <1>1, <1>2 DEF WorldOK, Pid

\* A process with id p starts, as number n.
SpawnsAs(n, p) ==
    /\ procs' \in Seq(Process) /\ DOMAIN procs' = DOMAIN procs \cup {n}
    /\ n \in Nat /\ n \notin DOMAIN procs
    /\ \A x \in DOMAIN procs :
          x \in Nat /\ x < n /\ procs'[x] = procs[x] /\ Pid(x)' = Pid(x)
    /\ Pid(n)' = p /\ procs'[n].parent < n
    /\ \A x \in running : Pid(x) # p
    /\ running' = running \cup {n}
    /\ Trace("start", n)
    /\ UNCHANGED <<now, etw, stopping, snapshot, active, retained, known, late, ended>>

\* A process that starts is the last one, and changes no other.
LEMMA SpawnShape ==
    ASSUME WorldOK, NEW p \in Candidates,
           NEW q \in IF running = {} THEN {0} ELSE running, Spawn(p, q),
           NEW n, n = Len(procs) + 1
    PROVE  SpawnsAs(n, p)
<1> DEFINE new == [pid |-> p, parent |-> q]
<1>1. DOMAIN procs = 1..Len(procs) /\ Len(procs) \in Nat
  BY DEF WorldOK
<1>2. q \in Nat /\ q < n
  BY <1>1 DEF WorldOK
<1>3. p \in Pids
  BY TrackerAssumption DEF Candidates
<1>4. new \in Process /\ new.pid = p /\ new.parent = q
  BY <1>2, <1>3 DEF Process
<1>5. procs' = Append(procs, new)
  BY DEF Spawn
<1> HIDE DEF new
<1>6. /\ procs' \in Seq(Process) /\ DOMAIN procs' = DOMAIN procs \cup {n}
      /\ n \notin DOMAIN procs /\ procs'[n] = new
      /\ \A x \in DOMAIN procs : x \in Nat /\ x < n /\ procs'[x] = procs[x]
  BY <1>1, <1>4, <1>5 DEF WorldOK
<1>7. \A x \in DOMAIN procs : Pid(x)' = Pid(x)
  BY <1>6 DEF Pid
<1>8. Pid(n)' = p
  BY <1>4, <1>6 DEF Pid
<1>9. QED
  BY <1>1, <1>2, <1>4, <1>6, <1>7, <1>8 DEF Spawn, Trace, history, SpawnsAs

\* A record is queued behind the others, or dropped ...
LEMMA TraceShape ==
    ASSUME QueueTypes, NEW kind \in {"start", "stop"}, NEW x \in Nat, Trace(kind, x)
    PROVE  /\ queue' \in Seq(Record)
           /\ \A i \in DOMAIN queue : i \in Nat /\ i < Len(queue) + 1
           /\ \A i \in DOMAIN queue' :
                 \/ i \in DOMAIN queue /\ queue'[i] = queue[i]
                 \/ i = Len(queue) + 1 /\ queue'[i].kind = kind /\ queue'[i].of = x
<1> DEFINE new == [kind |-> kind, of |-> x]
<1>1. new \in Record /\ new.kind = kind /\ new.of = x
  BY DEF Record
<1>2. queue' = queue \/ queue' = Append(queue, new)
  BY DEF Trace
<1> HIDE DEF new
<1>3. QED
  BY <1>1, <1>2 DEF QueueTypes

\* The first record leaves the queue.
TakesRecord ==
    /\ queue' \in Seq(Record)
    /\ 1 \in DOMAIN queue /\ Head(queue) = queue[1] /\ queue[1] \in Record
    /\ \A i \in DOMAIN queue' :
          /\ i \in Nat /\ 1 < i + 1 /\ i + 1 \in DOMAIN queue
          /\ queue'[i] = queue[i + 1]

\* ... and is taken when it is the first.
LEMMA TailShape ==
    ASSUME QueueTypes, queue # <<>>, queue' = Tail(queue)
    PROVE  TakesRecord
<1>1. queue \in Seq(Record)
  BY DEF QueueTypes
<1>2. QED
  BY <1>1 DEF TakesRecord

\* x is active under its process id, and late if it has ended.
Remembers(x, source) ==
    /\ <<source, x>> \in Entity /\ <<source, x>> # Nothing
    /\ active' \in [Pids -> Entity \cup {Nothing}]
    /\ active'[Pid(x)] = <<source, x>>
    /\ \A p \in Pids : p # Pid(x) => active'[p] = active[p]
    /\ known' = known \cup {x}
    /\ late \subseteq late' /\ late' \subseteq late \cup {x}
    /\ x \notin running => x \in late'
    /\ late' \subseteq DOMAIN procs

\* A process that is remembered is active under its id, and late if it has
\* ended.
LEMMA RememberShape ==
    ASSUME WorldOK, MapTypes, NEW x \in DOMAIN procs,
           NEW source \in {"snapshot", "trace"},
           Remember(x, source)
    PROVE  Remembers(x, source)
<1>1. x \in Nat /\ Pid(x) \in Pids
  BY ProcessTyped
<1>2. <<source, x>> \in Entity /\ <<source, x>> # Nothing
  BY <1>1, NothingAssumption DEF Entity
<1>3. active' = [active EXCEPT ![Pid(x)] = <<source, x>>] /\ known' = known \cup {x}
  BY DEF Remember
<1>4. late' = IF x \in running THEN late ELSE late \cup {x}
  BY DEF Remember
<1>5. active \in [Pids -> Entity \cup {Nothing}] /\ late \subseteq DOMAIN procs
  BY DEF MapTypes
<1>6. QED
  BY <1>1, <1>2, <1>3, <1>4, <1>5 DEF Remembers

\* The row of x is observed.
ObservesRow(x) ==
    /\ x \in snapshot.all /\ Remember(x, "snapshot")
    /\ snapshot' \in [rows : Seq(Nat), all : SUBSET DOMAIN procs]
    /\ \A i \in DOMAIN snapshot'.rows : snapshot'.rows[i] \in snapshot'.all
    /\ snapshot'.all \subseteq snapshot.all
    /\ DOMAIN retained' \subseteq DOMAIN retained
    /\ \A i \in DOMAIN retained' : retained'[i] = retained[i]
    /\ KeptOK(retained', ended)
    /\ UNCHANGED <<world, etw, queue, stopping, ended>>

\* The row that is observed, and what is left of the snapshot.
LEMMA RowShape ==
    ASSUME WorldOK, SnapshotOK, MapTypes, ExitsOK, ObserveRow
    PROVE  \E x \in DOMAIN procs : ObservesRow(x)
<1> DEFINE x == Head(snapshot.rows)
           rest == Tail(snapshot.rows)
           left == IF rest = <<>> THEN Idle ELSE [snapshot EXCEPT !.rows = rest]
<1>1. /\ snapshot.rows \in Seq(Nat) /\ snapshot.all \in SUBSET DOMAIN procs
      /\ snapshot = [rows |-> snapshot.rows, all |-> snapshot.all]
      /\ \A i \in DOMAIN snapshot.rows : snapshot.rows[i] \in snapshot.all
  BY DEF SnapshotOK
<1>2. /\ rest \in Seq(Nat) /\ x \in snapshot.all
      /\ \A i \in DOMAIN rest : rest[i] \in snapshot.all
  BY <1>1 DEF ObserveRow
<1>3. /\ Remember(x, "snapshot") /\ snapshot' = left
      /\ retained' \in IF rest = <<>> THEN Purged(retained) ELSE {retained}
      /\ UNCHANGED <<world, etw, queue, stopping, ended>>
  BY DEF ObserveRow
<1> HIDE DEF x, rest
<1>4. /\ left \in [rows : Seq(Nat), all : SUBSET DOMAIN procs]
      /\ \A i \in DOMAIN left.rows : left.rows[i] \in left.all
      /\ left.all \subseteq snapshot.all
  BY <1>1, <1>2 DEF Idle
<1> HIDE DEF left
<1>5. now \in Nat /\ LogOK(ended) /\ KeptOK(retained, ended)
  BY DEF WorldOK, ExitsOK
<1>6. /\ DOMAIN retained' \subseteq DOMAIN retained
      /\ \A i \in DOMAIN retained' : retained'[i] = retained[i]
      /\ KeptOK(retained', ended)
  <2>1. CASE rest = <<>>
    <3>1. retained' \in Purged(retained)
      BY <1>3, <2>1
    <3>2. QED
      BY <1>5, <3>1, PurgeShape, PurgeKeeps
  <2>2. CASE rest # <<>>
    BY <1>3, <1>5, <2>2
  <2>3. QED
    BY <2>1, <2>2
<1>7. x \in DOMAIN procs
  BY <1>1, <1>2
<1>8. QED
  BY <1>2, <1>3, <1>4, <1>6, <1>7 DEF ObservesRow

\* The start of x is observed.
ObservesStart(x) ==
    /\ queue # <<>> /\ queue' = Tail(queue)
    /\ queue[1].kind = "start" /\ queue[1].of = x
    /\ Remember(x, "trace")
    /\ DOMAIN retained' \subseteq DOMAIN retained
    /\ \A i \in DOMAIN retained' : retained'[i] = retained[i]
    /\ KeptOK(retained', ended)
    /\ UNCHANGED <<world, etw, stopping, snapshot, ended>>

\* The start that is observed.
LEMMA StartShape ==
    ASSUME WorldOK, QueueTypes, ExitsOK, ObserveStart
    PROVE  \E x \in DOMAIN procs : ObservesStart(x)
<1>1. /\ queue # <<>> /\ queue' = Tail(queue) /\ Head(queue).kind = "start"
      /\ Remember(Head(queue).of, "trace") /\ retained' \in Purged(retained)
      /\ UNCHANGED <<world, etw, stopping, snapshot, ended>>
  BY DEF ObserveStart, HeadIs
<1>2. 1 \in DOMAIN queue /\ Head(queue) = queue[1]
  BY <1>1, TailShape DEF TakesRecord
<1>3. queue[1].of \in DOMAIN procs
  BY <1>2 DEF QueueTypes
<1>4. now \in Nat /\ LogOK(ended) /\ KeptOK(retained, ended)
  BY DEF WorldOK, ExitsOK
<1>5. /\ DOMAIN retained' \subseteq DOMAIN retained
      /\ \A i \in DOMAIN retained' : retained'[i] = retained[i]
      /\ KeptOK(retained', ended)
  BY <1>1, <1>4, PurgeShape, PurgeKeeps
<1>6. QED
  BY <1>1, <1>2, <1>3, <1>5 DEF ObservesStart

\* The stop of x looks up its identity ...
LooksUp(x) ==
    /\ queue # <<>> /\ queue' = Tail(queue)
    /\ queue[1].kind = "stop" /\ queue[1].of = x
    /\ stopping = Nothing
    /\ stopping' # Nothing /\ stopping' \in Stopping /\ stopping'.of = x
    /\ ~stopping'.forgotten
    /\ \/ active[Pid(x)] = Nothing /\ stopping'.entity = <<"pid", Pid(x)>>
       \/ active[Pid(x)] # Nothing /\ stopping'.entity = active[Pid(x)]
    /\ UNCHANGED <<world, etw, snapshot, active, retained, history>>

\* The stop that looks up its identity ...
LEMMA LooksUpShape ==
    ASSUME WorldOK, QueueTypes, MapTypes, ExitLooksUp
    PROVE  \E x \in DOMAIN procs : LooksUp(x)
<1> DEFINE x == Head(queue).of
           e == IF active[Pid(x)] = Nothing THEN <<"pid", Pid(x)>> ELSE active[Pid(x)]
           s == [of |-> x, forgotten |-> FALSE, entity |-> e]
<1>1. /\ queue # <<>> /\ queue' = Tail(queue) /\ Head(queue).kind = "stop"
      /\ stopping = Nothing /\ stopping' = s
      /\ UNCHANGED <<world, etw, snapshot, active, retained, history>>
  BY DEF ExitLooksUp, HeadIs
<1>2. 1 \in DOMAIN queue /\ Head(queue) = queue[1]
  BY <1>1, TailShape DEF TakesRecord
<1>3. x \in DOMAIN procs
  BY <1>2 DEF QueueTypes
<1>4. x \in Nat /\ Pid(x) \in Pids
  BY <1>3, ProcessTyped
<1> HIDE DEF x
<1>5. e \in Entity
  BY <1>4 DEF MapTypes, Entity
<1> HIDE DEF e
<1>6. s \in Stopping /\ s.of = x /\ ~s.forgotten /\ s.entity = e
  BY <1>4, <1>5 DEF Stopping
<1>7. s # Nothing
  BY <1>6, NothingAssumption
<1> HIDE DEF s
<1>8. \/ active[Pid(x)] = Nothing /\ e = <<"pid", Pid(x)>>
      \/ active[Pid(x)] # Nothing /\ e = active[Pid(x)]
  BY DEF e
<1>9. queue[1].kind = "stop" /\ queue[1].of = x
  BY <1>1, <1>2 DEF x
<1>10. QED
  BY <1>1, <1>3, <1>6, <1>7, <1>8, <1>9 DEF LooksUp

\* ... has it forgotten ...
Forgets(x) ==
    /\ stopping # Nothing /\ stopping.of = x /\ ~stopping.forgotten
    /\ stopping' # Nothing /\ stopping' \in Stopping /\ stopping'.of = x
    /\ stopping'.entity = stopping.entity /\ stopping'.forgotten
    /\ active' \in [Pids -> Entity \cup {Nothing}]
    /\ active'[Pid(x)] = Nothing
    /\ \A p \in Pids : p # Pid(x) => active'[p] = active[p]
    /\ late \subseteq late' /\ late' \subseteq late \cup {x}
    /\ late' \subseteq DOMAIN procs
    /\ (\E y \in DOMAIN procs : y > x /\ Pid(y) = Pid(x)) => x \in late'
    /\ UNCHANGED <<world, etw, queue, snapshot, retained, known, ended>>

\* ... has it forgotten ...
LEMMA ForgetsShape ==
    ASSUME WorldOK, QueueTypes, MapTypes, ExitForgets
    PROVE  \E x \in DOMAIN procs : Forgets(x)
<1> DEFINE x == stopping.of
           s == [stopping EXCEPT !.forgotten = TRUE]
<1>1. /\ stopping # Nothing /\ ~stopping.forgotten
      /\ active' = [active EXCEPT ![Pid(x)] = Nothing]
      /\ stopping' = s
      /\ late' = IF \E y \in DOMAIN procs : y > x /\ Pid(y) = Pid(x)
                 THEN late \cup {x} ELSE late
      /\ UNCHANGED <<world, etw, queue, snapshot, retained, known, ended>>
  BY DEF ExitForgets, ForgetsLate
<1>2. stopping \in Stopping /\ x \in DOMAIN procs
  BY <1>1 DEF QueueTypes
<1>3. s \in Stopping /\ s.of = x /\ s.entity = stopping.entity /\ s.forgotten
  BY <1>2 DEF Stopping
<1>4. s # Nothing
  BY <1>3, NothingAssumption
<1>5. active \in [Pids -> Entity \cup {Nothing}] /\ late \subseteq DOMAIN procs
  BY DEF MapTypes
<1> HIDE DEF s, x
<1>6. Pid(x) \in Pids
  BY <1>2, ProcessTyped
<1>7. stopping.of = x
  BY DEF x
<1>8. QED
  BY <1>1, <1>2, <1>3, <1>4, <1>5, <1>6, <1>7 DEF Forgets

\* ... and retained, as entry n.
RetainsAs(x, n) ==
    /\ stopping # Nothing /\ stopping.of = x /\ stopping.forgotten
    /\ stopping' = Nothing
    /\ DOMAIN ended' = DOMAIN ended \cup {n} /\ n \notin DOMAIN ended
    /\ \A i \in DOMAIN ended : i < n /\ ended'[i] = ended[i]
    /\ ended'[n].of = x /\ n \in Nat /\ DOMAIN ended \subseteq Nat
    /\ LogOK(ended') /\ KeptOK(retained', ended')
    /\ \A i \in DOMAIN retained' :
          \/ i \in DOMAIN retained /\ retained'[i] = retained[i]
          \/ i = n /\ retained'[i].entity = stopping.entity
    /\ UNCHANGED <<world, etw, queue, snapshot, active, known, late>>

\* That is what ExitRetains does.
LEMMA RetainsShape ==
    ASSUME WorldOK, QueueTypes, MapTypes, ExitsOK, ExitRetains
    PROVE  \E x \in DOMAIN procs, n \in Nat : RetainsAs(x, n)
<1> DEFINE x == stopping.of
           n == Len(ended) + 1
           exit == [pid |-> Pid(x), entity |-> stopping.entity, at |-> now]
           stop == [of |-> x, at |-> now]
           exits == [i \in DOMAIN retained \cup {n} |-> IF i = n THEN exit ELSE retained[i]]
           log == Append(ended, stop)
<1>1. /\ stopping # Nothing /\ stopping.forgotten /\ stopping' = Nothing
      /\ retained' \in Purged(exits) /\ ended' = log
      /\ UNCHANGED <<world, etw, queue, snapshot, active, known, late>>
  BY DEF ExitRetains
<1>2. stopping \in Stopping /\ x \in DOMAIN procs
  BY <1>1 DEF QueueTypes
<1>3. x \in Nat /\ Pid(x) \in Pids /\ now \in Nat /\ stopping.entity \in Entity
  BY <1>2, ProcessTyped DEF Stopping, WorldOK
<1>4. /\ exit \in Exited /\ exit.pid = Pid(x) /\ exit.entity = stopping.entity
      /\ exit.at = now
  BY <1>3 DEF Exited
<1>5. stop \in Stop /\ stop.of = x /\ stop.at = now
  BY <1>3 DEF Stop
<1>6. stopping.entity = <<"pid", Pid(x)>> \/ Named(stopping.entity, Pid(x))
  BY <1>1 DEF MapTypes
<1>7. stopping.of = x
  OBVIOUS
<1>0. n = Len(ended) + 1
  OBVIOUS
<1> HIDE DEF exit, stop, x, n
<1>8. /\ ended \in Seq(Stop) /\ \A i \in DOMAIN ended : ended[i] \in Stop
      /\ \A i \in DOMAIN ended : ended[i].of \in DOMAIN procs /\ ended[i].at <= now
      /\ \A i, j \in DOMAIN ended : i < j => ended[i].at <= ended[j].at
  BY DEF ExitsOK, LogOK
<1>9. \A r \in Stop : r.at \in Nat
  BY DEF Stop
<1>seq. log \in Seq(Stop)
  BY <1>5, <1>8
<1>10. /\ log \in Seq(Stop) /\ DOMAIN log = DOMAIN ended \cup {n} /\ n \notin DOMAIN ended
       /\ n \in Nat /\ DOMAIN ended \subseteq Nat
       /\ \A i \in DOMAIN ended : i < n /\ log[i] = ended[i]
       /\ log[n] = stop
  BY <1>0, <1>5, <1>8
<1> HIDE DEF log
<1>11. LogOK(log)
  <2>1. \A i \in DOMAIN log :
              log[i].of \in DOMAIN procs /\ log[i].at <= now /\ log[i].at \in Nat
    BY <1>2, <1>3, <1>5, <1>8, <1>9, <1>10
  <2>2. ASSUME NEW i \in DOMAIN log, NEW j \in DOMAIN log, i < j
        PROVE  log[i].at <= log[j].at
    <3>1. i \in DOMAIN ended
      BY <1>10, <2>2
    <3>2. QED
      BY <1>5, <1>8, <1>10, <2>2, <3>1
  <2>3. QED
    BY <1>10, <2>1, <2>2 DEF LogOK
<1>12. /\ retained \in [DOMAIN retained -> Exited]
       /\ DOMAIN retained \subseteq DOMAIN ended
       /\ \A i \in DOMAIN retained :
             LET p == Pid(ended[i].of)
             IN /\ retained[i].pid = p /\ retained[i].at = ended[i].at
                /\ retained[i].entity = <<"pid", p>> \/ Named(retained[i].entity, p)
       /\ \A i \in DOMAIN ended : i \in DOMAIN retained \/ Expired(i, ended)
       /\ \A i \in DOMAIN retained, k \in DOMAIN ended :
             i < k /\ Pid(ended[k].of) = Pid(ended[i].of) => k \in DOMAIN retained
  BY DEF ExitsOK, KeptOK
<1>13. /\ exits \in [DOMAIN retained \cup {n} -> Exited]
       /\ DOMAIN exits = DOMAIN retained \cup {n}
       /\ \A i \in DOMAIN retained : i # n /\ exits[i] = retained[i]
       /\ exits[n] = exit
  BY <1>4, <1>10, <1>12
<1> HIDE DEF exits
<1>14. \A i \in DOMAIN ended : Expired(i, ended) => Expired(i, log)
  <2> SUFFICES ASSUME NEW i \in DOMAIN ended,
                      Cardinality({j \in DOMAIN ended : ended[j].at >= ended[i].at}) > MaxExited
               PROVE  Cardinality({j \in DOMAIN log : log[j].at >= log[i].at}) > MaxExited
    BY <1>10 DEF Expired
  <2> DEFINE S == {j \in DOMAIN ended : ended[j].at >= ended[i].at}
             T == {j \in DOMAIN log : log[j].at >= log[i].at}
  <2>1. S \subseteq T
    BY <1>10
  <2>2. DOMAIN log = 1..Len(log) /\ Len(log) \in Nat
    BY <1>seq
  <2>3. IsFiniteSet(1..Len(log)) /\ T \subseteq 1..Len(log)
    BY <2>2, FS_Interval
  <2>4. IsFiniteSet(T)
    BY <2>3, FS_Subset
  <2>5. IsFiniteSet(S) /\ Cardinality(S) <= Cardinality(T)
    BY <2>1, <2>4, FS_Subset
  <2>6. Cardinality(S) \in Nat /\ Cardinality(T) \in Nat
    BY <2>4, <2>5, FS_CardinalityType
  <2>7. QED
    BY <2>5, <2>6, TrackerAssumption
<1>15. KeptOK(exits, log)
  <2>1. DOMAIN exits \subseteq DOMAIN log
    BY <1>10, <1>12, <1>13
  <2>2. ASSUME NEW i \in DOMAIN exits
        PROVE  LET p == Pid(log[i].of)
               IN /\ exits[i].pid = p /\ exits[i].at = log[i].at
                  /\ exits[i].entity = <<"pid", p>> \/ Named(exits[i].entity, p)
    BY <1>4, <1>5, <1>6, <1>10, <1>12, <1>13
  <2>3. \A i \in DOMAIN log : i \in DOMAIN exits \/ Expired(i, log)
    BY <1>10, <1>12, <1>13, <1>14
  <2>4. ASSUME NEW i \in DOMAIN exits, NEW k \in DOMAIN log,
               i < k, Pid(log[k].of) = Pid(log[i].of)
        PROVE  k \in DOMAIN exits
    <3>1. k # n => i \in DOMAIN retained
      BY <1>10, <1>13, <2>4
    <3>2. QED
      BY <1>10, <1>12, <1>13, <2>4, <3>1
  <2>5. QED
    BY <1>13, <2>1, <2>2, <2>3, <2>4 DEF KeptOK
<1>16. /\ KeptOK(retained', log) /\ DOMAIN retained' \subseteq DOMAIN exits
       /\ \A i \in DOMAIN retained' : retained'[i] = exits[i]
  BY <1>1, <1>3, <1>11, <1>15, PurgeShape, PurgeKeeps
<1>17. \A i \in DOMAIN retained' :
           \/ i \in DOMAIN retained /\ retained'[i] = retained[i]
           \/ i = n /\ retained'[i].entity = stopping.entity
  BY <1>4, <1>13, <1>16
<1>18. ended'[n].of = x /\ \A i \in DOMAIN ended : i < n /\ ended'[i] = ended[i]
  BY <1>1, <1>5, <1>10
<1>19. RetainsAs(x, n)
  BY <1>1, <1>7, <1>10, <1>11, <1>16, <1>17, <1>18 DEF RetainsAs
<1>20. QED
  BY <1>2, <1>10, <1>19

-----------------------------------------------------------------------------
(* What a step leaves *)

\* No step takes back what there has been, and what was observed in time was
\* so before, or is of a process that runs.
Growth ==
    /\ DOMAIN procs \subseteq DOMAIN procs'
    /\ \A x \in DOMAIN procs : Pid(x)' = Pid(x)
    /\ \A x \in DOMAIN procs : x \in running' => x \in running
    /\ late \subseteq late' /\ known \subseteq known'
    /\ known' \subseteq DOMAIN procs
    /\ \A x \in known' \ late' : x \in known \ late \/ x \in running

\* Every step does so.
LEMMA StepsGrow == TrackerInv /\ [TrackerNext]_trackerVars => Growth
<1> SUFFICES ASSUME TrackerInv, [TrackerNext]_trackerVars PROVE Growth
  OBVIOUS
<1>0. known \subseteq DOMAIN procs
  BY DEF TrackerInv, MapTypes
<1>same. CASE UNCHANGED <<procs, running, known, late>>
  BY <1>same, <1>0 DEF Growth, Pid
<1>1. ASSUME NEW p \in Candidates,
             NEW q \in IF running = {} THEN {0} ELSE running, Spawn(p, q)
      PROVE  Growth
  <2>1. PICK n : n = Len(procs) + 1
    OBVIOUS
  <2>2. SpawnsAs(n, p)
    BY <1>1, <2>1, SpawnShape DEF TrackerInv
  <2>3. QED
    BY <1>0, <2>2 DEF Growth, SpawnsAs
<1>2. ASSUME NEW x \in running, Exit(x) PROVE Growth
  <2>1. UNCHANGED <<procs, known, late>> /\ running' = running \ {x}
    BY <1>2 DEF Exit, Trace, history
  <2>2. QED
    BY <1>0, <2>1 DEF Growth, Pid
<1>3. ASSUME TimePasses PROVE Growth
  BY <1>same, <1>3 DEF TimePasses, history
<1>4. ASSUME StartETW PROVE Growth
  BY <1>same, <1>4 DEF StartETW, world, history
<1>5. ASSUME StopETW PROVE Growth
  BY <1>same, <1>5 DEF StopETW, world, history
<1>6. ASSUME TakeSnapshot PROVE Growth
  BY <1>same, <1>6 DEF TakeSnapshot, world, history
<1>7. ASSUME ObserveRow PROVE Growth
  <2>1. PICK x \in DOMAIN procs : ObservesRow(x)
    BY <1>7, RowShape DEF TrackerInv
  <2>2. Remembers(x, "snapshot")
    BY <2>1, RememberShape DEF TrackerInv, ObservesRow
  <2>3. UNCHANGED <<procs, running>>
    BY <2>1 DEF world, ObservesRow
  <2>4. QED
    BY <1>0, <2>2, <2>3 DEF Growth, Pid, Remembers
<1>8. ASSUME ObserveStart PROVE Growth
  <2>1. PICK x \in DOMAIN procs : ObservesStart(x)
    BY <1>8, StartShape DEF TrackerInv
  <2>2. Remembers(x, "trace")
    BY <2>1, RememberShape DEF TrackerInv, ObservesStart
  <2>3. UNCHANGED <<procs, running>>
    BY <2>1 DEF world, ObservesStart
  <2>4. QED
    BY <1>0, <2>2, <2>3 DEF Growth, Pid, Remembers
<1>9. ASSUME ExitLooksUp PROVE Growth
  BY <1>same, <1>9 DEF ExitLooksUp, world, history
<1>10. ASSUME ExitForgets PROVE Growth
  <2>1. PICK x \in DOMAIN procs : Forgets(x)
    BY <1>10, ForgetsShape DEF TrackerInv
  <2>2. UNCHANGED <<procs, running, known>>
    BY <2>1 DEF world, Forgets
  <2>3. QED
    BY <1>0, <2>1, <2>2 DEF Growth, Pid, Forgets
<1>11. ASSUME ExitRetains PROVE Growth
  BY <1>same, <1>11 DEF ExitRetains, world
<1>12. CASE UNCHANGED trackerVars
  BY <1>same, <1>12 DEF trackerVars, world, history
<1> QED
  BY <1>1, <1>2, <1>3, <1>4, <1>5, <1>6, <1>7, <1>8, <1>9, <1>10, <1>11, <1>12
  DEF TrackerNext

\* So what came late stays so, and a name a name.
LEMMA NamesStay ==
    ASSUME WorldOK, Growth, MapTypes
    PROVE  /\ \A x \in DOMAIN procs : Overtaken(x) => Overtaken(x)'
           /\ \A e, r : Named(e, r) => Named(e, r)'
<1>1. ASSUME NEW x \in DOMAIN procs, Overtaken(x) PROVE Overtaken(x)'
  <2>1. PICK y \in late : y < x /\ Pid(y) = Pid(x)
    BY <1>1 DEF Overtaken
  <2>2. y \in DOMAIN procs
    BY DEF MapTypes
  <2>3. y \in late' /\ Pid(y)' = Pid(x)'
    BY <2>1, <2>2 DEF Growth
  <2>4. QED
    BY <2>1, <2>3 DEF Overtaken
<1>2. ASSUME NEW e, NEW p, Named(e, p) PROVE Named(e, p)'
  <2>1. PICK y \in DOMAIN procs : Is(e, y) /\ Pid(y) = p
    BY <1>2 DEF Named
  <2>2. y \in DOMAIN procs' /\ Pid(y)' = p
    BY <2>1 DEF Growth
  <2>3. QED
    BY <2>1, <2>2 DEF Named
<1>3. QED
  BY <1>1, <1>2

-----------------------------------------------------------------------------
(* Every part is kept *)

\* The processes.
LEMMA WorldStays == TrackerInv /\ [TrackerNext]_trackerVars => WorldOK'
<1> SUFFICES ASSUME TrackerInv, [TrackerNext]_trackerVars PROVE WorldOK'
  OBVIOUS
<1>same. CASE UNCHANGED <<procs, running, now>>
  BY <1>same DEF TrackerInv, WorldOK, Pid
<1>1. ASSUME NEW p \in Candidates,
             NEW q \in IF running = {} THEN {0} ELSE running, Spawn(p, q)
      PROVE  WorldOK'
  <2>1. PICK n : n = Len(procs) + 1
    OBVIOUS
  <2>2. SpawnsAs(n, p)
    BY <1>1, <2>1, SpawnShape DEF TrackerInv
  <2>3. WorldOK
    BY DEF TrackerInv
  <2>4. ASSUME NEW x \in DOMAIN procs', NEW y \in DOMAIN procs',
               Pid(x)' = Pid(y)', x < y
        PROVE  x \notin running'
    <3>1. x \in DOMAIN procs /\ x # n
      BY <2>2, <2>4 DEF SpawnsAs
    <3>2. CASE y = n
      BY <2>2, <2>4, <3>1, <3>2 DEF SpawnsAs
    <3>3. CASE y # n
      BY <2>2, <2>3, <2>4, <3>1, <3>3 DEF WorldOK, SpawnsAs
    <3>4. QED
      BY <3>2, <3>3
  <2>5. \A x \in DOMAIN procs' : procs'[x].parent < x
    BY <2>2, <2>3 DEF WorldOK, SpawnsAs
  <2>6. QED
    BY <2>2, <2>3, <2>4, <2>5 DEF WorldOK, SpawnsAs
<1>2. ASSUME NEW x \in running, Exit(x) PROVE WorldOK'
  <2>1. UNCHANGED <<procs, now, stopping, snapshot, active, retained,
                    known, late, ended>>
    BY <1>2 DEF Exit, Trace, history
  <2>2. /\ x \in Nat /\ x \in DOMAIN procs /\ running' = running \ {x}
        /\ Trace("stop", x)
    BY <1>2 DEF Exit, TrackerInv, WorldOK
  <2>3. /\ queue' \in Seq(Record)
        /\ \A i \in DOMAIN queue : i \in Nat /\ i < Len(queue) + 1
        /\ \A i \in DOMAIN queue' :
              \/ i \in DOMAIN queue /\ queue'[i] = queue[i]
              \/ i = Len(queue) + 1 /\ queue'[i].kind = "stop" /\ queue'[i].of = x
    BY <2>2, TraceShape DEF TrackerInv
  <2>4. QED
    BY <2>1, <2>2 DEF TrackerInv, WorldOK, Pid
<1>3. ASSUME TimePasses PROVE WorldOK'
  <2>1. UNCHANGED <<procs, running>> /\ now' = now + 1
    BY <1>3 DEF TimePasses
  <2>2. QED
    BY <2>1 DEF TrackerInv, WorldOK, Pid
<1>4. ASSUME StartETW PROVE WorldOK'
  BY <1>same, <1>4 DEF StartETW, world
<1>5. ASSUME StopETW PROVE WorldOK'
  BY <1>same, <1>5 DEF StopETW, world
<1>6. ASSUME TakeSnapshot PROVE WorldOK'
  BY <1>same, <1>6 DEF TakeSnapshot, world
<1>7. ASSUME ObserveRow PROVE WorldOK'
  BY <1>same, <1>7 DEF ObserveRow, world
<1>8. ASSUME ObserveStart PROVE WorldOK'
  BY <1>same, <1>8 DEF ObserveStart, world
<1>9. ASSUME ExitLooksUp PROVE WorldOK'
  BY <1>same, <1>9 DEF ExitLooksUp, world
<1>10. ASSUME ExitForgets PROVE WorldOK'
  BY <1>same, <1>10 DEF ExitForgets, world
<1>11. ASSUME ExitRetains PROVE WorldOK'
  BY <1>same, <1>11 DEF ExitRetains, world
<1>12. CASE UNCHANGED trackerVars
  BY <1>same, <1>12 DEF trackerVars, world
<1> QED
  BY <1>1, <1>2, <1>3, <1>4, <1>5, <1>6, <1>7, <1>8, <1>9, <1>10, <1>11, <1>12
  DEF TrackerNext

\* The queue.
LEMMA QueueStays == TrackerInv /\ [TrackerNext]_trackerVars => QueueTypes'
<1> SUFFICES ASSUME TrackerInv, [TrackerNext]_trackerVars PROVE QueueTypes'
  OBVIOUS
<1>same. CASE UNCHANGED <<procs, queue, stopping>>
  BY <1>same DEF TrackerInv, QueueTypes
<1>1. ASSUME NEW p \in Candidates,
             NEW q \in IF running = {} THEN {0} ELSE running, Spawn(p, q)
      PROVE  QueueTypes'
  <2>1. PICK n : n = Len(procs) + 1
    OBVIOUS
  <2>2. SpawnsAs(n, p)
    BY <1>1, <2>1, SpawnShape DEF TrackerInv
  <2>3. /\ queue' \in Seq(Record)
        /\ \A i \in DOMAIN queue : i \in Nat /\ i < Len(queue) + 1
        /\ \A i \in DOMAIN queue' :
              \/ i \in DOMAIN queue /\ queue'[i] = queue[i]
              \/ i = Len(queue) + 1 /\ queue'[i].kind = "start" /\ queue'[i].of = n
    BY <2>2, TraceShape DEF TrackerInv, SpawnsAs
  <2>4. QED
    BY <2>2, <2>3 DEF TrackerInv, SpawnsAs, QueueTypes
<1>2. ASSUME NEW x \in running, Exit(x) PROVE QueueTypes'
  <2>1. UNCHANGED <<procs, now, stopping, snapshot, active, retained,
                    known, late, ended>>
    BY <1>2 DEF Exit, Trace, history
  <2>2. /\ x \in Nat /\ x \in DOMAIN procs /\ running' = running \ {x}
        /\ Trace("stop", x)
    BY <1>2 DEF Exit, TrackerInv, WorldOK
  <2>3. /\ queue' \in Seq(Record)
        /\ \A i \in DOMAIN queue : i \in Nat /\ i < Len(queue) + 1
        /\ \A i \in DOMAIN queue' :
              \/ i \in DOMAIN queue /\ queue'[i] = queue[i]
              \/ i = Len(queue) + 1 /\ queue'[i].kind = "stop" /\ queue'[i].of = x
    BY <2>2, TraceShape DEF TrackerInv
  <2>4. QED
    BY <2>1, <2>2, <2>3 DEF TrackerInv, QueueTypes
<1>3. ASSUME TimePasses PROVE QueueTypes'
  BY <1>same, <1>3 DEF TimePasses, machine
<1>4. ASSUME StartETW PROVE QueueTypes'
  BY <1>same, <1>4 DEF StartETW, world
<1>5. ASSUME StopETW PROVE QueueTypes'
  BY <1>same, <1>5 DEF StopETW, world
<1>6. ASSUME TakeSnapshot PROVE QueueTypes'
  BY <1>same, <1>6 DEF TakeSnapshot, world
<1>7. ASSUME ObserveRow PROVE QueueTypes'
  BY <1>same, <1>7 DEF ObserveRow, world
<1>8. ASSUME ObserveStart PROVE QueueTypes'
  <2>1. PICK x \in DOMAIN procs : ObservesStart(x)
    BY <1>8, StartShape DEF TrackerInv
  <2>2. TakesRecord
    BY <2>1, TailShape DEF TrackerInv, ObservesStart
  <2>3. UNCHANGED <<procs, stopping>>
    BY <2>1 DEF world, ObservesStart
  <2>4. QED
    BY <2>2, <2>3 DEF TrackerInv, TakesRecord, QueueTypes
<1>9. ASSUME ExitLooksUp PROVE QueueTypes'
  <2>1. PICK x \in DOMAIN procs : LooksUp(x)
    BY <1>9, LooksUpShape DEF TrackerInv
  <2>2. TakesRecord
    BY <2>1, TailShape DEF TrackerInv, LooksUp
  <2>3. UNCHANGED procs
    BY <2>1 DEF world, LooksUp
  <2>4. QED
    BY <2>1, <2>2, <2>3 DEF TrackerInv, LooksUp, TakesRecord, QueueTypes
<1>10. ASSUME ExitForgets PROVE QueueTypes'
  <2>1. PICK x \in DOMAIN procs : Forgets(x)
    BY <1>10, ForgetsShape DEF TrackerInv
  <2>2. UNCHANGED <<procs, queue>>
    BY <2>1 DEF world, Forgets
  <2>3. QED
    BY <2>1, <2>2 DEF TrackerInv, Forgets, QueueTypes
<1>11. ASSUME ExitRetains PROVE QueueTypes'
  <2>1. UNCHANGED <<procs, queue>> /\ stopping' = Nothing
    BY <1>11 DEF ExitRetains, world
  <2>2. QED
    BY <2>1 DEF TrackerInv, QueueTypes
<1>12. CASE UNCHANGED trackerVars
  BY <1>same, <1>12 DEF trackerVars, machine, world
<1> QED
  BY <1>1, <1>2, <1>3, <1>4, <1>5, <1>6, <1>7, <1>8, <1>9, <1>10, <1>11, <1>12
  DEF TrackerNext

\* The snapshot.
LEMMA SnapshotStays == TrackerInv /\ [TrackerNext]_trackerVars => SnapshotOK'
<1> SUFFICES ASSUME TrackerInv, [TrackerNext]_trackerVars PROVE SnapshotOK'
  OBVIOUS
<1>same. CASE UNCHANGED <<procs, snapshot>>
  BY <1>same DEF TrackerInv, SnapshotOK, Pid
<1>1. ASSUME NEW p \in Candidates,
             NEW q \in IF running = {} THEN {0} ELSE running, Spawn(p, q)
      PROVE  SnapshotOK'
  <2>1. PICK n : n = Len(procs) + 1
    OBVIOUS
  <2>2. SpawnsAs(n, p)
    BY <1>1, <2>1, SpawnShape DEF TrackerInv
  <2>3. SnapshotOK
    BY DEF TrackerInv
  <2>4. ASSUME NEW y \in snapshot'.all, NEW z \in snapshot'.all,
               NEW r \in DOMAIN procs',
               r > y, Pid(r)' = Pid(y)'
        PROVE  r > z
    <3>1. /\ y \in DOMAIN procs /\ z \in DOMAIN procs /\ y \in snapshot.all
          /\ z \in snapshot.all
      BY <2>2, <2>3, <2>4 DEF SnapshotOK, SpawnsAs
    <3>2. CASE r = n
      BY <2>2, <3>1, <3>2 DEF SpawnsAs
    <3>3. CASE r # n
      BY <2>2, <2>3, <2>4, <3>1, <3>3 DEF SnapshotOK, SpawnsAs
    <3>4. QED
      BY <3>2, <3>3
  <2>5. /\ snapshot' \in [rows : Seq(Nat), all : SUBSET DOMAIN procs']
        /\ \A i \in DOMAIN snapshot'.rows : snapshot'.rows[i] \in snapshot'.all
    BY <2>2, <2>3 DEF SnapshotOK, SpawnsAs
  <2>6. QED
    BY <2>4, <2>5 DEF SnapshotOK
<1>2. ASSUME NEW x \in running, Exit(x) PROVE SnapshotOK'
  BY <1>same, <1>2 DEF Exit, Trace
<1>3. ASSUME TimePasses PROVE SnapshotOK'
  BY <1>same, <1>3 DEF TimePasses, machine
<1>4. ASSUME StartETW PROVE SnapshotOK'
  BY <1>same, <1>4 DEF StartETW, world
<1>5. ASSUME StopETW PROVE SnapshotOK'
  BY <1>same, <1>5 DEF StopETW, world
<1>6. ASSUME TakeSnapshot PROVE SnapshotOK'
  <2>1. PICK rows \in SetToAllKPermutations(running) :
            snapshot' = [rows |-> rows, all |-> ToSet(rows)]
    BY <1>6 DEF TakeSnapshot
  <2>2. PICK s \in SUBSET running : rows \in SetToSeqs(s)
    BY <2>1 DEF SetToAllKPermutations
  <2>3. rows \in [1..Cardinality(s) -> s]
    BY <2>2 DEF SetToSeqs
  <2>4. WorldOK /\ UNCHANGED <<procs, running>>
    BY <1>6 DEF TakeSnapshot, world, TrackerInv
  <2>5. running \subseteq Nat /\ s \subseteq running
    BY <2>2, <2>4 DEF WorldOK
  <2>6. IsFiniteSet(s)
    <3>1. DOMAIN procs = 1..Len(procs) /\ Len(procs) \in Nat
      BY <2>4
    <3>2. IsFiniteSet(1..Len(procs)) /\ s \subseteq 1..Len(procs)
      BY <2>4, <2>5, <3>1, FS_Interval DEF WorldOK
    <3>3. QED
      BY <3>2, FS_Subset
  <2>7. PICK k : k \in Nat /\ k = Cardinality(s)
    BY <2>6, FS_CardinalityType
  <2>8. rows \in Seq(Nat) /\ \A i \in DOMAIN rows : rows[i] \in s
    <3>1. rows \in [1..k -> s] /\ s \subseteq Nat
      BY <2>3, <2>5, <2>7
    <3>2. \A i \in DOMAIN rows : rows[i] \in s
      BY <3>1
    <3>3. rows \in [1..k -> Nat]
      BY <3>1
    <3>4. rows \in Seq(Nat)
      BY <2>7, <3>3
    <3>5. QED
      BY <3>2, <3>4
  <2>9. ToSet(rows) \subseteq s /\ \A i \in DOMAIN rows : rows[i] \in ToSet(rows)
    BY <2>8 DEF ToSet
  <2>10. /\ snapshot' \in [rows : Seq(Nat), all : SUBSET DOMAIN procs]
         /\ snapshot'.rows = rows /\ snapshot'.all = ToSet(rows)
    BY <2>1, <2>4, <2>5, <2>8, <2>9 DEF WorldOK
  <2>11. ASSUME NEW y \in ToSet(rows), NEW z \in ToSet(rows),
                NEW q \in DOMAIN procs,
                q > y, Pid(q) = Pid(y)
         PROVE  q > z
    BY <2>4, <2>5, <2>9, <2>11 DEF WorldOK
  <2>12. QED
    BY <2>4, <2>9, <2>10, <2>11 DEF SnapshotOK, Pid
<1>7. ASSUME ObserveRow PROVE SnapshotOK'
  <2>1. PICK x \in DOMAIN procs : ObservesRow(x)
    BY <1>7, RowShape DEF TrackerInv
  <2>2. UNCHANGED procs
    BY <2>1 DEF world, ObservesRow
  <2>3. QED
    BY <2>1, <2>2 DEF TrackerInv, SnapshotOK, Pid, ObservesRow
<1>8. ASSUME ObserveStart PROVE SnapshotOK'
  BY <1>same, <1>8 DEF ObserveStart, world
<1>9. ASSUME ExitLooksUp PROVE SnapshotOK'
  BY <1>same, <1>9 DEF ExitLooksUp, world
<1>10. ASSUME ExitForgets PROVE SnapshotOK'
  BY <1>same, <1>10 DEF ExitForgets, world
<1>11. ASSUME ExitRetains PROVE SnapshotOK'
  BY <1>same, <1>11 DEF ExitRetains, world
<1>12. CASE UNCHANGED trackerVars
  BY <1>same, <1>12 DEF trackerVars, machine, world
<1> QED
  BY <1>1, <1>2, <1>3, <1>4, <1>5, <1>6, <1>7, <1>8, <1>9, <1>10, <1>11, <1>12
  DEF TrackerNext

\* The maps.
LEMMA MapsStay == TrackerInv /\ [TrackerNext]_trackerVars => MapTypes'
<1> SUFFICES ASSUME TrackerInv, [TrackerNext]_trackerVars PROVE MapTypes'
  OBVIOUS
<1>same. CASE UNCHANGED <<procs, active, known, late, stopping>>
  BY <1>same DEF TrackerInv, MapTypes, Named, Is, Pid
<1>1. ASSUME NEW p \in Candidates,
             NEW q \in IF running = {} THEN {0} ELSE running, Spawn(p, q)
      PROVE  MapTypes'
  <2>1. PICK n : n = Len(procs) + 1
    OBVIOUS
  <2>2. SpawnsAs(n, p)
    BY <1>1, <2>1, SpawnShape DEF TrackerInv
  <2>3. Growth
    BY StepsGrow
  <2>4. /\ \A z \in DOMAIN procs : Overtaken(z) => Overtaken(z)'
        /\ \A e, r : Named(e, r) => Named(e, r)'
    BY <2>3, NamesStay DEF TrackerInv
  <2>5. MapTypes /\ QueueTypes
    BY DEF TrackerInv
  <2>6. stopping # Nothing => Pid(stopping.of)' = Pid(stopping.of)
    BY <2>2, <2>5 DEF SpawnsAs, QueueTypes
  <2>7. \A r \in Pids : active'[r] # Nothing => Named(active[r], r)'
    BY <2>2, <2>4, <2>5 DEF MapTypes, SpawnsAs
  <2>8. (stopping # Nothing =>
            \/ stopping.entity = <<"pid", Pid(stopping.of)>>
            \/ Named(stopping.entity, Pid(stopping.of)))'
    <3>1. PICK e, r : e = stopping.entity /\ r = Pid(stopping.of)
      OBVIOUS
    <3>2. stopping # Nothing => stopping'.entity = e /\ Pid(stopping.of)' = r
      BY <2>2, <2>6, <3>1 DEF SpawnsAs
    <3>3. stopping # Nothing => e = <<"pid", r>> \/ Named(e, r)'
      BY <2>4, <2>5, <3>1 DEF MapTypes
    <3>4. QED
      BY <2>2, <3>1, <3>2, <3>3 DEF SpawnsAs
  <2>9. known' \subseteq DOMAIN procs' /\ late' \subseteq DOMAIN procs'
    BY <2>2, <2>5 DEF MapTypes, SpawnsAs
  <2>10. QED
    BY <2>2, <2>5, <2>7, <2>8, <2>9 DEF MapTypes, SpawnsAs
<1>2. ASSUME NEW x \in running, Exit(x) PROVE MapTypes'
  BY <1>same, <1>2 DEF Exit, Trace, history
<1>3. ASSUME TimePasses PROVE MapTypes'
  BY <1>same, <1>3 DEF TimePasses, machine, history
<1>4. ASSUME StartETW PROVE MapTypes'
  BY <1>same, <1>4 DEF StartETW, world, history
<1>5. ASSUME StopETW PROVE MapTypes'
  BY <1>same, <1>5 DEF StopETW, world, history
<1>6. ASSUME TakeSnapshot PROVE MapTypes'
  BY <1>same, <1>6 DEF TakeSnapshot, world, history
<1>7. ASSUME ObserveRow PROVE MapTypes'
  <2>1. PICK x \in DOMAIN procs : ObservesRow(x)
    BY <1>7, RowShape DEF TrackerInv
  <2>2. Remembers(x, "snapshot")
    BY <2>1, RememberShape DEF TrackerInv, ObservesRow
  <2>3. Growth
    BY StepsGrow
  <2>4. /\ \A z \in DOMAIN procs : Overtaken(z) => Overtaken(z)'
        /\ \A e, r : Named(e, r) => Named(e, r)'
    BY <2>3, NamesStay DEF TrackerInv
  <2>5. /\ UNCHANGED <<procs, stopping>> /\ Pid(x) \in Pids /\ MapTypes
        /\ x \in DOMAIN procs
    BY <2>1, ProcessTyped DEF world, TrackerInv, ObservesRow
  <2>6. Named(active'[Pid(x)], Pid(x))
    BY <2>2, <2>5 DEF Named, Is, Remembers
  <2>7. \A p \in Pids : active'[p] # Nothing => Named(active[p], p)'
    BY <2>2, <2>4, <2>5, <2>6 DEF MapTypes, Remembers
  <2>8. (stopping # Nothing =>
            \/ stopping.entity = <<"pid", Pid(stopping.of)>>
            \/ Named(stopping.entity, Pid(stopping.of)))'
    BY <2>4, <2>5 DEF MapTypes, Pid
  <2>9. QED
    BY <2>2, <2>5, <2>7, <2>8 DEF MapTypes, Remembers
<1>8. ASSUME ObserveStart PROVE MapTypes'
  <2>1. PICK x \in DOMAIN procs : ObservesStart(x)
    BY <1>8, StartShape DEF TrackerInv
  <2>2. Remembers(x, "trace")
    BY <2>1, RememberShape DEF TrackerInv, ObservesStart
  <2>3. Growth
    BY StepsGrow
  <2>4. /\ \A z \in DOMAIN procs : Overtaken(z) => Overtaken(z)'
        /\ \A e, r : Named(e, r) => Named(e, r)'
    BY <2>3, NamesStay DEF TrackerInv
  <2>5. /\ UNCHANGED <<procs, stopping>> /\ Pid(x) \in Pids /\ MapTypes
        /\ x \in DOMAIN procs
    BY <2>1, ProcessTyped DEF world, TrackerInv, ObservesStart
  <2>6. Named(active'[Pid(x)], Pid(x))
    BY <2>2, <2>5 DEF Named, Is, Remembers
  <2>7. \A p \in Pids : active'[p] # Nothing => Named(active[p], p)'
    BY <2>2, <2>4, <2>5, <2>6 DEF MapTypes, Remembers
  <2>8. (stopping # Nothing =>
            \/ stopping.entity = <<"pid", Pid(stopping.of)>>
            \/ Named(stopping.entity, Pid(stopping.of)))'
    BY <2>4, <2>5 DEF MapTypes, Pid
  <2>9. QED
    BY <2>2, <2>5, <2>7, <2>8 DEF MapTypes, Remembers
<1>9. ASSUME ExitLooksUp PROVE MapTypes'
  <2>1. PICK x \in DOMAIN procs : LooksUp(x)
    BY <1>9, LooksUpShape DEF TrackerInv
  <2>2. UNCHANGED <<procs, active, known, late>> /\ MapTypes /\ Pid(x) \in Pids
    BY <2>1, ProcessTyped DEF world, history, TrackerInv, LooksUp
  <2>3. Pid(x)' = Pid(x) /\ \A e, p : Named(e, p)' <=> Named(e, p)
    BY <2>2 DEF Pid, Named
  <2>4. \/ stopping'.entity = <<"pid", Pid(x)>>
        \/ Named(stopping'.entity, Pid(x))
    BY <2>1, <2>2 DEF MapTypes, LooksUp
  <2>5. QED
    BY <2>1, <2>2, <2>3, <2>4 DEF MapTypes, LooksUp
<1>10. ASSUME ExitForgets PROVE MapTypes'
  <2>1. PICK x \in DOMAIN procs : Forgets(x)
    BY <1>10, ForgetsShape DEF TrackerInv
  <2>2. UNCHANGED <<procs, known>> /\ MapTypes
    BY <2>1 DEF world, TrackerInv, Forgets
  <2>3. Pid(x)' = Pid(x) /\ \A e, p : Named(e, p)' <=> Named(e, p)
    BY <2>2 DEF Pid, Named
  <2>4. \A p \in Pids : active'[p] # Nothing => Named(active'[p], p)
    BY <2>1, <2>2 DEF MapTypes, Forgets
  <2>5. \/ stopping'.entity = <<"pid", Pid(x)>>
        \/ Named(stopping'.entity, Pid(x))
    BY <2>1, <2>2 DEF MapTypes, Forgets
  <2>6. QED
    BY <2>1, <2>2, <2>3, <2>4, <2>5 DEF MapTypes, Forgets
<1>11. ASSUME ExitRetains PROVE MapTypes'
  <2>1. UNCHANGED <<procs, active, known, late>> /\ stopping' = Nothing
    BY <1>11 DEF ExitRetains, world
  <2>2. QED
    BY <2>1 DEF TrackerInv, MapTypes, Named, Is, Pid
<1>12. CASE UNCHANGED trackerVars
  BY <1>same, <1>12 DEF trackerVars, machine, world, history
<1> QED
  BY <1>1, <1>2, <1>3, <1>4, <1>5, <1>6, <1>7, <1>8, <1>9, <1>10, <1>11, <1>12
  DEF TrackerNext

\* The stops that are recorded and retained.
LEMMA ExitsStay == TrackerInv /\ [TrackerNext]_trackerVars => ExitsOK'
<1> SUFFICES ASSUME TrackerInv, [TrackerNext]_trackerVars PROVE ExitsOK'
  OBVIOUS
<1>same. CASE UNCHANGED <<procs, now, ended, retained>>
  BY <1>same DEF TrackerInv, ExitsOK, LogOK, KeptOK, Expired, Named, Is, Pid
<1>1. ASSUME NEW p \in Candidates,
             NEW q \in IF running = {} THEN {0} ELSE running, Spawn(p, q)
      PROVE  ExitsOK'
  <2>1. PICK n : n = Len(procs) + 1
    OBVIOUS
  <2>2. SpawnsAs(n, p)
    BY <1>1, <2>1, SpawnShape DEF TrackerInv
  <2>3. Growth
    BY StepsGrow
  <2>4. /\ \A z \in DOMAIN procs : Overtaken(z) => Overtaken(z)'
        /\ \A e, r : Named(e, r) => Named(e, r)'
    BY <2>3, NamesStay DEF TrackerInv
  <2>5. ExitsOK
    BY DEF TrackerInv
  <2>6. /\ \A i \in DOMAIN ended : ended[i].of \in DOMAIN procs
        /\ DOMAIN retained \subseteq DOMAIN ended
    BY <2>5 DEF ExitsOK, LogOK, KeptOK
  <2>7. \A i \in DOMAIN ended :
              ended[i].of \in DOMAIN procs' /\ Pid(ended[i].of)' = Pid(ended[i].of)
    BY <2>2, <2>6 DEF SpawnsAs
  <2>8. LogOK(ended)'
    BY <2>2, <2>5, <2>7 DEF ExitsOK, LogOK, SpawnsAs
  <2>9. \A i : Expired(i, ended)' <=> Expired(i, ended)
    BY <2>2 DEF Expired, SpawnsAs
  <2>10. KeptOK(retained, ended)'
    <3>1. ASSUME NEW i \in DOMAIN retained
          PROVE  (LET r == Pid(ended[i].of)
                  IN /\ retained[i].pid = r /\ retained[i].at = ended[i].at
                     /\ retained[i].entity = <<"pid", r>> \/ Named(retained[i].entity, r))'
      <4>1. PICK e, r : e = retained[i].entity /\ r = Pid(ended[i].of)
        OBVIOUS
      <4>2. i \in DOMAIN ended
        BY <2>6
      <4>3. /\ retained[i].pid = r /\ retained[i].at = ended[i].at
            /\ e = <<"pid", r>> \/ Named(e, r)
        BY <2>5, <4>1 DEF ExitsOK, KeptOK
      <4>4. e = <<"pid", r>> \/ Named(e, r)'
        BY <2>4, <4>3
      <4>5. UNCHANGED <<retained, ended>> /\ Pid(ended[i].of)' = r
        BY <2>2, <2>7, <4>1, <4>2 DEF SpawnsAs
      <4>6. QED
        BY <4>1, <4>3, <4>4, <4>5
    <3>2. \A i \in DOMAIN ended : i \in DOMAIN retained \/ Expired(i, ended)'
      BY <2>5, <2>9 DEF ExitsOK, KeptOK
    <3>3. \A i \in DOMAIN retained, k \in DOMAIN ended :
              i < k /\ Pid(ended[k].of)' = Pid(ended[i].of)' => k \in DOMAIN retained
      BY <2>5, <2>6, <2>7 DEF ExitsOK, KeptOK
    <3>4. /\ retained \in [DOMAIN retained -> Exited]
          /\ DOMAIN retained \subseteq DOMAIN ended
      BY <2>5 DEF ExitsOK, KeptOK
    <3>5. QED
      BY <2>2, <3>1, <3>2, <3>3, <3>4 DEF KeptOK, SpawnsAs
  <2>11. QED
    BY <2>8, <2>10 DEF ExitsOK
<1>2. ASSUME NEW x \in running, Exit(x) PROVE ExitsOK'
  BY <1>same, <1>2 DEF Exit, Trace, history
<1>3. ASSUME TimePasses PROVE ExitsOK'
  <2>1. UNCHANGED <<procs, retained, ended>> /\ now' = now + 1
    BY <1>3 DEF TimePasses, machine, history
  <2>2. now \in Nat /\ LogOK(ended) /\ KeptOK(retained, ended)
    BY DEF TrackerInv, WorldOK, ExitsOK
  <2>3. \A i \in DOMAIN ended : ended[i].at \in Nat
    <3>1. \A i \in DOMAIN ended : ended[i] \in Stop
      BY <2>2 DEF LogOK
    <3>2. QED
      BY <3>1 DEF Stop
  <2>4. \A i \in DOMAIN ended : Expired(i, ended) => Expired(i, ended)'
    BY <2>1, <2>2, <2>3, TrackerAssumption DEF Expired
  <2>5. LogOK(ended)'
    BY <2>1, <2>2, <2>3 DEF LogOK
  <2>6. KeptOK(retained, ended)'
    BY <2>1, <2>2, <2>4 DEF KeptOK, Named, Pid
  <2>7. QED
    BY <2>5, <2>6 DEF ExitsOK
<1>4. ASSUME StartETW PROVE ExitsOK'
  BY <1>same, <1>4 DEF StartETW, world, history
<1>5. ASSUME StopETW PROVE ExitsOK'
  BY <1>same, <1>5 DEF StopETW, world, history
<1>6. ASSUME TakeSnapshot PROVE ExitsOK'
  BY <1>same, <1>6 DEF TakeSnapshot, world, history
<1>7. ASSUME ObserveRow PROVE ExitsOK'
  <2>1. PICK x \in DOMAIN procs : ObservesRow(x)
    BY <1>7, RowShape DEF TrackerInv
  <2>2. UNCHANGED <<procs, now, ended>> /\ LogOK(ended)
    BY <2>1 DEF world, TrackerInv, ExitsOK, ObservesRow
  <2>3. KeptOK(retained, ended)'
    BY <2>1, <2>2 DEF KeptOK, Expired, Named, Pid, ObservesRow
  <2>4. LogOK(ended)'
    BY <2>2 DEF LogOK
  <2>5. QED
    BY <2>3, <2>4 DEF ExitsOK
<1>8. ASSUME ObserveStart PROVE ExitsOK'
  <2>1. PICK x \in DOMAIN procs : ObservesStart(x)
    BY <1>8, StartShape DEF TrackerInv
  <2>2. UNCHANGED <<procs, now, ended>> /\ LogOK(ended)
    BY <2>1 DEF world, TrackerInv, ExitsOK, ObservesStart
  <2>3. KeptOK(retained, ended)'
    BY <2>1, <2>2 DEF KeptOK, Expired, Named, Pid, ObservesStart
  <2>4. LogOK(ended)'
    BY <2>2 DEF LogOK
  <2>5. QED
    BY <2>3, <2>4 DEF ExitsOK
<1>9. ASSUME ExitLooksUp PROVE ExitsOK'
  BY <1>same, <1>9 DEF ExitLooksUp, world, history
<1>10. ASSUME ExitForgets PROVE ExitsOK'
  BY <1>same, <1>10 DEF ExitForgets, world
<1>11. ASSUME ExitRetains PROVE ExitsOK'
  <2>1. PICK x \in DOMAIN procs, n \in Nat : RetainsAs(x, n)
    BY <1>11, RetainsShape DEF TrackerInv
  <2>2. /\ stopping # Nothing /\ stopping.of = x /\ stopping.forgotten
        /\ stopping' = Nothing
        /\ DOMAIN ended' = DOMAIN ended \cup {n} /\ n \notin DOMAIN ended
        /\ \A i \in DOMAIN ended : i < n /\ ended'[i] = ended[i]
        /\ ended'[n].of = x /\ n \in Nat /\ DOMAIN ended \subseteq Nat
        /\ LogOK(ended') /\ KeptOK(retained', ended')
        /\ \A i \in DOMAIN retained' :
              \/ i \in DOMAIN retained /\ retained'[i] = retained[i]
              \/ i = n /\ retained'[i].entity = stopping.entity
        /\ UNCHANGED <<world, etw, queue, snapshot, active, known, late>>
    BY <2>1 DEF RetainsAs
  <2>3. UNCHANGED <<procs, now>>
    BY <2>2 DEF world
  <2>4. KeptOK(retained, ended)'
    BY <2>2, <2>3 DEF KeptOK, Expired, Named, Pid
  <2>5. LogOK(ended)'
    BY <2>2, <2>3 DEF LogOK
  <2>6. QED
    BY <2>4, <2>5 DEF ExitsOK
<1>12. CASE UNCHANGED trackerVars
  BY <1>same, <1>12 DEF trackerVars, machine, world, history
<1> QED
  BY <1>1, <1>2, <1>3, <1>4, <1>5, <1>6, <1>7, <1>8, <1>9, <1>10, <1>11, <1>12
  DEF TrackerNext

\* The stops.
LEMMA StopsStay == TrackerInv /\ [TrackerNext]_trackerVars => StopsOK'
<1> SUFFICES ASSUME TrackerInv, [TrackerNext]_trackerVars PROVE StopsOK'
  OBVIOUS
<1>same. CASE UNCHANGED <<running, queue, stopping, ended>>
  BY <1>same DEF TrackerInv, StopsOK, Stops, Unended
<1>1. ASSUME NEW p \in Candidates,
             NEW q \in IF running = {} THEN {0} ELSE running, Spawn(p, q)
      PROVE  StopsOK'
  <2>1. PICK n : n = Len(procs) + 1
    OBVIOUS
  <2>2. SpawnsAs(n, p)
    BY <1>1, <2>1, SpawnShape DEF TrackerInv
  <2>3. /\ queue' \in Seq(Record)
        /\ \A i \in DOMAIN queue : i \in Nat /\ i < Len(queue) + 1
        /\ \A i \in DOMAIN queue' :
              \/ i \in DOMAIN queue /\ queue'[i] = queue[i]
              \/ i = Len(queue) + 1 /\ queue'[i].kind = "start" /\ queue'[i].of = n
    BY <2>2, TraceShape DEF TrackerInv, SpawnsAs
  <2>4. /\ StopsOK /\ \A i \in DOMAIN queue : queue[i].of # n
        /\ ~Stops(n) /\ Unended(n)
    BY <2>2
    DEF TrackerInv, ExitsOK, LogOK, Stops, Unended, SpawnsAs, QueueTypes
  <2>5. \A z : (Stops(z)' <=> Stops(z)) /\ (Unended(z)' <=> Unended(z))
    BY <2>2 DEF Stops, Unended, SpawnsAs
  <2>6. \A i \in DOMAIN queue' :
              queue'[i].kind = "stop" => i \in DOMAIN queue /\ queue'[i] = queue[i]
    BY <2>3
  <2>7. QED
    BY <2>2, <2>4, <2>5, <2>6 DEF StopsOK, SpawnsAs
<1>2. ASSUME NEW x \in running, Exit(x) PROVE StopsOK'
  <2>1. UNCHANGED <<procs, now, stopping, snapshot, active, retained,
                    known, late, ended>>
    BY <1>2 DEF Exit, Trace, history
  <2>2. /\ x \in Nat /\ x \in DOMAIN procs /\ running' = running \ {x}
        /\ Trace("stop", x)
    BY <1>2 DEF Exit, TrackerInv, WorldOK
  <2>3. /\ queue' \in Seq(Record)
        /\ \A i \in DOMAIN queue : i \in Nat /\ i < Len(queue) + 1
        /\ \A i \in DOMAIN queue' :
              \/ i \in DOMAIN queue /\ queue'[i] = queue[i]
              \/ i = Len(queue) + 1 /\ queue'[i].kind = "stop" /\ queue'[i].of = x
    BY <2>2, TraceShape DEF TrackerInv
  <2>4. StopsOK /\ ~Stops(x) /\ Unended(x) /\ x \in running
    BY DEF TrackerInv, StopsOK
  <2>5. \A z : (Stops(z)' <=> Stops(z)) /\ (Unended(z)' <=> Unended(z))
    BY <2>1 DEF Stops, Unended
  <2>6. \A i \in DOMAIN queue' : queue'[i].kind = "stop" =>
            \/ i \in DOMAIN queue /\ queue'[i] = queue[i] /\ queue'[i].of # x
            \/ i = Len(queue) + 1 /\ i \notin DOMAIN queue /\ queue'[i].of = x
    BY <2>3, <2>4 DEF StopsOK
  <2>7. /\ \A i \in DOMAIN queue' : queue'[i].kind = "stop" =>
              /\ queue'[i].of \notin running'
              /\ ~Stops(queue'[i].of) /\ Unended(queue'[i].of)
        /\ \A i, j \in DOMAIN queue' :
              /\ queue'[i].kind = "stop" /\ queue'[j].kind = "stop"
              /\ queue'[i].of = queue'[j].of
              => i = j
    BY <2>2, <2>4, <2>6 DEF StopsOK
  <2>8. \A z \in running' : ~Stops(z) /\ Unended(z)
    BY <2>2, <2>4 DEF StopsOK
  <2>9. stopping' # Nothing => Unended(stopping.of)
    BY <2>1, <2>4 DEF StopsOK
  <2>10. QED
    BY <2>1, <2>5, <2>7, <2>8, <2>9 DEF StopsOK
<1>3. ASSUME TimePasses PROVE StopsOK'
  BY <1>same, <1>3 DEF TimePasses, machine, history
<1>4. ASSUME StartETW PROVE StopsOK'
  BY <1>same, <1>4 DEF StartETW, world, history
<1>5. ASSUME StopETW PROVE StopsOK'
  BY <1>same, <1>5 DEF StopETW, world, history
<1>6. ASSUME TakeSnapshot PROVE StopsOK'
  BY <1>same, <1>6 DEF TakeSnapshot, world, history
<1>7. ASSUME ObserveRow PROVE StopsOK'
  BY <1>same, <1>7 DEF ObserveRow, world
<1>8. ASSUME ObserveStart PROVE StopsOK'
  <2>1. PICK x \in DOMAIN procs : ObservesStart(x)
    BY <1>8, StartShape DEF TrackerInv
  <2>2. TakesRecord
    BY <2>1, TailShape DEF TrackerInv, ObservesStart
  <2>3. StopsOK /\ UNCHANGED <<running, stopping, ended>>
    BY <2>1 DEF world, TrackerInv, ObservesStart
  <2>4. \A z : (Stops(z)' <=> Stops(z)) /\ (Unended(z)' <=> Unended(z))
    BY <2>3 DEF Stops, Unended
  <2>5. QED
    BY <2>2, <2>3, <2>4 DEF StopsOK, TakesRecord
<1>9. ASSUME ExitLooksUp PROVE StopsOK'
  <2>1. PICK x \in DOMAIN procs : LooksUp(x)
    BY <1>9, LooksUpShape DEF TrackerInv
  <2>2. TakesRecord
    BY <2>1, TailShape DEF TrackerInv, LooksUp
  <2>3. StopsOK /\ UNCHANGED <<running, ended>>
    BY <2>1 DEF world, history, TrackerInv, LooksUp
  <2>4. \A z : Unended(z)' <=> Unended(z)
    BY <2>3 DEF Unended
  <2>5. \A z : Stops(z)' <=> z = x
    BY <2>1 DEF Stops, LooksUp
  <2>6. x \notin running /\ Unended(x)
    BY <2>1, <2>2, <2>3 DEF StopsOK, LooksUp, TakesRecord
  <2>7. \A i \in DOMAIN queue' : queue'[i].kind = "stop" => queue'[i].of # x
    BY <2>1, <2>2, <2>3 DEF StopsOK, LooksUp, TakesRecord
  <2>8. /\ \A z \in running' : ~Stops(z)' /\ Unended(z)'
        /\ \A i \in DOMAIN queue' : queue'[i].kind = "stop" =>
              queue'[i].of \notin running' /\ Unended(queue'[i].of)
        /\ \A i, j \in DOMAIN queue' :
              /\ queue'[i].kind = "stop" /\ queue'[j].kind = "stop"
              /\ queue'[i].of = queue'[j].of
              => i = j
    BY <2>2, <2>3, <2>4, <2>5, <2>6 DEF StopsOK, TakesRecord
  <2>9. QED
    BY <2>1, <2>4, <2>5, <2>6, <2>7, <2>8 DEF StopsOK, LooksUp
<1>10. ASSUME ExitForgets PROVE StopsOK'
  <2>1. PICK x \in DOMAIN procs : Forgets(x)
    BY <1>10, ForgetsShape DEF TrackerInv
  <2>2. StopsOK /\ UNCHANGED <<running, queue, ended>>
    BY <2>1 DEF world, TrackerInv, Forgets
  <2>3. \A z : (Stops(z)' <=> Stops(z)) /\ (Unended(z)' <=> Unended(z))
    BY <2>1, <2>2 DEF Stops, Unended, Forgets
  <2>4. QED
    BY <2>1, <2>2, <2>3 DEF StopsOK, Forgets
<1>11. ASSUME ExitRetains PROVE StopsOK'
  <2>1. PICK x \in DOMAIN procs, n \in Nat : RetainsAs(x, n)
    BY <1>11, RetainsShape DEF TrackerInv
  <2>2. /\ stopping # Nothing /\ stopping.of = x /\ stopping.forgotten
        /\ stopping' = Nothing
        /\ DOMAIN ended' = DOMAIN ended \cup {n} /\ n \notin DOMAIN ended
        /\ \A i \in DOMAIN ended : i < n /\ ended'[i] = ended[i]
        /\ ended'[n].of = x /\ n \in Nat /\ DOMAIN ended \subseteq Nat
        /\ LogOK(ended') /\ KeptOK(retained', ended')
        /\ \A i \in DOMAIN retained' :
              \/ i \in DOMAIN retained /\ retained'[i] = retained[i]
              \/ i = n /\ retained'[i].entity = stopping.entity
        /\ UNCHANGED <<world, etw, queue, snapshot, active, known, late>>
    BY <2>1 DEF RetainsAs
  <2>3. StopsOK /\ Stops(x) /\ UNCHANGED <<running, queue>>
    BY <2>2 DEF world, TrackerInv, Stops
  <2>4. \A z : ~Stops(z)' /\ (Unended(z) /\ ~Stops(z) => Unended(z)')
    BY <2>2 DEF Stops, Unended
  <2>5. /\ \A z \in running : ~Stops(z) /\ Unended(z)
        /\ \A i \in DOMAIN queue : queue[i].kind = "stop" =>
              ~Stops(queue[i].of) /\ Unended(queue[i].of)
    BY <2>3 DEF StopsOK
  <2>6. QED
    BY <2>2, <2>3, <2>4, <2>5 DEF StopsOK
<1>12. CASE UNCHANGED trackerVars
  BY <1>same, <1>12 DEF trackerVars, machine, world, history
<1> QED
  BY <1>1, <1>2, <1>3, <1>4, <1>5, <1>6, <1>7, <1>8, <1>9, <1>10, <1>11, <1>12
  DEF TrackerNext

\* The order of the records.
LEMMA OrderStays == TrackerInv /\ [TrackerNext]_trackerVars => InOrder'
<1> SUFFICES ASSUME TrackerInv, [TrackerNext]_trackerVars PROVE InOrder'
  OBVIOUS
<1>same. CASE UNCHANGED <<procs, queue, active, stopping>>
  BY <1>same DEF TrackerInv, InOrder, Pid
<1>1. ASSUME NEW p \in Candidates,
             NEW q \in IF running = {} THEN {0} ELSE running, Spawn(p, q)
      PROVE  InOrder'
  <2>1. PICK n : n = Len(procs) + 1
    OBVIOUS
  <2>2. SpawnsAs(n, p)
    BY <1>1, <2>1, SpawnShape DEF TrackerInv
  <2>3. /\ queue' \in Seq(Record)
        /\ \A i \in DOMAIN queue : i \in Nat /\ i < Len(queue) + 1
        /\ \A i \in DOMAIN queue' :
              \/ i \in DOMAIN queue /\ queue'[i] = queue[i]
              \/ i = Len(queue) + 1 /\ queue'[i].kind = "start" /\ queue'[i].of = n
    BY <2>2, TraceShape DEF TrackerInv, SpawnsAs
  <2>4. \A z \in DOMAIN procs : Pid(z)' = Pid(z)
    BY StepsGrow DEF Growth
  <2>5. /\ WorldOK /\ InOrder
        /\ \A i \in DOMAIN queue : queue[i].of \in DOMAIN procs
    BY DEF TrackerInv, QueueTypes
  <2>6. \A i \in DOMAIN queue' :
              queue'[i].kind = "stop" => i \in DOMAIN queue /\ queue'[i] = queue[i]
    BY <2>3
  <2>7. \A i, j \in DOMAIN queue' :
              i < j /\ j \in DOMAIN queue => i \in DOMAIN queue /\ queue'[i] = queue[i]
    BY <2>3
  <2>8. (\A i, j \in DOMAIN queue :
              /\ i < j /\ queue[i].kind = "start" /\ queue[j].kind = "stop"
              /\ Pid(queue[i].of) = Pid(queue[j].of)
              => queue[i].of <= queue[j].of)'
    BY <2>4, <2>5, <2>6, <2>7 DEF InOrder
  <2>9. (\A j \in DOMAIN queue, y \in Nat :
              queue[j].kind = "stop" /\ active[Pid(queue[j].of)] = <<"trace", y>>
              => y <= queue[j].of)'
    BY <2>2, <2>4, <2>5, <2>6 DEF InOrder, SpawnsAs
  <2>10. (\A y \in Nat :
              stopping # Nothing /\ stopping.entity = <<"trace", y>>
              => y <= stopping.of)'
    BY <2>2, <2>5 DEF InOrder, SpawnsAs
  <2>11. QED
    BY <2>8, <2>9, <2>10 DEF InOrder
<1>2. ASSUME NEW x \in running, Exit(x) PROVE InOrder'
  <2>1. UNCHANGED <<procs, now, stopping, snapshot, active, retained,
                    known, late, ended>>
    BY <1>2 DEF Exit, Trace, history
  <2>2. /\ x \in Nat /\ x \in DOMAIN procs /\ running' = running \ {x}
        /\ Trace("stop", x)
    BY <1>2 DEF Exit, TrackerInv, WorldOK
  <2>3. /\ queue' \in Seq(Record)
        /\ \A i \in DOMAIN queue : i \in Nat /\ i < Len(queue) + 1
        /\ \A i \in DOMAIN queue' :
              \/ i \in DOMAIN queue /\ queue'[i] = queue[i]
              \/ i = Len(queue) + 1 /\ queue'[i].kind = "stop" /\ queue'[i].of = x
    BY <2>2, TraceShape DEF TrackerInv
  <2>4. \A z \in DOMAIN procs : Pid(z)' = Pid(z)
    BY StepsGrow DEF Growth
  <2>5. /\ WorldOK /\ InOrder
        /\ \A i \in DOMAIN queue : queue[i].of \in DOMAIN procs
    BY DEF TrackerInv, QueueTypes
  <2>6. \A z \in DOMAIN procs : Pid(z) = Pid(x) => z <= x
    <3>1. x \in running /\ \A z \in DOMAIN procs : z \in Nat
      BY <2>5, ProcessTyped
    <3>2. QED
      BY <2>2, <2>5, <3>1 DEF WorldOK
  <2>7. \A i \in DOMAIN queue' :
              queue'[i].kind = "start" => i \in DOMAIN queue /\ queue'[i] = queue[i]
    BY <2>3
  <2>8. \A i \in DOMAIN queue' : queue'[i].kind = "stop" =>
            \/ i \in DOMAIN queue /\ queue'[i] = queue[i]
            \/ queue'[i].of = x
    BY <2>3
  <2>9. (\A i, j \in DOMAIN queue :
              /\ i < j /\ queue[i].kind = "start" /\ queue[j].kind = "stop"
              /\ Pid(queue[i].of) = Pid(queue[j].of)
              => queue[i].of <= queue[j].of)'
    <3> SUFFICES ASSUME NEW i \in DOMAIN queue', NEW j \in DOMAIN queue',
                        i < j, queue'[i].kind = "start", queue'[j].kind = "stop",
                        Pid(queue[i].of)' = Pid(queue[j].of)'
                 PROVE  queue'[i].of <= queue'[j].of
      OBVIOUS
    <3>1. PICK y \in DOMAIN procs : y = queue'[i].of /\ y = queue[i].of
      BY <2>5, <2>7
    <3>2. Pid(y)' = Pid(y) /\ Pid(x)' = Pid(x)
      BY <2>2, <2>4
    <3>3. CASE queue'[j].of = x
      BY <2>6, <3>1, <3>2, <3>3
    <3>4. CASE j \in DOMAIN queue /\ queue'[j] = queue[j]
      <4>1. Pid(queue[j].of)' = Pid(queue[j].of) /\ Pid(queue[i].of)' = Pid(queue[i].of)
        BY <2>1, <2>7, <3>4 DEF Pid
      <4>2. QED
        BY <2>5, <2>7, <3>4, <4>1 DEF InOrder
    <3>5. QED
      BY <2>8, <3>3, <3>4
  <2>10. (\A j \in DOMAIN queue, y \in Nat :
              queue[j].kind = "stop" /\ active[Pid(queue[j].of)] = <<"trace", y>>
              => y <= queue[j].of)'
    <3> SUFFICES ASSUME NEW j \in DOMAIN queue', NEW y \in Nat, queue'[j].kind = "stop",
                        active'[Pid(queue[j].of)'] = <<"trace", y>>
                 PROVE  y <= queue'[j].of
      OBVIOUS
    <3>1. CASE queue'[j].of = x
      <4>1. active[Pid(x)] = <<"trace", y>>
        BY <2>1, <3>1 DEF Pid
      <4>2. Pid(x) \in Pids /\ <<"trace", y>> # Nothing
        BY <2>2, <2>5, ProcessTyped, NothingAssumption DEF Entity
      <4>3. Named(<<"trace", y>>, Pid(x))
        BY <4>1, <4>2 DEF TrackerInv, MapTypes
      <4>4. y \in DOMAIN procs /\ Pid(y) = Pid(x)
        BY <4>3 DEF Named, Is
      <4>5. QED
        BY <2>6, <3>1, <4>4
    <3>2. CASE j \in DOMAIN queue /\ queue'[j] = queue[j]
      <4>1. Pid(queue[j].of)' = Pid(queue[j].of)
        BY <2>1, <3>2 DEF Pid
      <4>2. QED
        BY <2>1, <2>5, <3>2, <4>1 DEF InOrder
    <3>3. QED
      BY <2>8, <3>1, <3>2
  <2>11. (\A y \in Nat :
              stopping # Nothing /\ stopping.entity = <<"trace", y>>
              => y <= stopping.of)'
    BY <2>1, <2>5 DEF InOrder
  <2>12. QED
    BY <2>9, <2>10, <2>11 DEF InOrder
<1>3. ASSUME TimePasses PROVE InOrder'
  BY <1>same, <1>3 DEF TimePasses, machine
<1>4. ASSUME StartETW PROVE InOrder'
  BY <1>same, <1>4 DEF StartETW, world
<1>5. ASSUME StopETW PROVE InOrder'
  BY <1>same, <1>5 DEF StopETW, world
<1>6. ASSUME TakeSnapshot PROVE InOrder'
  BY <1>same, <1>6 DEF TakeSnapshot, world
<1>7. ASSUME ObserveRow PROVE InOrder'
  <2>1. PICK x \in DOMAIN procs : ObservesRow(x)
    BY <1>7, RowShape DEF TrackerInv
  <2>2. Remembers(x, "snapshot")
    BY <2>1, RememberShape DEF TrackerInv, ObservesRow
  <2>3. \A z \in DOMAIN procs : Pid(z)' = Pid(z)
    BY StepsGrow DEF Growth
  <2>4. /\ WorldOK /\ InOrder
        /\ \A i \in DOMAIN queue : queue[i].of \in DOMAIN procs
    BY DEF TrackerInv, QueueTypes
  <2>5. /\ UNCHANGED <<queue, stopping>>
        /\ \A j \in DOMAIN queue : Pid(queue[j].of) \in Pids
    BY <2>1, <2>4, ProcessTyped DEF ObservesRow
  <2>6. (\A i, j \in DOMAIN queue :
              /\ i < j /\ queue[i].kind = "start" /\ queue[j].kind = "stop"
              /\ Pid(queue[i].of) = Pid(queue[j].of)
              => queue[i].of <= queue[j].of)'
    BY <2>3, <2>4, <2>5 DEF InOrder
  <2>7. (\A j \in DOMAIN queue, y \in Nat :
              queue[j].kind = "stop" /\ active[Pid(queue[j].of)] = <<"trace", y>>
              => y <= queue[j].of)'
    <3>1. \A y, p :
                p \in Pids /\ active'[p] = <<"trace", y>> => active[p] = <<"trace", y>>
      BY <2>2 DEF Remembers
    <3>2. QED
      BY <2>3, <2>4, <2>5, <3>1 DEF InOrder
  <2>8. (\A y \in Nat :
              stopping # Nothing /\ stopping.entity = <<"trace", y>>
              => y <= stopping.of)'
    BY <2>3, <2>4, <2>5 DEF InOrder
  <2>9. QED
    BY <2>6, <2>7, <2>8 DEF InOrder
<1>8. ASSUME ObserveStart PROVE InOrder'
  <2>1. PICK x \in DOMAIN procs : ObservesStart(x)
    BY <1>8, StartShape DEF TrackerInv
  <2>2. Remembers(x, "trace")
    BY <2>1, RememberShape DEF TrackerInv, ObservesStart
  <2>3. TakesRecord
    BY <2>1, TailShape DEF TrackerInv, ObservesStart
  <2>4. \A z \in DOMAIN procs : Pid(z)' = Pid(z)
    BY StepsGrow DEF Growth
  <2>5. /\ WorldOK /\ InOrder
        /\ \A i \in DOMAIN queue : queue[i].of \in DOMAIN procs
    BY DEF TrackerInv, QueueTypes
  <2>6. UNCHANGED stopping /\ \A j \in DOMAIN queue : Pid(queue[j].of) \in Pids
    BY <2>1, <2>5, ProcessTyped DEF ObservesStart
  <2>7. \A j \in DOMAIN queue' : Pid(queue[j].of)' = Pid(queue[j + 1].of)
    BY <2>3, <2>4, <2>5 DEF TakesRecord
  <2>8. (\A i, j \in DOMAIN queue :
              /\ i < j /\ queue[i].kind = "start" /\ queue[j].kind = "stop"
              /\ Pid(queue[i].of) = Pid(queue[j].of)
              => queue[i].of <= queue[j].of)'
    BY <2>3, <2>5, <2>7 DEF InOrder, TakesRecord
  <2>9. (\A j \in DOMAIN queue, y \in Nat :
              queue[j].kind = "stop" /\ active[Pid(queue[j].of)] = <<"trace", y>>
              => y <= queue[j].of)'
    <3> SUFFICES ASSUME NEW j \in DOMAIN queue', NEW y \in Nat, queue'[j].kind = "stop",
                        active'[Pid(queue[j].of)'] = <<"trace", y>>
                 PROVE  y <= queue'[j].of
      OBVIOUS
    <3>1. PICK p \in Pids : p = Pid(queue[j + 1].of)
      BY <2>3, <2>6 DEF TakesRecord
    <3>2. /\ active'[p] = <<"trace", y>> /\ queue'[j] = queue[j + 1]
          /\ j + 1 \in DOMAIN queue
      BY <2>3, <2>7, <3>1 DEF TakesRecord
    <3>3. CASE p = Pid(x)
      <4>1. y = x
        BY <2>2, <3>2, <3>3 DEF Remembers
      <4>2. QED
        BY <2>1, <2>3, <2>5, <3>1, <3>2, <3>3, <4>1
        DEF InOrder, ObservesStart, TakesRecord
    <3>4. CASE p # Pid(x)
      BY <2>2, <2>5, <3>1, <3>2, <3>4 DEF InOrder, Remembers
    <3>5. QED
      BY <3>3, <3>4
  <2>10. (\A y \in Nat :
              stopping # Nothing /\ stopping.entity = <<"trace", y>>
              => y <= stopping.of)'
    BY <2>5, <2>6 DEF InOrder
  <2>11. QED
    BY <2>8, <2>9, <2>10 DEF InOrder
<1>9. ASSUME ExitLooksUp PROVE InOrder'
  <2>1. PICK x \in DOMAIN procs : LooksUp(x)
    BY <1>9, LooksUpShape DEF TrackerInv
  <2>2. TakesRecord
    BY <2>1, TailShape DEF TrackerInv, LooksUp
  <2>3. \A z \in DOMAIN procs : Pid(z)' = Pid(z)
    BY StepsGrow DEF Growth
  <2>4. /\ WorldOK /\ InOrder
        /\ \A i \in DOMAIN queue : queue[i].of \in DOMAIN procs
    BY DEF TrackerInv, QueueTypes
  <2>5. UNCHANGED active
    BY <2>1 DEF LooksUp
  <2>6. \A j \in DOMAIN queue' : Pid(queue[j].of)' = Pid(queue[j + 1].of)
    BY <2>2, <2>3, <2>4 DEF TakesRecord
  <2>7. (\A i, j \in DOMAIN queue :
              /\ i < j /\ queue[i].kind = "start" /\ queue[j].kind = "stop"
              /\ Pid(queue[i].of) = Pid(queue[j].of)
              => queue[i].of <= queue[j].of)'
    BY <2>2, <2>4, <2>6 DEF InOrder, TakesRecord
  <2>8. (\A j \in DOMAIN queue, y \in Nat :
              queue[j].kind = "stop" /\ active[Pid(queue[j].of)] = <<"trace", y>>
              => y <= queue[j].of)'
    BY <2>2, <2>4, <2>5, <2>6 DEF InOrder, TakesRecord
  <2>9. (\A y \in Nat :
              stopping # Nothing /\ stopping.entity = <<"trace", y>>
              => y <= stopping.of)'
    <3>1. \A y : <<"pid", Pid(x)>> # <<"trace", y>>
      OBVIOUS
    <3>2. QED
      BY <2>1, <2>2, <2>4, <3>1 DEF InOrder, LooksUp, TakesRecord
  <2>10. QED
    BY <2>7, <2>8, <2>9 DEF InOrder
<1>10. ASSUME ExitForgets PROVE InOrder'
  <2>1. PICK x \in DOMAIN procs : Forgets(x)
    BY <1>10, ForgetsShape DEF TrackerInv
  <2>2. \A z \in DOMAIN procs : Pid(z)' = Pid(z)
    BY StepsGrow DEF Growth
  <2>3. /\ WorldOK /\ InOrder
        /\ \A i \in DOMAIN queue : queue[i].of \in DOMAIN procs
    BY DEF TrackerInv, QueueTypes
  <2>4. UNCHANGED queue /\ \A j \in DOMAIN queue : Pid(queue[j].of) \in Pids
    BY <2>1, <2>3, ProcessTyped DEF Forgets
  <2>5. (\A i, j \in DOMAIN queue :
              /\ i < j /\ queue[i].kind = "start" /\ queue[j].kind = "stop"
              /\ Pid(queue[i].of) = Pid(queue[j].of)
              => queue[i].of <= queue[j].of)'
    BY <2>2, <2>3, <2>4 DEF InOrder
  <2>6. (\A j \in DOMAIN queue, y \in Nat :
              queue[j].kind = "stop" /\ active[Pid(queue[j].of)] = <<"trace", y>>
              => y <= queue[j].of)'
    <3>1. \A y \in Nat, p \in Pids :
                active'[p] = <<"trace", y>> => active[p] = <<"trace", y>>
      BY <2>1, NothingAssumption DEF Entity, Forgets
    <3>2. QED
      BY <2>2, <2>3, <2>4, <3>1 DEF InOrder
  <2>7. (\A y \in Nat :
              stopping # Nothing /\ stopping.entity = <<"trace", y>>
              => y <= stopping.of)'
    BY <2>1, <2>3 DEF InOrder, Forgets
  <2>8. QED
    BY <2>5, <2>6, <2>7 DEF InOrder
<1>11. ASSUME ExitRetains PROVE InOrder'
  <2>1. UNCHANGED <<procs, queue, active>> /\ stopping' = Nothing
    BY <1>11 DEF ExitRetains, world
  <2>2. QED
    BY <2>1 DEF TrackerInv, InOrder, Pid
<1>12. CASE UNCHANGED trackerVars
  BY <1>same, <1>12 DEF trackerVars, machine, world
<1> QED
  BY <1>1, <1>2, <1>3, <1>4, <1>5, <1>6, <1>7, <1>8, <1>9, <1>10, <1>11, <1>12
  DEF TrackerNext

\* The active processes.
LEMMA ActiveStays == TrackerInv /\ [TrackerNext]_trackerVars => ActiveOK'
<1> SUFFICES ASSUME TrackerInv, [TrackerNext]_trackerVars PROVE ActiveOK'
  OBVIOUS
<1>same. CASE UNCHANGED <<procs, active, known, late, stopping, ended>>
  BY <1>same
  DEF TrackerInv, ActiveOK, Is, Overtaken, Stopped, Moving, Unended, Pid
<1>1. ASSUME NEW p \in Candidates,
             NEW q \in IF running = {} THEN {0} ELSE running, Spawn(p, q)
      PROVE  ActiveOK'
  <2>1. PICK n : n = Len(procs) + 1
    OBVIOUS
  <2>2. SpawnsAs(n, p)
    BY <1>1, <2>1, SpawnShape DEF TrackerInv
  <2>3. Growth
    BY StepsGrow
  <2>4. /\ \A z \in DOMAIN procs : Overtaken(z) => Overtaken(z)'
        /\ \A e, r : Named(e, r) => Named(e, r)'
    BY <2>3, NamesStay DEF TrackerInv
  <2>5. /\ WorldOK /\ MapTypes /\ StopsOK /\ ActiveOK
        /\ \A z \in DOMAIN procs : z \in Nat /\ Pid(z) \in Pids
    BY ProcessTyped DEF TrackerInv
  <2>6. /\ \A z \in DOMAIN procs : Pid(z)' = Pid(z)
        /\ late \subseteq late' /\ known \subseteq DOMAIN procs
        /\ late \subseteq DOMAIN procs
    BY <2>3, <2>5 DEF Growth, MapTypes
  <2>7. \A z : Stopped(z)' <=> Stopped(z)
    BY <2>2 DEF Stopped, Moving, Unended, SpawnsAs
  <2>8. (\A z \in known \ late, y \in Nat :
              Is(active[Pid(z)], y) /\ y < z => Overtaken(z))'
    BY <2>2, <2>4, <2>5, <2>6 DEF ActiveOK, SpawnsAs
  <2>9. (\A r \in Pids, y \in Nat : Is(active[r], y) /\ Stopped(y) => y \in late)'
    BY <2>2, <2>5, <2>7 DEF ActiveOK, SpawnsAs
  <2>10. (\A v \in known : active[Pid(v)] = Nothing =>
              \/ Overtaken(v)
              \/ \E z \in DOMAIN procs : z >= v /\ Pid(z) = Pid(v) /\ Stopped(z))'
    <3> SUFFICES ASSUME NEW v \in known', active'[Pid(v)'] = Nothing
                 PROVE  \/ Overtaken(v)'
                        \/ \E z \in DOMAIN procs' :
                                 z >= v /\ Pid(z)' = Pid(v)' /\ Stopped(z)'
      OBVIOUS
    <3>1. /\ v \in DOMAIN procs /\ v \in known /\ Pid(v)' = Pid(v)
          /\ active[Pid(v)] = Nothing
      BY <2>2, <2>6 DEF SpawnsAs
    <3>2. CASE Overtaken(v)
      BY <2>4, <3>1, <3>2
    <3>3. ASSUME NEW z \in DOMAIN procs, z >= v, Pid(z) = Pid(v), Stopped(z)
          PROVE  \E u \in DOMAIN procs' : u >= v /\ Pid(u)' = Pid(v)' /\ Stopped(u)'
      BY <2>2, <2>6, <2>7, <3>1, <3>3 DEF SpawnsAs
    <3>4. QED
      BY <2>5, <3>1, <3>2, <3>3 DEF ActiveOK
  <2>11. QED
    BY <2>8, <2>9, <2>10 DEF ActiveOK
<1>2. ASSUME NEW x \in running, Exit(x) PROVE ActiveOK'
  BY <1>same, <1>2 DEF Exit, Trace, history
<1>3. ASSUME TimePasses PROVE ActiveOK'
  BY <1>same, <1>3 DEF TimePasses, machine, history
<1>4. ASSUME StartETW PROVE ActiveOK'
  BY <1>same, <1>4 DEF StartETW, world, history
<1>5. ASSUME StopETW PROVE ActiveOK'
  BY <1>same, <1>5 DEF StopETW, world, history
<1>6. ASSUME TakeSnapshot PROVE ActiveOK'
  BY <1>same, <1>6 DEF TakeSnapshot, world, history
<1>7. ASSUME ObserveRow PROVE ActiveOK'
  <2>1. PICK x \in DOMAIN procs : ObservesRow(x)
    BY <1>7, RowShape DEF TrackerInv
  <2>2. Remembers(x, "snapshot")
    BY <2>1, RememberShape DEF TrackerInv, ObservesRow
  <2>3. Growth
    BY StepsGrow
  <2>4. /\ \A z \in DOMAIN procs : Overtaken(z) => Overtaken(z)'
        /\ \A e, r : Named(e, r) => Named(e, r)'
    BY <2>3, NamesStay DEF TrackerInv
  <2>5. /\ WorldOK /\ MapTypes /\ StopsOK /\ ActiveOK
        /\ \A z \in DOMAIN procs : z \in Nat /\ Pid(z) \in Pids
    BY ProcessTyped DEF TrackerInv
  <2>6. /\ \A z \in DOMAIN procs : Pid(z)' = Pid(z)
        /\ late \subseteq late' /\ known \subseteq DOMAIN procs
        /\ late \subseteq DOMAIN procs
    BY <2>3, <2>5 DEF Growth, MapTypes
  <2>7. /\ UNCHANGED <<procs, running, stopping, ended>>
        /\ \A z : Stopped(z)' <=> Stopped(z)
    BY <2>1 DEF world, Stopped, Moving, Unended, ObservesRow
  <2>8. (\A z \in known \ late, y \in Nat :
              Is(active[Pid(z)], y) /\ y < z => Overtaken(z))'
    <3> SUFFICES ASSUME NEW z \in known' \ late', NEW y \in Nat,
                        Is(active'[Pid(z)'], y), y < z
                 PROVE  Overtaken(z)'
      OBVIOUS
    <3>1. z \in DOMAIN procs /\ Pid(z)' = Pid(z) /\ Pid(z) \in Pids
      BY <2>2, <2>5, <2>6 DEF Remembers
    <3>2. CASE Pid(z) = Pid(x)
      <4>1. y = x
        BY <2>2, <3>1, <3>2 DEF Is, Remembers
      <4>2. x \notin running
        BY <2>5, <3>1, <3>2, <4>1 DEF WorldOK
      <4>3. x \in late' /\ Pid(x)' = Pid(z)'
        BY <2>2, <2>6, <3>2, <4>2 DEF Remembers
      <4>4. QED
        BY <4>1, <4>3 DEF Overtaken
    <3>3. CASE Pid(z) # Pid(x)
      <4>1. z \in known \ late /\ Is(active[Pid(z)], y)
        BY <2>2, <3>1, <3>3 DEF Remembers
      <4>2. Overtaken(z)
        BY <2>5, <4>1 DEF ActiveOK
      <4>3. QED
        BY <2>4, <3>1, <4>2
    <3>4. QED
      BY <3>2, <3>3
  <2>9. (\A p \in Pids, y \in Nat : Is(active[p], y) /\ Stopped(y) => y \in late)'
    <3> SUFFICES ASSUME NEW p \in Pids, NEW y \in Nat, Is(active'[p], y), Stopped(y)
                 PROVE  y \in late'
      BY <2>7
    <3>1. CASE p = Pid(x)
      <4>1. y = x
        BY <2>2, <3>1 DEF Is, Remembers
      <4>2. x \notin running
        BY <2>5, <4>1 DEF StopsOK, Stopped, Moving, Stops
      <4>3. QED
        BY <2>2, <4>1, <4>2 DEF Remembers
    <3>2. CASE p # Pid(x)
      BY <2>2, <2>5, <3>2 DEF ActiveOK, Remembers
    <3>3. QED
      BY <3>1, <3>2
  <2>10. (\A q \in known : active[Pid(q)] = Nothing =>
              \/ Overtaken(q)
              \/ \E z \in DOMAIN procs : z >= q /\ Pid(z) = Pid(q) /\ Stopped(z))'
    <3> SUFFICES ASSUME NEW q \in known', active'[Pid(q)'] = Nothing
                 PROVE  \/ Overtaken(q)'
                        \/ \E z \in DOMAIN procs' :
                                 z >= q /\ Pid(z)' = Pid(q)' /\ Stopped(z)'
      OBVIOUS
    <3>1. q \in DOMAIN procs /\ Pid(q)' = Pid(q) /\ Pid(q) \in Pids
      BY <2>2, <2>5, <2>6 DEF Remembers
    <3>2. Pid(q) # Pid(x) /\ q \in known /\ active[Pid(q)] = Nothing
      BY <2>2, <3>1 DEF Remembers
    <3>3. CASE Overtaken(q)
      BY <2>4, <3>1, <3>3
    <3>4. ASSUME NEW z \in DOMAIN procs, z >= q, Pid(z) = Pid(q), Stopped(z)
          PROVE  \E v \in DOMAIN procs' : v >= q /\ Pid(v)' = Pid(q)' /\ Stopped(v)'
      BY <2>6, <2>7, <3>1, <3>4
    <3>5. QED
      BY <2>5, <3>2, <3>3, <3>4 DEF ActiveOK
  <2>11. QED
    BY <2>8, <2>9, <2>10 DEF ActiveOK
<1>8. ASSUME ObserveStart PROVE ActiveOK'
  <2>1. PICK x \in DOMAIN procs : ObservesStart(x)
    BY <1>8, StartShape DEF TrackerInv
  <2>2. Remembers(x, "trace")
    BY <2>1, RememberShape DEF TrackerInv, ObservesStart
  <2>3. Growth
    BY StepsGrow
  <2>4. /\ \A z \in DOMAIN procs : Overtaken(z) => Overtaken(z)'
        /\ \A e, r : Named(e, r) => Named(e, r)'
    BY <2>3, NamesStay DEF TrackerInv
  <2>5. /\ WorldOK /\ MapTypes /\ StopsOK /\ ActiveOK
        /\ \A z \in DOMAIN procs : z \in Nat /\ Pid(z) \in Pids
    BY ProcessTyped DEF TrackerInv
  <2>6. /\ \A z \in DOMAIN procs : Pid(z)' = Pid(z)
        /\ late \subseteq late' /\ known \subseteq DOMAIN procs
        /\ late \subseteq DOMAIN procs
    BY <2>3, <2>5 DEF Growth, MapTypes
  <2>7. /\ UNCHANGED <<procs, running, stopping, ended>>
        /\ \A z : Stopped(z)' <=> Stopped(z)
    BY <2>1 DEF world, Stopped, Moving, Unended, ObservesStart
  <2>8. (\A z \in known \ late, y \in Nat :
              Is(active[Pid(z)], y) /\ y < z => Overtaken(z))'
    <3> SUFFICES ASSUME NEW z \in known' \ late', NEW y \in Nat,
                        Is(active'[Pid(z)'], y), y < z
                 PROVE  Overtaken(z)'
      OBVIOUS
    <3>1. z \in DOMAIN procs /\ Pid(z)' = Pid(z) /\ Pid(z) \in Pids
      BY <2>2, <2>5, <2>6 DEF Remembers
    <3>2. CASE Pid(z) = Pid(x)
      <4>1. y = x
        BY <2>2, <3>1, <3>2 DEF Is, Remembers
      <4>2. x \notin running
        BY <2>5, <3>1, <3>2, <4>1 DEF WorldOK
      <4>3. x \in late' /\ Pid(x)' = Pid(z)'
        BY <2>2, <2>6, <3>2, <4>2 DEF Remembers
      <4>4. QED
        BY <4>1, <4>3 DEF Overtaken
    <3>3. CASE Pid(z) # Pid(x)
      <4>1. z \in known \ late /\ Is(active[Pid(z)], y)
        BY <2>2, <3>1, <3>3 DEF Remembers
      <4>2. Overtaken(z)
        BY <2>5, <4>1 DEF ActiveOK
      <4>3. QED
        BY <2>4, <3>1, <4>2
    <3>4. QED
      BY <3>2, <3>3
  <2>9. (\A p \in Pids, y \in Nat : Is(active[p], y) /\ Stopped(y) => y \in late)'
    <3> SUFFICES ASSUME NEW p \in Pids, NEW y \in Nat, Is(active'[p], y), Stopped(y)
                 PROVE  y \in late'
      BY <2>7
    <3>1. CASE p = Pid(x)
      <4>1. y = x
        BY <2>2, <3>1 DEF Is, Remembers
      <4>2. x \notin running
        BY <2>5, <4>1 DEF StopsOK, Stopped, Moving, Stops
      <4>3. QED
        BY <2>2, <4>1, <4>2 DEF Remembers
    <3>2. CASE p # Pid(x)
      BY <2>2, <2>5, <3>2 DEF ActiveOK, Remembers
    <3>3. QED
      BY <3>1, <3>2
  <2>10. (\A q \in known : active[Pid(q)] = Nothing =>
              \/ Overtaken(q)
              \/ \E z \in DOMAIN procs : z >= q /\ Pid(z) = Pid(q) /\ Stopped(z))'
    <3> SUFFICES ASSUME NEW q \in known', active'[Pid(q)'] = Nothing
                 PROVE  \/ Overtaken(q)'
                        \/ \E z \in DOMAIN procs' :
                                 z >= q /\ Pid(z)' = Pid(q)' /\ Stopped(z)'
      OBVIOUS
    <3>1. q \in DOMAIN procs /\ Pid(q)' = Pid(q) /\ Pid(q) \in Pids
      BY <2>2, <2>5, <2>6 DEF Remembers
    <3>2. Pid(q) # Pid(x) /\ q \in known /\ active[Pid(q)] = Nothing
      BY <2>2, <3>1 DEF Remembers
    <3>3. CASE Overtaken(q)
      BY <2>4, <3>1, <3>3
    <3>4. ASSUME NEW z \in DOMAIN procs, z >= q, Pid(z) = Pid(q), Stopped(z)
          PROVE  \E v \in DOMAIN procs' : v >= q /\ Pid(v)' = Pid(q)' /\ Stopped(v)'
      BY <2>6, <2>7, <3>1, <3>4
    <3>5. QED
      BY <2>5, <3>2, <3>3, <3>4 DEF ActiveOK
  <2>11. QED
    BY <2>8, <2>9, <2>10 DEF ActiveOK
<1>9. ASSUME ExitLooksUp PROVE ActiveOK'
  <2>1. PICK x \in DOMAIN procs : LooksUp(x)
    BY <1>9, LooksUpShape DEF TrackerInv
  <2>2. Growth
    BY StepsGrow
  <2>3. /\ \A z \in DOMAIN procs : Overtaken(z) => Overtaken(z)'
        /\ \A e, r : Named(e, r) => Named(e, r)'
    BY <2>2, NamesStay DEF TrackerInv
  <2>4. /\ WorldOK /\ MapTypes /\ StopsOK /\ ActiveOK
        /\ \A z \in DOMAIN procs : z \in Nat /\ Pid(z) \in Pids
    BY ProcessTyped DEF TrackerInv
  <2>5. /\ \A z \in DOMAIN procs : Pid(z)' = Pid(z)
        /\ late \subseteq late' /\ known \subseteq DOMAIN procs
        /\ late \subseteq DOMAIN procs
    BY <2>2, <2>4 DEF Growth, MapTypes
  <2>6. UNCHANGED <<procs, active, known, late, ended>>
    BY <2>1 DEF world, history, LooksUp
  <2>7. \A z : Stopped(z)' <=> Stopped(z)
    BY <2>1, <2>6 DEF Stopped, Moving, Unended, LooksUp
  <2>8. QED
    BY <2>4, <2>6, <2>7 DEF ActiveOK, Is, Overtaken, Pid
<1>10. ASSUME ExitForgets PROVE ActiveOK'
  <2>1. PICK x \in DOMAIN procs : Forgets(x)
    BY <1>10, ForgetsShape DEF TrackerInv
  <2>2. Growth
    BY StepsGrow
  <2>3. /\ \A z \in DOMAIN procs : Overtaken(z) => Overtaken(z)'
        /\ \A e, r : Named(e, r) => Named(e, r)'
    BY <2>2, NamesStay DEF TrackerInv
  <2>4. /\ WorldOK /\ MapTypes /\ StopsOK /\ ActiveOK
        /\ \A z \in DOMAIN procs : z \in Nat /\ Pid(z) \in Pids
    BY ProcessTyped DEF TrackerInv
  <2>5. /\ \A z \in DOMAIN procs : Pid(z)' = Pid(z)
        /\ late \subseteq late' /\ known \subseteq DOMAIN procs
        /\ late \subseteq DOMAIN procs
    BY <2>2, <2>4 DEF Growth, MapTypes
  <2>6. UNCHANGED <<procs, known, ended>>
    BY <2>1 DEF world, Forgets
  <2>7. /\ \A z : Stopped(z)' <=> Stopped(z) \/ z = x
        /\ \A y : ~Is(Nothing, y) \/ y \notin Nat
    BY <2>1, <2>6, NothingAssumption
    DEF Stopped, Moving, Unended, Is, Entity, Forgets
  <2>8. (\A z \in known \ late, y \in Nat :
              Is(active[Pid(z)], y) /\ y < z => Overtaken(z))'
    <3> SUFFICES ASSUME NEW z \in known' \ late', NEW y \in Nat,
                        Is(active'[Pid(z)'], y), y < z
                 PROVE  Overtaken(z)'
      OBVIOUS
    <3>1. /\ z \in known \ late /\ Pid(z)' = Pid(z) /\ Pid(z) \in Pids
          /\ z \in DOMAIN procs
      BY <2>4, <2>5, <2>6
    <3>2. Pid(z) # Pid(x)
      BY <2>1, <2>7, <3>1 DEF Forgets
    <3>3. Overtaken(z)
      BY <2>1, <2>4, <3>1, <3>2 DEF ActiveOK, Forgets
    <3>4. QED
      BY <2>3, <3>1, <3>3
  <2>9. (\A p \in Pids, y \in Nat : Is(active[p], y) /\ Stopped(y) => y \in late)'
    <3> SUFFICES ASSUME NEW p \in Pids, NEW y \in Nat, Is(active'[p], y), Stopped(y)'
                 PROVE  y \in late'
      OBVIOUS
    <3>1. p # Pid(x)
      BY <2>1, <2>7 DEF Forgets
    <3>2. Is(active[p], y)
      BY <2>1, <3>1 DEF Forgets
    <3>3. Named(active[p], p)
      BY <2>4, <2>7, <3>2 DEF MapTypes
    <3>4. Pid(y) = p
      BY <3>2, <3>3 DEF Named, Is
    <3>5. Stopped(y)
      BY <2>7, <3>1, <3>4
    <3>6. QED
      BY <2>4, <2>5, <3>2, <3>5 DEF ActiveOK
  <2>10. (\A q \in known : active[Pid(q)] = Nothing =>
              \/ Overtaken(q)
              \/ \E z \in DOMAIN procs : z >= q /\ Pid(z) = Pid(q) /\ Stopped(z))'
    <3> SUFFICES ASSUME NEW q \in known', active'[Pid(q)'] = Nothing
                 PROVE  \/ Overtaken(q)'
                        \/ \E z \in DOMAIN procs' :
                                 z >= q /\ Pid(z)' = Pid(q)' /\ Stopped(z)'
      OBVIOUS
    <3>1. q \in known /\ q \in DOMAIN procs /\ Pid(q)' = Pid(q) /\ Pid(q) \in Pids
      BY <2>4, <2>5, <2>6
    <3>2. CASE Pid(q) = Pid(x) /\ q <= x
      <4>1. x \in DOMAIN procs' /\ Pid(x)' = Pid(q)' /\ Stopped(x)' /\ x >= q
        BY <2>4, <2>5, <2>6, <2>7, <3>1, <3>2
      <4>2. QED
        BY <4>1
    <3>3. CASE Pid(q) = Pid(x) /\ q > x
      <4>1. x \in late' /\ Pid(x)' = Pid(q)'
        BY <2>1, <2>5, <3>1, <3>3 DEF Forgets
      <4>2. QED
        BY <3>3, <4>1 DEF Overtaken
    <3>4. CASE Pid(q) # Pid(x)
      <4>1. active[Pid(q)] = Nothing
        BY <2>1, <3>1, <3>4 DEF Forgets
      <4>2. CASE Overtaken(q)
        BY <2>3, <3>1, <4>2
      <4>3. ASSUME NEW z \in DOMAIN procs, z >= q, Pid(z) = Pid(q), Stopped(z)
            PROVE  \E v \in DOMAIN procs' :
                         v >= q /\ Pid(v)' = Pid(q)' /\ Stopped(v)'
        BY <2>5, <2>6, <2>7, <3>1, <4>3
      <4>4. QED
        BY <2>4, <3>1, <4>1, <4>2, <4>3 DEF ActiveOK
    <3>5. QED
      BY <2>4, <3>1, <3>2, <3>3, <3>4
  <2>11. QED
    BY <2>8, <2>9, <2>10 DEF ActiveOK
<1>11. ASSUME ExitRetains PROVE ActiveOK'
  <2>1. PICK x \in DOMAIN procs, n \in Nat : RetainsAs(x, n)
    BY <1>11, RetainsShape DEF TrackerInv
  <2>2. /\ stopping # Nothing /\ stopping.of = x /\ stopping.forgotten
        /\ stopping' = Nothing
        /\ DOMAIN ended' = DOMAIN ended \cup {n} /\ n \notin DOMAIN ended
        /\ \A i \in DOMAIN ended : i < n /\ ended'[i] = ended[i]
        /\ ended'[n].of = x /\ n \in Nat /\ DOMAIN ended \subseteq Nat
        /\ LogOK(ended') /\ KeptOK(retained', ended')
        /\ \A i \in DOMAIN retained' :
              \/ i \in DOMAIN retained /\ retained'[i] = retained[i]
              \/ i = n /\ retained'[i].entity = stopping.entity
        /\ UNCHANGED <<world, etw, queue, snapshot, active, known, late>>
    BY <2>1 DEF RetainsAs
  <2>3. UNCHANGED procs
    BY <2>2 DEF world
  <2>4. /\ WorldOK /\ MapTypes /\ StopsOK /\ ActiveOK
        /\ \A z \in DOMAIN procs : z \in Nat /\ Pid(z) \in Pids
    BY ProcessTyped DEF TrackerInv
  <2>5. /\ \A z \in DOMAIN procs : Pid(z)' = Pid(z)
        /\ late \subseteq late' /\ known \subseteq DOMAIN procs
        /\ late \subseteq DOMAIN procs
    BY <2>2, <2>3, <2>4 DEF Pid, MapTypes
  <2>6. UNCHANGED <<active, known, late>>
    BY <2>2
  <2>7. \A z : Stopped(z)' <=> Stopped(z)
    BY <2>2 DEF Stopped, Moving, Unended
  <2>8. QED
    BY <2>3, <2>4, <2>6, <2>7 DEF ActiveOK, Is, Overtaken, Pid
<1>12. CASE UNCHANGED trackerVars
  BY <1>same, <1>12 DEF trackerVars, machine, world, history
<1> QED
  BY <1>1, <1>2, <1>3, <1>4, <1>5, <1>6, <1>7, <1>8, <1>9, <1>10, <1>11, <1>12
  DEF TrackerNext

\* What a stop has found stays true, whatever is observed meanwhile.
LEMMA FoundStays ==
    ASSUME WorldOK, MapTypes, Growth, NEW x \in DOMAIN procs, x \notin running,
           \A y \in Nat : Unended(y) => Unended(y)',
           NEW e, FoundOK(x, e)
    PROVE  FoundOK(x, e)'
<1>1. /\ \A z \in DOMAIN procs : Overtaken(z) => Overtaken(z)'
      /\ \A z \in DOMAIN procs :
               z \in DOMAIN procs' /\ Pid(z)' = Pid(z) /\ z \in Nat
      /\ \A z \in known' \ late' :
               z \in DOMAIN procs /\ (z \in known \ late \/ z \in running)
      /\ \A z \in DOMAIN procs : Pid(z) = Pid(x) /\ z <= x => z \notin running
  <2>1. \A z \in DOMAIN procs : z \in Nat
    BY ProcessTyped
  <2>2. \A z \in DOMAIN procs : Pid(z) = Pid(x) /\ z <= x => z \notin running
    BY <2>1 DEF WorldOK
  <2>3. QED
    BY <2>1, <2>2, NamesStay DEF Growth
<1>2. Unseen(x) => Unseen(x)'
  BY <1>1 DEF Unseen
<1>3. ASSUME NEW y \in Nat, Is(e, y), y < x
      PROVE  Overtaken(x)' \/ (Unseen(x)' /\ Unended(y)')
  BY <1>1, <1>2, <1>3 DEF FoundOK
<1>4. ASSUME NEW y \in Nat, Is(e, y), NEW q \in known' \ late',
             Pid(q)' = Pid(x)', y < q, q <= x
      PROVE  Overtaken(q)'
  <2>1. q \in DOMAIN procs /\ Pid(q) = Pid(x) /\ q \in known \ late
    BY <1>1, <1>4
  <2>2. Overtaken(q)
    BY <1>4, <2>1 DEF FoundOK
  <2>3. QED
    BY <1>1, <2>1, <2>2
<1>5. ASSUME e = <<"pid", Pid(x)'>>,
             \A y \in DOMAIN procs' : Pid(y)' = Pid(x)' => y = x
      PROVE  Unseen(x)'
  <2>1. e = <<"pid", Pid(x)>> /\ \A y \in DOMAIN procs : Pid(y) = Pid(x) => y = x
    BY <1>1, <1>5
  <2>2. QED
    BY <1>2, <2>1 DEF FoundOK
<1>6. QED
  BY <1>3, <1>4, <1>5 DEF FoundOK

\* So does what the retained exits have kept.
LEMMA EndedKept ==
    ASSUME TrackerInv, Growth, ended' = ended, DOMAIN retained' \subseteq DOMAIN retained,
           \A i \in DOMAIN retained' : retained'[i] = retained[i]
    PROVE  EndedOK'
<1>1. /\ \A z \in DOMAIN procs : Overtaken(z) => Overtaken(z)'
      /\ \A z \in DOMAIN procs : Pid(z)' = Pid(z) /\ z \in Nat
      /\ \A z \in known' \ late' :
               z \in DOMAIN procs /\ (z \in known \ late \/ z \in running)
  BY NamesStay, ProcessTyped DEF Growth, TrackerInv
<1>2. \A i \in DOMAIN ended :
            ended[i].of \in DOMAIN procs /\ ended[i].of \notin running
  BY DEF TrackerInv, ExitsOK, LogOK, StopsOK, Unended
<1>3. /\ DOMAIN retained \subseteq DOMAIN ended /\ EndedOK /\ WorldOK
      /\ late \subseteq late'
  BY DEF TrackerInv, ExitsOK, KeptOK, Growth
<1>4. \A i \in DOMAIN ended : Pid(ended[i].of)' = Pid(ended[i].of)
  BY <1>1, <1>2
<1>5. (\A k, i \in DOMAIN ended :
          k < i /\ Pid(ended[k].of) = Pid(ended[i].of) /\ ended[k].of > ended[i].of
          => ended[i].of \in late)'
  BY <1>3, <1>4 DEF EndedOK
<1>6. ASSUME NEW i \in DOMAIN retained', NEW y \in Nat, NEW q \in known' \ late',
             Is(retained'[i].entity, y), Pid(q)' = Pid(ended[i].of)',
             y < q, q <= ended[i].of
      PROVE  Overtaken(q)'
  <2>1. /\ q \in DOMAIN procs /\ i \in DOMAIN retained /\ i \in DOMAIN ended
        /\ Pid(q) = Pid(ended[i].of) /\ Is(retained[i].entity, y)
    BY <1>1, <1>3, <1>4, <1>6
  <2>2. q \notin running
    BY <1>1, <1>2, <1>3, <1>6, <2>1 DEF WorldOK
  <2>3. q \in known \ late
    BY <1>1, <2>2
  <2>4. Overtaken(q)
    BY <1>3, <1>6, <2>1, <2>3 DEF EndedOK
  <2>5. QED
    BY <1>1, <2>1, <2>4
<1>7. QED
  BY <1>5, <1>6 DEF EndedOK

\* What the stop under way has found.
LEMMA StoppingStays == TrackerInv /\ [TrackerNext]_trackerVars => StoppingOK'
<1> SUFFICES ASSUME TrackerInv, [TrackerNext]_trackerVars PROVE StoppingOK'
  OBVIOUS
<1>same. CASE UNCHANGED <<procs, known, late, stopping, ended>>
  BY <1>same
  DEF TrackerInv, StoppingOK, FoundOK, Belated, Is, Overtaken, Unseen,
      Unended, Pid
<1>1. ASSUME NEW p \in Candidates,
             NEW q \in IF running = {} THEN {0} ELSE running, Spawn(p, q)
      PROVE  StoppingOK'
  <2>1. PICK n : n = Len(procs) + 1
    OBVIOUS
  <2>2. SpawnsAs(n, p)
    BY <1>1, <2>1, SpawnShape DEF TrackerInv
  <2>3. /\ WorldOK /\ MapTypes /\ StopsOK /\ StoppingOK /\ Growth
        /\ stopping # Nothing => stopping.of \in DOMAIN procs
    BY StepsGrow DEF TrackerInv, QueueTypes
  <2>4. /\ \A y : Unended(y) => Unended(y)'
        /\ \A z \in DOMAIN procs : Belated(z) => Belated(z)'
    <3>1. \A i \in DOMAIN ended : ended[i].of \in DOMAIN procs
      BY DEF TrackerInv, ExitsOK, LogOK
    <3>2. /\ ended' = ended /\ late \subseteq late'
          /\ \A z \in DOMAIN procs : Pid(z)' = Pid(z)
      BY <2>2, <2>3 DEF Growth, SpawnsAs
    <3>3. QED
      BY <3>1, <3>2 DEF Unended, Belated
  <2>5. ASSUME stopping # Nothing
        PROVE  /\ FoundOK(stopping.of, stopping.entity)'
               /\ stopping.forgotten => Belated(stopping.of)'
    <3>1. PICK z, e : z = stopping.of /\ e = stopping.entity
      OBVIOUS
    <3>2. z \in DOMAIN procs /\ z \notin running
      BY <2>3, <2>5, <3>1 DEF StopsOK, Stops
    <3>3. FoundOK(z, e) /\ (stopping.forgotten => Belated(z))
      BY <2>3, <2>5, <3>1 DEF StoppingOK
    <3>4. FoundOK(z, e)' /\ (stopping.forgotten => Belated(z)')
      BY <2>3, <2>4, <3>2, <3>3, FoundStays
    <3>5. stopping' = stopping
      BY <2>2 DEF SpawnsAs
    <3>6. QED
      BY <3>1, <3>4, <3>5 DEF FoundOK, Belated
  <2>6. QED
    BY <2>2, <2>5 DEF StoppingOK, SpawnsAs
<1>2. ASSUME NEW x \in running, Exit(x) PROVE StoppingOK'
  BY <1>same, <1>2 DEF Exit, Trace, history
<1>3. ASSUME TimePasses PROVE StoppingOK'
  BY <1>same, <1>3 DEF TimePasses, machine, history
<1>4. ASSUME StartETW PROVE StoppingOK'
  BY <1>same, <1>4 DEF StartETW, world, history
<1>5. ASSUME StopETW PROVE StoppingOK'
  BY <1>same, <1>5 DEF StopETW, world, history
<1>6. ASSUME TakeSnapshot PROVE StoppingOK'
  BY <1>same, <1>6 DEF TakeSnapshot, world, history
<1>7. ASSUME ObserveRow PROVE StoppingOK'
  <2>1. PICK x \in DOMAIN procs : ObservesRow(x)
    BY <1>7, RowShape DEF TrackerInv
  <2>2. /\ WorldOK /\ MapTypes /\ StopsOK /\ StoppingOK /\ Growth
        /\ stopping # Nothing => stopping.of \in DOMAIN procs
    BY StepsGrow DEF TrackerInv, QueueTypes
  <2>3. /\ \A y : Unended(y) => Unended(y)'
        /\ \A z \in DOMAIN procs : Belated(z) => Belated(z)'
    <3>1. \A i \in DOMAIN ended : ended[i].of \in DOMAIN procs
      BY DEF TrackerInv, ExitsOK, LogOK
    <3>2. /\ ended' = ended /\ late \subseteq late'
          /\ \A z \in DOMAIN procs : Pid(z)' = Pid(z)
      BY <2>1, <2>2 DEF Growth, ObservesRow
    <3>3. QED
      BY <3>1, <3>2 DEF Unended, Belated
  <2>4. ASSUME stopping # Nothing
        PROVE  /\ FoundOK(stopping.of, stopping.entity)'
               /\ stopping.forgotten => Belated(stopping.of)'
    <3>1. PICK z, e : z = stopping.of /\ e = stopping.entity
      OBVIOUS
    <3>2. z \in DOMAIN procs /\ z \notin running
      BY <2>2, <2>4, <3>1 DEF StopsOK, Stops
    <3>3. FoundOK(z, e) /\ (stopping.forgotten => Belated(z))
      BY <2>2, <2>4, <3>1 DEF StoppingOK
    <3>4. FoundOK(z, e)' /\ (stopping.forgotten => Belated(z)')
      BY <2>2, <2>3, <3>2, <3>3, FoundStays
    <3>5. stopping' = stopping
      BY <2>1 DEF ObservesRow
    <3>6. QED
      BY <3>1, <3>4, <3>5 DEF FoundOK, Belated
  <2>5. QED
    BY <2>1, <2>4 DEF StoppingOK, ObservesRow
<1>8. ASSUME ObserveStart PROVE StoppingOK'
  <2>1. PICK x \in DOMAIN procs : ObservesStart(x)
    BY <1>8, StartShape DEF TrackerInv
  <2>2. /\ WorldOK /\ MapTypes /\ StopsOK /\ StoppingOK /\ Growth
        /\ stopping # Nothing => stopping.of \in DOMAIN procs
    BY StepsGrow DEF TrackerInv, QueueTypes
  <2>3. /\ \A y : Unended(y) => Unended(y)'
        /\ \A z \in DOMAIN procs : Belated(z) => Belated(z)'
    <3>1. \A i \in DOMAIN ended : ended[i].of \in DOMAIN procs
      BY DEF TrackerInv, ExitsOK, LogOK
    <3>2. /\ ended' = ended /\ late \subseteq late'
          /\ \A z \in DOMAIN procs : Pid(z)' = Pid(z)
      BY <2>1, <2>2 DEF Growth, ObservesStart
    <3>3. QED
      BY <3>1, <3>2 DEF Unended, Belated
  <2>4. ASSUME stopping # Nothing
        PROVE  /\ FoundOK(stopping.of, stopping.entity)'
               /\ stopping.forgotten => Belated(stopping.of)'
    <3>1. PICK z, e : z = stopping.of /\ e = stopping.entity
      OBVIOUS
    <3>2. z \in DOMAIN procs /\ z \notin running
      BY <2>2, <2>4, <3>1 DEF StopsOK, Stops
    <3>3. FoundOK(z, e) /\ (stopping.forgotten => Belated(z))
      BY <2>2, <2>4, <3>1 DEF StoppingOK
    <3>4. FoundOK(z, e)' /\ (stopping.forgotten => Belated(z)')
      BY <2>2, <2>3, <3>2, <3>3, FoundStays
    <3>5. stopping' = stopping
      BY <2>1 DEF ObservesStart
    <3>6. QED
      BY <3>1, <3>4, <3>5 DEF FoundOK, Belated
  <2>5. QED
    BY <2>1, <2>4 DEF StoppingOK, ObservesStart
<1>9. ASSUME ExitLooksUp PROVE StoppingOK'
  <2>1. PICK x \in DOMAIN procs : LooksUp(x)
    BY <1>9, LooksUpShape DEF TrackerInv
  <2>2. UNCHANGED <<procs, active, known, late, ended>>
    BY <2>1 DEF world, history, LooksUp
  <2>3. /\ WorldOK /\ MapTypes /\ StopsOK /\ ActiveOK /\ x \in Nat
        /\ Pid(x) \in Pids
        /\ \A z \in DOMAIN procs : z \in Nat
    BY ProcessTyped DEF TrackerInv
  <2>4. Unended(x)
    BY <2>1, <2>3, TailShape DEF StopsOK, TrackerInv, LooksUp, TakesRecord
  <2>5. PICK e : e = stopping'.entity
    OBVIOUS
  <2>6. ASSUME NEW y \in Nat, Is(e, y)
        PROVE  /\ e = active[Pid(x)] /\ y \in DOMAIN procs /\ Pid(y) = Pid(x)
               /\ ~Unended(y) => y \in late
    <3>1. e # <<"pid", Pid(x)>>
      BY <2>6 DEF Is
    <3>2. e = active[Pid(x)] /\ active[Pid(x)] # Nothing
      BY <2>1, <2>5, <3>1 DEF LooksUp
    <3>3. Named(e, Pid(x))
      BY <2>3, <3>2 DEF MapTypes
    <3>4. y \in DOMAIN procs /\ Pid(y) = Pid(x)
      BY <2>6, <3>3 DEF Named, Is
    <3>5. QED
      BY <2>3, <2>6, <3>2, <3>4 DEF ActiveOK, Stopped
  <2>7. ASSUME NEW y \in Nat, Is(e, y), y < x
        PROVE  Overtaken(x) \/ (Unseen(x) /\ Unended(y))
    <3>1. CASE x \in known \ late
      BY <2>3, <2>6, <2>7, <3>1 DEF ActiveOK
    <3>2. CASE ~Unended(y)
      BY <2>6, <2>7, <3>2 DEF Overtaken
    <3>3. QED
      BY <3>1, <3>2 DEF Unseen
  <2>8. ASSUME NEW y \in Nat, Is(e, y), NEW q \in known \ late, Pid(q) = Pid(x),
               y < q
        PROVE  Overtaken(q)
    BY <2>3, <2>6, <2>8 DEF ActiveOK
  <2>9. ASSUME e = <<"pid", Pid(x)>>, \A y \in DOMAIN procs :
                                            Pid(y) = Pid(x) => y = x
        PROVE  Unseen(x)
    <3>1. active[Pid(x)] = Nothing
      <4>1. SUFFICES ASSUME active[Pid(x)] # Nothing PROVE FALSE
        OBVIOUS
      <4>2. Named(e, Pid(x))
        BY <2>1, <2>3, <2>5, <4>1 DEF MapTypes, LooksUp
      <4>3. QED
        BY <2>9, <4>2 DEF Named, Is
    <3>2. ~Stopped(x)
      BY <2>1, <2>4 DEF Stopped, Moving, LooksUp
    <3>3. ~Overtaken(x)
      BY <2>3, <2>9 DEF Overtaken, MapTypes
    <3>4. x \notin known
      BY <2>3, <2>9, <3>1, <3>2, <3>3 DEF ActiveOK
    <3>5. QED
      BY <3>4 DEF Unseen
  <2>10. FoundOK(x, e)
    BY <2>7, <2>8, <2>9 DEF FoundOK
  <2>11. FoundOK(x, e)'
    BY <2>2, <2>10 DEF FoundOK, Overtaken, Unseen, Unended, Pid
  <2>12. stopping'.of = x /\ ~stopping'.forgotten
    BY <2>1 DEF LooksUp
  <2>13. QED
    BY <2>5, <2>11, <2>12 DEF StoppingOK, FoundOK, Overtaken, Unseen, Unended
<1>10. ASSUME ExitForgets PROVE StoppingOK'
  <2>1. PICK x \in DOMAIN procs : Forgets(x)
    BY <1>10, ForgetsShape DEF TrackerInv
  <2>2. /\ WorldOK /\ MapTypes /\ StopsOK /\ StoppingOK /\ Growth
        /\ stopping # Nothing => stopping.of \in DOMAIN procs
    BY StepsGrow DEF TrackerInv, QueueTypes
  <2>3. /\ \A y : Unended(y) => Unended(y)'
        /\ \A z \in DOMAIN procs : Belated(z) => Belated(z)'
    <3>1. \A i \in DOMAIN ended : ended[i].of \in DOMAIN procs
      BY DEF TrackerInv, ExitsOK, LogOK
    <3>2. /\ ended' = ended /\ late \subseteq late'
          /\ \A z \in DOMAIN procs : Pid(z)' = Pid(z)
      BY <2>1, <2>2 DEF Growth, Forgets
    <3>3. QED
      BY <3>1, <3>2 DEF Unended, Belated
  <2>4. FoundOK(x, stopping.entity) /\ x \notin running
    BY <2>1, <2>2 DEF StoppingOK, StopsOK, Stops, Forgets
  <2>5. PICK e : e = stopping.entity
    OBVIOUS
  <2>6. FoundOK(x, e)'
    BY <2>2, <2>3, <2>4, <2>5, FoundStays
  <2>7. ASSUME NEW k \in DOMAIN ended, Pid(ended[k].of) = Pid(x), ended[k].of > x
        PROVE  x \in late'
    BY <2>1, <2>7 DEF TrackerInv, ExitsOK, LogOK, Forgets
  <2>8. Belated(x)'
    BY <2>1, <2>7 DEF Belated, Pid, world, Forgets
  <2>9. stopping'.of = x /\ stopping'.entity = e
    BY <2>1, <2>5 DEF Forgets
  <2>10. QED
    BY <2>6, <2>8, <2>9
    DEF StoppingOK, FoundOK, Belated, Overtaken, Unseen, Unended
<1>11. ASSUME ExitRetains PROVE StoppingOK'
  <2>1. stopping' = Nothing
    BY <1>11 DEF ExitRetains
  <2>2. QED
    BY <2>1 DEF StoppingOK
<1>12. CASE UNCHANGED trackerVars
  BY <1>same, <1>12 DEF trackerVars, machine, world, history
<1> QED
  BY <1>1, <1>2, <1>3, <1>4, <1>5, <1>6, <1>7, <1>8, <1>9, <1>10, <1>11, <1>12
  DEF TrackerNext

\* What the exits have kept.
LEMMA EndedStays == TrackerInv /\ [TrackerNext]_trackerVars => EndedOK'
<1> SUFFICES ASSUME TrackerInv, [TrackerNext]_trackerVars PROVE EndedOK'
  OBVIOUS
<1>same. CASE UNCHANGED <<procs, known, late, ended, retained>>
  BY <1>same DEF TrackerInv, EndedOK, Is, Overtaken, Pid
<1>1. ASSUME NEW p \in Candidates,
             NEW q \in IF running = {} THEN {0} ELSE running, Spawn(p, q)
      PROVE  EndedOK'
  <2>1. PICK n : n = Len(procs) + 1
    OBVIOUS
  <2>2. SpawnsAs(n, p)
    BY <1>1, <2>1, SpawnShape DEF TrackerInv
  <2>5. QED
    BY <2>2, StepsGrow, EndedKept DEF SpawnsAs
<1>2. ASSUME NEW x \in running, Exit(x) PROVE EndedOK'
  BY <1>same, <1>2 DEF Exit, Trace, history
<1>3. ASSUME TimePasses PROVE EndedOK'
  BY <1>same, <1>3 DEF TimePasses, machine, history
<1>4. ASSUME StartETW PROVE EndedOK'
  BY <1>same, <1>4 DEF StartETW, world, history
<1>5. ASSUME StopETW PROVE EndedOK'
  BY <1>same, <1>5 DEF StopETW, world, history
<1>6. ASSUME TakeSnapshot PROVE EndedOK'
  BY <1>same, <1>6 DEF TakeSnapshot, world, history
<1>7. ASSUME ObserveRow PROVE EndedOK'
  <2>1. PICK x \in DOMAIN procs : ObservesRow(x)
    BY <1>7, RowShape DEF TrackerInv
  <2>5. QED
    BY <2>1, StepsGrow, EndedKept DEF ObservesRow
<1>8. ASSUME ObserveStart PROVE EndedOK'
  <2>1. PICK x \in DOMAIN procs : ObservesStart(x)
    BY <1>8, StartShape DEF TrackerInv
  <2>5. QED
    BY <2>1, StepsGrow, EndedKept DEF ObservesStart
<1>9. ASSUME ExitLooksUp PROVE EndedOK'
  BY <1>same, <1>9 DEF ExitLooksUp, world, history
<1>10. ASSUME ExitForgets PROVE EndedOK'
  <2>1. PICK x \in DOMAIN procs : Forgets(x)
    BY <1>10, ForgetsShape DEF TrackerInv
  <2>5. QED
    BY <2>1, StepsGrow, EndedKept DEF Forgets
<1>11. ASSUME ExitRetains PROVE EndedOK'
  <2>1. PICK x \in DOMAIN procs, n \in Nat : RetainsAs(x, n)
    BY <1>11, RetainsShape DEF TrackerInv
  <2>2. /\ stopping # Nothing /\ stopping.of = x /\ stopping.forgotten
        /\ stopping' = Nothing
        /\ DOMAIN ended' = DOMAIN ended \cup {n} /\ n \notin DOMAIN ended
        /\ \A i \in DOMAIN ended : i < n /\ ended'[i] = ended[i]
        /\ ended'[n].of = x /\ n \in Nat /\ DOMAIN ended \subseteq Nat
        /\ LogOK(ended') /\ KeptOK(retained', ended')
        /\ \A i \in DOMAIN retained' :
              \/ i \in DOMAIN retained /\ retained'[i] = retained[i]
              \/ i = n /\ retained'[i].entity = stopping.entity
        /\ UNCHANGED <<world, etw, queue, snapshot, active, known, late>>
    BY <2>1 DEF RetainsAs
  <2>3. UNCHANGED <<procs, known, late>> /\ \A z : Overtaken(z)' <=> Overtaken(z)
    BY <2>2 DEF world, Overtaken, Pid
  <2>4. /\ EndedOK /\ FoundOK(x, stopping.entity) /\ Belated(x)
        /\ DOMAIN retained \subseteq DOMAIN ended
        /\ \A i \in DOMAIN ended : ended[i].of \in DOMAIN procs
    BY <2>2 DEF TrackerInv, StoppingOK, ExitsOK, LogOK, KeptOK
  <2>5. ASSUME NEW k \in DOMAIN ended', NEW i \in DOMAIN ended', k < i,
               Pid(ended[k].of)' = Pid(ended[i].of)', ended'[k].of > ended'[i].of
        PROVE  ended'[i].of \in late'
    <3>1. k \in DOMAIN ended /\ ended'[k] = ended[k]
      BY <2>2, <2>5
    <3>2. Pid(ended'[k].of) = Pid(ended'[i].of)
      BY <2>3, <2>5 DEF Pid
    <3>3. CASE i = n
      BY <2>2, <2>3, <2>4, <2>5, <3>1, <3>2, <3>3 DEF Belated
    <3>4. CASE i # n
      BY <2>2, <2>3, <2>4, <2>5, <3>1, <3>2, <3>4 DEF EndedOK
    <3>5. QED
      BY <3>3, <3>4
  <2>6. ASSUME NEW i \in DOMAIN retained', NEW y \in Nat, NEW q \in known \ late,
               Is(retained'[i].entity, y), Pid(q)' = Pid(ended[i].of)',
               y < q, q <= ended'[i].of
        PROVE  Overtaken(q)
    <3>1. Pid(q) = Pid(ended'[i].of)
      BY <2>3, <2>6 DEF Pid
    <3>2. CASE i \in DOMAIN retained /\ retained'[i] = retained[i]
      BY <2>2, <2>4, <2>6, <3>1, <3>2 DEF EndedOK
    <3>3. CASE i = n /\ retained'[i].entity = stopping.entity
      BY <2>2, <2>4, <2>6, <3>1, <3>3 DEF FoundOK
    <3>4. QED
      BY <2>2, <3>2, <3>3
  <2>7. QED
    BY <2>3, <2>5, <2>6 DEF EndedOK
<1>12. CASE UNCHANGED trackerVars
  BY <1>same, <1>12 DEF trackerVars, machine, world, history
<1> QED
  BY <1>1, <1>2, <1>3, <1>4, <1>5, <1>6, <1>7, <1>8, <1>9, <1>10, <1>11, <1>12
  DEF TrackerNext

-----------------------------------------------------------------------------
(* What the invariant says of the events *)

\* The last exit that is young enough, if there is one.
LEMMA RetainedParentIs ==
    ASSUME TrackerInv, NEW p
    PROVE  \/ /\ RetainedParent(p) = Nothing
              /\ \A i \in DOMAIN retained :
                    retained[i].pid = p => ~(now - retained[i].at <= Retention)
           \/ \E i \in DOMAIN retained :
                 /\ RetainedParent(p) = retained[i].entity /\ retained[i].pid = p
                 /\ now - retained[i].at <= Retention
                 /\ \A j \in DOMAIN retained :
                       retained[j].pid = p /\ now - retained[j].at <= Retention
                       => j <= i
<1> DEFINE mine == {i \in Fresh(retained) : retained[i].pid = p}
<1>1. RetainedParent(p) = IF mine = {} THEN Nothing ELSE retained[Max(mine)].entity
  BY DEF RetainedParent
<1>2. \A i : i \in mine <=>
          /\ i \in DOMAIN retained /\ retained[i].pid = p
          /\ now - retained[i].at <= Retention
  BY DEF Fresh
<1>3. Len(ended) \in Nat /\ DOMAIN retained \subseteq 1..Len(ended)
  <2>1. DOMAIN ended = 1..Len(ended) /\ Len(ended) \in Nat
    BY DEF LogOK
  <2>2. DOMAIN retained \subseteq DOMAIN ended
    BY DEF TrackerInv, ExitsOK, KeptOK
  <2>3. QED
    BY <2>1, <2>2
<1>4. mine \subseteq 1..Len(ended)
  BY <1>2, <1>3
<1> HIDE DEF mine
<1>5. CASE mine = {}
  BY <1>1, <1>2, <1>5
<1>6. CASE mine # {}
  <2>1. Max(mine) \in mine /\ \A j \in mine : j <= Max(mine)
    BY <1>3, <1>4, <1>6, LargestIsOne
  <2>2. PICK i \in mine : i = Max(mine)
    BY <2>1
  <2>3. RetainedParent(p) = retained[i].entity
    BY <1>1, <1>6, <2>2
  <2>4. QED
    BY <1>2, <2>1, <2>2, <2>3
<1>7. QED
  BY <1>5, <1>6

\* The exits of a process, retained or not.
LEMMA ExitsTyped ==
    ASSUME TrackerInv, NEW i \in DOMAIN ended
    PROVE  /\ i \in Nat /\ ended[i].of \in DOMAIN procs /\ ended[i].at \in Nat
           /\ i \in DOMAIN retained =>
                 /\ retained[i].pid = Pid(ended[i].of) /\ retained[i].at = ended[i].at
                 /\ retained[i].entity \in Entity
           /\ i \notin DOMAIN retained => Expired(i, ended)
<1>1. ended \in Seq(Stop) /\ ended[i].of \in DOMAIN procs
  BY DEF TrackerInv, ExitsOK, LogOK
<1>2. i \in Nat /\ ended[i] \in Stop
  BY <1>1
<1>3. ended[i].at \in Nat
  BY <1>2 DEF Stop
<1>4. i \in DOMAIN retained =>
          retained[i].pid = Pid(ended[i].of) /\ retained[i].at = ended[i].at
  BY DEF TrackerInv, ExitsOK, KeptOK
<1>5. i \in DOMAIN retained => retained[i].entity \in Entity
  <2>1. i \in DOMAIN retained => retained[i] \in Exited
    BY DEF TrackerInv, ExitsOK, KeptOK
  <2>2. QED
    BY <2>1 DEF Exited
<1>6. i \notin DOMAIN retained => Expired(i, ended)
  BY DEF TrackerInv, ExitsOK, KeptOK
<1>7. QED
  BY <1>1, <1>2, <1>3, <1>4, <1>5, <1>6

\* A parent that is found among the exits is earlier than the true one only
\* with a cause: had the true one, or a later one, been recorded, then it
\* would have been found, or what was observed of an earlier one came late.
LEMMA RetainedCause ==
    ASSUME TrackerInv, NEW q \in DOMAIN procs, NEW y \in Nat, y < q,
           active[Pid(q)] = Nothing, Is(RetainedParent(Pid(q)), y)
    PROVE  Overtaken(q) \/ Unseen(q) \/ MovingUnder(Pid(q))
<1>1. ~Is(Nothing, y)
  BY NothingAssumption DEF Is, Entity
<1>2. PICK i \in DOMAIN retained :
          /\ RetainedParent(Pid(q)) = retained[i].entity /\ retained[i].pid = Pid(q)
          /\ now - retained[i].at <= Retention
          /\ \A j \in DOMAIN retained :
                retained[j].pid = Pid(q) /\ now - retained[j].at <= Retention => j <= i
  BY <1>1, RetainedParentIs
<1>3. /\ i \in DOMAIN ended /\ Pid(ended[i].of) = Pid(q)
      /\ retained[i].at = ended[i].at
      /\ ended[i].of \in DOMAIN procs
  BY <1>2, ExitsTyped DEF TrackerInv, ExitsOK, KeptOK
<1>4. SUFFICES ASSUME q \in known \ late, ~Overtaken(q), ~MovingUnder(Pid(q))
               PROVE  FALSE
  BY DEF Unseen
<1>5. \A z \in DOMAIN procs : z \in Nat
  BY ProcessTyped DEF TrackerInv
<1>6. ended[i].of < q
  BY <1>2, <1>3, <1>4, <1>5 DEF TrackerInv, EndedOK
<1>7. PICK z \in DOMAIN procs : z >= q /\ Pid(z) = Pid(q) /\ Stopped(z)
  BY <1>4 DEF TrackerInv, ActiveOK
<1>8. PICK k \in DOMAIN ended : ended[k].of = z
  BY <1>4, <1>7 DEF Stopped, MovingUnder, Unended
<1>9. i \in Nat /\ k \in Nat /\ i # k
  BY <1>3, <1>5, <1>6, <1>7, <1>8, ExitsTyped
<1>10. CASE i < k
  <2>1. k \in DOMAIN retained
    BY <1>2, <1>3, <1>7, <1>8, <1>10 DEF TrackerInv, ExitsOK, KeptOK
  <2>2. ended[i].at <= ended[k].at
    BY <1>3, <1>10 DEF TrackerInv, ExitsOK, LogOK
  <2>3. retained[k].pid = Pid(q) /\ retained[k].at = ended[k].at
    BY <1>7, <1>8, <2>1, ExitsTyped
  <2>4. now - retained[k].at <= Retention
    <3>1. /\ now \in Nat /\ Retention \in Nat
          /\ ended[i].at \in Nat /\ ended[k].at \in Nat
      BY <1>3, ExitsTyped, TrackerAssumption DEF TrackerInv, WorldOK
    <3>2. QED
      BY <1>2, <1>3, <2>2, <2>3, <3>1
  <2>5. QED
    BY <1>2, <1>9, <1>10, <2>1, <2>3, <2>4
<1>11. CASE k < i
  <2>1. ended[k].of > ended[i].of /\ Pid(ended[k].of) = Pid(ended[i].of)
    BY <1>3, <1>5, <1>6, <1>7, <1>8
  <2>2. ended[i].of \in late
    BY <1>3, <1>11, <2>1 DEF TrackerInv, EndedOK
  <2>3. QED
    BY <1>3, <1>4, <1>6, <2>2 DEF Overtaken
<1>12. QED
  BY <1>9, <1>10, <1>11

\* The parent that is named, or not.
LEMMA ParentIs ==
    ASSUME TrackerInv, NEW x \in DOMAIN procs, procs[x].parent # 0,
           NEW q \in DOMAIN procs, q = procs[x].parent,
           NEW rows \in SUBSET DOMAIN procs,
           rows = {} \/ (rows = snapshot.all /\ x \in rows)
    PROVE  /\ \/ Parent(x, rows) \in {Nothing, <<"pid", Pid(q)>>}
              \/ Named(Parent(x, rows), Pid(q))
           /\ Parent(x, rows) = Nothing =>
                 /\ active[Pid(q)] = Nothing
                 /\ \A i \in DOMAIN retained :
                       retained[i].pid = Pid(q) => ~(now - retained[i].at <= Retention)
           /\ \A y \in Nat : Is(Parent(x, rows), y) /\ y < q =>
                 Overtaken(q) \/ Unseen(q) \/ MovingUnder(Pid(q))
<1>1. /\ Pid(q) \in Pids /\ WorldOK /\ q < x
      /\ \A z \in DOMAIN procs : z \in Nat
  BY ProcessTyped DEF TrackerInv, WorldOK
<1>2. \A y \in Nat : <<"snapshot", y>> # Nothing /\ <<"trace", y>> # Nothing
  BY NothingAssumption DEF Entity
<1>3. CASE \E y \in rows : Pid(y) = Pid(q)
  <2>1. PICK y \in rows : Pid(y) = Pid(q) /\ Parent(x, rows) = <<"snapshot", y>>
    BY <1>3 DEF Parent
  <2>2. y \in DOMAIN procs /\ y \in Nat /\ Named(Parent(x, rows), Pid(q))
    BY <1>1, <2>1 DEF Named, Is
  <2>3. ~(y < q)
    <3>1. rows = snapshot.all /\ x \in rows
      BY <2>1
    <3>2. y < q => q > x
      BY <1>1, <2>1, <2>2, <3>1 DEF TrackerInv, SnapshotOK
    <3>3. QED
      BY <1>1, <3>2
  <2>4. \A z : Is(Parent(x, rows), z) => z = y
    BY <2>1 DEF Is
  <2>5. QED
    BY <1>2, <2>1, <2>2, <2>3, <2>4
<1>4. CASE (\A y \in rows : Pid(y) # Pid(q)) /\ active[Pid(q)] # Nothing
  <2>1. Parent(x, rows) = active[Pid(q)]
    BY <1>4 DEF Parent
  <2>2. Named(active[Pid(q)], Pid(q))
    BY <1>1, <1>4 DEF TrackerInv, MapTypes
  <2>3. ASSUME NEW y \in Nat, Is(active[Pid(q)], y), y < q
        PROVE  Overtaken(q) \/ Unseen(q)
    BY <2>3 DEF TrackerInv, ActiveOK, Unseen
  <2>4. QED
    BY <1>4, <2>1, <2>2, <2>3
<1>5. CASE (\A y \in rows : Pid(y) # Pid(q)) /\ active[Pid(q)] = Nothing
  <2>1. Parent(x, rows) = RetainedParent(Pid(q))
    BY <1>5 DEF Parent
  <2>2. CASE /\ RetainedParent(Pid(q)) = Nothing
             /\ \A i \in DOMAIN retained :
                   retained[i].pid = Pid(q) => ~(now - retained[i].at <= Retention)
    <3>1. \A y \in Nat : ~Is(Nothing, y)
      BY <1>2 DEF Is
    <3>2. QED
      BY <1>5, <2>1, <2>2, <3>1
  <2>3. ASSUME NEW i \in DOMAIN retained,
               RetainedParent(Pid(q)) = retained[i].entity, retained[i].pid = Pid(q)
        PROVE  /\ RetainedParent(Pid(q)) # Nothing
               /\ \/ RetainedParent(Pid(q)) = <<"pid", Pid(q)>>
                  \/ Named(RetainedParent(Pid(q)), Pid(q))
    <3>1. i \in DOMAIN ended
      BY DEF TrackerInv, ExitsOK, KeptOK
    <3>2. retained[i].entity \in Entity /\ retained[i].pid = Pid(ended[i].of)
      BY <3>1, ExitsTyped
    <3>3. retained[i].entity = <<"pid", Pid(q)>> \/ Named(retained[i].entity, Pid(q))
      BY <2>3, <3>2 DEF TrackerInv, ExitsOK, KeptOK
    <3>4. QED
      BY <2>3, <3>2, <3>3, NothingAssumption
  <2>4. \A y \in Nat : Is(RetainedParent(Pid(q)), y) /\ y < q =>
            Overtaken(q) \/ Unseen(q) \/ MovingUnder(Pid(q))
    BY <1>5, RetainedCause
  <2>5. QED
    BY <2>1, <2>2, <2>3, <2>4, RetainedParentIs
<1>6. QED
  BY <1>3, <1>4, <1>5

\* An event is a start, with a parent by the rows of a snapshot or without
\* them, or the stop under way.
StartEvent(e, x, rows) ==
    /\ e.kind = "start" /\ e.of = x
    /\ e.parent = IF procs[x].parent = 0 THEN Nothing ELSE Parent(x, rows)
    /\ rows = {} \/ (rows = snapshot.all /\ x \in rows)
StopEvent(e) ==
    /\ e.kind = "stop" /\ e.of = stopping.of /\ e.entity = stopping.entity
    /\ stopping # Nothing
\* There are no others.
LEMMA EventIs ==
    ASSUME TrackerInv, NEW e \in Events
    PROVE  \/ \E x \in DOMAIN procs, rows \in SUBSET DOMAIN procs :
                    StartEvent(e, x, rows)
           \/ StopEvent(e)
<1>1. CASE snapshot.rows # <<>> /\ e = Started(Head(snapshot.rows), "snapshot", snapshot.all)
  <2>1. /\ snapshot.rows \in Seq(Nat) /\ snapshot.all \in SUBSET DOMAIN procs
        /\ \A i \in DOMAIN snapshot.rows : snapshot.rows[i] \in snapshot.all
    BY DEF TrackerInv, SnapshotOK
  <2>2. PICK x : x = Head(snapshot.rows)
    OBVIOUS
  <2>3. x \in snapshot.all
    BY <1>1, <2>1, <2>2
  <2>4. StartEvent(e, x, snapshot.all)
    BY <1>1, <2>2, <2>3 DEF StartEvent, Started
  <2>5. QED
    BY <2>1, <2>3, <2>4
<1>2. CASE HeadIs("start") /\ e = Started(Head(queue).of, "trace", {})
  <2>1. queue \in Seq(Record) /\ queue # <<>>
    BY <1>2 DEF TrackerInv, HeadIs, QueueTypes
  <2>2. PICK x : x = Head(queue).of
    OBVIOUS
  <2>3. x \in DOMAIN procs
    <3>1. 1 \in DOMAIN queue /\ Head(queue) = queue[1]
      BY <2>1
    <3>2. QED
      BY <2>2, <3>1 DEF TrackerInv, QueueTypes
  <2>4. StartEvent(e, x, {})
    BY <1>2, <2>2 DEF StartEvent, Started
  <2>5. QED
    BY <2>3, <2>4
<1>3. CASE /\ stopping # Nothing /\ stopping.forgotten
           /\ e = [kind |-> "stop", of |-> stopping.of, entity |-> stopping.entity,
                   parent |-> Nothing]
  BY <1>3 DEF StopEvent
<1>4. QED
  BY <1>1, <1>2, <1>3 DEF Events

\* Where no process id is used twice, the invariant makes an event exact.
LEMMA InvariantExact == TrackerInv => ExactWithoutReuse
<1> SUFFICES ASSUME TrackerInv, NEW e \in Events,
                    NEW x, x = e.of, NEW q, q = procs[x].parent
             PROVE  /\ e.kind = "stop" /\ ~Reused(Pid(x)) =>
                         \/ e.entity \in {<<"trace", x>>, <<"snapshot", x>>}
                         \/ e.entity = <<"pid", Pid(x)>> /\ Unseen(x)
                    /\ e.kind = "start" /\ q # 0 /\ ~Reused(Pid(q)) =>
                         /\ e.parent \in {<<"trace", q>>, <<"snapshot", q>>,
                                          <<"pid", Pid(q)>>, Nothing}
                         /\ e.parent = Nothing =>
                              \/ q \notin known /\ Unended(q)
                              \/ Gone(q)
                              \/ Moving(q)
  BY DEF ExactWithoutReuse
<1>1. ASSUME StopEvent(e), ~Reused(Pid(x))
      PROVE  \/ e.entity \in {<<"trace", x>>, <<"snapshot", x>>}
             \/ e.entity = <<"pid", Pid(x)>> /\ Unseen(x)
  <2>1. /\ stopping # Nothing /\ x = stopping.of /\ e.entity = stopping.entity
        /\ x \in DOMAIN procs
    BY <1>1 DEF StopEvent, TrackerInv, QueueTypes
  <2>2. \A y \in DOMAIN procs : Pid(y) = Pid(x) => y = x
    BY <1>1, <2>1, UsedOnce DEF TrackerInv
  <2>3. CASE Named(stopping.entity, Pid(x))
    BY <2>1, <2>2, <2>3 DEF Named, Is
  <2>4. CASE stopping.entity = <<"pid", Pid(x)>>
    BY <2>1, <2>2, <2>4 DEF TrackerInv, StoppingOK, FoundOK
  <2>5. QED
    BY <2>1, <2>3, <2>4 DEF TrackerInv, MapTypes
<1>2. ASSUME x \in DOMAIN procs, NEW rows \in SUBSET DOMAIN procs, StartEvent(e,
             x, rows),
             q # 0, ~Reused(Pid(q))
      PROVE  /\ e.parent \in {<<"trace", q>>, <<"snapshot", q>>, <<"pid", Pid(q)>>, Nothing}
             /\ e.parent = Nothing =>
                  \/ q \notin known /\ Unended(q)
                  \/ Gone(q)
                  \/ Moving(q)
  <2>1. q \in DOMAIN procs
    BY <1>2, ProcessTyped DEF TrackerInv
  <2>2. \A y \in DOMAIN procs : Pid(y) = Pid(q) => y = q
    BY <1>2, <2>1, UsedOnce DEF TrackerInv
  <2>3. e.parent = Parent(x, rows) /\ (rows = {} \/ (rows = snapshot.all /\ x \in rows))
    BY <1>2 DEF StartEvent
  <2>4. /\ e.parent \in {Nothing, <<"pid", Pid(q)>>} \/ Named(e.parent, Pid(q))
        /\ e.parent = Nothing =>
              /\ active[Pid(q)] = Nothing
              /\ \A i \in DOMAIN retained :
                    retained[i].pid = Pid(q) => ~(now - retained[i].at <= Retention)
    BY <1>2, <2>1, <2>3, ParentIs
  <2>5. ASSUME e.parent = Nothing, ~Unended(q) PROVE Gone(q)
    <3>1. PICK i \in DOMAIN ended : ended[i].of = q
      BY <2>5 DEF Unended
    <3>2. CASE i \in DOMAIN retained
      <4>1. now - ended[i].at > Retention
        <5>1. /\ retained[i].at = ended[i].at /\ retained[i].pid = Pid(q)
              /\ ended[i].at \in Nat
          BY <3>1, <3>2, ExitsTyped
        <5>2. now \in Nat /\ Retention \in Nat
          BY TrackerAssumption DEF TrackerInv, WorldOK
        <5>3. QED
          BY <2>4, <2>5, <3>2, <5>1, <5>2
      <4>2. QED
        BY <3>1, <4>1 DEF Gone
    <3>3. CASE i \notin DOMAIN retained
      <4>1. Expired(i, ended)
        BY <3>3, ExitsTyped
      <4>2. QED
        BY <3>1, <4>1 DEF Gone, Expired
    <3>4. QED
      BY <3>2, <3>3
  <2>6. ASSUME e.parent = Nothing, q \in known PROVE ~Unended(q) \/ Moving(q)
    <3>1. ~Overtaken(q)
      <4>1. q \in Nat /\ late \subseteq DOMAIN procs
        BY <2>1, ProcessTyped DEF TrackerInv, MapTypes
      <4>2. QED
        BY <2>2, <4>1 DEF Overtaken
    <3>2. PICK z \in DOMAIN procs : Pid(z) = Pid(q) /\ Stopped(z)
      BY <2>4, <2>6, <3>1 DEF TrackerInv, ActiveOK
    <3>3. QED
      BY <2>2, <3>2 DEF Stopped
  <2>7. Named(e.parent, Pid(q)) => e.parent \in {<<"trace", q>>, <<"snapshot", q>>}
    BY <2>2 DEF Named, Is
  <2>8. QED
    BY <2>4, <2>5, <2>6, <2>7
<1>3. StopEvent(e) => e.kind # "start"
  BY DEF StopEvent
<1>4. \A z, rows : StartEvent(e, z, rows) => e.kind # "stop" /\ z = x
  BY DEF StartEvent
<1>5. QED
  BY <1>1, <1>2, <1>3, <1>4, EventIs

\* And where one is, it gives a wrong name its cause.
LEMMA InvariantConfusion == TrackerInv => ConfusionHasCause
<1> SUFFICES ASSUME TrackerInv, NEW e \in Events,
                    NEW x, x = e.of, NEW q, q = procs[x].parent
             PROVE  /\ e.kind = "stop" /\ e.entity[1] # "pid" =>
                         LET y == e.entity[2] IN
                         \/ y = x
                         \/ y > x /\ e.entity[1] = "snapshot"
                         \/ y < x /\ (Overtaken(x) \/ (Unseen(x) /\ Unended(y)))
                    /\ e.kind = "start" /\ e.parent # Nothing /\ e.parent[1] # "pid" =>
                         LET y == e.parent[2] IN
                         \/ y = q
                         \/ y > q /\ q \notin running
                         \/ y < q /\ (Overtaken(q) \/ Unseen(q) \/ MovingUnder(Pid(q)))
  BY DEF ConfusionHasCause
<1>1. \A z \in DOMAIN procs : z \in Nat
  BY ProcessTyped DEF TrackerInv
<1>2. ASSUME StopEvent(e), e.entity[1] # "pid", NEW y, y = e.entity[2]
      PROVE  \/ y = x
             \/ y > x /\ e.entity[1] = "snapshot"
             \/ y < x /\ (Overtaken(x) \/ (Unseen(x) /\ Unended(y)))
  <2>1. /\ stopping # Nothing /\ x = stopping.of /\ e.entity = stopping.entity
        /\ x \in DOMAIN procs
    BY <1>2 DEF StopEvent, TrackerInv, QueueTypes
  <2>2. Named(stopping.entity, Pid(x))
    BY <1>2, <2>1 DEF TrackerInv, MapTypes
  <2>3. PICK z \in DOMAIN procs : Is(stopping.entity, z)
    BY <2>2 DEF Named
  <2>4. z = y /\ stopping.entity = <<stopping.entity[1], y>>
    BY <1>2, <2>1, <2>3 DEF Is
  <2>5. y \in Nat /\ x \in Nat
    BY <1>1, <2>1, <2>3, <2>4
  <2>6. y > x => stopping.entity[1] = "snapshot"
    <3>1. stopping.entity = <<"trace", y>> => y <= x
      BY <2>1, <2>5 DEF TrackerInv, InOrder
    <3>2. QED
      BY <2>3, <2>4, <2>5, <3>1 DEF Is
  <2>7. y < x => Overtaken(x) \/ (Unseen(x) /\ Unended(y))
    BY <2>1, <2>3, <2>4, <2>5 DEF TrackerInv, StoppingOK, FoundOK
  <2>8. QED
    BY <2>1, <2>5, <2>6, <2>7
<1>3. ASSUME x \in DOMAIN procs, NEW rows \in SUBSET DOMAIN procs, StartEvent(e,
             x, rows),
             e.parent # Nothing, e.parent[1] # "pid", NEW y, y = e.parent[2]
      PROVE  \/ y = q
             \/ y > q /\ q \notin running
             \/ y < q /\ (Overtaken(q) \/ Unseen(q) \/ MovingUnder(Pid(q)))
  <2>1. q # 0 /\ e.parent = Parent(x, rows)
    BY <1>3 DEF StartEvent
  <2>2. q \in DOMAIN procs /\ (rows = {} \/ (rows = snapshot.all /\ x \in rows))
    BY <1>3, <2>1, ProcessTyped DEF StartEvent, TrackerInv
  <2>3. /\ e.parent \in {Nothing, <<"pid", Pid(q)>>} \/ Named(e.parent, Pid(q))
        /\ \A z \in Nat : Is(e.parent, z) /\ z < q =>
              Overtaken(q) \/ Unseen(q) \/ MovingUnder(Pid(q))
    BY <1>3, <2>1, <2>2, ParentIs
  <2>4. PICK z \in DOMAIN procs : Is(e.parent, z) /\ Pid(z) = Pid(q)
    BY <1>3, <2>3 DEF Named
  <2>5. z = y /\ y \in Nat /\ q \in Nat
    BY <1>1, <1>3, <2>2, <2>4 DEF Is
  <2>6. y > q => q \notin running
    BY <2>2, <2>4, <2>5 DEF TrackerInv, WorldOK
  <2>7. QED
    BY <2>3, <2>4, <2>5, <2>6
<1>4. StopEvent(e) => e.kind # "start"
  BY DEF StopEvent
<1>5. \A z, rows : StartEvent(e, z, rows) => e.kind # "stop" /\ z = x
  BY DEF StartEvent
<1>6. QED
  BY <1>2, <1>3, <1>4, <1>5, EventIs

-----------------------------------------------------------------------------
(* The theorems *)

\* A tracker that has seen nothing satisfies the invariant.
LEMMA TrackerStart == TrackerInit => TrackerInv
<1> SUFFICES ASSUME TrackerInit PROVE TrackerInv
  OBVIOUS
<1>1. /\ procs = <<>> /\ running = {} /\ now = 0
      /\ queue = <<>> /\ stopping = Nothing /\ snapshot = Idle
      /\ active = [p \in Pids |-> Nothing] /\ retained = <<>>
      /\ known = {} /\ late = {} /\ ended = <<>>
  BY DEF TrackerInit
<1>2. /\ DOMAIN procs = {} /\ DOMAIN queue = {} /\ DOMAIN ended = {}
      /\ DOMAIN retained = {}
  BY <1>1
<1>3. WorldOK /\ QueueTypes
  BY <1>1, <1>2 DEF WorldOK, QueueTypes
<1>4. SnapshotOK
  BY <1>1, <1>2 DEF SnapshotOK, Idle
<1>5. MapTypes
  BY <1>1, <1>2 DEF MapTypes
<1>6. ExitsOK
  BY <1>1, <1>2 DEF ExitsOK, LogOK, KeptOK
<1>7. StopsOK /\ InOrder
  BY <1>1, <1>2, NothingAssumption DEF StopsOK, InOrder, Entity
<1>8. ActiveOK
  BY <1>1, <1>2 DEF ActiveOK, Stopped, Moving, Unended
<1>9. StoppingOK /\ EndedOK
  BY <1>1, <1>2 DEF StoppingOK, EndedOK
<1>10. QED
  BY <1>3, <1>4, <1>5, <1>6, <1>7, <1>8, <1>9 DEF TrackerInv

\* What the tracker remembers agrees with what there was of processes, records
\* and snapshots, in every reachable state.
THEOREM TrackerInductive == TrackerSpec => []TrackerInv
<1>1. TrackerInv /\ [TrackerNext]_trackerVars => TrackerInv'
  BY WorldStays, QueueStays, SnapshotStays, MapsStay, ExitsStay, StopsStay,
     OrderStays, ActiveStays, StoppingStays, EndedStays
  DEF TrackerInv
<1>2. QED
  BY TrackerStart, <1>1, PTL DEF TrackerSpec

\* For any number of processes, records and snapshots and any limits: where no
\* process id is used twice, a stop has the identity of the process that stopped
\* if it was known, and a parent that is named is the true one; one that is not
\* named was not observed, has been gone too long, or is being moved.
THEOREM TrackerIsExact == TrackerSpec => []ExactWithoutReuse
BY TrackerInductive, InvariantExact, PTL

\* And where one is used again, an event that names the wrong process has one of
\* the causes that ConfusionHasCause lists.
THEOREM ConfusionIsExplained == TrackerSpec => []ConfusionHasCause
BY TrackerInductive, InvariantConfusion, PTL

-----------------------------------------------------------------------------
(* Both ends *)

\* Endpoint and control plane share no state: in Telemetry each of them does what
\* it does alone, and what is proved of it alone holds there.
THEOREM EachEndAlone == TelemetrySpec => Spec /\ TrackerSpec
<1>1. TelemetryInit => Init /\ TrackerInit
  BY DEF TelemetryInit
<1>2. [TelemetryNext]_telemetryVars => [Next]_vars /\ [TrackerNext]_trackerVars
  BY DEF TelemetryNext, telemetryVars
<1>3. QED
  BY <1>1, <1>2, PTL DEF TelemetrySpec, Spec, TrackerSpec

\* So no telemetry is stored without its alerts, no row refers to one that is not
\* there, and no process is confused with another without a cause.
THEOREM TelemetryIsSound ==
    TelemetrySpec => [](/\ NoDetectionGap /\ ReferencesResolve
                        /\ ExactWithoutReuse /\ ConfusionHasCause)
BY EachEndAlone, DetectionIsOwed, ReferencesAreWhole, TrackerIsExact,
   ConfusionIsExplained, PTL
=============================================================================
