------------------------------- MODULE Spool --------------------------------
(***************************************************************************)
(* The agent's bounded local spool, agent/internal/spool/spool.go.         *)
(*                                                                         *)
(* The spool is two files: the JSONL file of records, replaced atomically  *)
(* (rewrite: write a temporary file, rename), and the metadata file with   *)
(* the counters, overwritten in place (saveSummary: os.WriteFile).  The    *)
(* agent's only goroutine calls appendRecordBounded and FlushBounded; each *)
(* call is split here at the points where a file is replaced or a record   *)
(* is sent, because the process can die, or the disk fill up, between them.*)
(*                                                                         *)
(* Definitions named X_Y are mutants: X as a plausible slip would have it. *)
(* PROJECT.json says which property each of them breaks.                   *)
(***************************************************************************)
EXTENDS Integers, Sequences, FiniteSets, Functions

CONSTANTS
    MaxRecords,   \* Limits.MaxRecords; 0 is "no limit"
    MaxBytes,     \* Limits.MaxBytes; 0 is "no limit"
    LineLimit,    \* longest line bufio.Scanner returns (64 KiB in the code)
    Sizes,        \* sizes in bytes of a record's line, newline included
    CoarseClock,  \* may two records get the same CreatedAt
    TornWrites,   \* may an interrupted saveSummary leave half a file
    Rejected,     \* ids of the records the backend refuses each time
    MaxAppends,   \* bound: calls of appendRecordBounded
    MaxFaults,    \* bound: crashes, failed writes and lost responses
    RetriedCap    \* bound: retried_records is not counted beyond it

ASSUME SpoolAssumption ==
    /\ MaxRecords \in Nat /\ MaxBytes \in Nat /\ LineLimit \in Nat
    /\ Sizes \subseteq Nat \ {0}
    /\ CoarseClock \in BOOLEAN /\ TornWrites \in BOOLEAN
    /\ Rejected \subseteq Nat
    /\ MaxAppends \in Nat /\ MaxFaults \in Nat /\ RetriedCap \in Nat

VARIABLES
    file,         \* the records in the spool file, oldest first
    meta,         \* the metadata file: counters, or Torn
    pc,           \* where the running call is
    work,         \* append: records still kept; flush: records still to send
    kept,         \* flush: remaining, the records that could not be sent
    pend,         \* the call's copy of the counters
    rec,          \* append: the incoming record
    nextId,       \* identifies records in the order they were handed over
    accepted,     \* history: records whose append replaced the file
    refused,      \* history: records whose append returned an error
    dropped,      \* history: records the limits pushed out
    turnedAway,   \* history: those of dropped that never entered the file
    delivered,    \* history: records the backend processed
    redelivered,  \* history: records it processed more than once
    faults        \* history: crashes, failed writes and lost responses

history == <<accepted, refused, dropped, turnedAway>>
backend == <<delivered, redelivered>>
vars == <<file, meta, pc, work, kept, pend, rec, nextId,
          history, backend, faults>>

-----------------------------------------------------------------------------
Kinds == {"events", "task_result"}

\* CreatedAt is the wall clock: with a coarse clock a record can get the
\* timestamp of the one before it.
CreatedAt(id) == IF CoarseClock THEN {id, id - 1} ELSE {id}

Record == [id : Nat \ {0}, kind : Kinds, size : Sizes, at : Nat]
NoRec == [id |-> 0, kind |-> "events", size |-> 0, at |-> 0]

Counters == [accepted : Nat, dropped : Nat, blocked : Nat,
             uploaded : Nat, retried : Nat]
NoCounters == [accepted |-> 0, dropped |-> 0, blocked |-> 0,
               uploaded |-> 0, retried |-> 0]
Torn == [accepted |-> -1, dropped |-> -1, blocked |-> -1,
         uploaded |-> -1, retried |-> -1]

\* readRecords fails when one line is longer than the scanner's buffer, and
\* loadSummary when the metadata does not parse.
Readable == \A i \in DOMAIN file : file[i].size <= LineLimit
Loads_NoMetaCheck == Readable

Loads == Readable /\ meta # Torn

RecordsSize(rs) ==
    LET upTo[n \in 0..Len(rs)] == IF n = 0 THEN 0 ELSE upTo[n - 1] + rs[n].size
    IN upTo[Len(rs)]

OverLimit_OneTooMany(rs) ==
    \/ MaxRecords > 0 /\ Len(rs) > MaxRecords + 1
    \/ MaxBytes > 0 /\ rs # <<>> /\ RecordsSize(rs) > MaxBytes

OverLimit_AtLimit(rs) ==
    \/ MaxRecords > 0 /\ Len(rs) > MaxRecords
    \/ MaxBytes > 0 /\ rs # <<>> /\ RecordsSize(rs) >= MaxBytes

OverLimit(rs) ==
    \/ MaxRecords > 0 /\ Len(rs) > MaxRecords
    \/ MaxBytes > 0 /\ rs # <<>> /\ RecordsSize(rs) > MaxBytes

DropCandidate_Oldest(rs) == 1

\* The oldest record that is not a task result, else the oldest record.
DropCandidate(rs) ==
    LET telemetry == {i \in DOMAIN rs : rs[i].kind # "task_result"}
    IN  IF telemetry = {} THEN 1
        ELSE CHOOSE i \in telemetry : \A j \in telemetry : i <= j

Without(rs, idx) ==
    [i \in 1..(Len(rs) - 1) |-> IF i < idx THEN rs[i] ELSE rs[i + 1]]

-----------------------------------------------------------------------------
Init ==
    /\ file = <<>>
    /\ meta = NoCounters
    /\ pc = "idle"
    /\ work = <<>> /\ kept = <<>> /\ pend = NoCounters /\ rec = NoRec
    /\ nextId = 1
    /\ accepted = {} /\ refused = {} /\ dropped = {} /\ turnedAway = {}
    /\ delivered = {} /\ redelivered = {}
    /\ faults = 0

\* The call returns; what it held in memory is gone.
Return ==
    /\ pc' = "idle"
    /\ work' = <<>> /\ kept' = <<>> /\ pend' = NoCounters /\ rec' = NoRec

Fault == faults < MaxFaults /\ faults' = faults + 1

\* appendRecordBounded up to the call of trimRecords
AppendBegin(r) ==
    /\ pc = "idle"
    /\ r.id = nextId
    /\ nextId' = nextId + 1
    /\ \/ /\ Loads
          /\ pc' = "trim"
          /\ rec' = r
          /\ work' = Append(file, r)
          /\ pend' = [meta EXCEPT !.accepted = @ + 1]
          /\ UNCHANGED refused
       \/ /\ ~Loads
          /\ refused' = refused \cup {r}
          /\ UNCHANGED <<pc, rec, work, pend>>
    /\ UNCHANGED <<file, meta, kept, accepted, dropped, turnedAway, backend,
                   faults>>

\* one turn of either loop of trimRecords
DropOne ==
    /\ pc = "trim"
    /\ OverLimit(work)
    /\ work' = Without(work, DropCandidate(work))
    /\ pend' = [pend EXCEPT !.dropped = @ + 1]
    /\ UNCHANGED <<file, meta, pc, kept, rec, nextId, history, backend, faults>>

\* The incoming record is recognised by its timestamp.
RetainedNew == \E i \in DOMAIN work : work[i].at = rec.at

\* the trimmed records replace the file
AppendRewrite ==
    /\ pc = "trim"
    /\ ~OverLimit(work)
    /\ file' = work
    /\ pend' = IF RetainedNew THEN pend ELSE [pend EXCEPT !.blocked = @ + 1]
    /\ pc' = "save"
    /\ accepted' = accepted \cup {rec}
    /\ dropped' = dropped \cup ((Range(file) \cup {rec}) \ Range(work))
    /\ turnedAway' = turnedAway \cup ({rec} \ Range(work))
    /\ work' = <<>>
    /\ rec' = NoRec
    /\ UNCHANGED <<meta, kept, nextId, refused, backend, faults>>

\* rewrite returns an error: the temporary file could not be written
AppendRewriteFails ==
    /\ pc = "trim"
    /\ ~OverLimit(work)
    /\ Fault
    /\ Return
    /\ refused' = refused \cup {rec}
    /\ UNCHANGED <<file, meta, nextId, accepted, dropped, turnedAway, backend>>

\* FlushBounded up to its loop
FlushBegin ==
    /\ pc = "idle"
    /\ file # <<>>
    /\ Loads
    /\ pc' = "flush"
    /\ work' = file
    /\ pend' = meta
    /\ UNCHANGED <<file, meta, kept, rec, nextId, history, backend, faults>>

\* The backend processes the next record.
Process(r) ==
    /\ r.id \notin Rejected
    /\ delivered' = delivered \cup {r}
    /\ redelivered' = redelivered \cup (delivered \cap {r})

KeepForRetry_Forgets(r) ==
    /\ kept' = kept
    /\ pend' = [pend EXCEPT !.retried = IF @ < RetriedCap THEN @ + 1 ELSE @]

KeepForRetry(r) ==
    /\ kept' = Append(kept, r)
    /\ pend' = [pend EXCEPT !.retried = IF @ < RetriedCap THEN @ + 1 ELSE @]

UploadOk_Uncounted(r) ==
    /\ pc = "flush"
    /\ work # <<>> /\ r = Head(work)
    /\ Process(r)
    /\ work' = Tail(work)
    /\ UNCHANGED <<file, meta, pc, kept, pend, rec, nextId, history, faults>>

\* IngestEvents or SendTaskResult returns nil
UploadOk(r) ==
    /\ pc = "flush"
    /\ work # <<>> /\ r = Head(work)
    /\ Process(r)
    /\ pend' = [pend EXCEPT !.uploaded = @ + 1]
    /\ work' = Tail(work)
    /\ UNCHANGED <<file, meta, pc, kept, rec, nextId, history, faults>>

UploadFails_StopsLoop(r) ==
    /\ pc = "flush"
    /\ work # <<>> /\ r = Head(work)
    /\ kept' = kept \o work
    /\ work' = <<>>
    /\ UNCHANGED <<file, meta, pc, pend, rec, nextId, history, backend, faults>>

\* it returns an error, and the backend never saw the request or refused it
UploadFails(r) ==
    /\ pc = "flush"
    /\ work # <<>> /\ r = Head(work)
    /\ KeepForRetry(r)
    /\ work' = Tail(work)
    /\ UNCHANGED <<file, meta, pc, rec, nextId, history, backend, faults>>

\* it returns an error although the backend processed the record: the
\* response was lost or came after the client's timeout
ResponseLost(r) ==
    /\ pc = "flush"
    /\ work # <<>> /\ r = Head(work)
    /\ Fault
    /\ Process(r)
    /\ KeepForRetry(r)
    /\ work' = Tail(work)
    /\ UNCHANGED <<file, meta, pc, rec, nextId, history>>

\* the records that could not be sent replace the file
FlushRewrite ==
    /\ pc = "flush"
    /\ work = <<>>
    /\ file' = kept
    /\ kept' = <<>>
    /\ pc' = "save"
    /\ UNCHANGED <<meta, work, pend, rec, nextId, history, backend, faults>>

FlushRewriteFails ==
    /\ pc = "flush"
    /\ work = <<>>
    /\ Fault
    /\ Return
    /\ UNCHANGED <<file, meta, nextId, history, backend>>

SaveSummary ==
    /\ pc = "save"
    /\ meta' = pend
    /\ Return
    /\ UNCHANGED <<file, nextId, history, backend, faults>>

\* os.WriteFile truncates the file before it writes: when it is cut short
\* the old counters are gone.
MetaAfterInterruptedWrite == {meta} \cup (IF TornWrites THEN {Torn} ELSE {})

SaveSummaryFails ==
    /\ pc = "save"
    /\ Fault
    /\ meta' \in MetaAfterInterruptedWrite
    /\ Return
    /\ UNCHANGED <<file, nextId, history, backend>>

\* The agent process dies and is started again.
Crash ==
    /\ pc # "idle"
    /\ Fault
    /\ meta' \in (IF pc = "save" THEN MetaAfterInterruptedWrite ELSE {meta})
    /\ refused' = IF pc = "trim" THEN refused \cup {rec} ELSE refused
    /\ Return
    /\ UNCHANGED <<file, nextId, accepted, dropped, turnedAway, backend>>

\* The records the agent can hand over next.
Incoming ==
    {[id |-> nextId, kind |-> k, size |-> s, at |-> t] :
        k \in Kinds, s \in Sizes, t \in CreatedAt(nextId)}

Next ==
    \/ nextId <= MaxAppends /\ \E r \in Incoming : AppendBegin(r)
    \/ DropOne
    \/ AppendRewrite
    \/ AppendRewriteFails
    \/ FlushBegin
    \/ \E r \in Range(work) : UploadOk(r) \/ UploadFails(r) \/ ResponseLost(r)
    \/ FlushRewrite
    \/ FlushRewriteFails
    \/ SaveSummary
    \/ SaveSummaryFails
    \/ Crash

Spec == Init /\ [][Next]_vars

\* The run loop flushes at the start of every cycle and a call that started
\* goes on, and a record the backend does not refuse gets through if it is
\* sent often enough: the backend does not stay unreachable for ever.
UploadOkOf(id) == \E r \in Range(work) : r.id = id /\ UploadOk(r)
Fairness ==
    /\ WF_vars(FlushBegin)
    /\ WF_vars(DropOne \/ AppendRewrite)
    /\ WF_vars(\E r \in Range(work) : UploadOk(r) \/ UploadFails(r))
    /\ \A id \in 1..MaxAppends : SF_vars(UploadOkOf(id))
    /\ WF_vars(FlushRewrite)
    /\ WF_vars(SaveSummary)

FairSpec == Spec /\ Fairness

-----------------------------------------------------------------------------
\* Type invariant.
TypeOK ==
    /\ file \in Seq(Record) /\ work \in Seq(Record) /\ kept \in Seq(Record)
    /\ meta \in Counters \cup {Torn}
    /\ pend \in Counters
    /\ pc \in {"idle", "trim", "flush", "save"}
    /\ rec \in Record \cup {NoRec} /\ (pc = "trim" => rec \in Record)
    /\ nextId \in Nat \ {0}
    /\ accepted \subseteq Record /\ refused \subseteq Record
    /\ dropped \subseteq Record /\ turnedAway \subseteq Record
    /\ delivered \subseteq Record /\ redelivered \subseteq Record
    /\ faults \in Nat

\* No silent loss: wherever a call is cut short, a record whose append got as
\* far as replacing the file is still in it, or the backend has processed it,
\* or the limits pushed it out (and dropped_records is there to say so).
NoSilentLoss ==
    \A r \in accepted : r \in Range(file) \cup delivered \cup dropped

\* The file never outgrows the record limit, whichever call replaced it.
RecordsBounded == MaxRecords > 0 => Len(file) <= MaxRecords

\* Between calls, while nothing has been cut short, the counters reported in
\* the heartbeat account for every record: an accepted record was dropped,
\* uploaded or is queued.  Blocked records are counted too, except that one
\* is missed when another record carries the same timestamp.
CountersAccount ==
    pc = "idle" /\ faults = 0 =>
        /\ meta.accepted = meta.dropped + meta.uploaded + Len(file)
        /\ meta.blocked <= Cardinality(turnedAway)
        /\ \/ meta.blocked = Cardinality(turnedAway)
           \/ \E r, s \in accepted : r # s /\ r.at = s.at

\* What the limits push out goes in order of worth and only as far as needed:
\* even the most valuable of the records a trim dropped would not have fitted.
Promise == INSTANCE Outbox WITH
    pending <- Range(file),
    Records <- [id : 1..MaxAppends, kind : Kinds, size : Sizes,
                at : 0..MaxAppends]

TooMuchWith(d) ==
    \/ MaxRecords > 0 /\ Len(file) + 1 > MaxRecords
    \/ MaxBytes > 0 /\ RecordsSize(file) + d.size > MaxBytes

NothingDroppedNeedlessly ==
    [][\A d \in dropped' \ dropped :
          (\A e \in dropped' \ dropped : e = d \/ Promise!Outranks(d, e))
              => TooMuchWith(d)']_vars

\* The spool implements the outbox: every step is a step of it or none.
ImplementsOutbox == Promise!Spec

\* Replay after reconnect: a record that waits in the file, and that the
\* backend does not refuse each time, leaves it -- a record that keeps failing
\* does not hold up the ones behind it -- unless the spool has become
\* unreadable.
Waiting(id) == \E r \in Range(file) : r.id = id
ReplayedWhileReadable ==
    \A id \in 1..MaxAppends \ Rejected :
        Waiting(id) ~> (~Waiting(id) \/ ~Loads)

\* The same without the exception, as docs/SPEC.md:913 has it.
ReplayedAfterReconnect ==
    \A id \in 1..MaxAppends \ Rejected : Waiting(id) ~> ~Waiting(id)
=============================================================================
