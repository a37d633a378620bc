--------------------------- MODULE EventLogProofs ----------------------------
(***************************************************************************)
(* Theorems about the event log subscription, for every log, every query,  *)
(* any size of the queue and the buffer, any number of source processes,   *)
(* restarts and faults.                                                    *)
(*                                                                         *)
(* The inductive invariant IInv says what an overlap of two sources, a lost *)
(* checkpoint and a restart have in common: whatever run has let through   *)
(* is behind the checkpoint or behind all that can still arrive.           *)
(***************************************************************************)
EXTENDS EventLog, SequenceTheorems, TLAPS

\* A source process with its pipe, as its slot holds it.
Source == [state : {"free", "live", "leaving"}, reading : BOOLEAN,
           pipe : Seq(RecordId)]

\* The types, by the part of the state.
SourcesOK ==
    /\ source \in [Slots -> Source]
    /\ current \in Slots \cup {NoSlot} /\ cancelled \in BOOLEAN

RecordsOK ==
    /\ log \in 0..MaxRecord /\ inHand \in 0..MaxRecord
    /\ checkpoint \in 0..MaxRecord /\ first \in 0..MaxRecord
    /\ disk \in (0..MaxRecord) \cup {Torn}

BuffersOK ==
    /\ queue \in Seq(RecordId) /\ Len(queue) <= QueueSize
    /\ events \in Seq(RecordId)

LoopOK ==
    /\ pc \in {"cycle", "upload", "stopping"}
    /\ feature \in BOOLEAN /\ running \in BOOLEAN
    /\ restarts \in 0..MaxRestarts /\ faults \in 0..MaxFaults

HistoryOK ==
    /\ uploaded \subseteq RecordId /\ reported \subseteq RecordId
    /\ forgotten \subseteq RecordId

Types == SourcesOK /\ RecordsOK /\ BuffersOK /\ LoopOK /\ HistoryOK

\* The records on their way to run.
InFlight == Range(queue) \cup
            {r \in RecordId : \E g \in Slots : r \in Range(source[g].pipe)}

\* The records run has let through.
Passed == uploaded \cup Range(events) \cup ({inHand} \ {0})

\* What is in flight is in the log; and what run let through is behind the
\* checkpoint, or, when the checkpoint was lost, behind all there is in
\* flight.
Ahead ==
    /\ \A r \in InFlight : r <= log
    /\ \A r \in Passed : r <= log
    /\ \A r \in Passed, q \in InFlight : checkpoint < r => r < q

\* The file is behind the checkpoint while a record is in hand.
Saved ==
    /\ disk <= checkpoint
    /\ inHand # 0 => inHand = checkpoint /\ disk < checkpoint

Increasing(rs) == \A i, j \in DOMAIN rs : i < j => rs[i] < rs[j]

Order ==
    /\ Increasing(events)
    /\ \A r \in Range(events) : inHand # 0 => r < inHand
    /\ \A r \in uploaded, e \in Range(events) \cup ({inHand} \ {0}) : r < e

\* MissedIsReported, without the sequence Held.
Accounted ==
    Behind \subseteq Range(events) \cup {inHand} \cup uploaded
                     \cup reported \cup forgotten

IInv == Types /\ Ahead /\ Saved /\ Order /\ Accounted

-----------------------------------------------------------------------------
\* Sequences of records

\* Appending a record adds it to the set of records, and nothing else.
LEMMA RangeOfAppend ==
    ASSUME NEW S, NEW rs \in Seq(S), NEW e \in S
    PROVE  /\ Append(rs, e) \in Seq(S)
           /\ Range(Append(rs, e)) = Range(rs) \cup {e}
<1>1. /\ DOMAIN Append(rs, e) = 1..(Len(rs) + 1) /\ DOMAIN rs = 1..Len(rs)
      /\ Append(rs, e)[Len(rs) + 1] = e /\ Len(rs) \in Nat
      /\ Append(rs, e) \in Seq(S)
  OBVIOUS
<1>2. \A i \in 1..Len(rs) : Append(rs, e)[i] = rs[i]
  OBVIOUS
<1>3. QED
  BY <1>1, <1>2 DEF Range

\* The records of a non-empty sequence are its head and those of its tail.
LEMMA RangeOfHeadTail ==
    ASSUME NEW S, NEW rs \in Seq(S), rs # <<>>
    PROVE  /\ Head(rs) \in Range(rs) /\ Head(rs) \in S
           /\ Tail(rs) \in Seq(S) /\ Len(Tail(rs)) = Len(rs) - 1
           /\ Range(Tail(rs)) \subseteq Range(rs)
<1>1. /\ Len(rs) \in Nat /\ Len(rs) > 0 /\ DOMAIN rs = 1..Len(rs)
      /\ Head(rs) = rs[1] /\ Head(rs) \in S
      /\ Tail(rs) \in Seq(S) /\ Len(Tail(rs)) = Len(rs) - 1
      /\ DOMAIN Tail(rs) = 1..(Len(rs) - 1)
  OBVIOUS
<1>2. \A i \in 1..(Len(rs) - 1) :
          Tail(rs)[i] = rs[i + 1] /\ i + 1 \in 1..Len(rs)
  BY <1>1, HeadTailProperties
<1>3. QED
  BY <1>1, <1>2 DEF Range

\* Cutting a sequence in two keeps its records; and when they increase, every
\* one of the first part is before every one of the second.
LEMMA Cut ==
    ASSUME NEW S, NEW rs \in Seq(S), NEW n \in 0..Len(rs)
    PROVE  LET a == SubSeq(rs, 1, n)
               b == SubSeq(rs, n + 1, Len(rs))
           IN  /\ a \in Seq(S) /\ b \in Seq(S)
               /\ Range(rs) = Range(a) \cup Range(b)
               /\ Increasing(rs) =>
                      /\ Increasing(b)
                      /\ \A x \in Range(a), y \in Range(b) : x < y
<1> DEFINE a == SubSeq(rs, 1, n)
           b == SubSeq(rs, n + 1, Len(rs))
<1>1. Len(rs) \in Nat /\ DOMAIN rs = 1..Len(rs) /\ n \in Nat /\ n <= Len(rs)
  OBVIOUS
<1>2. /\ a \in Seq(S) /\ DOMAIN a = 1..n
      /\ \A i \in 1..n : a[i] = rs[i]
  <2>1. \A i \in 1..n : rs[i] \in S
    BY <1>1, ElementOfSeq
  <2>2. /\ a \in Seq(S) /\ Len(a) = IF 1 <= n THEN n - 1 + 1 ELSE 0
        /\ \A i \in 1..(n - 1 + 1) : a[i] = rs[1 + i - 1]
    BY <1>1, <2>1, SubSeqProperties
  <2>3. QED
    BY <1>1, <2>2, LenProperties
<1>3. /\ b \in Seq(S) /\ DOMAIN b = 1..(Len(rs) - n)
      /\ \A i \in 1..(Len(rs) - n) : b[i] = rs[n + i]
  <2>1. \A i \in (n + 1)..Len(rs) : rs[i] \in S
    BY <1>1, ElementOfSeq
  <2>2. /\ b \in Seq(S)
        /\ Len(b) = IF n + 1 <= Len(rs) THEN Len(rs) - (n + 1) + 1 ELSE 0
        /\ \A i \in 1..(Len(rs) - (n + 1) + 1) : b[i] = rs[(n + 1) + i - 1]
    BY <1>1, <2>1, SubSeqProperties
  <2>3. QED
    BY <1>1, <2>2, LenProperties
<1> HIDE DEF a, b
<1>4. \A i \in 1..n : i \in 1..Len(rs)
  BY <1>1
<1>5. \A i \in 1..(Len(rs) - n) : n + i \in 1..Len(rs)
  BY <1>1
<1>6. \A i \in 1..Len(rs) :
          i \in 1..n \/ (i - n \in 1..(Len(rs) - n) /\ n + (i - n) = i)
  BY <1>1
<1>7. Range(a) \subseteq Range(rs) /\ Range(b) \subseteq Range(rs)
  BY <1>1, <1>2, <1>3, <1>4, <1>5 DEF Range
<1>8. Range(rs) \subseteq Range(a) \cup Range(b)
  <2>1. ASSUME NEW i \in 1..Len(rs)
        PROVE  rs[i] \in Range(a) \cup Range(b)
    <3>1. CASE i \in 1..n
      BY <1>2, <3>1 DEF Range
    <3>2. CASE i - n \in 1..(Len(rs) - n) /\ n + (i - n) = i
      <4>1. b[i - n] = rs[i] /\ i - n \in DOMAIN b
        BY <1>3, <3>2
      <4>2. QED
        BY <4>1 DEF Range
    <3>3. QED
      BY <1>6, <3>1, <3>2
  <2>2. QED
    BY <1>1, <2>1 DEF Range
<1>9. ASSUME Increasing(rs)
      PROVE  Increasing(b) /\ \A x \in Range(a), y \in Range(b) : x < y
  <2>1. ASSUME NEW i \in 1..(Len(rs) - n), NEW j \in 1..(Len(rs) - n), i < j
        PROVE  b[i] < b[j]
    <3>1. n + i \in 1..Len(rs) /\ n + j \in 1..Len(rs) /\ n + i < n + j
      BY <1>1, <2>1
    <3>2. QED
      BY <1>1, <1>3, <1>9, <3>1 DEF Increasing
  <2>2. ASSUME NEW i \in 1..n, NEW j \in 1..(Len(rs) - n)
        PROVE  a[i] < b[j]
    <3>1. i \in 1..Len(rs) /\ n + j \in 1..Len(rs) /\ i < n + j
      BY <1>1
    <3>2. QED
      BY <1>1, <1>2, <1>3, <1>9, <3>1 DEF Increasing
  <2>3. QED
    BY <1>2, <1>3, <2>1, <2>2 DEF Increasing, Range
<1>10. QED
  BY <1>2, <1>3, <1>7, <1>8, <1>9 DEF a, b

\* A greater record at the end leaves a sequence increasing.
LEMMA IncreasingAppend ==
    ASSUME NEW rs \in Seq(RecordId), NEW e \in RecordId, Increasing(rs),
           \A r \in Range(rs) : r < e
    PROVE  Increasing(Append(rs, e))
<1>1. /\ Len(rs) \in Nat /\ DOMAIN rs = 1..Len(rs)
      /\ DOMAIN Append(rs, e) = 1..(Len(rs) + 1)
      /\ Append(rs, e)[Len(rs) + 1] = e
  OBVIOUS
<1>2. \A i \in 1..Len(rs) : Append(rs, e)[i] = rs[i] /\ rs[i] < e
  BY <1>1 DEF Range
<1>3. QED
  BY <1>1, <1>2 DEF Increasing

-----------------------------------------------------------------------------
\* Types

\* A slot holds a source, and what its pipe gives is a record.
LEMMA SourceTyped ==
    ASSUME SourcesOK, NEW g \in Slots
    PROVE  /\ source[g] \in Source
           /\ source[g].pipe \in Seq(RecordId)
           /\ source[g].pipe # <<>> => /\ Head(source[g].pipe) \in RecordId
                                      /\ Tail(source[g].pipe) \in Seq(RecordId)
<1>1. source \in [Slots -> Source] /\ source[g] \in Source
  BY DEF SourcesOK
<1>2. source[g].pipe \in Seq(RecordId)
  BY <1>1 DEF Source
<1>3. QED
  BY <1>1, <1>2, RangeOfHeadTail

\* Clearing slots, or putting a new process into one, keeps the types.
LEMMA FreshTyped ==
    ASSUME SourcesOK, NEW g \in Slots
    PROVE  /\ [source EXCEPT ![g] = FreeSlot] \in [Slots -> Source]
           /\ [source EXCEPT ![g] = [FreeSlot EXCEPT !.state = "leaving"]]
                  \in [Slots -> Source]
           /\ [source EXCEPT ![g] = [FreeSlot EXCEPT !.state = "live",
                                                    !.reading = TRUE]]
                  \in [Slots -> Source]
           /\ [h \in Slots |-> FreeSlot] \in [Slots -> Source]
<1>1. <<>> \in Seq(RecordId)
  OBVIOUS
<1>2. FreeSlot \in Source
  BY <1>1 DEF FreeSlot, Source
<1>3. [FreeSlot EXCEPT !.state = "leaving"] \in Source
  BY <1>1 DEF FreeSlot, Source
<1>4. [FreeSlot EXCEPT !.state = "live", !.reading = TRUE] \in Source
  BY <1>1 DEF FreeSlot, Source
<1>5. QED
  BY <1>2, <1>3, <1>4 DEF SourcesOK

\* Every step keeps the types of the sources ...
LEMMA SourcesOKStep == Types /\ [Next]_vars => SourcesOK'
<1> SUFFICES ASSUME SourcesOK, RecordsOK, BuffersOK, LoopOK, HistoryOK,
                  [Next]_vars PROVE SourcesOK'
  BY DEF Types
<1>1. ASSUME Configure PROVE SourcesOK'
  BY <1>1 DEF Configure, subscription, SourcesOK
<1>2. ASSUME NEW g \in Slots, Start(g) PROVE SourcesOK'
  BY <1>2, FreshTyped DEF Start, SourcesOK
<1>3. ASSUME StartAgain PROVE SourcesOK'
  BY <1>3 DEF StartAgain, subscription, SourcesOK
<1>4. ASSUME Stop PROVE SourcesOK'
  BY <1>4 DEF Stop, SourcesOK
<1>5. ASSUME Stopped PROVE SourcesOK'
  BY <1>5 DEF Stopped, subscription, SourcesOK
<1>6. ASSUME Upload PROVE SourcesOK'
  BY <1>6 DEF Upload, subscription, SourcesOK
<1>7. ASSUME NEW g \in Slots, Read(g) PROVE SourcesOK'
  <2> DEFINE left == [source[g] EXCEPT
                          !.pipe = Tail(source[g].pipe),
                          !.reading = Head(source[g].pipe) \notin TooLong]
  <2>1. source' = [source EXCEPT ![g] = left]
    BY <1>7 DEF Read
  <2>2. source[g].pipe # <<>> /\ UNCHANGED <<current, cancelled>>
    BY <1>7 DEF Read
  <2>3. left \in Source
    BY <2>2, SourceTyped DEF Source
  <2>4. QED
    BY <2>1, <2>2, <2>3 DEF SourcesOK
<1>8. ASSUME NEW g \in Slots, WatcherStops(g) PROVE SourcesOK'
  BY <1>8, FreshTyped DEF WatcherStops, SourcesOK
<1>9. ASSUME NEW g \in Slots, Exits(g) PROVE SourcesOK'
  BY <1>9, FreshTyped DEF Exits, SourcesOK
<1>10. ASSUME StartFails PROVE SourcesOK'
  BY <1>10 DEF StartFails, SourcesOK
<1>11. ASSUME UploadFails PROVE SourcesOK'
  BY <1>11 DEF UploadFails, subscription, SourcesOK
<1>12. ASSUME LogWrites PROVE SourcesOK'
  <2>1. log' \in RecordId
    BY <1>12, EventLogAssumption DEF LogWrites, RecordsOK, RecordId
  <2>2. ASSUME NEW g \in Slots
        PROVE  /\ source[g] \in Source
               /\ [source[g] EXCEPT !.pipe = Append(source[g].pipe, log')]
                      \in Source
    <3>1. /\ source[g] \in Source
          /\ Append(source[g].pipe, log') \in Seq(RecordId)
      BY <2>1, SourceTyped, AppendProperties
    <3>2. QED
      BY <3>1 DEF Source
  <2>3. source' \in [Slots -> Source]
    BY <1>12, <2>2 DEF LogWrites
  <2>4. QED
    BY <1>12, <2>3 DEF LogWrites, SourcesOK
<1>13. ASSUME Receive PROVE SourcesOK'
  BY <1>13 DEF Receive, subscription, SourcesOK
<1>14. ASSUME Save PROVE SourcesOK'
  BY <1>14 DEF Save, subscription, SourcesOK
<1>15. ASSUME SaveFails PROVE SourcesOK'
  BY <1>15 DEF SaveFails, Torn, subscription, SourcesOK
<1>16. ASSUME RunReturns PROVE SourcesOK'
  BY <1>16 DEF RunReturns, subscription, SourcesOK
<1>17. ASSUME StopAgent PROVE SourcesOK'
  BY <1>17, FreshTyped DEF StopAgent, Restart, Torn, SourcesOK
<1>18. ASSUME Crash PROVE SourcesOK'
  BY <1>18, FreshTyped DEF Crash, Torn, Restart, SourcesOK
<1>19. CASE UNCHANGED vars
  BY <1>19 DEF vars, subscription, SourcesOK
<1> QED
  BY <1>1, <1>2, <1>3, <1>4, <1>5, <1>6, <1>7, <1>8, <1>9, <1>10, <1>11,
     <1>12, <1>13, <1>14, <1>15, <1>16, <1>17, <1>18, <1>19
  DEF Next, AgentStep, SourceStep

\* ... of the record numbers ...
LEMMA RecordsOKStep == Types /\ [Next]_vars => RecordsOK'
<1> SUFFICES ASSUME SourcesOK, RecordsOK, BuffersOK, LoopOK, HistoryOK,
                  [Next]_vars PROVE RecordsOK'
  BY DEF Types
<1>1. ASSUME Configure PROVE RecordsOK'
  BY <1>1 DEF Configure, run, checkpoints, RecordsOK
<1>2. ASSUME NEW g \in Slots, Start(g) PROVE RecordsOK'
  BY <1>2 DEF Start, FreeSlot, checkpoints, RecordsOK
<1>3. ASSUME StartAgain PROVE RecordsOK'
  BY <1>3 DEF StartAgain, run, checkpoints, RecordsOK
<1>4. ASSUME Stop PROVE RecordsOK'
  BY <1>4 DEF Stop, run, checkpoints, RecordsOK
<1>5. ASSUME Stopped PROVE RecordsOK'
  BY <1>5 DEF Stopped, run, checkpoints, RecordsOK
<1>6. ASSUME Upload PROVE RecordsOK'
  BY <1>6 DEF Upload, run, checkpoints, RecordsOK
<1>7. ASSUME NEW g \in Slots, Read(g) PROVE RecordsOK'
  BY <1>7 DEF Read, run, checkpoints, RecordsOK
<1>8. ASSUME NEW g \in Slots, WatcherStops(g) PROVE RecordsOK'
  BY <1>8 DEF WatcherStops, FreeSlot, run, checkpoints, RecordsOK
<1>9. ASSUME NEW g \in Slots, Exits(g) PROVE RecordsOK'
  BY <1>9 DEF Exits, FreeSlot, run, checkpoints, RecordsOK
<1>10. ASSUME StartFails PROVE RecordsOK'
  BY <1>10 DEF StartFails, checkpoints, RecordsOK
<1>11. ASSUME UploadFails PROVE RecordsOK'
  BY <1>11 DEF UploadFails, run, checkpoints, RecordsOK
<1>12. ASSUME LogWrites PROVE RecordsOK'
  BY <1>12, EventLogAssumption DEF LogWrites, run, checkpoints, RecordsOK
<1>13. ASSUME Receive PROVE RecordsOK'
  <2>1. Head(queue) \in RecordId
    BY <1>13, RangeOfHeadTail DEF Receive, BuffersOK
  <2>2. QED
    BY <1>13, <2>1 DEF Receive, Observe, RecordsOK, RecordId
<1>14. ASSUME Save PROVE RecordsOK'
  BY <1>14, EventLogAssumption DEF Save, RecordsOK
<1>15. ASSUME SaveFails PROVE RecordsOK'
  BY <1>15, EventLogAssumption DEF SaveFails, Torn, RecordsOK
<1>16. ASSUME RunReturns PROVE RecordsOK'
  BY <1>16 DEF RunReturns, checkpoints, RecordsOK
<1>17. ASSUME StopAgent PROVE RecordsOK'
  BY <1>17, EventLogAssumption
  DEF StopAgent, Restart, Torn, FreeSlot, RecordsOK
<1>18. ASSUME Crash PROVE RecordsOK'
  BY <1>18, EventLogAssumption DEF Crash, Torn, Restart, FreeSlot, RecordsOK
<1>19. CASE UNCHANGED vars
  BY <1>19 DEF vars, run, checkpoints, RecordsOK
<1> QED
  BY <1>1, <1>2, <1>3, <1>4, <1>5, <1>6, <1>7, <1>8, <1>9, <1>10, <1>11,
     <1>12, <1>13, <1>14, <1>15, <1>16, <1>17, <1>18, <1>19
  DEF Next, AgentStep, SourceStep

\* ... of the run loop and its bounds ...
LEMMA LoopOKStep == Types /\ [Next]_vars => LoopOK'
<1> SUFFICES ASSUME SourcesOK, RecordsOK, BuffersOK, LoopOK, HistoryOK,
                  [Next]_vars PROVE LoopOK'
  BY DEF Types
<1>1. ASSUME Configure PROVE LoopOK'
  BY <1>1 DEF Configure, run, ends, LoopOK
<1>2. ASSUME NEW g \in Slots, Start(g) PROVE LoopOK'
  BY <1>2 DEF Start, FreeSlot, ends, LoopOK
<1>3. ASSUME StartAgain PROVE LoopOK'
  BY <1>3 DEF StartAgain, run, ends, LoopOK
<1>4. ASSUME Stop PROVE LoopOK'
  BY <1>4 DEF Stop, run, ends, LoopOK
<1>5. ASSUME Stopped PROVE LoopOK'
  BY <1>5 DEF Stopped, run, ends, LoopOK
<1>6. ASSUME Upload PROVE LoopOK'
  BY <1>6 DEF Upload, run, ends, LoopOK
<1>7. ASSUME NEW g \in Slots, Read(g) PROVE LoopOK'
  BY <1>7 DEF Read, run, loop, ends, LoopOK
<1>8. ASSUME NEW g \in Slots, WatcherStops(g) PROVE LoopOK'
  BY <1>8 DEF WatcherStops, FreeSlot, run, loop, ends, LoopOK
<1>9. ASSUME NEW g \in Slots, Exits(g) PROVE LoopOK'
  BY <1>9, EventLogAssumption
  DEF Exits, FreeSlot, ends, Fault, run, loop, LoopOK
<1>10. ASSUME StartFails PROVE LoopOK'
  BY <1>10, EventLogAssumption DEF StartFails, Fault, LoopOK
<1>11. ASSUME UploadFails PROVE LoopOK'
  BY <1>11, EventLogAssumption DEF UploadFails, Fault, run, LoopOK
<1>12. ASSUME LogWrites PROVE LoopOK'
  BY <1>12 DEF LogWrites, run, loop, ends, LoopOK
<1>13. ASSUME Receive PROVE LoopOK'
  BY <1>13 DEF Receive, loop, ends, LoopOK
<1>14. ASSUME Save PROVE LoopOK'
  BY <1>14 DEF Save, loop, ends, LoopOK
<1>15. ASSUME SaveFails PROVE LoopOK'
  BY <1>15, EventLogAssumption DEF SaveFails, Fault, Torn, loop, LoopOK
<1>16. ASSUME RunReturns PROVE LoopOK'
  BY <1>16 DEF RunReturns, loop, ends, LoopOK
<1>17. ASSUME StopAgent PROVE LoopOK'
  <2>1. restarts' \in 0..MaxRestarts /\ faults' \in 0..MaxFaults
    BY <1>17, EventLogAssumption DEF StopAgent, LoopOK
  <2>2. QED
    BY <1>17, <2>1 DEF StopAgent, Restart, LoopOK
<1>18. ASSUME Crash PROVE LoopOK'
  <2>1. restarts' \in 0..MaxRestarts /\ faults' \in 0..MaxFaults
    BY <1>18, EventLogAssumption DEF Crash, Fault, LoopOK
  <2>2. QED
    BY <1>18, <2>1 DEF Crash, Restart, LoopOK
<1>19. CASE UNCHANGED vars
  BY <1>19 DEF vars, run, loop, ends, LoopOK
<1> QED
  BY <1>1, <1>2, <1>3, <1>4, <1>5, <1>6, <1>7, <1>8, <1>9, <1>10, <1>11,
     <1>12, <1>13, <1>14, <1>15, <1>16, <1>17, <1>18, <1>19
  DEF Next, AgentStep, SourceStep

\* ... of the buffers, the queue within its size ...
LEMMA BuffersOKStep == Types /\ [Next]_vars => BuffersOK'
<1> SUFFICES ASSUME SourcesOK, RecordsOK, BuffersOK, LoopOK, HistoryOK,
                  [Next]_vars PROVE BuffersOK'
  BY DEF Types
<1>1. ASSUME Configure PROVE BuffersOK'
  BY <1>1 DEF Configure, buffers, BuffersOK
<1>2. ASSUME NEW g \in Slots, Start(g) PROVE BuffersOK'
  BY <1>2 DEF Start, FreeSlot, buffers, BuffersOK
<1>3. ASSUME StartAgain PROVE BuffersOK'
  BY <1>3 DEF StartAgain, buffers, BuffersOK
<1>4. ASSUME Stop PROVE BuffersOK'
  BY <1>4 DEF Stop, buffers, BuffersOK
<1>5. ASSUME Stopped PROVE BuffersOK'
  BY <1>5 DEF Stopped, buffers, BuffersOK
<1>6. ASSUME Upload PROVE BuffersOK'
  <2>1. DrainCount \in 0..Len(events)
    BY LenProperties, EventLogAssumption DEF DrainCount
  <2>2. /\ SubSeq(events, DrainCount + 1, Len(events)) \in Seq(RecordId)
        /\ SubSeq(events, 1, DrainCount) \in Seq(RecordId)
    BY <2>1, Cut DEF BuffersOK
  <2>3. QED
    BY <1>6, <2>2 DEF Upload, BuffersOK
<1>7. ASSUME NEW g \in Slots, Read(g) PROVE BuffersOK'
  <2>1. source[g].pipe # <<>>
    BY <1>7 DEF Read
  <2>2. Head(source[g].pipe) \in RecordId
    BY <2>1, SourceTyped
  <2>3. /\ Append(queue, Head(source[g].pipe)) \in Seq(RecordId)
        /\ Len(Append(queue, Head(source[g].pipe))) = Len(queue) + 1
    BY <2>2, AppendProperties DEF BuffersOK
  <2>4. Len(queue) \in Nat /\ (~Full => Len(queue) + 1 <= QueueSize)
    BY LenProperties, EventLogAssumption DEF BuffersOK, Full
  <2>5. QED
    BY <1>7, <2>3, <2>4 DEF Read, BuffersOK
<1>8. ASSUME NEW g \in Slots, WatcherStops(g) PROVE BuffersOK'
  BY <1>8 DEF WatcherStops, FreeSlot, buffers, BuffersOK
<1>9. ASSUME NEW g \in Slots, Exits(g) PROVE BuffersOK'
  BY <1>9 DEF Exits, FreeSlot, buffers, BuffersOK
<1>10. ASSUME StartFails PROVE BuffersOK'
  BY <1>10 DEF StartFails, buffers, BuffersOK
<1>11. ASSUME UploadFails PROVE BuffersOK'
  <2>1. DrainCount \in 0..Len(events)
    BY LenProperties, EventLogAssumption DEF DrainCount
  <2>2. /\ SubSeq(events, DrainCount + 1, Len(events)) \in Seq(RecordId)
        /\ SubSeq(events, 1, DrainCount) \in Seq(RecordId)
    BY <2>1, Cut DEF BuffersOK
  <2>3. QED
    BY <1>11, <2>2 DEF UploadFails, BuffersOK
<1>12. ASSUME LogWrites PROVE BuffersOK'
  BY <1>12 DEF LogWrites, buffers, BuffersOK
<1>13. ASSUME Receive PROVE BuffersOK'
  <2>1. Tail(queue) \in Seq(RecordId) /\ Len(Tail(queue)) = Len(queue) - 1
    BY <1>13, RangeOfHeadTail DEF Receive, BuffersOK
  <2>2. QED
    BY <1>13, <2>1, EventLogAssumption DEF Receive, BuffersOK
<1>14. ASSUME Save PROVE BuffersOK'
  <2>1. inHand \in RecordId
    BY <1>14 DEF Save, RecordsOK, RecordId
  <2>2. Append(events, inHand) \in Seq(RecordId)
    BY <2>1, AppendProperties DEF BuffersOK
  <2>3. QED
    BY <1>14, <2>2 DEF Save, BuffersOK
<1>15. ASSUME SaveFails PROVE BuffersOK'
  BY <1>15 DEF SaveFails, Torn, buffers, BuffersOK
<1>16. ASSUME RunReturns PROVE BuffersOK'
  BY <1>16 DEF RunReturns, buffers, BuffersOK
<1>17. ASSUME StopAgent PROVE BuffersOK'
  BY <1>17, EventLogAssumption
  DEF StopAgent, Restart, Torn, FreeSlot, BuffersOK
<1>18. ASSUME Crash PROVE BuffersOK'
  BY <1>18, EventLogAssumption DEF Crash, Torn, Restart, FreeSlot, BuffersOK
<1>19. CASE UNCHANGED vars
  BY <1>19 DEF vars, buffers, BuffersOK
<1> QED
  BY <1>1, <1>2, <1>3, <1>4, <1>5, <1>6, <1>7, <1>8, <1>9, <1>10, <1>11,
     <1>12, <1>13, <1>14, <1>15, <1>16, <1>17, <1>18, <1>19
  DEF Next, AgentStep, SourceStep

\* ... and of the histories.
LEMMA HistoryOKStep == Types /\ [Next]_vars => HistoryOK'
<1> SUFFICES ASSUME SourcesOK, RecordsOK, BuffersOK, LoopOK, HistoryOK,
                  [Next]_vars PROVE HistoryOK'
  BY DEF Types
<1>1. ASSUME Configure PROVE HistoryOK'
  BY <1>1 DEF Configure, history, HistoryOK
<1>2. ASSUME NEW g \in Slots, Start(g) PROVE HistoryOK'
  BY <1>2 DEF Start, FreeSlot, history, HistoryOK
<1>3. ASSUME StartAgain PROVE HistoryOK'
  BY <1>3 DEF StartAgain, history, HistoryOK
<1>4. ASSUME Stop PROVE HistoryOK'
  BY <1>4 DEF Stop, history, HistoryOK
<1>5. ASSUME Stopped PROVE HistoryOK'
  BY <1>5 DEF Stopped, history, HistoryOK
<1>6. ASSUME Upload PROVE HistoryOK'
  <2>1. DrainCount \in 0..Len(events)
    BY LenProperties, EventLogAssumption DEF DrainCount
  <2>2. /\ SubSeq(events, DrainCount + 1, Len(events)) \in Seq(RecordId)
        /\ SubSeq(events, 1, DrainCount) \in Seq(RecordId)
    BY <2>1, Cut DEF BuffersOK
  <2>3. Range(SubSeq(events, 1, DrainCount)) \subseteq RecordId
    BY <2>2, RangeOfSeq
  <2>4. QED
    BY <1>6, <2>3 DEF Upload, HistoryOK
<1>7. ASSUME NEW g \in Slots, Read(g) PROVE HistoryOK'
  <2>1. source[g].pipe # <<>>
    BY <1>7 DEF Read
  <2>2. Head(source[g].pipe) \in RecordId
    BY <2>1, SourceTyped
  <2>3. QED
    BY <1>7, <2>2 DEF Read, HistoryOK
<1>8. ASSUME NEW g \in Slots, WatcherStops(g) PROVE HistoryOK'
  BY <1>8 DEF WatcherStops, FreeSlot, history, HistoryOK
<1>9. ASSUME NEW g \in Slots, Exits(g) PROVE HistoryOK'
  BY <1>9 DEF Exits, FreeSlot, history, HistoryOK
<1>10. ASSUME StartFails PROVE HistoryOK'
  BY <1>10 DEF StartFails, history, HistoryOK
<1>11. ASSUME UploadFails PROVE HistoryOK'
  <2>1. DrainCount \in 0..Len(events)
    BY LenProperties, EventLogAssumption DEF DrainCount
  <2>2. /\ SubSeq(events, DrainCount + 1, Len(events)) \in Seq(RecordId)
        /\ SubSeq(events, 1, DrainCount) \in Seq(RecordId)
    BY <2>1, Cut DEF BuffersOK
  <2>3. Range(SubSeq(events, 1, DrainCount)) \subseteq RecordId
    BY <2>2, RangeOfSeq
  <2>4. QED
    BY <1>11, <2>3 DEF UploadFails, HistoryOK
<1>12. ASSUME LogWrites PROVE HistoryOK'
  BY <1>12 DEF LogWrites, history, HistoryOK
<1>13. ASSUME Receive PROVE HistoryOK'
  <2>1. Head(queue) \in RecordId
    BY <1>13, RangeOfHeadTail DEF Receive, BuffersOK
  <2>2. /\ \A r \in RecordId : (checkpoint + 1)..(r - 1) \subseteq RecordId
        /\ {Head(queue)} \subseteq RecordId
    BY <2>1, EventLogAssumption DEF RecordsOK, RecordId
  <2>3. reported' \subseteq RecordId
    BY <1>13, <2>1, <2>2 DEF Receive, Observe, HistoryOK
  <2>4. QED
    BY <1>13, <2>3 DEF Receive, HistoryOK
<1>14. ASSUME Save PROVE HistoryOK'
  BY <1>14 DEF Save, history, HistoryOK
<1>15. ASSUME SaveFails PROVE HistoryOK'
  <2>1. inHand \in RecordId
    BY <1>15 DEF SaveFails, RecordsOK, RecordId
  <2>2. QED
    BY <1>15, <2>1 DEF SaveFails, HistoryOK
<1>16. ASSUME RunReturns PROVE HistoryOK'
  BY <1>16 DEF RunReturns, history, HistoryOK
<1>17. ASSUME StopAgent PROVE HistoryOK'
  <2>1. Range(events) \subseteq RecordId
    BY RangeOfSeq DEF BuffersOK
  <2>2. QED
    BY <1>17, <2>1 DEF StopAgent, Restart, HistoryOK
<1>18. ASSUME Crash PROVE HistoryOK'
  <2>1. Range(events) \subseteq RecordId
    BY RangeOfSeq DEF BuffersOK
  <2>2. QED
    BY <1>18, <2>1 DEF Crash, Restart, HistoryOK
<1>19. CASE UNCHANGED vars
  BY <1>19 DEF vars, history, HistoryOK
<1> QED
  BY <1>1, <1>2, <1>3, <1>4, <1>5, <1>6, <1>7, <1>8, <1>9, <1>10, <1>11,
     <1>12, <1>13, <1>14, <1>15, <1>16, <1>17, <1>18, <1>19
  DEF Next, AgentStep, SourceStep

\* Every step keeps the types.
LEMMA TypesStep == Types /\ [Next]_vars => Types'
BY SourcesOKStep, RecordsOKStep, LoopOKStep, BuffersOKStep, HistoryOKStep
DEF Types

-----------------------------------------------------------------------------
\* What is in flight and what was let through

\* Only a record just written can be new in flight.
FlightGrows ==
    \A r \in InFlight' : r \in InFlight \/ (r = log' /\ log' = log + 1)

\* A slot without a process has nothing in its pipe.
LEMMA FreePipe ==
    /\ Range(FreeSlot.pipe) = {}
    /\ Range([FreeSlot EXCEPT !.state = "leaving"].pipe) = {}
    /\ Range([FreeSlot EXCEPT !.state = "live", !.reading = TRUE].pipe) = {}
<1>1. Range(<<>>) = {}
  BY DEF Range
<1>2. QED
  BY <1>1 DEF FreeSlot

\* With nothing added to the queue or to a pipe, nothing new is in flight.
LEMMA FlightShrinks ==
    ASSUME Range(queue)' \subseteq Range(queue),
           \A g \in Slots :
               Range(source[g].pipe)' \subseteq Range(source[g].pipe)
    PROVE  InFlight' \subseteq InFlight
BY DEF InFlight

\* What is in flight after a step was so before, or is the record just
\* written.
LEMMA FlightStep == Types /\ [Next]_vars => FlightGrows
<1> SUFFICES ASSUME Types, [Next]_vars PROVE FlightGrows
  OBVIOUS
<1> USE DEF FlightGrows
<1>same. CASE UNCHANGED <<queue, source>>
  BY <1>same DEF InFlight
<1>1. ASSUME Configure PROVE FlightGrows
  BY <1>1, <1>same DEF Configure, subscription, buffers
<1>2. ASSUME NEW g \in Slots, Start(g) PROVE FlightGrows
  <2>1. /\ source' = [source EXCEPT
               ![g] = [FreeSlot EXCEPT !.state = "live", !.reading = TRUE]]
        /\ UNCHANGED queue /\ source \in [Slots -> Source]
    BY <1>2 DEF Start, buffers, Types, SourcesOK
  <2>2. \A h \in Slots : Range(source[h].pipe)' \subseteq Range(source[h].pipe)
    BY <2>1, FreePipe
  <2>3. QED
    BY <2>1, <2>2, FlightShrinks
<1>3. ASSUME StartAgain PROVE FlightGrows
  BY <1>3, <1>same DEF StartAgain, subscription, buffers
<1>4. ASSUME Stop PROVE FlightGrows
  BY <1>4, <1>same DEF Stop, buffers
<1>5. ASSUME Stopped PROVE FlightGrows
  BY <1>5, <1>same DEF Stopped, subscription, buffers
<1>6. ASSUME Upload PROVE FlightGrows
  BY <1>6, <1>same DEF Upload, subscription
<1>7. ASSUME NEW g \in Slots, Read(g) PROVE FlightGrows
  <2> DEFINE r == Head(source[g].pipe)
  <2>1. /\ source[g].pipe # <<>> /\ source \in [Slots -> Source]
        /\ source' = [source EXCEPT
               ![g] = [source[g] EXCEPT !.pipe = Tail(source[g].pipe),
                                        !.reading = r \notin TooLong]]
        /\ queue' = queue \/ queue' = Append(queue, r)
    BY <1>7 DEF Read, Types, SourcesOK
  <2>2. /\ r \in Range(source[g].pipe) /\ r \in RecordId
        /\ Range(Tail(source[g].pipe)) \subseteq Range(source[g].pipe)
    BY <2>1, SourceTyped, RangeOfHeadTail DEF Types
  <2>3. \A h \in Slots : Range(source[h].pipe)' \subseteq Range(source[h].pipe)
    <3>1. source[g] \in Source /\ source'[g].pipe = Tail(source[g].pipe)
      BY <2>1 DEF Source
    <3>2. \A h \in Slots : h # g => source'[h] = source[h]
      BY <2>1
    <3>3. QED
      BY <2>2, <3>1, <3>2
  <2>4. Range(queue') \subseteq Range(queue) \cup {r}
    <3>1. Range(Append(queue, r)) = Range(queue) \cup {r}
      BY <2>2, RangeOfAppend DEF Types, BuffersOK
    <3>2. QED
      BY <2>1, <3>1
  <2>5. r \in InFlight
    BY <2>2 DEF InFlight
  <2>6. QED
    BY <2>3, <2>4, <2>5 DEF InFlight
<1>8. ASSUME NEW g \in Slots, WatcherStops(g) PROVE FlightGrows
  <2>1. /\ source' = [source EXCEPT ![g] = FreeSlot]
        /\ UNCHANGED queue /\ source \in [Slots -> Source]
    BY <1>8 DEF WatcherStops, buffers, Types, SourcesOK
  <2>2. \A h \in Slots : Range(source[h].pipe)' \subseteq Range(source[h].pipe)
    BY <2>1, FreePipe
  <2>3. QED
    BY <2>1, <2>2, FlightShrinks
<1>9. ASSUME NEW g \in Slots, Exits(g) PROVE FlightGrows
  <2>1. /\ UNCHANGED queue /\ source \in [Slots -> Source]
        /\ \/ source' = [source EXCEPT ![g] = FreeSlot]
           \/ source' = [source EXCEPT
                  ![g] = [FreeSlot EXCEPT !.state = "leaving"]]
    BY <1>9 DEF Exits, buffers, Types, SourcesOK
  <2>2. \A h \in Slots : Range(source[h].pipe)' \subseteq Range(source[h].pipe)
    BY <2>1, FreePipe
  <2>3. QED
    BY <2>1, <2>2, FlightShrinks
<1>10. ASSUME StartFails PROVE FlightGrows
  BY <1>10, <1>same DEF StartFails, buffers
<1>11. ASSUME UploadFails PROVE FlightGrows
  BY <1>11, <1>same DEF UploadFails, subscription
<1>12. ASSUME LogWrites PROVE FlightGrows
  <2>1. log' = log + 1 /\ queue' = queue /\ log' \in RecordId
    BY <1>12, EventLogAssumption
    DEF LogWrites, buffers, Types, RecordsOK, RecordId
  <2>2. ASSUME NEW g \in Slots
        PROVE  Range(source[g].pipe)' \subseteq
                   Range(source[g].pipe) \cup {log'}
    <3>1. /\ source[g] \in Source
          /\ \/ source'[g] = source[g]
             \/ source'[g] = [source[g] EXCEPT
                                  !.pipe = Append(source[g].pipe, log')]
      BY <1>12, SourceTyped DEF LogWrites, Types
    <3>2. \/ source'[g].pipe = source[g].pipe
          \/ source'[g].pipe = Append(source[g].pipe, log')
      BY <3>1 DEF Source
    <3>3. Range(Append(source[g].pipe, log')) =
              Range(source[g].pipe) \cup {log'}
      BY <2>1, SourceTyped, RangeOfAppend DEF Types
    <3>4. QED
      BY <3>2, <3>3
  <2>3. QED
    BY <2>1, <2>2 DEF InFlight
<1>13. ASSUME Receive PROVE FlightGrows
  <2>1. Range(Tail(queue)) \subseteq Range(queue)
    BY <1>13, RangeOfHeadTail DEF Receive, Types, BuffersOK
  <2>2. queue' = Tail(queue) /\ source' = source
    BY <1>13 DEF Receive, subscription
  <2>3. QED
    BY <2>1, <2>2, FlightShrinks
<1>14. ASSUME Save PROVE FlightGrows
  BY <1>14, <1>same DEF Save, subscription
<1>15. ASSUME SaveFails PROVE FlightGrows
  BY <1>15, <1>same DEF SaveFails, subscription, buffers
<1>16. ASSUME RunReturns PROVE FlightGrows
  BY <1>16, <1>same DEF RunReturns, subscription, buffers
<1>17. ASSUME StopAgent PROVE FlightGrows
  <2>1. /\ source' = [h \in Slots |-> FreeSlot]
        /\ queue' = <<>>
    BY <1>17 DEF StopAgent, Restart
  <2>2. \A h \in Slots : Range(source[h].pipe)' = {}
    BY <2>1, FreePipe
  <2>3. Range(queue') = {}
    BY <2>1 DEF Range
  <2>4. QED
    BY <2>2, <2>3 DEF InFlight
<1>18. ASSUME Crash PROVE FlightGrows
  <2>1. /\ source' = [h \in Slots |-> FreeSlot]
        /\ queue' = <<>>
    BY <1>18 DEF Crash, Restart
  <2>2. \A h \in Slots : Range(source[h].pipe)' = {}
    BY <2>1, FreePipe
  <2>3. Range(queue') = {}
    BY <2>1 DEF Range
  <2>4. QED
    BY <2>2, <2>3 DEF InFlight
<1>19. CASE UNCHANGED vars
  BY <1>19, <1>same DEF vars, subscription, buffers
<1> QED
  BY <1>1, <1>2, <1>3, <1>4, <1>5, <1>6, <1>7, <1>8, <1>9, <1>10, <1>11,
     <1>12, <1>13, <1>14, <1>15, <1>16, <1>17, <1>18, <1>19
  DEF Next, AgentStep, SourceStep

\* The log grows by one record at a time.
LEMMA LogStep == Types /\ [Next]_vars => log' \in {log, log + 1}
<1> SUFFICES ASSUME Types, [Next]_vars PROVE log' \in {log, log + 1}
  OBVIOUS
<1>same. CASE UNCHANGED <<log>>
  BY <1>same
<1>1. ASSUME Configure PROVE log' \in {log, log + 1}
  BY <1>1, <1>same DEF Configure
<1>2. ASSUME NEW g \in Slots, Start(g) PROVE log' \in {log, log + 1}
  BY <1>2, <1>same DEF Start
<1>3. ASSUME StartAgain PROVE log' \in {log, log + 1}
  BY <1>3, <1>same DEF StartAgain
<1>4. ASSUME Stop PROVE log' \in {log, log + 1}
  BY <1>4, <1>same DEF Stop
<1>5. ASSUME Stopped PROVE log' \in {log, log + 1}
  BY <1>5, <1>same DEF Stopped
<1>6. ASSUME Upload PROVE log' \in {log, log + 1}
  BY <1>6, <1>same DEF Upload
<1>7. ASSUME NEW g \in Slots, Read(g) PROVE log' \in {log, log + 1}
  BY <1>7, <1>same DEF Read
<1>8. ASSUME NEW g \in Slots, WatcherStops(g) PROVE log' \in {log, log + 1}
  BY <1>8, <1>same DEF WatcherStops
<1>9. ASSUME NEW g \in Slots, Exits(g) PROVE log' \in {log, log + 1}
  BY <1>9, <1>same DEF Exits
<1>10. ASSUME StartFails PROVE log' \in {log, log + 1}
  BY <1>10, <1>same DEF StartFails
<1>11. ASSUME UploadFails PROVE log' \in {log, log + 1}
  BY <1>11, <1>same DEF UploadFails
<1>12. ASSUME LogWrites PROVE log' \in {log, log + 1}
  BY <1>12 DEF LogWrites
<1>13. ASSUME Receive PROVE log' \in {log, log + 1}
  BY <1>13, <1>same DEF Receive
<1>14. ASSUME Save PROVE log' \in {log, log + 1}
  BY <1>14, <1>same DEF Save
<1>15. ASSUME SaveFails PROVE log' \in {log, log + 1}
  BY <1>15, <1>same DEF SaveFails
<1>16. ASSUME RunReturns PROVE log' \in {log, log + 1}
  BY <1>16, <1>same DEF RunReturns
<1>17. ASSUME StopAgent PROVE log' \in {log, log + 1}
  BY <1>17 DEF StopAgent, Restart
<1>18. ASSUME Crash PROVE log' \in {log, log + 1}
  BY <1>18 DEF Crash, Restart
<1>19. CASE UNCHANGED vars
  BY <1>19, <1>same DEF vars
<1> QED
  BY <1>1, <1>2, <1>3, <1>4, <1>5, <1>6, <1>7, <1>8, <1>9, <1>10, <1>11,
     <1>12, <1>13, <1>14, <1>15, <1>16, <1>17, <1>18, <1>19
  DEF Next, AgentStep, SourceStep

\* A cycle drains no more than there is.
LEMMA DrainWithin ==
    ASSUME Types
    PROVE  DrainCount \in 0..Len(events) /\ events \in Seq(RecordId)
<1>1. events \in Seq(RecordId) /\ Len(events) \in Nat
  BY LenProperties DEF Types, BuffersOK
<1>2. QED
  BY <1>1, EventLogAssumption DEF DrainCount

\* Only a record in flight can be let through, and it becomes the checkpoint.
PassedGrows ==
    \/ Passed' \subseteq Passed
    \/ Passed' \subseteq Passed \cup {checkpoint'} /\ checkpoint' \in InFlight

\* The only record a step lets through is one in flight that becomes the
\* checkpoint.
LEMMA PassedStep == Types /\ [Next]_vars => PassedGrows
<1> SUFFICES ASSUME Types, [Next]_vars PROVE PassedGrows
  OBVIOUS
<1> USE DEF PassedGrows
<1>same. CASE UNCHANGED <<uploaded, events, inHand>>
  BY <1>same DEF Passed
<1>1. ASSUME Configure PROVE PassedGrows
  BY <1>1, <1>same DEF Configure, run, buffers, history
<1>2. ASSUME NEW g \in Slots, Start(g) PROVE PassedGrows
  BY <1>2, <1>same DEF Start, buffers, history
<1>3. ASSUME StartAgain PROVE PassedGrows
  BY <1>3, <1>same DEF StartAgain, run, buffers, history
<1>4. ASSUME Stop PROVE PassedGrows
  BY <1>4, <1>same DEF Stop, run, buffers, history
<1>5. ASSUME Stopped PROVE PassedGrows
  BY <1>5, <1>same DEF Stopped, run, buffers, history
<1>6. ASSUME Upload PROVE PassedGrows
  <2>1. DrainCount \in 0..Len(events) /\ events \in Seq(RecordId)
    BY DrainWithin
  <2>2. Range(events) = Range(SubSeq(events, 1, DrainCount))
                        \cup Range(SubSeq(events, DrainCount + 1, Len(events)))
    BY <2>1, Cut
  <2>3. /\ events' = SubSeq(events, DrainCount + 1, Len(events))
        /\ uploaded' \subseteq
               uploaded \cup Range(SubSeq(events, 1, DrainCount))
        /\ inHand' = inHand
    BY <1>6 DEF Upload, run
  <2>4. QED
    BY <2>2, <2>3 DEF Passed
<1>7. ASSUME NEW g \in Slots, Read(g) PROVE PassedGrows
  BY <1>7, <1>same DEF Read, run
<1>8. ASSUME NEW g \in Slots, WatcherStops(g) PROVE PassedGrows
  BY <1>8, <1>same DEF WatcherStops, run, buffers, history
<1>9. ASSUME NEW g \in Slots, Exits(g) PROVE PassedGrows
  BY <1>9, <1>same DEF Exits, run, buffers, history
<1>10. ASSUME StartFails PROVE PassedGrows
  BY <1>10, <1>same DEF StartFails, buffers, history
<1>11. ASSUME UploadFails PROVE PassedGrows
  <2>1. DrainCount \in 0..Len(events) /\ events \in Seq(RecordId)
    BY DrainWithin
  <2>2. Range(events) = Range(SubSeq(events, 1, DrainCount))
                        \cup Range(SubSeq(events, DrainCount + 1, Len(events)))
    BY <2>1, Cut
  <2>3. /\ events' = SubSeq(events, DrainCount + 1, Len(events))
        /\ uploaded' \subseteq
               uploaded \cup Range(SubSeq(events, 1, DrainCount))
        /\ inHand' = inHand
    BY <1>11 DEF UploadFails, run
  <2>4. QED
    BY <2>2, <2>3 DEF Passed
<1>12. ASSUME LogWrites PROVE PassedGrows
  BY <1>12, <1>same DEF LogWrites, run, buffers, history
<1>13. ASSUME Receive PROVE PassedGrows
  <2>1. Head(queue) \in InFlight
    BY <1>13, RangeOfHeadTail DEF Receive, Types, BuffersOK, InFlight
  <2>2. /\ events' = events /\ uploaded' = uploaded
        /\ inHand' = 0 \/ (inHand' = Head(queue) /\ checkpoint' = Head(queue))
    BY <1>13 DEF Receive, Observe
  <2>3. QED
    BY <2>1, <2>2 DEF Passed
<1>14. ASSUME Save PROVE PassedGrows
  <2>1. inHand \in RecordId /\ inHand # 0
    BY <1>14 DEF Save, Types, RecordsOK, RecordId
  <2>2. Range(Append(events, inHand)) = Range(events) \cup {inHand}
    BY <2>1, RangeOfAppend DEF Types, BuffersOK
  <2>3. events' = Append(events, inHand) /\ inHand' = 0 /\ uploaded' = uploaded
    BY <1>14 DEF Save, history
  <2>4. QED
    BY <2>1, <2>2, <2>3 DEF Passed
<1>15. ASSUME SaveFails PROVE PassedGrows
  <2>1. inHand' = 0 /\ events' = events /\ uploaded' = uploaded
    BY <1>15 DEF SaveFails, buffers
  <2>2. QED
    BY <2>1 DEF Passed
<1>16. ASSUME RunReturns PROVE PassedGrows
  BY <1>16, <1>same DEF RunReturns, buffers, history
<1>17. ASSUME StopAgent PROVE PassedGrows
  <2>1. inHand' = 0 /\ events' = <<>> /\ uploaded' = uploaded
    BY <1>17 DEF StopAgent, Restart
  <2>2. Range(events') = {}
    BY <2>1 DEF Range
  <2>3. QED
    BY <2>1, <2>2 DEF Passed
<1>18. ASSUME Crash PROVE PassedGrows
  <2>1. inHand' = 0 /\ events' = <<>> /\ uploaded' = uploaded
    BY <1>18 DEF Crash, Restart
  <2>2. Range(events') = {}
    BY <2>1 DEF Range
  <2>3. QED
    BY <2>1, <2>2 DEF Passed
<1>19. CASE UNCHANGED vars
  BY <1>19, <1>same DEF vars, run, buffers, history
<1> QED
  BY <1>1, <1>2, <1>3, <1>4, <1>5, <1>6, <1>7, <1>8, <1>9, <1>10, <1>11,
     <1>12, <1>13, <1>14, <1>15, <1>16, <1>17, <1>18, <1>19
  DEF Next, AgentStep, SourceStep

\* The checkpoint goes back only when nothing is left in flight.
CheckpointGrows == checkpoint' >= checkpoint \/ InFlight' = {}

\* A checkpoint only goes back when the agent ends, and then nothing is in
\* flight.
LEMMA CheckpointStep == Types /\ [Next]_vars => CheckpointGrows
<1> SUFFICES ASSUME Types, [Next]_vars PROVE CheckpointGrows
  OBVIOUS
<1> USE DEF CheckpointGrows
<1>same. CASE UNCHANGED <<checkpoint>>
  BY <1>same DEF Types, RecordsOK
<1>1. ASSUME Configure PROVE CheckpointGrows
  BY <1>1, <1>same DEF Configure, checkpoints
<1>2. ASSUME NEW g \in Slots, Start(g) PROVE CheckpointGrows
  BY <1>2, <1>same DEF Start, checkpoints
<1>3. ASSUME StartAgain PROVE CheckpointGrows
  BY <1>3, <1>same DEF StartAgain, checkpoints
<1>4. ASSUME Stop PROVE CheckpointGrows
  BY <1>4, <1>same DEF Stop, checkpoints
<1>5. ASSUME Stopped PROVE CheckpointGrows
  BY <1>5, <1>same DEF Stopped, checkpoints
<1>6. ASSUME Upload PROVE CheckpointGrows
  BY <1>6, <1>same DEF Upload, checkpoints
<1>7. ASSUME NEW g \in Slots, Read(g) PROVE CheckpointGrows
  BY <1>7, <1>same DEF Read, checkpoints
<1>8. ASSUME NEW g \in Slots, WatcherStops(g) PROVE CheckpointGrows
  BY <1>8, <1>same DEF WatcherStops, checkpoints
<1>9. ASSUME NEW g \in Slots, Exits(g) PROVE CheckpointGrows
  BY <1>9, <1>same DEF Exits, checkpoints
<1>10. ASSUME StartFails PROVE CheckpointGrows
  BY <1>10, <1>same DEF StartFails, checkpoints
<1>11. ASSUME UploadFails PROVE CheckpointGrows
  BY <1>11, <1>same DEF UploadFails, checkpoints
<1>12. ASSUME LogWrites PROVE CheckpointGrows
  BY <1>12, <1>same DEF LogWrites, checkpoints
<1>13. ASSUME Receive PROVE CheckpointGrows
  <2>1. Head(queue) \in RecordId
    BY <1>13, RangeOfHeadTail DEF Receive, Types, BuffersOK
  <2>2. QED
    BY <1>13, <2>1 DEF Receive, Observe, Types, RecordsOK
<1>14. ASSUME Save PROVE CheckpointGrows
  BY <1>14, <1>same DEF Save
<1>15. ASSUME SaveFails PROVE CheckpointGrows
  BY <1>15, <1>same DEF SaveFails
<1>16. ASSUME RunReturns PROVE CheckpointGrows
  BY <1>16, <1>same DEF RunReturns, checkpoints
<1>17. ASSUME StopAgent PROVE CheckpointGrows
  <2>1. source' = [x \in Slots |-> FreeSlot] /\ queue' = <<>>
    BY <1>17 DEF StopAgent, Restart
  <2>2. \A x \in Slots : Range(source[x].pipe)' = {}
    BY <2>1, FreePipe
  <2>3. Range(queue') = {}
    BY <2>1 DEF Range
  <2>4. QED
    BY <2>2, <2>3 DEF InFlight
<1>18. ASSUME Crash PROVE CheckpointGrows
  <2>1. source' = [x \in Slots |-> FreeSlot] /\ queue' = <<>>
    BY <1>18 DEF Crash, Restart
  <2>2. \A x \in Slots : Range(source[x].pipe)' = {}
    BY <2>1, FreePipe
  <2>3. Range(queue') = {}
    BY <2>1 DEF Range
  <2>4. QED
    BY <2>2, <2>3 DEF InFlight
<1>19. CASE UNCHANGED vars
  BY <1>19, <1>same DEF vars, checkpoints
<1> QED
  BY <1>1, <1>2, <1>3, <1>4, <1>5, <1>6, <1>7, <1>8, <1>9, <1>10, <1>11,
     <1>12, <1>13, <1>14, <1>15, <1>16, <1>17, <1>18, <1>19
  DEF Next, AgentStep, SourceStep

\* Ahead is kept: a record let through was in flight, and one that is lost
\* from the checkpoint leaves nothing in flight behind.
LEMMA AheadStep == Types /\ Ahead /\ [Next]_vars => Ahead'
<1> SUFFICES ASSUME Types, Ahead, [Next]_vars PROVE Ahead'
  OBVIOUS
<1>1. /\ \A r \in InFlight' : r \in InFlight \/ (r = log' /\ log' = log + 1)
      /\ log' \in {log, log + 1}
  BY FlightStep, LogStep DEF FlightGrows
<1>2. \/ Passed' \subseteq Passed
      \/ /\ Passed' \subseteq Passed \cup {checkpoint'}
         /\ checkpoint' \in InFlight
  BY PassedStep DEF PassedGrows
<1>3. checkpoint' >= checkpoint \/ InFlight' = {}
  BY CheckpointStep DEF CheckpointGrows
<1>4. /\ log \in Int /\ log' \in Int
      /\ checkpoint \in Int /\ checkpoint' \in Int
      /\ InFlight \subseteq Int /\ Passed \subseteq Int
  <2>1. Range(queue) \subseteq RecordId /\ Range(events) \subseteq RecordId
    BY RangeOfSeq DEF Types, BuffersOK
  <2>2. Types'
    BY TypesStep
  <2>3. InFlight \subseteq RecordId /\ RecordId \subseteq Int
    BY <2>1 DEF InFlight, RecordId
  <2>4. /\ log \in Int /\ checkpoint \in Int /\ inHand \in Int
        /\ uploaded \subseteq RecordId
    BY DEF Types, RecordsOK, HistoryOK
  <2>5. log' \in Int /\ checkpoint' \in Int
    BY <2>2 DEF Types, RecordsOK
  <2>6. QED
    BY <2>1, <2>3, <2>4, <2>5 DEF Passed
<1>5. \A r \in InFlight' : r \in Int /\ r <= log'
  <2>1. \A r \in InFlight : r <= log
    BY DEF Ahead
  <2>2. \A r \in InFlight' : r \in Int
    BY <1>1, <1>4
  <2>3. log <= log'
    BY <1>1, <1>4
  <2>4. QED
    BY <1>1, <1>4, <2>1, <2>2, <2>3
<1>6. \A r \in Passed' : r \in Int /\ r <= log'
  <2>1. \A r \in Passed \cup InFlight : r <= log /\ r \in Int
    BY <1>4 DEF Ahead
  <2>2. Passed' \subseteq Passed \cup InFlight
    BY <1>2
  <2>3. log <= log'
    BY <1>1, <1>4
  <2>4. QED
    BY <1>4, <2>1, <2>2, <2>3
<1>7. ASSUME NEW r \in Passed', NEW q \in InFlight', checkpoint' < r
      PROVE  r < q
  <2>1. checkpoint' >= checkpoint
    BY <1>3
  <2>2. r \in Passed /\ checkpoint < r
    <3>1. r # checkpoint'
      BY <1>4, <1>7
    <3>2. r \in Passed
      BY <1>2, <1>7, <3>1
    <3>3. QED
      BY <1>4, <1>7, <2>1, <3>2
  <2>3. CASE q \in InFlight
    BY <2>2, <2>3 DEF Ahead
  <2>4. CASE q = log + 1
    <3>1. r <= log
      BY <2>2 DEF Ahead
    <3>2. QED
      BY <1>4, <2>2, <2>4, <3>1
  <2>5. QED
    BY <1>1, <2>3, <2>4
<1>8. QED
  BY <1>5, <1>6, <1>7 DEF Ahead

-----------------------------------------------------------------------------
\* The other parts of the invariant, step by step

\* The file never gets ahead of the checkpoint.
LEMMA SavedStep == Types /\ Saved /\ [Next]_vars => Saved'
<1> SUFFICES ASSUME Types /\ Saved, [Next]_vars PROVE Saved'
  OBVIOUS
<1>same. CASE UNCHANGED <<checkpoint, disk, inHand>>
  BY <1>same DEF Saved
<1>1. ASSUME Configure PROVE Saved'
  BY <1>1, <1>same DEF Configure, run, checkpoints
<1>2. ASSUME NEW g \in Slots, Start(g) PROVE Saved'
  BY <1>2, <1>same DEF Start, checkpoints
<1>3. ASSUME StartAgain PROVE Saved'
  BY <1>3, <1>same DEF StartAgain, run, checkpoints
<1>4. ASSUME Stop PROVE Saved'
  BY <1>4, <1>same DEF Stop, run, checkpoints
<1>5. ASSUME Stopped PROVE Saved'
  BY <1>5, <1>same DEF Stopped, run, checkpoints
<1>6. ASSUME Upload PROVE Saved'
  BY <1>6, <1>same DEF Upload, run, checkpoints
<1>7. ASSUME NEW g \in Slots, Read(g) PROVE Saved'
  BY <1>7, <1>same DEF Read, run, checkpoints
<1>8. ASSUME NEW g \in Slots, WatcherStops(g) PROVE Saved'
  BY <1>8, <1>same DEF WatcherStops, run, checkpoints
<1>9. ASSUME NEW g \in Slots, Exits(g) PROVE Saved'
  BY <1>9, <1>same DEF Exits, run, checkpoints
<1>10. ASSUME StartFails PROVE Saved'
  BY <1>10, <1>same DEF StartFails, checkpoints
<1>11. ASSUME UploadFails PROVE Saved'
  BY <1>11, <1>same DEF UploadFails, run, checkpoints
<1>12. ASSUME LogWrites PROVE Saved'
  BY <1>12, <1>same DEF LogWrites, run, checkpoints
<1>13. ASSUME Receive PROVE Saved'
  <2>1. Head(queue) \in RecordId
    BY <1>13, RangeOfHeadTail DEF Receive, Types, BuffersOK
  <2>2. checkpoint \in Nat /\ disk \in Int
    BY DEF Types, RecordsOK, Torn
  <2>3. disk' = disk /\ inHand = 0
    BY <1>13 DEF Receive
  <2>4. QED
    BY <1>13, <2>1, <2>2, <2>3 DEF Receive, Observe, Saved
<1>14. ASSUME Save PROVE Saved'
  BY <1>14 DEF Save, Saved, Types, RecordsOK
<1>15. ASSUME SaveFails PROVE Saved'
  BY <1>15 DEF SaveFails, Saved, Types, RecordsOK, Torn
<1>16. ASSUME RunReturns PROVE Saved'
  BY <1>16, <1>same DEF RunReturns, checkpoints
<1>17. ASSUME StopAgent PROVE Saved'
  BY <1>17 DEF StopAgent, Restart, Saved, Torn
<1>18. ASSUME Crash PROVE Saved'
  BY <1>18 DEF Crash, Restart, Saved, Torn
<1>19. CASE UNCHANGED vars
  BY <1>19, <1>same DEF vars, run, checkpoints
<1> QED
  BY <1>1, <1>2, <1>3, <1>4, <1>5, <1>6, <1>7, <1>8, <1>9, <1>10, <1>11,
     <1>12, <1>13, <1>14, <1>15, <1>16, <1>17, <1>18, <1>19
  DEF Next, AgentStep, SourceStep

\* What is received is beyond what was let through, so the order is kept.
LEMMA OrderStep == Types /\ Ahead /\ Order /\ [Next]_vars => Order'
<1> SUFFICES ASSUME Types /\ Ahead /\ Order, [Next]_vars PROVE Order'
  OBVIOUS
<1>same. CASE UNCHANGED <<events, inHand, uploaded>>
  BY <1>same DEF Order, Increasing
<1>1. ASSUME Configure PROVE Order'
  BY <1>1, <1>same DEF Configure, run, buffers, history
<1>2. ASSUME NEW g \in Slots, Start(g) PROVE Order'
  BY <1>2, <1>same DEF Start, buffers, history
<1>3. ASSUME StartAgain PROVE Order'
  BY <1>3, <1>same DEF StartAgain, run, buffers, history
<1>4. ASSUME Stop PROVE Order'
  BY <1>4, <1>same DEF Stop, run, buffers, history
<1>5. ASSUME Stopped PROVE Order'
  BY <1>5, <1>same DEF Stopped, run, buffers, history
<1>6. ASSUME Upload PROVE Order'
  <2> DEFINE sent == SubSeq(events, 1, DrainCount)
             left == SubSeq(events, DrainCount + 1, Len(events))
  <2>1. /\ Range(events) = Range(sent) \cup Range(left)
        /\ Increasing(left) /\ \A x \in Range(sent), y \in Range(left) : x < y
    BY DrainWithin, Cut DEF Order
  <2>2. /\ events' = left /\ uploaded' \subseteq uploaded \cup Range(sent)
        /\ inHand' = inHand
    BY <1>6 DEF Upload, run
  <2> HIDE DEF sent, left
  <2>3. Increasing(events')
    BY <2>1, <2>2
  <2>4. \A r \in Range(events') : inHand' # 0 => r < inHand'
    BY <2>1, <2>2 DEF Order
  <2>5. \A r \in uploaded', e \in Range(events') \cup ({inHand'} \ {0}) : r < e
    BY <2>1, <2>2 DEF Order
  <2>6. QED
    BY <2>3, <2>4, <2>5 DEF Order, Increasing
<1>7. ASSUME NEW g \in Slots, Read(g) PROVE Order'
  BY <1>7, <1>same DEF Read, run
<1>8. ASSUME NEW g \in Slots, WatcherStops(g) PROVE Order'
  BY <1>8, <1>same DEF WatcherStops, run, buffers, history
<1>9. ASSUME NEW g \in Slots, Exits(g) PROVE Order'
  BY <1>9, <1>same DEF Exits, run, buffers, history
<1>10. ASSUME StartFails PROVE Order'
  BY <1>10, <1>same DEF StartFails, buffers, history
<1>11. ASSUME UploadFails PROVE Order'
  <2> DEFINE sent == SubSeq(events, 1, DrainCount)
             left == SubSeq(events, DrainCount + 1, Len(events))
  <2>1. /\ Range(events) = Range(sent) \cup Range(left)
        /\ Increasing(left) /\ \A x \in Range(sent), y \in Range(left) : x < y
    BY DrainWithin, Cut DEF Order
  <2>2. /\ events' = left /\ uploaded' \subseteq uploaded \cup Range(sent)
        /\ inHand' = inHand
    BY <1>11 DEF UploadFails, run
  <2> HIDE DEF sent, left
  <2>3. Increasing(events')
    BY <2>1, <2>2
  <2>4. \A r \in Range(events') : inHand' # 0 => r < inHand'
    BY <2>1, <2>2 DEF Order
  <2>5. \A r \in uploaded', e \in Range(events') \cup ({inHand'} \ {0}) : r < e
    BY <2>1, <2>2 DEF Order
  <2>6. QED
    BY <2>3, <2>4, <2>5 DEF Order, Increasing
<1>12. ASSUME LogWrites PROVE Order'
  BY <1>12, <1>same DEF LogWrites, run, buffers, history
<1>13. ASSUME Receive PROVE Order'
  <2> DEFINE r == Head(queue)
  <2>1. r \in InFlight /\ r \in RecordId
    BY <1>13, RangeOfHeadTail DEF Receive, Types, BuffersOK, InFlight
  <2>2. /\ events' = events /\ uploaded' = uploaded
        /\ inHand' = IF r <= checkpoint THEN 0 ELSE r
    BY <1>13 DEF Receive, Observe
  <2>3. \A x \in Range(events) \cup uploaded :
            x \in Int /\ (checkpoint < x => x < r)
    <3>1. Range(events) \subseteq RecordId /\ uploaded \subseteq RecordId
      BY RangeOfSeq DEF Types, BuffersOK, HistoryOK
    <3>2. QED
      <4>1. \A x \in Range(events) \cup uploaded : x \in Passed
        BY DEF Passed
      <4>2. \A x \in Passed : checkpoint < x => x < r
        BY <2>1 DEF Ahead
      <4>3. QED
        <5>1. \A x \in RecordId : x \in Int
          BY DEF RecordId
        <5>2. QED
          BY <3>1, <4>1, <4>2, <5>1
  <2>4. ~(r <= checkpoint) => \A x \in Range(events) \cup uploaded : x < r
    <3>1. checkpoint \in Int /\ r \in Int
      BY <2>1 DEF Types, RecordsOK, RecordId
    <3>2. QED
      BY <2>3, <3>1
  <2>5. QED
    BY <2>2, <2>4 DEF Order, Increasing
<1>14. ASSUME Save PROVE Order'
  <2>1. inHand \in RecordId /\ inHand # 0 /\ RecordId \subseteq Int
    BY <1>14 DEF Save, Types, RecordsOK, RecordId
  <2>2. events' = Append(events, inHand) /\ inHand' = 0 /\ uploaded' = uploaded
    BY <1>14 DEF Save, history
  <2>3. Range(events') = Range(events) \cup {inHand}
    BY <2>1, <2>2, RangeOfAppend DEF Types, BuffersOK
  <2>4. Increasing(events')
    BY <2>1, <2>2, IncreasingAppend DEF Order, Types, BuffersOK
  <2>5. QED
    BY <2>1, <2>2, <2>3, <2>4 DEF Order, Increasing
<1>15. ASSUME SaveFails PROVE Order'
  <2>1. inHand' = 0 /\ events' = events /\ uploaded' = uploaded
    BY <1>15 DEF SaveFails, buffers
  <2>2. QED
    BY <2>1 DEF Order, Increasing
<1>16. ASSUME RunReturns PROVE Order'
  BY <1>16, <1>same DEF RunReturns, buffers, history
<1>17. ASSUME StopAgent PROVE Order'
  <2>1. inHand' = 0 /\ events' = <<>> /\ uploaded' = uploaded
    BY <1>17 DEF StopAgent, Restart
  <2>2. Range(events') = {} /\ DOMAIN events' = {}
    BY <2>1 DEF Range
  <2>3. QED
    BY <2>1, <2>2 DEF Order, Increasing
<1>18. ASSUME Crash PROVE Order'
  <2>1. inHand' = 0 /\ events' = <<>> /\ uploaded' = uploaded
    BY <1>18 DEF Crash, Restart
  <2>2. Range(events') = {} /\ DOMAIN events' = {}
    BY <2>1 DEF Range
  <2>3. QED
    BY <2>1, <2>2 DEF Order, Increasing
<1>19. CASE UNCHANGED vars
  BY <1>19, <1>same DEF vars, run, buffers, history
<1> QED
  BY <1>1, <1>2, <1>3, <1>4, <1>5, <1>6, <1>7, <1>8, <1>9, <1>10, <1>11,
     <1>12, <1>13, <1>14, <1>15, <1>16, <1>17, <1>18, <1>19
  DEF Next, AgentStep, SourceStep

\* A record that falls behind the checkpoint is in hand or reported, one
\* that leaves the buffer is uploaded or forgotten.
LEMMA AccountedStep ==
    Types /\ Saved /\ Accounted /\ [Next]_vars => Accounted'
<1> SUFFICES ASSUME Types /\ Saved /\ Accounted, [Next]_vars PROVE Accounted'
  OBVIOUS
<1>same. CASE UNCHANGED <<events, inHand, checkpoint, first,
                        uploaded, reported, forgotten>>
  BY <1>same DEF Accounted, Behind
<1>1. ASSUME Configure PROVE Accounted'
  BY <1>1, <1>same DEF Configure, run, buffers, checkpoints, history
<1>2. ASSUME NEW g \in Slots, Start(g) PROVE Accounted'
  BY <1>2, <1>same DEF Start, buffers, checkpoints, history
<1>3. ASSUME StartAgain PROVE Accounted'
  BY <1>3, <1>same DEF StartAgain, run, buffers, checkpoints, history
<1>4. ASSUME Stop PROVE Accounted'
  BY <1>4, <1>same DEF Stop, run, buffers, checkpoints, history
<1>5. ASSUME Stopped PROVE Accounted'
  BY <1>5, <1>same DEF Stopped, run, buffers, checkpoints, history
<1>6. ASSUME Upload PROVE Accounted'
  <2> DEFINE sent == SubSeq(events, 1, DrainCount)
             left == SubSeq(events, DrainCount + 1, Len(events))
  <2>1. Range(events) = Range(sent) \cup Range(left)
    BY DrainWithin, Cut
  <2>2. /\ events' = left /\ UNCHANGED <<inHand, checkpoint, first, reported>>
        /\ uploaded' \cup forgotten' = uploaded \cup forgotten \cup Range(sent)
    BY <1>6 DEF Upload, run, checkpoints
  <2> HIDE DEF sent, left
  <2>3. QED
    BY <2>1, <2>2 DEF Accounted, Behind
<1>7. ASSUME NEW g \in Slots, Read(g) PROVE Accounted'
  <2>1. /\ UNCHANGED <<events, inHand, checkpoint, first, uploaded, forgotten>>
        /\ reported \subseteq reported'
    BY <1>7 DEF Read, run, checkpoints
  <2>2. QED
    BY <2>1 DEF Accounted, Behind
<1>8. ASSUME NEW g \in Slots, WatcherStops(g) PROVE Accounted'
  BY <1>8, <1>same DEF WatcherStops, run, buffers, checkpoints, history
<1>9. ASSUME NEW g \in Slots, Exits(g) PROVE Accounted'
  BY <1>9, <1>same DEF Exits, run, buffers, checkpoints, history
<1>10. ASSUME StartFails PROVE Accounted'
  BY <1>10, <1>same DEF StartFails, buffers, checkpoints, history
<1>11. ASSUME UploadFails PROVE Accounted'
  <2> DEFINE sent == SubSeq(events, 1, DrainCount)
             left == SubSeq(events, DrainCount + 1, Len(events))
  <2>1. Range(events) = Range(sent) \cup Range(left)
    BY DrainWithin, Cut
  <2>2. /\ events' = left /\ UNCHANGED <<inHand, checkpoint, first, reported>>
        /\ uploaded' \cup forgotten' = uploaded \cup forgotten \cup Range(sent)
    BY <1>11 DEF UploadFails, run, checkpoints
  <2> HIDE DEF sent, left
  <2>3. QED
    BY <2>1, <2>2 DEF Accounted, Behind
<1>12. ASSUME LogWrites PROVE Accounted'
  BY <1>12, <1>same DEF LogWrites, run, buffers, checkpoints, history
<1>13. ASSUME Receive PROVE Accounted'
  <2> DEFINE r == Head(queue)
  <2>1. r \in RecordId
    BY <1>13, RangeOfHeadTail DEF Receive, Types, BuffersOK
  <2>2. /\ inHand = 0 /\ UNCHANGED <<events, uploaded, forgotten>>
        /\ checkpoint' = IF r <= checkpoint THEN checkpoint ELSE r
        /\ inHand' = IF r <= checkpoint THEN 0 ELSE r
        /\ first' = IF checkpoint = 0 THEN r ELSE first
        /\ reported' = reported \cup
               (IF r <= checkpoint THEN {r}
                ELSE IF checkpoint > 0 THEN (checkpoint + 1)..(r - 1) ELSE {})
    BY <1>13 DEF Receive, Observe
  <2> HIDE DEF r
  <2>3. /\ checkpoint \in Nat /\ first \in Nat /\ r \in Nat /\ r > 0
        /\ Matching \subseteq Int
    BY <2>1, EventLogAssumption DEF Types, RecordsOK, RecordId
  <2>4. ASSUME NEW x \in Behind'
        PROVE  x \in Behind \/ x = inHand' \/ x \in reported'
    <3>1. /\ x \in Matching /\ x \in Int
          /\ 0 < first' /\ first' <= x /\ x <= checkpoint'
      BY <2>3, <2>4 DEF Behind
    <3>2. CASE checkpoint = 0
      BY <2>2, <2>3, <3>1, <3>2
    <3>3. CASE checkpoint # 0 /\ r <= checkpoint
      BY <2>2, <2>3, <3>1, <3>3 DEF Behind
    <3>4. CASE checkpoint # 0 /\ ~(r <= checkpoint)
      <4>1. x <= checkpoint \/ x \in (checkpoint + 1)..(r - 1) \/ x = r
        BY <2>2, <2>3, <3>1, <3>4
      <4>2. QED
        BY <2>2, <2>3, <3>1, <3>4, <4>1 DEF Behind
    <3>5. QED
      BY <3>2, <3>3, <3>4
  <2>5. Behind \subseteq
            Range(events) \cup uploaded \cup reported \cup forgotten
    <3>1. \A x \in Behind : x # 0
      BY <2>3 DEF Behind
    <3>2. QED
      BY <2>2, <3>1 DEF Accounted
  <2>6. QED
    BY <2>2, <2>4, <2>5 DEF Accounted
<1>14. ASSUME Save PROVE Accounted'
  <2>1. inHand \in RecordId /\ inHand # 0
    BY <1>14 DEF Save, Types, RecordsOK, RecordId
  <2>2. Range(Append(events, inHand)) = Range(events) \cup {inHand}
    BY <2>1, RangeOfAppend DEF Types, BuffersOK
  <2>3. /\ events' = Append(events, inHand)
        /\ UNCHANGED <<checkpoint, first, uploaded, reported, forgotten>>
    BY <1>14 DEF Save, history
  <2>4. QED
    BY <2>2, <2>3 DEF Accounted, Behind
<1>15. ASSUME SaveFails PROVE Accounted'
  <2>1. /\ UNCHANGED <<events, checkpoint, first, uploaded, forgotten>>
        /\ reported' = reported \cup {inHand}
    BY <1>15 DEF SaveFails, buffers
  <2>2. QED
    BY <2>1 DEF Accounted, Behind
<1>16. ASSUME RunReturns PROVE Accounted'
  BY <1>16, <1>same DEF RunReturns, buffers, checkpoints, history
<1>17. ASSUME StopAgent PROVE Accounted'
  <2>1. /\ UNCHANGED <<uploaded, reported>>
        /\ forgotten' = forgotten \cup Range(events)
        /\ \/ first' = 0
           \/ first' = first /\ checkpoint' = disk /\ disk \in Int
    BY <1>17 DEF StopAgent, Restart, Torn
  <2>2. CASE first' = 0
    BY <2>2 DEF Accounted, Behind
  <2>3. CASE first' = first /\ checkpoint' = disk /\ disk \in Int
    <3>1. /\ checkpoint \in Int /\ Matching \subseteq Int
          /\ disk <= checkpoint /\ (inHand # 0 => disk < inHand)
      BY EventLogAssumption DEF Saved, Types, RecordsOK
    <3>2. \A x \in Behind' :
              x \in Matching /\ 0 < first /\ first <= x /\ x <= disk
      BY <2>3 DEF Behind
    <3>3. \A x \in Behind' : x \in Behind
      BY <2>3, <3>1, <3>2 DEF Behind
    <3>4. inHand \in Nat /\ first \in Nat
      BY DEF Types, RecordsOK
    <3>5. inHand \notin Behind'
      BY <2>3, <3>1, <3>2, <3>4
    <3>6. QED
      BY <2>1, <3>3, <3>5 DEF Accounted
  <2>4. QED
    BY <2>1, <2>2, <2>3
<1>18. ASSUME Crash PROVE Accounted'
  <2>1. /\ UNCHANGED <<uploaded, reported>>
        /\ forgotten' = forgotten \cup Range(events)
        /\ \/ first' = 0
           \/ first' = first /\ checkpoint' = disk /\ disk \in Int
    BY <1>18 DEF Crash, Restart, Torn
  <2>2. CASE first' = 0
    BY <2>2 DEF Accounted, Behind
  <2>3. CASE first' = first /\ checkpoint' = disk /\ disk \in Int
    <3>1. /\ checkpoint \in Int /\ Matching \subseteq Int
          /\ disk <= checkpoint /\ (inHand # 0 => disk < inHand)
      BY EventLogAssumption DEF Saved, Types, RecordsOK
    <3>2. \A x \in Behind' :
              x \in Matching /\ 0 < first /\ first <= x /\ x <= disk
      BY <2>3 DEF Behind
    <3>3. \A x \in Behind' : x \in Behind
      BY <2>3, <3>1, <3>2 DEF Behind
    <3>4. inHand \in Nat /\ first \in Nat
      BY DEF Types, RecordsOK
    <3>5. inHand \notin Behind'
      BY <2>3, <3>1, <3>2, <3>4
    <3>6. QED
      BY <2>1, <3>3, <3>5 DEF Accounted
  <2>4. QED
    BY <2>1, <2>2, <2>3
<1>19. CASE UNCHANGED vars
  BY <1>19, <1>same DEF vars, run, buffers, checkpoints, history
<1> QED
  BY <1>1, <1>2, <1>3, <1>4, <1>5, <1>6, <1>7, <1>8, <1>9, <1>10, <1>11,
     <1>12, <1>13, <1>14, <1>15, <1>16, <1>17, <1>18, <1>19
  DEF Next, AgentStep, SourceStep

-----------------------------------------------------------------------------
\* Initially nothing was seen.
LEMMA InitIInv == Init => IInv
<1> SUFFICES ASSUME Init PROVE IInv
  OBVIOUS
<1>1. Range(<<>>) = {} /\ <<>> \in Seq(RecordId)
  BY DEF Range
<1>2. InFlight = {} /\ Passed = {}
  BY <1>1 DEF Init, InFlight, Passed, FreeSlot
<1>3. FreeSlot \in Source
  BY <1>1 DEF FreeSlot, Source
<1>4. Types
  <2>1. SourcesOK
    BY <1>3 DEF Init, SourcesOK
  <2>2. RecordsOK /\ LoopOK
    <3>1. 0 \in 0..MaxRecord /\ 0 \in 0..MaxRestarts /\ 0 \in 0..MaxFaults
      BY EventLogAssumption
    <3>2. QED
      BY <3>1 DEF Init, RecordsOK, LoopOK
  <2>3. BuffersOK /\ HistoryOK
    BY <1>1, EventLogAssumption DEF Init, BuffersOK, HistoryOK
  <2>4. QED
    BY <2>1, <2>2, <2>3 DEF Types
<1>5. Ahead
  BY <1>2 DEF Ahead
<1>6. Order
  BY <1>1 DEF Init, Order, Increasing
<1>7. Saved /\ Accounted
  BY DEF Init, Saved, Accounted, Behind
<1>8. QED
  BY <1>4, <1>5, <1>6, <1>7 DEF IInv

\* IInv is inductive.
THEOREM Inductive == Spec => []IInv
<1>1. IInv /\ [Next]_vars => IInv'
  BY TypesStep, AheadStep, SavedStep, OrderStep, AccountedStep DEF IInv
<1>2. QED
  BY InitIInv, <1>1, PTL DEF Spec

\* Held is the buffer with the record in hand, if there is one, at its end.
LEMMA HeldShape ==
    ASSUME Types, Order
    PROVE  /\ Held \in Seq(RecordId) /\ Increasing(Held)
           /\ Range(Held) = Range(events) \cup ({inHand} \ {0})
<1>1. CASE inHand = 0
  <2>1. Held = events
    BY <1>1, ConcatEmptySeq DEF Held, Hand
  <2>2. QED
    BY <1>1, <2>1 DEF Types, BuffersOK, Order
<1>2. CASE inHand # 0
  <2>1. inHand \in RecordId /\ events \in Seq(RecordId)
    BY <1>2 DEF Types, BuffersOK, RecordsOK, RecordId
  <2>2. Held = Append(events, inHand)
    BY <1>2, <2>1, AppendIsConcat DEF Held, Hand
  <2>3. QED
    BY <1>2, <2>1, <2>2, RangeOfAppend, IncreasingAppend DEF Order
<1>3. QED
  BY <1>1, <1>2

\* run lets each record through once and in the log's order, whatever the order
\* in which sources, their pipes and restarts bring them: saveCheckpoints and
\* Observe of eventlog_subscription.go.
THEOREM UploadsFollowTheLog == Spec => []UploadedInOrder
<1>1. IInv => UploadedInOrder
  <2> SUFFICES ASSUME IInv PROVE UploadedInOrder
    OBVIOUS
  <2>1. /\ Held \in Seq(RecordId) /\ Increasing(Held)
        /\ Range(Held) = Range(events) \cup ({inHand} \ {0})
    BY HeldShape DEF IInv
  <2>2. \A i \in DOMAIN Held : Held[i] \in Range(Held)
    BY DEF Range
  <2>3. \A i \in DOMAIN Held, r \in uploaded : r < Held[i]
    BY <2>1, <2>2 DEF IInv, Order
  <2>4. QED
    BY <2>1, <2>3 DEF UploadedInOrder, Increasing
<1>2. QED
  BY Inductive, <1>1, PTL

\* Every matching record behind the checkpoint is on its way, uploaded, in a
\* counter or an error, or was in memory only when the agent ended.
THEOREM MissesAreReported == Spec => []MissedIsReported
<1>1. IInv => MissedIsReported
  <2> SUFFICES ASSUME IInv PROVE MissedIsReported
    OBVIOUS
  <2>1. Range(Held) = Range(events) \cup ({inHand} \ {0})
    BY HeldShape DEF IInv
  <2>2. 0 \notin Behind
    BY DEF Behind, IInv, Types, RecordsOK
  <2>3. QED
    BY <2>1, <2>2 DEF IInv, Accounted, MissedIsReported
<1>2. QED
  BY Inductive, <1>1, PTL

=============================================================================
