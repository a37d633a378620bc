---------------------------- MODULE SpoolProofs -----------------------------
(***************************************************************************)
(* Theorems about the spool, for every limit, every size of record, any    *)
(* number of records and any number of crashes and failed writes.          *)
(*                                                                         *)
(* One inductive invariant, IInv, carries all of them.  Beside the types   *)
(* it says how the records in memory relate to the file during a call:     *)
(* while trimming, what was left out so far is worth less than what is     *)
(* still there; while flushing, each record of the file is still to be     *)
(* sent, kept for another try, or with the backend.  On top of it, Counted *)
(* says what the counters account for at each point of a call, and Needed  *)
(* that what a trim leaves out had to go.                                  *)
(***************************************************************************)
EXTENDS Spool, FiniteSetTheorems, WellFoundedInduction, TLAPS

Increasing(rs) == \A i, j \in DOMAIN rs : i < j => rs[i].id < rs[j].id

\* Record ids follow the order in which records were handed over.
Order ==
    /\ Increasing(file) /\ Increasing(work) /\ Increasing(kept)
    /\ \A r \in accepted : r.id < nextId
    /\ Range(file) \subseteq accepted

Trimming ==
    pc = "trim" =>
        /\ rec.id < nextId
        /\ rec.id <= MaxAppends /\ rec.at <= MaxAppends
        /\ \A r \in accepted : r.id < rec.id
        /\ Range(work) \subseteq Range(file) \cup {rec}
        /\ \A k \in Range(work), d \in (Range(file) \cup {rec}) \ Range(work) :
              Promise!Outranks(k, d)

Flushing ==
    pc = "flush" =>
        /\ Range(work) \cup Range(kept) \subseteq Range(file)
        /\ Range(file) \subseteq Range(work) \cup Range(kept) \cup delivered
        /\ \A i \in DOMAIN kept, j \in DOMAIN work : kept[i].id < work[j].id
        /\ Len(kept) + Len(work) <= Len(file)

Between == pc # "flush" => kept = <<>>

IInv == TypeOK /\ Order /\ Trimming /\ Flushing /\ Between
        /\ NoSilentLoss /\ RecordsBounded

-----------------------------------------------------------------------------
\* Sequences of records

\* Appending a record adds it to the set of records, and nothing else.
LEMMA RangeOfAppend ==
    ASSUME NEW S, NEW rs \in Seq(S), NEW e \in S
    PROVE  Range(Append(rs, e)) = Range(rs) \cup {e}
<1>1. DOMAIN Append(rs, e) = 1..(Len(rs) + 1) /\ DOMAIN rs = 1..Len(rs)
  OBVIOUS
<1>2. \A i \in 1..Len(rs) : Append(rs, e)[i] = rs[i]
  OBVIOUS
<1>3. Append(rs, e)[Len(rs) + 1] = e /\ Len(rs) \in Nat
  OBVIOUS
<1>4. QED
  BY <1>1, <1>2, <1>3 DEF Range

\* The records of a non-empty sequence are its head and those of its tail.
LEMMA RangeOfHeadTail ==
    ASSUME NEW S, NEW rs \in Seq(S), rs # <<>>
    PROVE  /\ Head(rs) \in S /\ Tail(rs) \in Seq(S)
           /\ Range(rs) = {Head(rs)} \cup Range(Tail(rs))
<1>1. /\ Len(rs) \in Nat /\ Len(rs) > 0
      /\ DOMAIN rs = 1..Len(rs) /\ DOMAIN Tail(rs) = 1..(Len(rs) - 1)
      /\ Head(rs) = rs[1]
      /\ Head(rs) \in S /\ Tail(rs) \in Seq(S)
  OBVIOUS
<1>2. \A i \in 1..(Len(rs) - 1) : Tail(rs)[i] = rs[i + 1]
  OBVIOUS
<1>3. \A i \in 1..Len(rs) : i = 1 \/ (i - 1 \in 1..(Len(rs) - 1) /\ (i - 1) + 1 = i)
  BY <1>1
<1>4. \A i \in 1..(Len(rs) - 1) : i + 1 \in 1..Len(rs)
  BY <1>1
<1>5. ASSUME NEW i \in DOMAIN rs
      PROVE  rs[i] \in {Head(rs)} \cup Range(Tail(rs))
  <2>1. CASE i = 1
    BY <1>1, <2>1
  <2>2. CASE i # 1
    <3>1. i - 1 \in DOMAIN Tail(rs) /\ Tail(rs)[i - 1] = rs[i]
      BY <1>1, <1>2, <1>3, <2>2
    <3>2. QED
      BY <3>1 DEF Range
  <2>3. QED
    BY <2>1, <2>2
<1>6. 1 \in DOMAIN rs /\ Range(Tail(rs)) \subseteq Range(rs)
  BY <1>1, <1>2, <1>4 DEF Range
<1>7. Head(rs) \in Range(rs)
  BY <1>1, <1>6 DEF Range
<1>8. QED
  BY <1>1, <1>5, <1>6, <1>7 DEF Range

\* Without leaves out one position and keeps the order of the others.
LEMMA WithoutShape ==
    ASSUME NEW S, NEW rs \in Seq(S), NEW c \in DOMAIN rs
    PROVE  /\ Without(rs, c) \in Seq(S)
           /\ Len(Without(rs, c)) = Len(rs) - 1
           /\ DOMAIN Without(rs, c) = 1..(Len(rs) - 1)
           /\ \A i \in 1..(Len(rs) - 1) :
                 Without(rs, c)[i] = IF i < c THEN rs[i] ELSE rs[i + 1]
<1>1. /\ Len(rs) \in Nat /\ Len(rs) - 1 \in Nat
      /\ DOMAIN rs = 1..Len(rs) /\ c \in 1..Len(rs)
  OBVIOUS
<1>2. \A i \in 1..(Len(rs) - 1) : i \in DOMAIN rs /\ i + 1 \in DOMAIN rs
  BY <1>1
<1>3. \A i \in 1..(Len(rs) - 1) : (IF i < c THEN rs[i] ELSE rs[i + 1]) \in S
  BY <1>2
<1>4. Without(rs, c) \in [1..(Len(rs) - 1) -> S]
  BY <1>3 DEF Without
<1>5. QED
  BY <1>1, <1>4 DEF Without

\* What Without leaves out is what stood at that position, and nothing else
\* when no record occurs twice.
LEMMA WithoutRange ==
    ASSUME NEW rs \in Seq(Record), Increasing(rs), NEW c \in DOMAIN rs
    PROVE  /\ Increasing(Without(rs, c))
           /\ Range(Without(rs, c)) = Range(rs) \ {rs[c]}
<1> DEFINE w == Without(rs, c)
<1>1. /\ Len(rs) \in Nat /\ DOMAIN rs = 1..Len(rs) /\ c \in 1..Len(rs)
      /\ DOMAIN w = 1..(Len(rs) - 1)
      /\ \A i \in 1..(Len(rs) - 1) : w[i] = IF i < c THEN rs[i] ELSE rs[i + 1]
  BY WithoutShape
<1>2. \A i \in DOMAIN rs : rs[i] \in Record /\ rs[i].id \in Nat
  <2>1. \A i \in DOMAIN rs : rs[i] \in Record
    OBVIOUS
  <2>2. QED
    BY <2>1 DEF Record
<1>3. Increasing(w)
  <2>1. SUFFICES ASSUME NEW i \in DOMAIN w, NEW j \in DOMAIN w, i < j
                 PROVE  w[i].id < w[j].id
    BY DEF Increasing
  <2>2. /\ i \in DOMAIN rs /\ i + 1 \in DOMAIN rs
        /\ j \in DOMAIN rs /\ j + 1 \in DOMAIN rs
    BY <1>1
  <2>3. /\ rs[i].id < rs[j].id /\ rs[i].id < rs[j + 1].id
        /\ rs[i + 1].id < rs[j + 1].id
    BY <1>1, <2>1, <2>2 DEF Increasing
  <2>4. j < c => i < c
    BY <1>1, <2>1
  <2>5. QED
    BY <1>1, <2>3, <2>4
<1>4. \A i \in DOMAIN rs : i # c => rs[i] # rs[c]
  BY <1>1, <1>2 DEF Increasing
<1>5. Range(w) \subseteq Range(rs) \ {rs[c]}
  BY <1>1, <1>4 DEF Range
<1>6. ASSUME NEW x \in Range(rs) \ {rs[c]}
      PROVE  x \in Range(w)
  <2>1. PICK i \in DOMAIN rs : x = rs[i] /\ i # c
    BY DEF Range
  <2>2. CASE i < c
    BY <1>1, <2>1, <2>2 DEF Range
  <2>3. CASE i > c
    <3>1. i - 1 \in DOMAIN w /\ w[i - 1] = rs[i]
      BY <1>1, <2>3
    <3>2. QED
      BY <2>1, <3>1 DEF Range
  <2>4. QED
    BY <1>1, <2>1, <2>2, <2>3
<1>7. QED
  BY <1>3, <1>5, <1>6

\* A set of numbers that is not empty has a least one.
LEMMA Least ==
    ASSUME NEW S \in SUBSET Nat, S # {}
    PROVE  \E i \in S : \A j \in S : i <= j
<1>1. PICK i \in S : \A j \in S : ~ (<<j, i>> \in OpToRel(<, Nat))
  BY NatLessThanWellFounded, WFMin
<1>2. \A j, k \in Nat : j < k => <<j, k>> \in OpToRel(<, Nat)
  BY DEF OpToRel
<1>3. ASSUME NEW j \in S PROVE i <= j
  <2>1. i \in Nat /\ j \in Nat /\ ~ (j < i)
    BY <1>1, <1>2
  <2>2. QED
    BY <2>1
<1>4. QED
  BY <1>3

\* trimRecords drops the first telemetry record, else the first record.
LEMMA DropCandidateIsFirst ==
    ASSUME NEW rs \in Seq(Record), rs # <<>>
    PROVE  LET telemetry == {i \in DOMAIN rs : rs[i].kind # "task_result"}
               c == DropCandidate(rs)
           IN  /\ c \in DOMAIN rs
               /\ telemetry = {} => c = 1
               /\ telemetry # {} => c \in telemetry /\ \A j \in telemetry : c <= j
<1> DEFINE telemetry == {i \in DOMAIN rs : rs[i].kind # "task_result"}
           c == DropCandidate(rs)
<1>1. Len(rs) \in Nat /\ Len(rs) > 0 /\ DOMAIN rs = 1..Len(rs)
  OBVIOUS
<1>2. CASE telemetry = {}
  BY <1>1, <1>2 DEF DropCandidate
<1>3. CASE telemetry # {}
  <2>1. telemetry \in SUBSET Nat
    BY <1>1
  <2>2. \E i \in telemetry : \A j \in telemetry : i <= j
    BY <1>3, <2>1, Least
  <2>3. c \in telemetry /\ \A j \in telemetry : c <= j
    BY <1>3, <2>2 DEF DropCandidate
  <2>4. QED
    BY <1>1, <1>3, <2>3
<1>4. QED
  BY <1>2, <1>3

\* Every other record outranks the one trimRecords drops.
LEMMA DropCandidateIsOutranked ==
    ASSUME NEW rs \in Seq(Record), rs # <<>>, Increasing(rs)
    PROVE  \A k \in Range(rs) \ {rs[DropCandidate(rs)]} :
              Promise!Outranks(k, rs[DropCandidate(rs)])
<1> DEFINE telemetry == {i \in DOMAIN rs : rs[i].kind # "task_result"}
           c == DropCandidate(rs)
<1>1. /\ Len(rs) \in Nat /\ Len(rs) > 0 /\ DOMAIN rs = 1..Len(rs)
      /\ \A i \in DOMAIN rs : rs[i].id \in Nat /\ rs[i].kind \in Kinds
  <2>1. \A i \in DOMAIN rs : rs[i] \in Record
    OBVIOUS
  <2>2. Len(rs) \in Nat /\ Len(rs) > 0 /\ DOMAIN rs = 1..Len(rs)
    OBVIOUS
  <2>3. QED
    BY <2>1, <2>2 DEF Record
<1>2. CASE telemetry = {}
  <2>1. c = 1
    BY <1>2, DropCandidateIsFirst
  <2>2. \A i \in DOMAIN rs : rs[i].kind = "task_result"
    BY <1>2
  <2>3. \A i \in DOMAIN rs : i # 1 => rs[1].id < rs[i].id
    BY <1>1 DEF Increasing
  <2>4. QED
    BY <1>1, <2>1, <2>2, <2>3 DEF Range, Promise!Outranks
<1>3. CASE telemetry # {}
  <2>3. c \in telemetry /\ \A j \in telemetry : c <= j
    BY <1>3, DropCandidateIsFirst
  <2>4. rs[c].kind = "events"
    BY <1>1, <2>3 DEF Kinds
  <2>5. ASSUME NEW i \in DOMAIN rs, rs[i] # rs[c], rs[i].kind # "task_result"
        PROVE  rs[c].id < rs[i].id
    <3>1. i \in telemetry /\ c <= i /\ c # i
      BY <2>3, <2>5
    <3>2. QED
      BY <1>1, <2>3, <3>1 DEF Increasing
  <2>6. QED
    BY <1>1, <2>3, <2>4, <2>5 DEF Range, Promise!Outranks, Kinds
<1>4. QED
  BY <1>2, <1>3

-----------------------------------------------------------------------------
\* The size of the records

\* g has the sizes of the records up to each position, of the first m of rs.
SizesOf(g, rs, m) ==
    /\ g = [n \in 0..m |-> g[n]] /\ g[0] = 0
    /\ \A n \in 0..m : g[n] \in Int
    /\ \A n \in 1..m : g[n] = g[n - 1] + rs[n].size

\* The size of a record is a number.
LEMMA SizeIsNat ==
    ASSUME NEW rs \in Seq(Record), NEW n \in DOMAIN rs
    PROVE  rs[n].size \in Nat
<1>1. rs[n] \in Record
  OBVIOUS
<1>2. QED
  BY <1>1, SpoolAssumption DEF Record

\* There is such a function.
LEMMA SizesExist ==
    ASSUME NEW rs \in Seq(Record)
    PROVE  \E g : SizesOf(g, rs, Len(rs))
<1> DEFINE Bad == {m \in 0..Len(rs) : ~ \E g : SizesOf(g, rs, m)}
<1>1. Len(rs) \in Nat /\ DOMAIN rs = 1..Len(rs)
  OBVIOUS
<1>2. \A n \in 1..Len(rs) : rs[n].size \in Nat
  BY <1>1, SizeIsNat
<1>3. ASSUME Bad # {} PROVE FALSE
  <2> Bad \in SUBSET Nat
    BY <1>1
  <2>1. PICK m \in Bad : \A k \in Bad : m <= k
    <3> HIDE DEF Bad
    <3>1. QED
      BY <1>3, Least
  <2>2. m \in 0..Len(rs) /\ m \in Nat /\ ~ \E g : SizesOf(g, rs, m)
    BY <1>1
  <2>3. m # 0
    <3> DEFINE g == [n \in 0..0 |-> 0]
    <3>1. SizesOf(g, rs, 0)
      BY DEF SizesOf
    <3>2. QED
      BY <2>2, <3>1
  <2>4. m - 1 \in 0..Len(rs) /\ m - 1 \notin Bad
    BY <1>1, <2>1, <2>2, <2>3
  <2>5. PICK g : SizesOf(g, rs, m - 1)
    BY <2>4
  <2> DEFINE h == [n \in 0..m |-> IF n = m THEN g[m - 1] + rs[m].size ELSE g[n]]
  <2>6. \A n \in 0..m : n # m => n \in 0..(m - 1) /\ h[n] = g[n]
    BY <1>1, <2>2
  <2>7. h[m] = g[m - 1] + rs[m].size /\ g[m - 1] \in Int /\ rs[m].size \in Nat
    BY <1>1, <1>2, <2>2, <2>3, <2>5 DEF SizesOf
  <2>8. h = [n \in 0..m |-> h[n]]
    OBVIOUS
  <2> HIDE DEF h
  <2>9. h[0] = 0
    BY <1>1, <2>2, <2>3, <2>5, <2>6 DEF SizesOf
  <2>10. ASSUME NEW n \in 0..m PROVE h[n] \in Int
    <3>1. CASE n = m
      BY <2>7, <3>1
    <3>2. CASE n # m
      BY <2>5, <2>6, <3>2 DEF SizesOf
    <3>3. QED
      BY <3>1, <3>2
  <2>11. ASSUME NEW n \in 1..m PROVE h[n] = h[n - 1] + rs[n].size
    <3>1. n - 1 \in 0..(m - 1) /\ h[n - 1] = g[n - 1]
      BY <1>1, <2>2, <2>6
    <3>2. CASE n = m
      BY <2>7, <3>1, <3>2
    <3>3. CASE n # m
      <4>1. n \in 1..(m - 1) /\ n \in 0..m
        BY <1>1, <2>2, <3>3
      <4>2. QED
        BY <2>5, <2>6, <3>1, <3>3, <4>1 DEF SizesOf
    <3>4. QED
      BY <3>2, <3>3
  <2>12. SizesOf(h, rs, m)
    BY <2>8, <2>9, <2>10, <2>11 DEF SizesOf
  <2>13. QED
    BY <2>2, <2>12
<1>4. Len(rs) \notin Bad
  BY <1>3
<1>5. QED
  BY <1>1, <1>4

\* RecordsSize is the last of its values.
LEMMA SizeIsLast ==
    ASSUME NEW rs \in Seq(Record), NEW g, SizesOf(g, rs, Len(rs))
    PROVE  RecordsSize(rs) = g[Len(rs)]
<1> DEFINE Def(f) == [n \in 0..Len(rs) |-> IF n = 0 THEN 0 ELSE f[n - 1] + rs[n].size]
           upTo == CHOOSE f : f = Def(f)
<1>1. Len(rs) \in Nat
  OBVIOUS
<1>2. g = Def(g)
  <2>1. ASSUME NEW n \in 0..Len(rs) PROVE g[n] = Def(g)[n]
    <3>1. CASE n = 0
      BY <3>1 DEF SizesOf
    <3>2. CASE n # 0
      <4>1. n \in 1..Len(rs)
        BY <1>1, <3>2
      <4>2. g[n] = g[n - 1] + rs[n].size
        BY <4>1 DEF SizesOf
      <4>3. QED
        BY <3>2, <4>2
    <3>3. QED
      BY <3>1, <3>2
  <2>2. g = [n \in 0..Len(rs) |-> g[n]] /\ Def(g) = [n \in 0..Len(rs) |-> Def(g)[n]]
    BY DEF SizesOf
  <2> HIDE DEF Def
  <2>3. QED
    BY <2>1, <2>2
<1>3. upTo = Def(upTo)
  BY <1>2
<1>4. RecordsSize(rs) = upTo[Len(rs)]
  BY DEF RecordsSize
<1> HIDE DEF upTo
<1>5. upTo[0] = 0 /\ \A n \in 1..Len(rs) : upTo[n] = upTo[n - 1] + rs[n].size
  BY <1>1, <1>3
<1> DEFINE Bad == {n \in 0..Len(rs) : upTo[n] # g[n]}
<1>6. ASSUME Bad # {} PROVE FALSE
  <2> Bad \in SUBSET Nat
    BY <1>1
  <2>1. PICK n \in Bad : \A k \in Bad : n <= k
    <3> HIDE DEF Bad
    <3>1. QED
      BY <1>6, Least
  <2>2. n \in 0..Len(rs) /\ upTo[n] # g[n]
    OBVIOUS
  <2>3. n # 0
    BY <1>5, <2>2 DEF SizesOf
  <2>4. n - 1 \in 0..Len(rs) /\ n - 1 \notin Bad
    BY <1>1, <2>1, <2>2, <2>3
  <2>5. upTo[n - 1] = g[n - 1] /\ n \in 1..Len(rs)
    BY <1>1, <2>2, <2>3, <2>4
  <2>6. QED
    BY <1>5, <2>2, <2>5 DEF SizesOf
<1>7. QED
  BY <1>1, <1>4, <1>6

\* Leaving one record out takes its size off the size of all.
LEMMA SizeWithout ==
    ASSUME NEW rs \in Seq(Record), NEW c \in DOMAIN rs
    PROVE  RecordsSize(Without(rs, c)) + rs[c].size = RecordsSize(rs)
<1> DEFINE w == Without(rs, c)
           size == rs[c].size
<1>1. /\ w \in Seq(Record) /\ Len(w) = Len(rs) - 1
      /\ \A n \in 1..(Len(rs) - 1) : w[n] = IF n < c THEN rs[n] ELSE rs[n + 1]
  BY WithoutShape
<1>2. Len(rs) \in Nat /\ c \in 1..Len(rs)
  OBVIOUS
<1>3. PICK g : SizesOf(g, rs, Len(rs))
  BY SizesExist
<1>4. size \in Nat /\ g[c] = g[c - 1] + size
  BY <1>2, <1>3, SizeIsNat DEF SizesOf
<1> DEFINE h == [n \in 0..(Len(rs) - 1) |-> IF n < c THEN g[n] ELSE g[n + 1] - size]
<1>5. \A n \in 0..(Len(rs) - 1) : n \in 0..Len(rs) /\ n + 1 \in 1..Len(rs)
  BY <1>2
<1>6. \A n \in 0..Len(rs) : g[n] \in Int
  BY <1>3 DEF SizesOf
<1>7. \A n \in 1..Len(rs) : g[n] = g[n - 1] + rs[n].size
  BY <1>3 DEF SizesOf
<1>8. h[0] = 0
  BY <1>2, <1>3, <1>5 DEF SizesOf
<1>9. \A n \in 0..(Len(rs) - 1) : h[n] \in Int
  BY <1>2, <1>4, <1>5, <1>6
<1>10. ASSUME NEW n \in 1..(Len(rs) - 1) PROVE h[n] = h[n - 1] + w[n].size
  <2>1. /\ n \in Nat /\ n - 1 \in 0..(Len(rs) - 1) /\ n \in 0..(Len(rs) - 1)
        /\ n \in 1..Len(rs) /\ n + 1 \in 1..Len(rs) /\ (n + 1) - 1 = n /\ (n - 1) + 1 = n
    BY <1>2
  <2>2. g[n] = g[n - 1] + rs[n].size /\ g[n + 1] = g[n] + rs[n + 1].size
    BY <1>7, <2>1
  <2>3. /\ g[n - 1] \in Int /\ g[n] \in Int /\ g[n + 1] \in Int
        /\ rs[n].size \in Nat /\ rs[n + 1].size \in Nat
    <3>1. n - 1 \in 0..Len(rs) /\ n \in 0..Len(rs) /\ n + 1 \in 0..Len(rs)
      BY <1>2
    <3>2. n \in DOMAIN rs /\ n + 1 \in DOMAIN rs
      BY <2>1
    <3>3. QED
      BY <1>6, <3>1, <3>2, SizeIsNat
  <2>4. CASE n < c
    <3>1. h[n] = g[n] /\ h[n - 1] = g[n - 1] /\ w[n] = rs[n]
      BY <1>1, <1>2, <2>1, <2>4
    <3>2. QED
      BY <2>2, <3>1
  <2>5. CASE n = c
    <3>1. h[n] = g[n + 1] - size /\ h[n - 1] = g[n - 1] /\ w[n] = rs[n + 1]
      BY <1>1, <1>2, <2>1, <2>5
    <3>2. g[n] = g[n - 1] + size
      BY <1>4, <2>5
    <3>3. w[n].size = rs[n + 1].size /\ size \in Nat
      BY <1>4, <3>1
    <3> HIDE DEF h, w, size
    <3>4. g[n + 1] = (g[n - 1] + size) + rs[n + 1].size
      BY <2>2, <3>2
    <3>5. h[n] = ((g[n - 1] + size) + rs[n + 1].size) - size
      BY <3>1, <3>4
    <3>6. h[n] = g[n - 1] + rs[n + 1].size
      BY <2>3, <3>3, <3>5
    <3>7. QED
      BY <3>1, <3>3, <3>6
  <2>6. CASE n > c
    <3>1. h[n] = g[n + 1] - size /\ h[n - 1] = g[n] - size /\ w[n] = rs[n + 1]
      <4>1. ~ (n < c) /\ ~ (n - 1 < c)
        BY <1>2, <2>1, <2>6
      <4>2. QED
        BY <1>1, <2>1, <4>1
    <3> HIDE DEF h, w, size
    <3>2. w[n].size = rs[n + 1].size /\ size \in Nat
      BY <1>4, <3>1
    <3>3. h[n] = (g[n] + rs[n + 1].size) - size
      BY <2>2, <3>1
    <3>4. h[n] = (g[n] - size) + rs[n + 1].size
      BY <2>3, <3>2, <3>3
    <3>5. QED
      BY <3>1, <3>2, <3>4
  <2>7. QED
    BY <1>2, <2>1, <2>4, <2>5, <2>6
<1>11. SizesOf(h, w, Len(w))
  <2>1. h = [n \in 0..Len(w) |-> h[n]]
    BY <1>1
  <2> HIDE DEF h, w
  <2>2. QED
    BY <1>1, <1>8, <1>9, <1>10, <2>1 DEF SizesOf
<1>12. RecordsSize(w) = h[Len(rs) - 1] /\ RecordsSize(rs) = g[Len(rs)]
  <2> HIDE DEF h, w
  <2>1. QED
    BY <1>1, <1>3, <1>11, SizeIsLast
<1>13. h[Len(rs) - 1] + size = g[Len(rs)]
  <2>1. Len(rs) - 1 \in 0..(Len(rs) - 1) /\ (Len(rs) - 1) + 1 = Len(rs)
    BY <1>2
  <2>2. g[Len(rs) - 1] \in Int /\ g[Len(rs)] \in Int
    BY <1>2, <1>6
  <2>3. CASE c = Len(rs)
    BY <1>2, <1>4, <2>1, <2>2, <2>3
  <2>4. CASE c < Len(rs)
    <3>1. h[Len(rs) - 1] = g[Len(rs)] - size
      BY <1>2, <2>1, <2>4
    <3> HIDE DEF h, size
    <3>2. QED
      BY <1>4, <2>2, <3>1
  <2>5. QED
    BY <1>2, <2>3, <2>4
<1>14. QED
  BY <1>12, <1>13

-----------------------------------------------------------------------------
\* Types

\* What the agent hands over is a record with the next id, not dated later.
LEMMA IncomingRecords ==
    ASSUME TypeOK, NEW r \in Incoming
    PROVE  r \in Record /\ r.id = nextId /\ r.at <= nextId
BY SpoolAssumption DEF TypeOK, Incoming, CreatedAt, Record

\* Counting one record more leaves the counters natural numbers.
LEMMA CountersAreCounters ==
    /\ NoCounters \in Counters
    /\ \A m \in Counters :
          /\ [m EXCEPT !.accepted = @ + 1] \in Counters
          /\ [m EXCEPT !.dropped = @ + 1] \in Counters
          /\ [m EXCEPT !.blocked = @ + 1] \in Counters
          /\ [m EXCEPT !.uploaded = @ + 1] \in Counters
          /\ [m EXCEPT !.retried = IF @ < RetriedCap THEN @ + 1 ELSE @]
                \in Counters
BY SpoolAssumption DEF Counters, NoCounters

\* No step of the spool takes a value out of its type.
LEMMA TypeStep == TypeOK /\ [Next]_vars => TypeOK'
<1> SUFFICES ASSUME TypeOK, [Next]_vars PROVE TypeOK'
  OBVIOUS
<1> USE SpoolAssumption
<1>1. ASSUME NEW r \in Incoming, AppendBegin(r) PROVE TypeOK'
  <2>1. r \in Record
    BY IncomingRecords
  <2>2. Append(file, r) \in Seq(Record)
    BY <2>1 DEF TypeOK
  <2>3. Loads => meta \in Counters
    BY DEF TypeOK, Loads
  <2>4. CASE Loads
    <3>1. pend' \in Counters
      BY <1>1, <2>3, <2>4, CountersAreCounters DEF AppendBegin
    <3>2. /\ pc' = "trim" /\ rec' = r /\ work' = Append(file, r)
          /\ nextId' = nextId + 1
          /\ UNCHANGED <<file, meta, kept, history, backend, faults>>
      BY <1>1, <2>4 DEF AppendBegin, history
    <3>3. QED
      BY <2>1, <2>2, <3>1, <3>2 DEF TypeOK, history, backend
  <2>5. CASE ~Loads
    BY <1>1, <2>1, <2>5 DEF TypeOK, AppendBegin, backend
  <2>6. QED
    BY <2>4, <2>5
<1>2. CASE DropOne
  <2>1. work # <<>>
    BY <1>2 DEF DropOne, OverLimit, TypeOK
  <2>2. Without(work, DropCandidate(work)) \in Seq(Record)
    BY <2>1, DropCandidateIsFirst, WithoutShape DEF TypeOK
  <2>3. QED
    BY <1>2, <2>2, CountersAreCounters DEF TypeOK, DropOne, history, backend
<1>3. CASE AppendRewrite
  <2>1. pend' \in Counters
    BY <1>3, CountersAreCounters DEF TypeOK, AppendRewrite
  <2>2. rec \in Record /\ Range(file) \subseteq Record
    BY <1>3 DEF TypeOK, AppendRewrite, Range
  <2>3. /\ accepted' \subseteq Record /\ dropped' \subseteq Record
        /\ turnedAway' \subseteq Record
    BY <1>3, <2>2 DEF TypeOK, AppendRewrite
  <2>4. QED
    BY <1>3, <2>1, <2>3 DEF TypeOK, AppendRewrite, backend
<1>4. CASE AppendRewriteFails
  BY <1>4, CountersAreCounters DEF TypeOK, AppendRewriteFails, Return, Fault, backend
<1>5. CASE FlushBegin
  BY <1>5 DEF TypeOK, FlushBegin, Loads, history, backend
<1>6. ASSUME NEW r \in Range(work), UploadOk(r) \/ UploadFails(r) \/ ResponseLost(r)
      PROVE  TypeOK'
  <2>1. work # <<>>
    BY <1>6 DEF UploadOk, UploadFails, ResponseLost
  <2>2. r \in Record /\ Tail(work) \in Seq(Record)
    BY <1>6, <2>1, RangeOfHeadTail DEF TypeOK, UploadOk, UploadFails, ResponseLost
  <2>3. Append(kept, r) \in Seq(Record)
    BY <2>2 DEF TypeOK
  <2>4. CASE UploadOk(r)
    BY <2>2, <2>4, CountersAreCounters DEF TypeOK, UploadOk, Process, history
  <2>5. CASE UploadFails(r)
    BY <2>2, <2>3, <2>5, CountersAreCounters
       DEF TypeOK, UploadFails, KeepForRetry, history, backend
  <2>6. CASE ResponseLost(r)
    <3>1. pend' \in Counters
      BY <2>6, CountersAreCounters DEF TypeOK, ResponseLost, KeepForRetry
    <3>2. delivered' \subseteq Record /\ redelivered' \subseteq Record
      BY <2>2, <2>6 DEF TypeOK, ResponseLost, Process
    <3>3. /\ work' = Tail(work) /\ kept' = Append(kept, r)
          /\ faults' = faults + 1
          /\ UNCHANGED <<file, meta, pc, rec, nextId, history>>
      BY <2>6 DEF ResponseLost, KeepForRetry, Fault
    <3>4. QED
      BY <2>2, <2>3, <3>1, <3>2, <3>3 DEF TypeOK, history
  <2>7. QED
    BY <1>6, <2>4, <2>5, <2>6
<1>7. CASE FlushRewrite
  BY <1>7 DEF TypeOK, FlushRewrite, history, backend
<1>8. CASE FlushRewriteFails
  BY <1>8, CountersAreCounters
     DEF TypeOK, FlushRewriteFails, Return, Fault, history, backend
<1>9. CASE SaveSummary
  BY <1>9, CountersAreCounters DEF TypeOK, SaveSummary, Return, history, backend
<1>10. CASE SaveSummaryFails
  BY <1>10, CountersAreCounters
     DEF TypeOK, SaveSummaryFails, MetaAfterInterruptedWrite, Return, Fault, history, backend
<1>11. CASE Crash
  BY <1>11, CountersAreCounters
     DEF TypeOK, Crash, MetaAfterInterruptedWrite, Return, Fault, backend
<1>12. CASE UNCHANGED vars
  BY <1>12 DEF TypeOK, vars, history, backend
<1>13. QED
  BY <1>1, <1>2, <1>3, <1>4, <1>5, <1>6, <1>7, <1>8, <1>9, <1>10, <1>11, <1>12
     DEF Next

-----------------------------------------------------------------------------
\* The invariant

Rest == Order /\ Trimming /\ Flushing /\ Between /\ NoSilentLoss /\ RecordsBounded

\* The empty spool satisfies the inductive invariant.
LEMMA InitInv == Init => IInv
BY SpoolAssumption
   DEF Init, IInv, TypeOK, Order, Trimming, Flushing, Between, NoSilentLoss,
       RecordsBounded, Increasing, Range, NoCounters, Counters, NoRec

\* A call that returns, or dies, leaves nothing in memory to speak of.
LEMMA ReturnStep ==
    ASSUME IInv, Return, UNCHANGED <<file, nextId, accepted, dropped, delivered>>
    PROVE  Rest'
BY DEF IInv, Rest, Return, Order, Trimming, Flushing, Between, NoSilentLoss,
       RecordsBounded, Increasing, Range

\* Reading the file and appending the record in memory keeps the invariant.
LEMMA AppendBeginStep ==
    ASSUME IInv, nextId <= MaxAppends, NEW r \in Incoming, AppendBegin(r)
    PROVE  Rest'
<1>1. r \in Record /\ r.id = nextId /\ r.at <= nextId /\ r.id \in Nat /\ r.at \in Nat
  BY IncomingRecords DEF IInv, Record
<1>2. UNCHANGED <<file, kept, accepted, dropped, delivered>> /\ nextId' = nextId + 1
  BY DEF AppendBegin, backend
<1>3. /\ \A x \in accepted : x.id \in Nat /\ x.id < nextId
      /\ nextId \in Nat /\ file \in Seq(Record) /\ MaxAppends \in Nat
  BY SpoolAssumption DEF IInv, Order, TypeOK, Record
<1>4. NoSilentLoss' /\ RecordsBounded'
  BY <1>2 DEF IInv, NoSilentLoss, RecordsBounded
<1>5. CASE Loads
  <2>1. /\ pc' = "trim" /\ rec' = r /\ work' = Append(file, r)
        /\ pc = "idle"
    BY <1>5 DEF AppendBegin
  <2>2. Range(work') = Range(file) \cup {r}
    BY <1>1, <1>3, <2>1, RangeOfAppend
  <2>3. Increasing(work')
    <3>1. /\ DOMAIN work' = 1..(Len(file) + 1) /\ DOMAIN file = 1..Len(file)
          /\ Len(file) \in Nat /\ work'[Len(file) + 1] = r
          /\ \A i \in DOMAIN file : work'[i] = file[i]
      BY <1>1, <1>3, <2>1
    <3>2. \A i \in DOMAIN file : file[i].id < nextId
      BY <1>3 DEF IInv, Order, Range
    <3>3. QED
      BY <1>1, <3>1, <3>2 DEF IInv, Order, Increasing
  <2>4. Order'
    BY <1>2, <1>3, <2>3 DEF IInv, Order, Increasing, Range
  <2>5. Trimming'
    BY <1>1, <1>2, <1>3, <2>1, <2>2 DEF Trimming
  <2>6. Flushing' /\ Between'
    BY <1>2, <2>1 DEF IInv, Flushing, Between
  <2>7. QED
    BY <1>4, <2>4, <2>5, <2>6 DEF Rest
<1>6. CASE ~Loads
  <2>1. UNCHANGED <<pc, rec, work>> /\ pc = "idle"
    BY <1>6 DEF AppendBegin
  <2>2. QED
    BY <1>2, <1>3, <1>4, <2>1
       DEF IInv, Rest, Order, Trimming, Flushing, Between, Increasing, Range
<1>7. QED
  BY <1>5, <1>6

\* Dropping one record from the copy in memory keeps the invariant: what
\* it drops is outranked by all it leaves.
LEMMA DropOneStep ==
    ASSUME IInv, DropOne
    PROVE  Rest'
<1> DEFINE c == DropCandidate(work)
<1>1. /\ pc = "trim" /\ work' = Without(work, c)
      /\ UNCHANGED <<file, pc, kept, rec, nextId, accepted, dropped, delivered>>
  BY DEF DropOne, history, backend
<1>2. work \in Seq(Record) /\ work # <<>> /\ Increasing(work)
  <2>1. work \in Seq(Record) /\ Increasing(work)
    BY DEF IInv, TypeOK, Order
  <2>2. work # <<>>
    BY SpoolAssumption, <2>1 DEF DropOne, OverLimit
  <2>3. QED
    BY <2>1, <2>2
<1>3. c \in DOMAIN work
  BY <1>2, DropCandidateIsFirst
<1>4. Increasing(work') /\ Range(work') = Range(work) \ {work[c]}
  BY <1>1, <1>2, <1>3, WithoutRange
<1>5. \A k \in Range(work') : Promise!Outranks(k, work[c])
  BY <1>2, <1>4, DropCandidateIsOutranked
<1>6. \A k \in Range(work'), d \in (Range(file) \cup {rec}) \ Range(work') :
         Promise!Outranks(k, d)
  <2>1. SUFFICES ASSUME NEW k \in Range(work'),
                        NEW d \in (Range(file) \cup {rec}) \ Range(work')
                 PROVE  Promise!Outranks(k, d)
    OBVIOUS
  <2>2. k \in Range(work) /\ (d = work[c] \/ d \notin Range(work))
    BY <1>4
  <2>3. QED
    BY <1>1, <1>5, <2>2 DEF IInv, Trimming
<1>7. Trimming'
  BY <1>1, <1>4, <1>6 DEF IInv, Trimming
<1>8. Order'
  BY <1>1, <1>4 DEF IInv, Order
<1>9. Flushing' /\ Between' /\ NoSilentLoss' /\ RecordsBounded'
  BY <1>1 DEF IInv, Flushing, Between, NoSilentLoss, RecordsBounded
<1>10. QED
  BY <1>7, <1>8, <1>9 DEF Rest

\* Replacing the file with the trimmed records keeps the invariant: what
\* is gone from the file is in dropped.
LEMMA AppendRewriteStep ==
    ASSUME IInv, AppendRewrite
    PROVE  Rest'
<1>1. /\ pc = "trim" /\ pc' = "save" /\ file' = work /\ work' = <<>>
      /\ accepted' = accepted \cup {rec}
      /\ dropped' = dropped \cup ((Range(file) \cup {rec}) \ Range(work))
      /\ UNCHANGED <<kept, nextId, delivered>>
  BY DEF AppendRewrite, backend
<1>2. /\ Range(work) \subseteq Range(file) \cup {rec} /\ rec.id < nextId
      /\ Range(file) \subseteq accepted /\ Increasing(work)
  BY <1>1 DEF IInv, Trimming, Order
<1>3. Order'
  BY <1>1, <1>2 DEF IInv, Order, Increasing
<1>4. NoSilentLoss'
  BY <1>1, <1>2 DEF IInv, NoSilentLoss
<1>5. RecordsBounded'
  <2>1. Len(work) \in Nat /\ MaxRecords \in Nat
    BY SpoolAssumption DEF IInv, TypeOK
  <2>2. QED
    BY <1>1, <2>1 DEF AppendRewrite, OverLimit, RecordsBounded
<1>6. Trimming' /\ Flushing' /\ Between'
  BY <1>1 DEF IInv, Trimming, Flushing, Between
<1>7. QED
  BY <1>3, <1>4, <1>5, <1>6 DEF Rest

\* Reading the file into the flush loop keeps the invariant.
LEMMA FlushBeginStep ==
    ASSUME IInv, FlushBegin
    PROVE  Rest'
<1>1. /\ pc = "idle" /\ pc' = "flush" /\ work' = file /\ kept = <<>>
      /\ UNCHANGED <<file, kept, nextId, accepted, dropped, delivered>>
  BY DEF FlushBegin, history, backend, IInv, Between
<1>2. Order' /\ NoSilentLoss' /\ RecordsBounded'
  BY <1>1 DEF IInv, Order, NoSilentLoss, RecordsBounded, Increasing
<1>3. Flushing'
  <2>1. file \in Seq(Record) /\ Len(file) \in Nat
    BY DEF IInv, TypeOK
  <2>2. QED
    BY <1>1, <2>1 DEF Flushing, Range
<1>4. Trimming' /\ Between'
  BY <1>1 DEF Trimming, Between
<1>5. QED
  BY <1>2, <1>3, <1>4 DEF Rest

\* One turn of the flush loop: the head of work is with the backend or kept.
LEMMA UploadStep ==
    ASSUME IInv, pc = "flush", work # <<>>, NEW r, r = Head(work),
           work' = Tail(work),
           \/ kept' = kept /\ delivered' = delivered \cup {r}
           \/ kept' = Append(kept, r) /\ delivered \subseteq delivered',
           UNCHANGED <<file, pc, rec, nextId, accepted, dropped>>
    PROVE  Rest'
<1>1. /\ work \in Seq(Record) /\ kept \in Seq(Record) /\ r \in Record
      /\ Tail(work) \in Seq(Record) /\ Range(work) = {r} \cup Range(Tail(work))
  BY RangeOfHeadTail DEF IInv, TypeOK
<1>2. /\ Len(work) \in Nat /\ Len(work) > 0 /\ DOMAIN work = 1..Len(work)
      /\ DOMAIN Tail(work) = 1..(Len(work) - 1) /\ Len(Tail(work)) = Len(work) - 1
      /\ \A i \in 1..(Len(work) - 1) : Tail(work)[i] = work[i + 1]
      /\ r = work[1]
  BY <1>1
<1>3. /\ Len(kept) \in Nat /\ DOMAIN kept = 1..Len(kept)
      /\ Len(Append(kept, r)) = Len(kept) + 1
      /\ DOMAIN Append(kept, r) = 1..(Len(kept) + 1)
      /\ \A i \in 1..Len(kept) : Append(kept, r)[i] = kept[i]
      /\ Append(kept, r)[Len(kept) + 1] = r
  BY <1>1
<1>4. Range(Append(kept, r)) = Range(kept) \cup {r}
  BY <1>1, RangeOfAppend
<1>5. (\A i \in DOMAIN work : work[i] \in Record) /\ (\A x \in Record : x.id \in Nat)
  <2>1. \A x \in Record : x.id \in Nat
    BY DEF Record
  <2>2. \A i \in DOMAIN work : work[i] \in Record
    BY <1>1
  <2>3. QED
    BY <2>1, <2>2
<1>6. \A i \in 1..(Len(work) - 1) : i + 1 \in DOMAIN work /\ work[1].id < work[i + 1].id
  BY <1>2 DEF IInv, Order, Increasing
<1>7. \A i \in DOMAIN kept : kept[i].id < work[1].id
  BY <1>2 DEF IInv, Flushing
<1>8. Increasing(work')
  BY <1>2 DEF IInv, Order, Increasing
<1>9. Increasing(kept')
  <2>1. CASE kept' = kept
    BY <2>1 DEF IInv, Order
  <2>2. CASE kept' = Append(kept, r)
    <3>1. SUFFICES ASSUME NEW i \in 1..(Len(kept) + 1), NEW j \in 1..(Len(kept) + 1),
                          i < j
                   PROVE  Append(kept, r)[i].id < Append(kept, r)[j].id
      BY <1>3, <2>2 DEF Increasing
    <3>2. i \in DOMAIN kept /\ (j \in DOMAIN kept \/ j = Len(kept) + 1)
      BY <1>3, <3>1
    <3>3. QED
      BY <1>2, <1>3, <1>7, <3>1, <3>2 DEF IInv, Order, Increasing
  <2>3. QED
    BY <2>1, <2>2
<1>10. Order'
  BY <1>8, <1>9 DEF IInv, Order, Increasing
<1>11. Flushing'
  <2>1. /\ Range(work') \cup Range(kept') \subseteq Range(file)
        /\ Range(file) \subseteq Range(work') \cup Range(kept') \cup delivered'
    BY <1>1, <1>4 DEF IInv, Flushing
  <2>2. \A i \in DOMAIN kept, j \in 1..(Len(work) - 1) : kept[i].id < work[j + 1].id
    BY <1>2, <1>6 DEF IInv, Flushing
  <2>3. \A i \in DOMAIN kept', j \in DOMAIN work' : kept'[i].id < work'[j].id
    <3>1. SUFFICES ASSUME NEW i \in DOMAIN kept', NEW j \in 1..(Len(work) - 1)
                   PROVE  kept'[i].id < work[j + 1].id
      BY <1>2
    <3>2. CASE kept' = kept
      BY <2>2, <3>1, <3>2
    <3>3. CASE kept' = Append(kept, r)
      <4>1. i \in 1..(Len(kept) + 1)
        BY <1>3, <3>1, <3>3
      <4>2. CASE i = Len(kept) + 1
        BY <1>2, <1>3, <1>6, <3>1, <3>3, <4>2
      <4>3. CASE i \in DOMAIN kept
        BY <1>3, <2>2, <3>1, <3>3, <4>3
      <4>4. QED
        BY <1>3, <4>1, <4>2, <4>3
    <3>4. QED
      BY <3>2, <3>3
  <2>4. Len(kept') + Len(work') <= Len(file)
    <3>1. Len(file) \in Nat /\ Len(kept) + Len(work) <= Len(file)
      BY DEF IInv, TypeOK, Flushing
    <3>2. QED
      BY <1>2, <1>3, <3>1
  <2>5. QED
    BY <2>1, <2>3, <2>4 DEF Flushing
<1>12. NoSilentLoss' /\ RecordsBounded' /\ Trimming' /\ Between'
  BY DEF IInv, NoSilentLoss, RecordsBounded, Trimming, Between
<1>13. QED
  BY <1>10, <1>11, <1>12 DEF Rest

\* Replacing the file with what could not be sent keeps the invariant:
\* all else is with the backend.
LEMMA FlushRewriteStep ==
    ASSUME IInv, FlushRewrite
    PROVE  Rest'
<1>1. /\ pc = "flush" /\ pc' = "save" /\ work = <<>> /\ file' = kept /\ kept' = <<>>
      /\ UNCHANGED <<work, nextId, accepted, dropped, delivered>>
  BY DEF FlushRewrite, history, backend
<1>2. /\ Range(kept) \subseteq Range(file) /\ Range(file) \subseteq Range(kept) \cup delivered
  BY <1>1 DEF IInv, Flushing, Range
<1>3. Order' /\ NoSilentLoss'
  BY <1>1, <1>2 DEF IInv, Order, NoSilentLoss, Increasing
<1>4. RecordsBounded'
  <2>1. Len(kept) \in Nat /\ Len(file) \in Nat /\ Len(kept) <= Len(file)
    BY <1>1 DEF IInv, TypeOK, Flushing
  <2>2. QED
    BY SpoolAssumption, <1>1, <2>1 DEF IInv, RecordsBounded
<1>5. Trimming' /\ Flushing' /\ Between'
  BY <1>1 DEF Trimming, Flushing, Between
<1>6. QED
  BY <1>3, <1>4, <1>5 DEF Rest

\* Every step of the spool keeps the inductive invariant.
LEMMA InvStep == IInv /\ [Next]_vars => IInv'
<1> SUFFICES ASSUME IInv, [Next]_vars PROVE Rest'
  BY TypeStep DEF IInv, Rest
<1>1. ASSUME nextId <= MaxAppends, NEW r \in Incoming, AppendBegin(r) PROVE Rest'
  BY <1>1, AppendBeginStep
<1>2. CASE DropOne
  BY <1>2, DropOneStep
<1>3. CASE AppendRewrite
  BY <1>3, AppendRewriteStep
<1>4. CASE FlushBegin
  BY <1>4, FlushBeginStep
<1>5. ASSUME NEW r \in Range(work), UploadOk(r) \/ UploadFails(r) \/ ResponseLost(r)
      PROVE  Rest'
  <2>1. /\ pc = "flush" /\ work # <<>> /\ r = Head(work) /\ work' = Tail(work)
        /\ UNCHANGED <<file, pc, rec, nextId, accepted, dropped>>
    BY <1>5 DEF UploadOk, UploadFails, ResponseLost, history
  <2>2. \/ kept' = kept /\ delivered' = delivered \cup {r}
        \/ kept' = Append(kept, r) /\ delivered \subseteq delivered'
    BY <1>5 DEF UploadOk, UploadFails, ResponseLost, Process, KeepForRetry, backend
  <2>3. QED
    BY <2>1, <2>2, UploadStep
<1>6. CASE FlushRewrite
  BY <1>6, FlushRewriteStep
<1>7. CASE \/ AppendRewriteFails \/ FlushRewriteFails \/ SaveSummary
           \/ SaveSummaryFails \/ Crash
  <2>1. Return /\ UNCHANGED <<file, nextId, accepted, dropped, delivered>>
    BY <1>7 DEF AppendRewriteFails, FlushRewriteFails, SaveSummary,
                SaveSummaryFails, Crash, history, backend
  <2>2. QED
    BY <2>1, ReturnStep
<1>8. CASE UNCHANGED vars
  BY <1>8 DEF vars, history, backend, IInv, Rest, Order, Trimming, Flushing,
              Between, NoSilentLoss, RecordsBounded, Increasing
<1>9. QED
  BY <1>1, <1>2, <1>3, <1>4, <1>5, <1>6, <1>7, <1>8 DEF Next

\* The inductive invariant holds in every behaviour of the spool.
LEMMA Invariance == Spec => []IInv
<1>1. QED
  BY InitInv, InvStep, PTL DEF Spec

-----------------------------------------------------------------------------
\* The counters

\* Counters m account for n records that are left.
Adds(m, n) == m.accepted = m.dropped + m.uploaded + n

\* While nothing was cut short, the call's copy of the counters accounts for
\* what it holds in memory, and at rest the file's for what is in the file.
Balanced ==
    /\ pc = "idle" => meta \in Counters /\ Adds(meta, Len(file))
    /\ pc = "trim" => Adds(pend, Len(work))
    /\ pc = "flush" => Adds(pend, Len(work) + Len(kept))
    /\ pc = "save" => Adds(pend, Len(file))

\* A record that was turned away and not counted has the timestamp of another.
Twins == \E r, s \in accepted : r # s /\ r.at = s.at
CountsBlocked(m) ==
    /\ m.blocked <= Cardinality(turnedAway)
    /\ m.blocked = Cardinality(turnedAway) \/ Twins
BlockedCounted == CountsBlocked(IF pc = "idle" THEN meta ELSE pend)

Counted ==
    /\ IsFiniteSet(turnedAway) /\ turnedAway \subseteq accepted
    /\ faults = 0 => Balanced /\ BlockedCounted

\* Trimming changes no count of blocked records; what replaces the file does.
LEMMA TurnedAwayStep ==
    ASSUME IInv, Counted, AppendRewrite
    PROVE  /\ IsFiniteSet(turnedAway') /\ turnedAway' \subseteq accepted'
           /\ CountsBlocked(pend) => CountsBlocked(pend)'
<1>1. /\ pc = "trim" /\ accepted' = accepted \cup {rec}
      /\ turnedAway' = turnedAway \cup ({rec} \ Range(work))
      /\ pend' = IF RetainedNew THEN pend ELSE [pend EXCEPT !.blocked = @ + 1]
  BY DEF AppendRewrite
<1>2. /\ IsFiniteSet(turnedAway) /\ turnedAway \subseteq accepted
      /\ Cardinality(turnedAway) \in Nat
  BY FS_CardinalityType DEF Counted
<1>3. rec \notin accepted /\ rec \in Record
  <2>1. \A r \in accepted : r.id < rec.id /\ r.id \in Nat
    BY <1>1 DEF IInv, Trimming, TypeOK, Record
  <2>2. QED
    BY <1>1, <2>1 DEF IInv, TypeOK
<1>4. pend.blocked \in Nat /\ pend \in Counters
  BY DEF IInv, TypeOK, Counters
<1>5. Twins => Twins'
  BY <1>1 DEF Twins
<1>6. CASE rec \in Range(work)
  <2>1. RetainedNew
    BY <1>6 DEF RetainedNew, Range
  <2>2. turnedAway' = turnedAway /\ pend' = pend
    BY <1>1, <1>6, <2>1
  <2>3. QED
    BY <1>1, <1>2, <1>5, <2>2 DEF CountsBlocked
<1>7. CASE rec \notin Range(work)
  <2>1. turnedAway' = turnedAway \cup {rec}
    BY <1>1, <1>7
  <2>2. IsFiniteSet(turnedAway') /\ Cardinality(turnedAway') = Cardinality(turnedAway) + 1
    BY <1>2, <1>3, <2>1, FS_AddElement
  <2>3. CASE RetainedNew
    <3>1. PICK i \in DOMAIN work : work[i].at = rec.at
      BY <2>3 DEF RetainedNew
    <3>2. work[i] \in Range(work) /\ work[i] # rec
      BY <1>7, <3>1 DEF Range
    <3>3. work[i] \in accepted
      BY <1>1, <3>2 DEF IInv, Trimming, Order
    <3>4. Twins'
      BY <1>1, <3>1, <3>2, <3>3 DEF Twins
    <3>5. QED
      BY <1>1, <1>2, <1>4, <2>1, <2>2, <2>3, <3>4 DEF CountsBlocked
  <2>4. CASE ~RetainedNew
    <3>1. pend'.blocked = pend.blocked + 1
      BY <1>1, <1>4, <2>4 DEF Counters
    <3>2. QED
      BY <1>1, <1>2, <1>4, <1>5, <2>1, <2>2, <3>1 DEF CountsBlocked
  <2>5. QED
    BY <2>3, <2>4
<1>8. QED
  BY <1>6, <1>7

\* Every step keeps the accounts: what a call counts is what it moves.
LEMMA CountedStep == IInv /\ Counted /\ [Next]_vars => Counted'
<1> SUFFICES ASSUME IInv, Counted, [Next]_vars PROVE Counted'
  OBVIOUS
<1>t. /\ TypeOK /\ faults \in Nat
      /\ Len(file) \in Nat /\ Len(work) \in Nat /\ Len(kept) \in Nat
  BY DEF IInv, TypeOK
<1>1. ASSUME NEW r \in Incoming, AppendBegin(r) PROVE Counted'
  <2>1. CASE Loads
    <3>1. /\ pc = "idle" /\ pc' = "trim" /\ Len(work') = Len(file) + 1
          /\ meta \in Counters /\ pend' = [meta EXCEPT !.accepted = @ + 1]
          /\ UNCHANGED <<turnedAway, accepted, faults>>
      BY <1>1, <1>t, <2>1, IncomingRecords DEF AppendBegin, Loads, TypeOK
    <3>2. /\ pend'.accepted = meta.accepted + 1 /\ pend'.dropped = meta.dropped
          /\ pend'.uploaded = meta.uploaded /\ pend'.blocked = meta.blocked
          /\ {meta.accepted, meta.dropped, meta.uploaded} \subseteq Nat
      BY <3>1 DEF Counters
    <3>3. Adds(meta, Len(file)) => Adds(pend', Len(work'))
      BY <1>t, <3>1, <3>2 DEF Adds
    <3>4. CountsBlocked(meta) => CountsBlocked(pend)'
      BY <3>1, <3>2 DEF CountsBlocked, Twins
    <3>5. QED
      BY <3>1, <3>3, <3>4 DEF Counted, Balanced, BlockedCounted, CountsBlocked
  <2>2. CASE ~Loads
    BY <1>1, <2>2
       DEF AppendBegin, Counted, Balanced, BlockedCounted, CountsBlocked, Twins, Adds
  <2>3. QED
    BY <2>1, <2>2
<1>2. CASE DropOne
  <2>1. work # <<>> /\ work \in Seq(Record)
    BY <1>2, SpoolAssumption DEF DropOne, OverLimit, IInv, TypeOK
  <2>2. Len(work') = Len(work) - 1
    BY <1>2, <2>1, DropCandidateIsFirst, WithoutShape DEF DropOne
  <2>3. /\ pc = "trim" /\ pend' = [pend EXCEPT !.dropped = @ + 1]
        /\ UNCHANGED <<pc, turnedAway, accepted, faults>>
    BY <1>2 DEF DropOne, history
  <2>4. /\ pend'.accepted = pend.accepted /\ pend'.dropped = pend.dropped + 1
        /\ pend'.uploaded = pend.uploaded /\ pend'.blocked = pend.blocked
        /\ {pend.accepted, pend.dropped, pend.uploaded} \subseteq Nat
    BY <1>t, <2>3 DEF TypeOK, Counters
  <2>5. Adds(pend, Len(work)) => Adds(pend', Len(work'))
    BY <1>t, <2>2, <2>4 DEF Adds
  <2>6. QED
    BY <2>3, <2>4, <2>5
       DEF Counted, Balanced, BlockedCounted, CountsBlocked, Twins
<1>3. CASE AppendRewrite
  <2>1. /\ pc = "trim" /\ pc' = "save" /\ file' = work /\ UNCHANGED faults
    BY <1>3 DEF AppendRewrite
  <2>2. /\ pend'.accepted = pend.accepted /\ pend'.dropped = pend.dropped
        /\ pend'.uploaded = pend.uploaded
    BY <1>3, <1>t DEF AppendRewrite, TypeOK, Counters
  <2>3. QED
    BY <1>3, <2>1, <2>2, TurnedAwayStep DEF Counted, Balanced, BlockedCounted, Adds
<1>4. CASE FlushBegin
  <2>1. /\ pc = "idle" /\ pc' = "flush" /\ work' = file /\ pend' = meta
        /\ kept' = <<>> /\ UNCHANGED <<turnedAway, accepted, faults>>
    BY <1>4 DEF FlushBegin, history, IInv, Between
  <2>2. QED
    BY <1>t, <2>1 DEF Counted, Balanced, BlockedCounted, CountsBlocked, Twins, Adds
<1>5. ASSUME NEW r \in Range(work), UploadOk(r) PROVE Counted'
  <2>1. /\ pc = "flush" /\ work # <<>> /\ work' = Tail(work)
        /\ pend' = [pend EXCEPT !.uploaded = @ + 1]
        /\ UNCHANGED <<pc, kept, turnedAway, accepted, faults>>
    BY <1>5 DEF UploadOk, history
  <2>2. Len(work') = Len(work) - 1
    BY <1>t, <2>1 DEF TypeOK
  <2>3. /\ pend'.accepted = pend.accepted /\ pend'.dropped = pend.dropped
        /\ pend'.uploaded = pend.uploaded + 1 /\ pend'.blocked = pend.blocked
        /\ {pend.accepted, pend.dropped, pend.uploaded} \subseteq Nat
    BY <1>t, <2>1 DEF TypeOK, Counters
  <2>4. QED
    BY <1>t, <2>1, <2>2, <2>3
       DEF Counted, Balanced, BlockedCounted, CountsBlocked, Twins, Adds
<1>6. ASSUME NEW r \in Range(work), UploadFails(r) PROVE Counted'
  <2>1. /\ pc = "flush" /\ work # <<>> /\ work' = Tail(work) /\ r = Head(work)
        /\ kept' = Append(kept, r)
        /\ pend' = [pend EXCEPT !.retried = IF @ < RetriedCap THEN @ + 1 ELSE @]
        /\ UNCHANGED <<pc, turnedAway, accepted, faults>>
    BY <1>6 DEF UploadFails, KeepForRetry, history
  <2>2. Len(work') = Len(work) - 1 /\ Len(kept') = Len(kept) + 1
    BY <1>t, <2>1 DEF TypeOK
  <2>3. /\ pend'.accepted = pend.accepted /\ pend'.dropped = pend.dropped
        /\ pend'.uploaded = pend.uploaded /\ pend'.blocked = pend.blocked
    BY <1>t, <2>1 DEF TypeOK, Counters
  <2>4. QED
    BY <1>t, <2>1, <2>2, <2>3
       DEF Counted, Balanced, BlockedCounted, CountsBlocked, Twins, Adds
<1>7. ASSUME faults' = faults + 1, UNCHANGED <<turnedAway, accepted>> PROVE Counted'
  BY <1>t, <1>7 DEF Counted
<1>8. CASE FlushRewrite
  <2>1. /\ pc = "flush" /\ pc' = "save" /\ work = <<>> /\ file' = kept
        /\ UNCHANGED <<pend, turnedAway, accepted, faults>>
    BY <1>8 DEF FlushRewrite, history
  <2>2. QED
    BY <1>t, <2>1 DEF Counted, Balanced, BlockedCounted, CountsBlocked, Twins, Adds
<1>9. CASE SaveSummary
  <2>1. /\ pc = "save" /\ pc' = "idle" /\ meta' = pend
        /\ UNCHANGED <<file, turnedAway, accepted, faults>>
    BY <1>9 DEF SaveSummary, Return, history
  <2>2. QED
    BY <1>t, <2>1
       DEF Counted, Balanced, BlockedCounted, CountsBlocked, Twins, Adds, TypeOK
<1>10. CASE UNCHANGED vars
  BY <1>10
     DEF vars, history, Counted, Balanced, BlockedCounted, CountsBlocked, Twins, Adds
<1>11. ASSUME NEW r \in Range(work), ResponseLost(r) PROVE Counted'
  BY <1>7, <1>11 DEF ResponseLost, Fault, history
<1>12. CASE AppendRewriteFails \/ FlushRewriteFails \/ SaveSummaryFails \/ Crash
  BY <1>7, <1>12
     DEF AppendRewriteFails, FlushRewriteFails, SaveSummaryFails, Crash, Fault, history
<1>13. QED
  BY <1>1, <1>2, <1>3, <1>4, <1>5, <1>6, <1>8, <1>9, <1>10, <1>11, <1>12 DEF Next

\* The accounts hold in every behaviour of the spool.
LEMMA CountedAlways == Spec => []Counted
<1>1. Init => Counted
  BY FS_EmptySet
     DEF Init, Counted, Balanced, BlockedCounted, CountsBlocked, Adds, NoCounters, Counters
<1>2. QED
  BY <1>1, CountedStep, Invariance, PTL DEF Spec

-----------------------------------------------------------------------------
\* What is dropped had to go

\* The records that a trim under way has left out, and whether d fits with rs.
Gone == (Range(file) \cup {rec}) \ Range(work)
NoRoom(rs, d) ==
    \/ MaxRecords > 0 /\ Len(rs) + 1 > MaxRecords
    \/ MaxBytes > 0 /\ RecordsSize(rs) + d.size > MaxBytes
Foremost(d, D) == \A e \in D : e = d \/ Promise!Outranks(d, e)

\* The foremost of them, which is the last, does not fit with what is left; and
\* what was dropped before is not in the file.
Needed ==
    /\ Range(file) \cap dropped = {} /\ dropped \subseteq accepted
    /\ pc = "trim" /\ Gone # {} =>
          \E d \in Gone : Foremost(d, Gone) /\ NoRoom(work, d)

\* One turn of trimRecords drops a record that does not fit with the others.
LEMMA NeededDropOne ==
    ASSUME IInv, Needed, DropOne
    PROVE  Needed'
<1> DEFINE c == DropCandidate(work)
<1>0. PICK d : d = work[c]
  OBVIOUS
<1>1. /\ pc = "trim" /\ work' = Without(work, c) /\ OverLimit(work)
      /\ UNCHANGED <<file, pc, rec, accepted, dropped>>
  BY DEF DropOne, history
<1>2. work \in Seq(Record) /\ Increasing(work)
  BY DEF IInv, TypeOK, Order
<1>3. work # <<>>
  BY <1>1, SpoolAssumption DEF OverLimit
<1>4. c \in DOMAIN work /\ d \in Record /\ Len(work) \in Nat
  <2>1. c \in DOMAIN work
    BY <1>2, <1>3, DropCandidateIsFirst
  <2>2. QED
    BY <1>0, <1>2, <2>1
<1>5. /\ Range(work') = Range(work) \ {d} /\ d \in Range(work)
      /\ Len(work') = Len(work) - 1 /\ RecordsSize(work') + d.size = RecordsSize(work)
  <2>1. d \in Range(work)
    BY <1>0, <1>4 DEF Range
  <2>2. QED
    BY <1>0, <1>1, <1>2, <1>4, <2>1, WithoutRange, WithoutShape, SizeWithout
<1>6. Gone' = Gone \cup {d}
  BY <1>1, <1>5 DEF IInv, Trimming, Gone
<1>7. Foremost(d, Gone')
  BY <1>1, <1>5, <1>6 DEF IInv, Trimming, Gone, Foremost
<1>8. NoRoom(work, d)'
  BY <1>1, <1>4, <1>5 DEF OverLimit, NoRoom
<1>9. QED
  BY <1>1, <1>6, <1>7, <1>8 DEF Needed

\* Every step keeps it.
LEMMA NeededStep == IInv /\ Needed /\ [Next]_vars => Needed'
<1> SUFFICES ASSUME IInv, Needed, [Next]_vars PROVE Needed'
  OBVIOUS
<1>1. CASE DropOne
  BY <1>1, NeededDropOne
<1>2. ASSUME NEW r \in Incoming, AppendBegin(r) PROVE Needed'
  <2>1. CASE Loads
    <3>1. /\ pc' = "trim" /\ rec' = r /\ work' = Append(file, r)
          /\ UNCHANGED <<file, accepted, dropped>>
      BY <1>2, <2>1 DEF AppendBegin
    <3>2. Range(work') = Range(file) \cup {r}
      BY <3>1, IncomingRecords, RangeOfAppend DEF IInv, TypeOK
    <3>3. Gone' = {}
      BY <3>1, <3>2 DEF Gone
    <3>4. QED
      BY <3>1, <3>3 DEF Needed
  <2>2. CASE ~Loads
    BY <1>2, <2>2 DEF AppendBegin, Needed
  <2>3. QED
    BY <2>1, <2>2
<1>3. CASE AppendRewrite
  <2>1. /\ pc = "trim" /\ pc' = "save" /\ file' = work /\ accepted' = accepted \cup {rec}
        /\ dropped' = dropped \cup ((Range(file) \cup {rec}) \ Range(work))
    BY <1>3 DEF AppendRewrite
  <2>2. /\ Range(work) \subseteq Range(file) \cup {rec} /\ Range(file) \subseteq accepted
        /\ rec \notin accepted
    BY <2>1 DEF IInv, Trimming, Order, TypeOK, Record
  <2>3. QED
    BY <2>1, <2>2 DEF Needed
<1>4. CASE FlushRewrite
  <2>1. /\ pc = "flush" /\ pc' = "save" /\ work = <<>> /\ file' = kept
        /\ UNCHANGED <<accepted, dropped>>
    BY <1>4 DEF FlushRewrite, history
  <2>2. Range(kept) \subseteq Range(file)
    BY <2>1 DEF IInv, Flushing
  <2>3. QED
    BY <2>1, <2>2 DEF Needed
<1>5. ASSUME pc' # "trim", UNCHANGED <<file, accepted, dropped>> PROVE Needed'
  BY <1>5 DEF Needed
<1>6. ASSUME NEW r \in Range(work), UploadOk(r) \/ UploadFails(r) \/ ResponseLost(r)
      PROVE  Needed'
  BY <1>5, <1>6 DEF UploadOk, UploadFails, ResponseLost, history
<1>7. CASE \/ FlushBegin \/ AppendRewriteFails \/ FlushRewriteFails
           \/ SaveSummary \/ SaveSummaryFails \/ Crash
  BY <1>5, <1>7 DEF FlushBegin, AppendRewriteFails, FlushRewriteFails, SaveSummary,
                    SaveSummaryFails, Crash, Return, history
<1>8. CASE UNCHANGED vars
  BY <1>8 DEF vars, history, Needed, Gone
<1>9. QED
  BY <1>1, <1>2, <1>3, <1>4, <1>6, <1>7, <1>8 DEF Next

\* Only AppendRewrite drops records, and the foremost of them would not have
\* fitted.
LEMMA DropsNeeded ==
    ASSUME IInv, Needed, [Next]_vars,
           NEW d \in dropped' \ dropped, Foremost(d, dropped' \ dropped)
    PROVE  TooMuchWith(d)'
<1>1. CASE AppendRewrite
  <2>1. /\ pc = "trim" /\ file' = work
        /\ dropped' = dropped \cup ((Range(file) \cup {rec}) \ Range(work))
    BY <1>1 DEF AppendRewrite
  <2>2. /\ Range(file) \subseteq accepted /\ rec \notin accepted
        /\ Gone \subseteq Record
    <3>1. /\ rec \in Record /\ Range(file) \subseteq accepted
          /\ accepted \subseteq Record /\ \A r \in accepted : r.id < rec.id
      BY <2>1 DEF IInv, Trimming, Order, TypeOK
    <3>2. \A r \in Record : r.id \in Nat
      BY DEF Record
    <3>3. QED
      BY <3>1, <3>2 DEF Gone
  <2>3. dropped' \ dropped = Gone
    BY <2>1, <2>2 DEF Needed, Gone
  <2>4. PICK x \in Gone : Foremost(x, Gone) /\ NoRoom(work, x)
    BY <2>1, <2>3 DEF Needed
  <2>5. d = x
    <3>1. d \in Gone /\ x \in Gone /\ Foremost(d, Gone) /\ Foremost(x, Gone)
      BY <2>3, <2>4
    <3>2. d = x \/ (Promise!Outranks(d, x) /\ Promise!Outranks(x, d))
      <4>1. x = d \/ Promise!Outranks(d, x)
        BY <3>1 DEF Foremost
      <4>2. d = x \/ Promise!Outranks(x, d)
        BY <3>1 DEF Foremost
      <4>3. QED
        BY <4>1, <4>2
    <3>3. d.id \in Nat /\ x.id \in Nat
      BY <2>2, <3>1 DEF Record
    <3>4. QED
      BY <3>2, <3>3 DEF Promise!Outranks
  <2>6. QED
    BY <2>1, <2>4, <2>5 DEF NoRoom, TooMuchWith
<1>2. ASSUME UNCHANGED dropped PROVE FALSE
  BY <1>2
<1>3. ASSUME NEW r, \/ AppendBegin(r) \/ UploadOk(r) \/ UploadFails(r) \/ ResponseLost(r)
      PROVE  FALSE
  BY <1>2, <1>3 DEF AppendBegin, UploadOk, UploadFails, ResponseLost, history
<1>4. CASE \/ DropOne \/ FlushBegin \/ FlushRewrite \/ AppendRewriteFails
           \/ FlushRewriteFails \/ SaveSummary \/ SaveSummaryFails \/ Crash
  BY <1>2, <1>4 DEF DropOne, FlushBegin, FlushRewrite, AppendRewriteFails,
       FlushRewriteFails, SaveSummary, SaveSummaryFails, Crash, history
<1>5. CASE UNCHANGED vars
  BY <1>2, <1>5 DEF vars, history
<1>6. QED
  BY <1>1, <1>3, <1>4, <1>5 DEF Next

-----------------------------------------------------------------------------
\* The theorems

\* Every value has its type.
THEOREM TypeCorrect == Spec => []TypeOK
<1>1. IInv => TypeOK
  BY DEF IInv
<1>2. QED
  BY <1>1, Invariance, PTL

\* Through crashes, failed writes and lost responses, an accepted record is in
\* the spool file, or with the backend, or was pushed out by the limits.
THEOREM NothingIsLostSilently == Spec => []NoSilentLoss
<1>1. IInv => NoSilentLoss
  BY DEF IInv
<1>2. QED
  BY <1>1, Invariance, PTL

\* The spool file never holds more than MaxRecords records.
THEOREM RecordLimitHolds == Spec => []RecordsBounded
<1>1. IInv => RecordsBounded
  BY DEF IInv
<1>2. QED
  BY <1>1, Invariance, PTL

\* Between two calls, while nothing was cut short, the counters account for every
\* record, and for every blocked one but for twins (saveSummary, spool.go).
THEOREM CountersAreRight == Spec => []CountersAccount
<1>1. Counted => CountersAccount
  BY DEF Counted, Balanced, BlockedCounted, CountsBlocked, Twins, Adds, CountersAccount
<1>2. QED
  BY <1>1, CountedAlways, PTL

\* What trimRecords drops had to go: not even the most valuable of the records
\* that a call dropped would have fitted beside what it left.
THEOREM DropsAreNeeded == Spec => NothingDroppedNeedlessly
<1> DEFINE Needful == \A d \in dropped' \ dropped :
                         (\A e \in dropped' \ dropped : e = d \/ Promise!Outranks(d, e))
                             => TooMuchWith(d)'
<1>1. Init => Needed
  BY DEF Init, Needed, Range
<1>2. IInv /\ Needed /\ [Next]_vars => [Needful]_vars
  BY DropsNeeded DEF Foremost
<1> HIDE DEF Needful
<1>3. Spec => [][Needful]_vars
  BY <1>1, <1>2, NeededStep, Invariance, PTL DEF Spec
<1>4. QED
  BY <1>3 DEF Needful, NothingDroppedNeedlessly

-----------------------------------------------------------------------------
\* The spool implements the outbox

OutboxStep == [Promise!Next]_(Promise!outboxVars)

\* Replacing the file after an append is the outbox's Accept.
LEMMA AcceptStep ==
    ASSUME IInv, AppendRewrite
    PROVE  Promise!Next
<1> DEFINE offered == Range(file) \cup {rec}
<1>1. /\ pc = "trim" /\ file' = work /\ accepted' = accepted \cup {rec}
      /\ dropped' = dropped \cup (offered \ Range(work))
      /\ UNCHANGED delivered
  BY DEF AppendRewrite, backend
<1>2. /\ Range(work) \subseteq offered
      /\ \A k \in Range(work), d \in offered \ Range(work) : Promise!Outranks(k, d)
  BY <1>1 DEF IInv, Trimming
<1>3. rec \notin accepted
  <2>1. \A r \in accepted : r.id < rec.id /\ r.id \in Nat
    BY <1>1 DEF IInv, Trimming, TypeOK, Record
  <2>2. QED
    BY <2>1
<1>4. rec \in [id : 1..MaxAppends, kind : Kinds, size : Sizes, at : 0..MaxAppends]
  BY <1>1, SpoolAssumption DEF IInv, TypeOK, Trimming, Record
<1>5. Promise!Accept(rec)
  <2>1. Range(file') = offered \ (offered \ Range(work))
    BY <1>1, <1>2
  <2>2. \A k \in Range(file'), d \in offered \ Range(work) : Promise!Outranks(k, d)
    BY <1>1, <1>2
  <2>3. QED
    BY <1>1, <1>3, <2>1, <2>2 DEF Promise!Accept
<1>6. QED
  BY <1>4, <1>5 DEF Promise!Next

\* Every step of the spool is a step of the outbox, or leaves it alone.
LEMMA RefinementStep == IInv /\ [Next]_vars => OutboxStep
<1> SUFFICES ASSUME IInv, [Next]_vars PROVE OutboxStep
  OBVIOUS
<1>1. CASE AppendRewrite
  BY <1>1, AcceptStep DEF OutboxStep
<1>2. ASSUME NEW r \in Range(work), UploadOk(r) \/ ResponseLost(r)
      PROVE  OutboxStep
  <2>1. /\ pc = "flush" /\ delivered' = delivered \cup {r}
        /\ UNCHANGED <<file, accepted, dropped>>
    BY <1>2 DEF UploadOk, ResponseLost, Process, history
  <2>2. r \in Range(file)
    BY <2>1 DEF IInv, Flushing
  <2>3. QED
    BY <2>1, <2>2 DEF OutboxStep, Promise!Next, Promise!Deliver
<1>3. CASE FlushRewrite
  <2>1. /\ pc = "flush" /\ work = <<>> /\ file' = kept
        /\ UNCHANGED <<accepted, dropped, delivered>>
    BY <1>3 DEF FlushRewrite, history, backend
  <2>2. Range(kept) \subseteq Range(file) /\ Range(file) \subseteq Range(kept) \cup delivered
    BY <2>1 DEF IInv, Flushing, Range
  <2>3. QED
    BY <2>1, <2>2 DEF OutboxStep, Promise!Next, Promise!Retire
<1>4. ASSUME UNCHANGED <<accepted, file, delivered, dropped>>
      PROVE  OutboxStep
  BY <1>4 DEF OutboxStep, Promise!outboxVars
<1>5. ASSUME NEW r, AppendBegin(r) PROVE OutboxStep
  BY <1>4, <1>5 DEF AppendBegin, backend
<1>6. CASE DropOne \/ FlushBegin
  BY <1>4, <1>6 DEF DropOne, FlushBegin, history, backend
<1>7. ASSUME NEW r, UploadFails(r) PROVE OutboxStep
  BY <1>4, <1>7 DEF UploadFails, history, backend
<1>8. CASE AppendRewriteFails \/ FlushRewriteFails
  BY <1>4, <1>8 DEF AppendRewriteFails, FlushRewriteFails, history, backend
<1>9. CASE SaveSummary \/ SaveSummaryFails \/ Crash
  BY <1>4, <1>9 DEF SaveSummary, SaveSummaryFails, Crash, history, backend
<1>10. CASE UNCHANGED vars
  BY <1>4, <1>10 DEF vars, history, backend
<1>11. QED
  BY <1>1, <1>2, <1>3, <1>5, <1>6, <1>7, <1>8, <1>9, <1>10 DEF Next

\* The spool implements the outbox of Outbox.tla: drops go in order of worth,
\* and only what the backend has processed is removed otherwise.
THEOREM SpoolImplementsOutbox == Spec => ImplementsOutbox
<1>1. Init => Promise!Init
  BY DEF Init, Promise!Init, Range
<1>2. QED
  BY <1>1, Invariance, RefinementStep, PTL
     DEF Spec, ImplementsOutbox, Promise!Spec, OutboxStep

=============================================================================
