----------------------------- MODULE CasesProofs ------------------------------
(***************************************************************************)
(* Theorems about cases, for any alerts, analysts and tasks, and any       *)
(* number of cases and edits.                                              *)
(*                                                                         *)
(* The inductive invariant CaseInv says what a start has read and not yet  *)
(* written: that there is no case, or which case and with which priority.  *)
(* LinkInv says the same of the attaching of evidence: which report of a   *)
(* task it has read, that it is stored, and that the alert's own           *)
(* references were linked when the case was made.                          *)
(***************************************************************************)
EXTENDS Cases, FiniteSetTheorems, WellFoundedInduction, TLAPS

Priority == Priorities \cup {None}
Case == [alert : Alerts, status : {"open", "investigating", "closed"},
         priority : Priority, at : Nat]
Job == [pc : {"idle", "create", "update", "attach"}, alert : Alerts \cup {None},
        case : Nat, wants : Priority, read : Priority, task : Tasks \cup {None},
        raw : Reports \cup {None}]
TaskRow == [raw : Reports \cup {None}, made : SUBSET Reports]

CaseTypes ==
    /\ cases \in Seq(Case) /\ asked \in Seq(Priority) /\ Len(asked) = Len(cases)
    /\ clock \in Nat /\ \A c \in CaseIds : cases[c].at <= clock
    /\ raced \subseteq Alerts
    /\ taskRow \in [Tasks -> TaskRow]
    /\ analyst \in [Analysts -> Job]

Creating(w, a) == analyst[w].pc = "create" /\ analyst[w].alert = a
Changing(w, c) == analyst[w].pc = "update" /\ analyst[w].case = c

\* A start is about an alert, and a case it will update is that alert's.
StartOK(w) ==
    /\ analyst[w].pc \in {"create", "update"} => analyst[w].alert \in Alerts
    /\ analyst[w].pc = "update" =>
          /\ analyst[w].case \in CaseIds
          /\ cases[analyst[w].case].alert = analyst[w].alert
StartsOK == \A w \in Analysts : StartOK(w)

\* One case for an alert, and none while one start is to make it.
OneCase ==
    \A a \in Alerts \ raced :
        /\ \A c, d \in CasesOf(a) : c = d
        /\ \A w \in Analysts : Creating(w, a) => CasesOf(a) = {}

\* Its priority is the one asked for last, and what a start under way has
\* read.
EditsKept ==
    \A c \in CaseIds : cases[c].alert \notin raced =>
        /\ cases[c].priority = asked[c]
        /\ \A w \in Analysts : Changing(w, c) => analyst[w].read = asked[c]

CaseInv == CaseTypes /\ StartsOK /\ OneCase /\ EditsKept

-----------------------------------------------------------------------------
(* Rows that are picked from a table *)

\* The rank of a position counts from one, and grows with the position.
LEMMA RanksCount ==
    ASSUME NEW m \in Nat, NEW at \in SUBSET (1..m)
    PROVE  /\ IsFiniteSet(at) /\ Cardinality(at) \in Nat
           /\ \A i \in at : Rank(at, i) \in 1..Cardinality(at)
           /\ \A i, j \in at : i < j => Rank(at, i) < Rank(at, j)
<1> DEFINE upTo(i) == {j \in at : j <= i}
<1>1. IsFiniteSet(at) /\ Cardinality(at) \in Nat
  <2>1. IsFiniteSet(1..m)
    BY FS_Interval
  <2>2. QED
    BY <2>1, FS_Subset, FS_CardinalityType
<1>2. ASSUME NEW i \in at
      PROVE  /\ IsFiniteSet(upTo(i)) /\ Cardinality(upTo(i)) \in 1..Cardinality(at)
  <2>1. upTo(i) \in SUBSET at /\ upTo(i) # {}
    OBVIOUS
  <2>2. /\ IsFiniteSet(upTo(i)) /\ Cardinality(upTo(i)) <= Cardinality(at)
        /\ Cardinality(upTo(i)) \in Nat /\ Cardinality(upTo(i)) # 0
    BY <1>1, <2>1, FS_Subset, FS_CardinalityType, FS_EmptySet
  <2>3. QED
    BY <1>1, <2>2
<1>3. ASSUME NEW i \in at, NEW j \in at, i < j
      PROVE  Cardinality(upTo(i)) < Cardinality(upTo(j))
  <2>1. upTo(i) \in SUBSET upTo(j) /\ upTo(i) # upTo(j)
    <3>1. \A k \in at : k \in Nat
      OBVIOUS
    <3>2. \A k \in at : k <= i => k <= j
      BY <1>3, <3>1
    <3>3. upTo(i) \in SUBSET upTo(j)
      BY <3>2
    <3>4. j \in upTo(j) /\ j \notin upTo(i)
      BY <1>3, <3>1
    <3>5. QED
      BY <3>3, <3>4
  <2>2. /\ Cardinality(upTo(i)) <= Cardinality(upTo(j))
        /\ Cardinality(upTo(i)) # Cardinality(upTo(j))
    BY <1>2, <2>1, FS_Subset
  <2>3. QED
    BY <1>2, <2>2
<1>4. QED
  BY <1>1, <1>2, <1>3 DEF Rank

\* So every number up to the last rank is the rank of one position.
LEMMA NthHasItsRank ==
    ASSUME NEW m \in Nat, NEW at \in SUBSET (1..m), NEW n \in 1..Cardinality(at)
    PROVE  Nth(at, n) \in at /\ Rank(at, Nth(at, n)) = n
<1> DEFINE f == [i \in at |-> Rank(at, i)]
           c == Cardinality(at)
<1>1. IsFiniteSet(at) /\ c \in Nat /\ f \in [at -> 1..c]
  BY RanksCount
<1>2. ASSUME NEW i \in at, NEW j \in at, f[i] = f[j] PROVE i = j
  <2>1. /\ f[i] = Rank(at, i) /\ f[j] = Rank(at, j) /\ Rank(at, i) \in 1..c
        /\ i < j => Rank(at, i) < Rank(at, j)
        /\ j < i => Rank(at, j) < Rank(at, i)
    BY RanksCount
  <2>2. QED
    BY <1>1, <1>2, <2>1
<1>3. f \in Injection(at, 1..c)
  BY <1>1, <1>2 DEF Injection, IsInjective
<1>4. IsFiniteSet(1..c) /\ Cardinality(1..c) = c
  BY <1>1, FS_Interval
<1>5. f \in Surjection(at, 1..c)
  BY <1>3, <1>4, FS_Injection
<1>6. \E i \in at : Rank(at, i) = n
  BY <1>5 DEF Surjection
<1>7. QED
  BY <1>6 DEF Nth

\* What is picked: the members at those positions, each at its rank.
LEMMA PickedByRank ==
    ASSUME NEW S, NEW s \in Seq(S), NEW at \in SUBSET (DOMAIN s)
    PROVE  /\ Picked(s, at) \in Seq(S) /\ DOMAIN Picked(s, at) = 1..Cardinality(at)
           /\ \A n \in DOMAIN Picked(s, at) :
                 \E i \in at : Picked(s, at)[n] = s[i] /\ Rank(at, i) = n
           /\ \A i \in at : /\ Rank(at, i) \in DOMAIN Picked(s, at)
                            /\ Picked(s, at)[Rank(at, i)] = s[i]
<1>1. Len(s) \in Nat /\ DOMAIN s = 1..Len(s)
  OBVIOUS
<1>2. /\ Cardinality(at) \in Nat
      /\ \A i \in at : Rank(at, i) \in 1..Cardinality(at)
      /\ \A i, j \in at : i < j => Rank(at, i) < Rank(at, j)
  BY <1>1, RanksCount
<1>3. \A n \in 1..Cardinality(at) : Nth(at, n) \in at /\ Rank(at, Nth(at, n)) = n
  BY <1>1, NthHasItsRank
<1>4. ASSUME NEW i \in at PROVE Nth(at, Rank(at, i)) = i
  <2> DEFINE j == Nth(at, Rank(at, i))
  <2>1. j \in at /\ Rank(at, j) = Rank(at, i) /\ Rank(at, i) \in Nat
    BY <1>2, <1>3
  <2>2. i \in Nat /\ j \in Nat
    BY <1>1, <2>1
  <2> HIDE DEF j
  <2>3. ~(i < j) /\ ~(j < i)
    BY <1>2, <2>1
  <2>4. i = j
    BY <2>2, <2>3
  <2>5. QED
    BY <2>4 DEF j
<1>5. DOMAIN Picked(s, at) = 1..Cardinality(at)
  BY DEF Picked
<1>6. ASSUME NEW n \in 1..Cardinality(at) PROVE Picked(s, at)[n] = s[Nth(at, n)]
  BY DEF Picked
<1>7. \A i \in DOMAIN s : s[i] \in S
  OBVIOUS
<1>8. Picked(s, at) \in Seq(S)
  BY <1>2, <1>3, <1>7 DEF Picked
<1>9. QED
  BY <1>2, <1>3, <1>4, <1>5, <1>6, <1>8

-----------------------------------------------------------------------------
(* The tables *)

\* What is stored has its type.
LEMMA RowsOfCases ==
    ASSUME CaseTypes
    PROVE  \A c \in CaseIds : /\ cases[c] \in Case /\ cases[c].alert \in Alerts
                              /\ cases[c].priority \in Priority /\ cases[c].at \in Nat
                              /\ asked[c] \in Priority
<1>1. \A c \in CaseIds : cases[c] \in Case /\ asked[c] \in Priority
  BY DEF CaseTypes, CaseIds
<1>2. \A r \in Case : r.alert \in Alerts /\ r.priority \in Priority /\ r.at \in Nat
  BY DEF Case
<1>3. QED
  BY <1>1, <1>2

\* A set of cases has one that was updated last, and so Current is one of
\* them.
LEMMA CurrentIsOne ==
    ASSUME CaseTypes, NEW a, CasesOf(a) # {}
    PROVE  Current(a) \in CasesOf(a)
<1> DEFINE Ages == {clock - cases[c].at : c \in CasesOf(a)}
<1>1. \A c \in CasesOf(a) : cases[c].at \in Nat /\ clock - cases[c].at \in Nat
  BY RowsOfCases DEF CaseTypes, CasesOf
<1>2. Ages \subseteq Nat /\ Ages # {}
  BY <1>1
<1> HIDE DEF Ages
<1>3. PICK n \in Ages : \A m \in Ages : <<m, n>> \notin OpToRel(<, Nat)
  BY <1>2, NatLessThanWellFounded, WFMin
<1>4. \A m \in Ages : ~(m < n)
  BY <1>2, <1>3, Zenon DEF OpToRel
<1>5. PICK c \in CasesOf(a) : n = clock - cases[c].at
  BY <1>3 DEF Ages
<1>6. \A d \in CasesOf(a) : clock - cases[d].at \in Ages
  BY DEF Ages
<1>7. \A d \in CasesOf(a) : cases[d].at <= cases[c].at
  BY <1>1, <1>4, <1>5, <1>6 DEF CaseTypes
<1>8. QED
  BY <1>5, <1>7 DEF Current

\* A case that is inserted is the last one, and changes no other.
LEMMA InsertShape ==
    ASSUME CaseTypes, NEW a \in Alerts, NEW q \in Priority, Insert(a, q)
    PROVE  /\ cases' \in Seq(Case) /\ asked' \in Seq(Priority)
           /\ Len(asked') = Len(cases') /\ Len(cases') = Len(cases) + 1
           /\ CaseIds' = CaseIds \cup {Len(cases) + 1} /\ Len(cases) + 1 \notin CaseIds
           /\ clock' = clock + 1
           /\ \A c \in CaseIds : cases'[c] = cases[c] /\ asked'[c] = asked[c]
           /\ \A c \in CaseIds' : cases'[c].at <= clock'
           /\ cases'[Len(cases) + 1].alert = a
           /\ cases'[Len(cases) + 1].priority = q /\ asked'[Len(cases) + 1] = q
<1> DEFINE new == [alert |-> a, status |-> "open", priority |-> q, at |-> clock + 1]
<1>1. new \in Case /\ new.alert = a /\ new.priority = q /\ new.at = clock + 1
  BY DEF Case, CaseTypes
<1>2. cases' = Append(cases, new) /\ asked' = Append(asked, q) /\ clock' = clock + 1
  BY DEF Insert
<1> HIDE DEF new
<1>3. /\ cases' \in Seq(Case) /\ asked' \in Seq(Priority)
      /\ Len(asked') = Len(cases') /\ Len(cases') = Len(cases) + 1
      /\ \A c \in CaseIds : cases'[c] = cases[c] /\ asked'[c] = asked[c]
      /\ cases'[Len(cases) + 1] = new /\ asked'[Len(cases) + 1] = q
      /\ CaseIds' = CaseIds \cup {Len(cases) + 1} /\ Len(cases) + 1 \notin CaseIds
  BY <1>1, <1>2 DEF CaseTypes, CaseIds
<1>4. ASSUME NEW c \in CaseIds PROVE cases'[c].at <= clock'
  <2>1. cases[c].at \in Nat /\ cases[c].at <= clock /\ clock \in Nat
    BY RowsOfCases DEF CaseTypes
  <2>2. cases'[c] = cases[c] /\ clock' = clock + 1
    BY <1>2, <1>3
  <2>3. QED
    BY <2>1, <2>2
<1>5. cases'[Len(cases) + 1].at <= clock'
  BY <1>1, <1>2, <1>3
<1>6. QED
  BY <1>1, <1>2, <1>3, <1>4, <1>5

\* A case that is updated keeps its alert, and changes no other.
Rewrites(c, q) ==
    /\ cases' \in Seq(Case) /\ Len(cases') = Len(cases)
    /\ clock' = clock + 1
    /\ \A d \in CaseIds : d # c => cases'[d] = cases[d]
    /\ cases'[c].alert = cases[c].alert /\ cases'[c].priority = q
    /\ \A d \in CaseIds : cases'[d].at <= clock'

\* Writing one row does so.
LEMMA RewriteShape ==
    ASSUME CaseTypes, NEW c \in CaseIds, NEW r \in Case, clock' = clock + 1,
           cases' = [cases EXCEPT ![c] = r], r.alert = cases[c].alert, r.at = clock'
    PROVE  Rewrites(c, r.priority)
<1>1. /\ cases' \in Seq(Case) /\ Len(cases') = Len(cases)
      /\ \A d \in CaseIds : d # c => cases'[d] = cases[d]
      /\ cases'[c] = r
  BY DEF CaseTypes, CaseIds
<1>2. ASSUME NEW d \in CaseIds, d # c PROVE cases'[d].at <= clock'
  BY <1>1, <1>2, RowsOfCases DEF CaseTypes
<1>3. cases'[c].at <= clock'
  BY <1>1
<1>4. QED
  BY <1>1, <1>2, <1>3 DEF Rewrites

\* The last step of a start updates a case so.
LEMMA StartUpdateShape ==
    ASSUME CaseInv, NEW w \in Analysts, StartUpdate(w)
    PROVE  LET c == analyst[w].case
               q == IF Chosen(w) = None THEN cases[c].priority ELSE Chosen(w)
           IN Rewrites(c, q)
<1> DEFINE c == analyst[w].case
           q == IF Chosen(w) = None THEN cases[c].priority ELSE Chosen(w)
           r == [cases[c] EXCEPT !.status = "investigating", !.at = clock + 1, !.priority = q]
<1>1. analyst[w].pc = "update" /\ analyst[w] \in Job
  BY DEF StartUpdate, CaseInv, CaseTypes
<1>2. c \in CaseIds
  BY <1>1 DEF CaseInv, StartsOK, StartOK
<1>3. cases[c] \in Case
  BY <1>2, RowsOfCases DEF CaseInv
<1>4. cases' = [cases EXCEPT ![c] = r] /\ clock' = clock + 1
  BY <1>2, <1>3 DEF StartUpdate
<1>5. Chosen(w) \in Priority /\ q \in Priority
  <2>1. Chosen(w) \in Priority
    BY <1>1 DEF Chosen, Job
  <2>2. cases[c].priority \in Priority
    BY <1>3 DEF Case
  <2>3. QED
    BY <2>1, <2>2
<1>6. clock + 1 \in Nat
  BY DEF CaseInv, CaseTypes
<1> HIDE DEF q
<1>7. r \in Case /\ r.alert = cases[c].alert /\ r.at = clock + 1 /\ r.priority = q
  BY <1>3, <1>5, <1>6 DEF Case
<1> HIDE DEF r
<1>8. Rewrites(c, q)
  BY <1>2, <1>4, <1>7, RewriteShape DEF CaseInv
<1>9. QED
  BY <1>8 DEF q

\* The same of a PATCH.
LEMMA PatchShape ==
    ASSUME CaseTypes, NEW c \in CaseIds, NEW status \in {None, "closed"},
           NEW priority \in Priority, Patch(c, status, priority)
    PROVE  Rewrites(c, IF priority = None THEN cases[c].priority ELSE priority)
<1> DEFINE q == IF priority = None THEN cases[c].priority ELSE priority
           s == IF status = None THEN cases[c].status ELSE status
           r == [cases[c] EXCEPT !.at = clock + 1, !.status = s, !.priority = q]
<1>1. cases[c] \in Case
  BY RowsOfCases
<1>2. cases' = [cases EXCEPT ![c] = r] /\ clock' = clock + 1
  BY <1>1 DEF Patch
<1>3. q \in Priority /\ s \in {"open", "investigating", "closed"}
  BY <1>1 DEF Case
<1>4. clock + 1 \in Nat
  BY DEF CaseTypes
<1> HIDE DEF q, s
<1>5. r \in Case /\ r.alert = cases[c].alert /\ r.at = clock + 1 /\ r.priority = q
  BY <1>1, <1>3, <1>4 DEF Case
<1> HIDE DEF r
<1>6. Rewrites(c, q)
  BY <1>2, <1>5, RewriteShape
<1>7. QED
  BY <1>6 DEF q

\* What is asked for last is kept by case.
LEMMA AskedShape ==
    ASSUME CaseTypes, NEW c \in CaseIds, NEW q \in Priority, NEW on \in BOOLEAN,
           asked' = IF on THEN [asked EXCEPT ![c] = q] ELSE asked
    PROVE  /\ asked' \in Seq(Priority) /\ Len(asked') = Len(asked)
           /\ \A d \in CaseIds : asked'[d] = IF on /\ d = c THEN q ELSE asked[d]
<1>1. asked \in Seq(Priority) /\ c \in DOMAIN asked /\ CaseIds = DOMAIN asked
  BY DEF CaseTypes, CaseIds
<1>2. CASE on
  BY <1>1, <1>2
<1>3. CASE ~on
  BY <1>1, <1>3
<1>4. QED
  BY <1>2, <1>3

-----------------------------------------------------------------------------
(* The parts of the invariant, step by step *)

\* Every step keeps the types.
LEMMA CaseTypesStep == CaseInv /\ [CasesNext]_casesVars => CaseTypes'
<1> SUFFICES ASSUME CaseInv, [CasesNext]_casesVars PROVE CaseTypes'
  OBVIOUS
<1>same. CASE UNCHANGED <<cases, asked, clock, raced, taskRow, analyst>>
  BY <1>same DEF CaseInv, CaseTypes, CaseIds
<1>1. ASSUME NEW a \in Alerts, CreateCase(a) PROVE CaseTypes'
  <2>1. Insert(a, None) /\ None \in Priority
    BY <1>1 DEF CreateCase, Priority
  <2>2. UNCHANGED <<taskRow, analyst>> /\ raced' \subseteq Alerts
    BY <1>1 DEF CreateCase, CaseInv, CaseTypes
  <2>3. QED
    BY <2>1, <2>2, InsertShape DEF CaseInv, CaseTypes
<1>2. ASSUME NEW w \in Analysts, NEW a \in Alerts,
            NEW p \in Priorities \cup {None}, StartRead(w, a, p)
      PROVE  CaseTypes'
  <2>1. analyst' \in [Analysts -> Job]
    <3>1. CASE CasesOf(a) = {}
      BY <1>2, <3>1 DEF StartRead, Rest, Job, Priority, CaseInv, CaseTypes
    <3>2. CASE CasesOf(a) # {}
      <4>0. Current(a) \in CaseIds
        BY <3>2, CurrentIsOne DEF CaseInv, CasesOf
      <4>1. Current(a) \in Nat /\ cases[Current(a)].priority \in Priority
        <5>1. Current(a) \in Nat
          BY <4>0 DEF CaseInv, CaseTypes, CaseIds
        <5>2. QED
          BY <4>0, <5>1, RowsOfCases DEF CaseInv
      <4>2. analyst' = [analyst EXCEPT ![w] =
              [Rest EXCEPT !.pc = "update", !.alert = a, !.wants = p,
                           !.case = Current(a), !.read = cases[Current(a)].priority]]
        BY <1>2, <3>2 DEF StartRead
      <4>3. QED
        BY <4>1, <4>2 DEF Rest, Job, Priority, CaseInv, CaseTypes
    <3>3. QED
      BY <3>1, <3>2
  <2>2. QED
    BY <1>2, <2>1 DEF StartRead, CaseInv, CaseTypes, CaseIds
<1>3. ASSUME NEW w \in Analysts, StartCreate(w) PROVE CaseTypes'
  <2> DEFINE a == analyst[w].alert
             q == IF analyst[w].wants = None THEN Severity[a] ELSE analyst[w].wants
  <2>1. analyst[w].pc = "create" /\ Insert(a, q)
    BY <1>3 DEF StartCreate
  <2>2. analyst[w] \in Job /\ a \in Alerts
    BY <2>1 DEF CaseInv, CaseTypes, StartsOK, StartOK
  <2>3. q \in Priority
    BY <2>2, CasesAssumption DEF Job, Priority
  <2>4. analyst' = [analyst EXCEPT ![w].pc = "update", ![w].read = q,
                                   ![w].case = Len(cases) + 1]
    BY <1>3 DEF StartCreate
  <2> DEFINE job == [analyst[w] EXCEPT !.pc = "update", !.read = q,
                                       !.case = Len(cases) + 1]
  <2>5. analyst' = [analyst EXCEPT ![w] = job]
    BY <2>2, <2>4
  <2>6. Len(cases) + 1 \in Nat
    BY DEF CaseTypes
  <2>7. raced' = raced \cup Overlaps(a, Analysts \ {w})
    BY <1>3 DEF StartCreate
  <2> HIDE DEF a, q
  <2>8. job \in Job /\ job.pc = "update" /\ job.alert = analyst[w].alert
        /\ job.read = q /\ job.case = Len(cases) + 1
    BY <2>2, <2>3, <2>6 DEF Job
  <2> HIDE DEF job
  <2>9. UNCHANGED taskRow /\ raced' \subseteq Alerts
    BY <1>3, <2>2, <2>7 DEF StartCreate, Overlaps, CaseInv, CaseTypes
  <2>10. analyst' \in [Analysts -> Job]
    BY <2>5, <2>8 DEF CaseInv, CaseTypes
  <2>11. QED
    BY <2>1, <2>2, <2>3, <2>9, <2>10, InsertShape DEF CaseInv, CaseTypes
<1>4. ASSUME NEW w \in Analysts, StartUpdate(w) PROVE CaseTypes'
  <2> DEFINE c == analyst[w].case
             q == IF Chosen(w) = None THEN cases[c].priority ELSE Chosen(w)
  <2>1. Rewrites(c, q)
    BY <1>4, StartUpdateShape
  <2>2. /\ analyst[w].pc = "update" /\ analyst[w] \in Job /\ c \in CaseIds
        /\ cases[c].alert = analyst[w].alert
    BY <1>4 DEF StartUpdate, CaseInv, CaseTypes, StartsOK, StartOK
  <2>3. /\ asked' = IF analyst[w].wants = None THEN asked
                    ELSE [asked EXCEPT ![c] = analyst[w].wants]
        /\ analyst' = [analyst EXCEPT ![w] = Rest]
        /\ raced' = raced \cup (IF analyst[w].wants = None THEN {}
                                ELSE Overlaps(cases[c].alert, Analysts \ {w}))
        /\ UNCHANGED taskRow
    BY <1>4 DEF StartUpdate
  <2> HIDE DEF c, q
  <2>4. cases[c].alert \in Alerts
    BY <2>2, RowsOfCases DEF CaseInv
  <2>5. raced' \subseteq Alerts
    BY <2>3, <2>4 DEF Overlaps, CaseInv, CaseTypes
  <2>6. asked' \in Seq(Priority) /\ Len(asked') = Len(asked)
    <3>1. /\ analyst[w].wants \in Priority
          /\ asked' = IF analyst[w].wants # None THEN [asked EXCEPT ![c] = analyst[w].wants]
                      ELSE asked
      BY <2>2, <2>3 DEF Job
    <3>2. (analyst[w].wants # None) \in BOOLEAN
      OBVIOUS
    <3>3. QED
      BY <2>2, <3>1, <3>2, AskedShape DEF CaseInv
  <2>7. analyst' \in [Analysts -> Job]
    BY <2>3 DEF Rest, Job, Priority, CaseInv, CaseTypes
  <2>8. CaseIds' = CaseIds /\ clock' \in Nat
    BY <2>1 DEF Rewrites, CaseIds, CaseInv, CaseTypes
  <2>9. QED
    BY <2>1, <2>3, <2>5, <2>6, <2>7, <2>8 DEF Rewrites, CaseInv, CaseTypes
<1>5. ASSUME NEW w \in Analysts, NEW t \in Tasks, NEW c \in 1..MaxCases,
            AttachRead(w, t, c)
      PROVE  CaseTypes'
  <2>1. taskRow[t].raw \in Reports \cup {None} /\ c \in Nat
    BY DEF CaseInv, CaseTypes, TaskRow
  <2>2. analyst' \in [Analysts -> Job]
    BY <1>5, <2>1 DEF AttachRead, Rest, Job, CaseInv, CaseTypes
  <2>3. QED
    BY <1>5, <2>2 DEF AttachRead, CaseInv, CaseTypes, CaseIds
<1>6. ASSUME NEW w \in Analysts, AttachInsert(w) PROVE CaseTypes'
  <2>1. analyst' \in [Analysts -> Job]
    BY <1>6 DEF AttachInsert, Rest, Job, Priority, CaseInv, CaseTypes
  <2>2. QED
    BY <1>6, <2>1 DEF AttachInsert, CaseInv, CaseTypes, CaseIds
<1>7. ASSUME NEW c \in CaseIds, NEW l \in ByHand, AddEvidence(c, l)
      PROVE  CaseTypes'
  BY <1>7, <1>same DEF AddEvidence
<1>8. ASSUME NEW c \in CaseIds, NEW status \in {None, "closed"},
             NEW p \in Priority, Patch(c, status, p)
      PROVE  CaseTypes'
  <2> DEFINE q == IF p = None THEN cases[c].priority ELSE p
  <2>1. Rewrites(c, q)
    BY <1>8, PatchShape DEF CaseInv
  <2>2. /\ asked' = IF p = None THEN asked ELSE [asked EXCEPT ![c] = p]
        /\ raced' = raced \cup (IF p = None THEN {}
                                ELSE Overlaps(cases[c].alert, Analysts))
        /\ UNCHANGED <<taskRow, analyst>>
    BY <1>8 DEF Patch
  <2>3. cases[c].alert \in Alerts
    BY RowsOfCases DEF CaseInv
  <2>4. raced' \subseteq Alerts
    BY <2>2, <2>3 DEF Overlaps, CaseInv, CaseTypes
  <2>5. asked' \in Seq(Priority) /\ Len(asked') = Len(asked)
    <3>1. asked' = IF p # None THEN [asked EXCEPT ![c] = p] ELSE asked
      BY <2>2
    <3>2. p \in Priority /\ (p # None) \in BOOLEAN
      BY DEF Priority
    <3>3. QED
      BY <3>1, <3>2, AskedShape DEF CaseInv
  <2>6. CaseIds' = CaseIds /\ clock' \in Nat
    BY <2>1 DEF Rewrites, CaseIds, CaseInv, CaseTypes
  <2>7. QED
    BY <2>1, <2>2, <2>4, <2>5, <2>6 DEF Rewrites, CaseInv, CaseTypes
<1>9. ASSUME NEW t \in Tasks, NEW r \in Reports, Report(t, r) PROVE CaseTypes'
  <2>1. taskRow' \in [Tasks -> TaskRow]
    BY <1>9 DEF Report, CaseInv, CaseTypes, TaskRow
  <2>2. QED
    BY <1>9, <2>1 DEF Report, CaseInv, CaseTypes, CaseIds
<1>10. CASE UNCHANGED casesVars
  BY <1>10, <1>same DEF casesVars
<1> QED
  BY <1>1, <1>2, <1>3, <1>4, <1>5, <1>6, <1>7, <1>8, <1>9, <1>10
  DEF CasesNext, Priority

\* A case stays, and stays its alert's.
LEMMA CasesStay ==
    CaseInv /\ [CasesNext]_casesVars =>
        \A d \in CaseIds : d \in CaseIds' /\ cases'[d].alert = cases[d].alert
<1> SUFFICES ASSUME CaseInv, [CasesNext]_casesVars
             PROVE  \A d \in CaseIds : d \in CaseIds' /\ cases'[d].alert = cases[d].alert
  OBVIOUS
<1>same. CASE UNCHANGED <<cases>>
  BY <1>same DEF CaseIds
<1>1. ASSUME NEW a \in Alerts, CreateCase(a)
      PROVE  \A d \in CaseIds : d \in CaseIds' /\ cases'[d].alert = cases[d].alert
  <2>1. Insert(a, None) /\ None \in Priority
    BY <1>1 DEF CreateCase, Priority
  <2>2. QED
    BY <2>1, InsertShape DEF CaseInv
<1>2. ASSUME NEW w \in Analysts, NEW a \in Alerts,
            NEW p \in Priorities \cup {None}, StartRead(w, a, p)
      PROVE  \A d \in CaseIds : d \in CaseIds' /\ cases'[d].alert = cases[d].alert
  BY <1>2, <1>same DEF StartRead
<1>3. ASSUME NEW w \in Analysts, StartCreate(w)
      PROVE  \A d \in CaseIds : d \in CaseIds' /\ cases'[d].alert = cases[d].alert
  <2> DEFINE a == analyst[w].alert
             q == IF analyst[w].wants = None THEN Severity[a] ELSE analyst[w].wants
  <2>1. analyst[w].pc = "create" /\ Insert(a, q)
    BY <1>3 DEF StartCreate
  <2>2. analyst[w] \in Job /\ a \in Alerts
    BY <2>1 DEF CaseInv, CaseTypes, StartsOK, StartOK
  <2>3. q \in Priority
    BY <2>2, CasesAssumption DEF Job, Priority
  <2>4. analyst' = [analyst EXCEPT ![w].pc = "update", ![w].read = q,
                                   ![w].case = Len(cases) + 1]
    BY <1>3 DEF StartCreate
  <2> DEFINE job == [analyst[w] EXCEPT !.pc = "update", !.read = q,
                                       !.case = Len(cases) + 1]
  <2>5. analyst' = [analyst EXCEPT ![w] = job]
    BY <2>2, <2>4
  <2>6. Len(cases) + 1 \in Nat
    BY DEF CaseTypes
  <2>7. raced' = raced \cup Overlaps(a, Analysts \ {w})
    BY <1>3 DEF StartCreate
  <2> HIDE DEF a, q
  <2>8. job \in Job /\ job.pc = "update" /\ job.alert = analyst[w].alert
        /\ job.read = q /\ job.case = Len(cases) + 1
    BY <2>2, <2>3, <2>6 DEF Job
  <2> HIDE DEF job
  <2>9. QED
    BY <2>1, <2>2, <2>3, InsertShape DEF CaseInv
<1>4. ASSUME NEW w \in Analysts, StartUpdate(w)
      PROVE  \A d \in CaseIds : d \in CaseIds' /\ cases'[d].alert = cases[d].alert
  <2> DEFINE c == analyst[w].case
             q == IF Chosen(w) = None THEN cases[c].priority ELSE Chosen(w)
  <2>1. Rewrites(c, q)
    BY <1>4, StartUpdateShape
  <2>2. /\ analyst[w].pc = "update" /\ analyst[w] \in Job /\ c \in CaseIds
        /\ cases[c].alert = analyst[w].alert
    BY <1>4 DEF StartUpdate, CaseInv, CaseTypes, StartsOK, StartOK
  <2>3. /\ asked' = IF analyst[w].wants = None THEN asked
                    ELSE [asked EXCEPT ![c] = analyst[w].wants]
        /\ analyst' = [analyst EXCEPT ![w] = Rest]
        /\ raced' = raced \cup (IF analyst[w].wants = None THEN {}
                                ELSE Overlaps(cases[c].alert, Analysts \ {w}))
        /\ UNCHANGED taskRow
    BY <1>4 DEF StartUpdate
  <2> HIDE DEF c, q
  <2>9. CaseIds' = CaseIds
    BY <2>1 DEF Rewrites, CaseIds
  <2>10. QED
    BY <2>1, <2>9 DEF Rewrites
<1>5. ASSUME NEW w \in Analysts, NEW t \in Tasks, NEW c \in 1..MaxCases,
            AttachRead(w, t, c)
      PROVE  \A d \in CaseIds : d \in CaseIds' /\ cases'[d].alert = cases[d].alert
  BY <1>5, <1>same DEF AttachRead
<1>6. ASSUME NEW w \in Analysts, AttachInsert(w)
      PROVE  \A d \in CaseIds : d \in CaseIds' /\ cases'[d].alert = cases[d].alert
  BY <1>6, <1>same DEF AttachInsert
<1>7. ASSUME NEW c \in CaseIds, NEW l \in ByHand, AddEvidence(c, l)
      PROVE  \A d \in CaseIds : d \in CaseIds' /\ cases'[d].alert = cases[d].alert
  BY <1>7, <1>same DEF AddEvidence
<1>8. ASSUME NEW c \in CaseIds, NEW status \in {None, "closed"},
             NEW p \in Priority, Patch(c, status, p)
      PROVE  \A d \in CaseIds : d \in CaseIds' /\ cases'[d].alert = cases[d].alert
  <2> DEFINE q == IF p = None THEN cases[c].priority ELSE p
  <2>1. Rewrites(c, q)
    BY <1>8, PatchShape DEF CaseInv
  <2>2. /\ asked' = IF p = None THEN asked ELSE [asked EXCEPT ![c] = p]
        /\ raced' = raced \cup (IF p = None THEN {}
                                ELSE Overlaps(cases[c].alert, Analysts))
        /\ UNCHANGED <<taskRow, analyst>>
    BY <1>8 DEF Patch
  <2>9. CaseIds' = CaseIds
    BY <2>1 DEF Rewrites, CaseIds
  <2>10. QED
    BY <2>1, <2>9 DEF Rewrites
<1>9. ASSUME NEW t \in Tasks, NEW r \in Reports, Report(t, r)
      PROVE  \A d \in CaseIds : d \in CaseIds' /\ cases'[d].alert = cases[d].alert
  BY <1>9, <1>same DEF Report
<1>10. CASE UNCHANGED casesVars
  BY <1>10, <1>same DEF casesVars
<1> QED
  BY <1>1, <1>2, <1>3, <1>4, <1>5, <1>6, <1>7, <1>8, <1>9, <1>10
  DEF CasesNext, Priority

\* A start finds or makes the case it will update.
LEMMA StartsOKStep == CaseInv /\ [CasesNext]_casesVars => StartsOK'
<1> SUFFICES ASSUME CaseInv, [CasesNext]_casesVars PROVE StartsOK'
  OBVIOUS
<1>same. CASE UNCHANGED <<cases, analyst>>
  BY <1>same DEF CaseInv, StartsOK, StartOK, CaseIds
<1>1. ASSUME NEW a \in Alerts, CreateCase(a) PROVE StartsOK'
  <2>1. UNCHANGED analyst
    BY <1>1 DEF CreateCase
  <2>2. ASSUME NEW v \in Analysts PROVE StartOK(v)'
    BY <2>1, CasesStay DEF CaseInv, StartsOK, StartOK
  <2>3. QED
    BY <2>2 DEF StartsOK
<1>2. ASSUME NEW w \in Analysts, NEW a \in Alerts,
            NEW p \in Priorities \cup {None}, StartRead(w, a, p)
      PROVE  StartsOK'
  <2>1. analyst'[w].alert = a /\ analyst'[w].pc \in {"create", "update"}
    BY <1>2 DEF StartRead, CaseInv, CaseTypes
  <2>2. ASSUME analyst'[w].pc = "update"
        PROVE  analyst'[w].case \in CaseIds /\ cases[analyst'[w].case].alert = a
    <3>1. CasesOf(a) # {}
      BY <1>2, <2>2 DEF StartRead, Rest
    <3>2. analyst'[w].case = Current(a)
      BY <1>2, <3>1 DEF StartRead, CaseInv, CaseTypes
    <3>3. QED
      BY <3>1, <3>2, CurrentIsOne DEF CaseInv, CasesOf
  <2>3. UNCHANGED cases
    BY <1>2 DEF StartRead
  <2>19. StartOK(w)'
    BY <2>1, <2>2, <2>3 DEF StartOK, CaseIds
  <2>20. ASSUME NEW v \in Analysts, v # w PROVE StartOK(v)'
    <3>1. analyst'[v] = analyst[v]
      BY <1>2, <2>20 DEF StartRead
    <3>2. QED
      BY <3>1, CasesStay DEF CaseInv, StartsOK, StartOK
  <2>21. QED
    BY <2>19, <2>20 DEF StartsOK
<1>3. ASSUME NEW w \in Analysts, StartCreate(w) PROVE StartsOK'
  <2> DEFINE a == analyst[w].alert
             q == IF analyst[w].wants = None THEN Severity[a] ELSE analyst[w].wants
  <2>1. analyst[w].pc = "create" /\ Insert(a, q)
    BY <1>3 DEF StartCreate
  <2>2. analyst[w] \in Job /\ a \in Alerts
    BY <2>1 DEF CaseInv, CaseTypes, StartsOK, StartOK
  <2>3. q \in Priority
    BY <2>2, CasesAssumption DEF Job, Priority
  <2>4. analyst' = [analyst EXCEPT ![w].pc = "update", ![w].read = q,
                                   ![w].case = Len(cases) + 1]
    BY <1>3 DEF StartCreate
  <2> DEFINE job == [analyst[w] EXCEPT !.pc = "update", !.read = q,
                                       !.case = Len(cases) + 1]
  <2>5. analyst' = [analyst EXCEPT ![w] = job]
    BY <2>2, <2>4
  <2>6. Len(cases) + 1 \in Nat
    BY DEF CaseTypes
  <2>7. raced' = raced \cup Overlaps(a, Analysts \ {w})
    BY <1>3 DEF StartCreate
  <2> HIDE DEF a, q
  <2>8. job \in Job /\ job.pc = "update" /\ job.alert = analyst[w].alert
        /\ job.read = q /\ job.case = Len(cases) + 1
    BY <2>2, <2>3, <2>6 DEF Job
  <2> HIDE DEF job
  <2>17. /\ Len(cases) + 1 \in CaseIds' /\ cases'[Len(cases) + 1].alert = a
    BY <2>1, <2>2, <2>3, InsertShape DEF CaseInv
  <2>18. analyst'[w] = job
    BY <2>5 DEF CaseInv, CaseTypes
  <2>19. StartOK(w)'
    BY <2>2, <2>8, <2>17, <2>18 DEF StartOK, a
  <2>20. ASSUME NEW v \in Analysts, v # w PROVE StartOK(v)'
    <3>1. analyst'[v] = analyst[v]
      BY <1>3, <2>20 DEF StartCreate, CaseInv, CaseTypes
    <3>2. QED
      BY <3>1, CasesStay DEF CaseInv, StartsOK, StartOK
  <2>21. QED
    BY <2>19, <2>20 DEF StartsOK
<1>4. ASSUME NEW w \in Analysts, StartUpdate(w) PROVE StartsOK'
  <2>18. analyst'[w].pc \in {"idle", "attach"}
    BY <1>4 DEF StartUpdate, Rest, CaseInv, CaseTypes
  <2>19. StartOK(w)'
    BY <2>18 DEF StartOK
  <2>20. ASSUME NEW v \in Analysts, v # w PROVE StartOK(v)'
    <3>1. analyst'[v] = analyst[v]
      BY <1>4, <2>20 DEF StartUpdate
    <3>2. QED
      BY <3>1, CasesStay DEF CaseInv, StartsOK, StartOK
  <2>21. QED
    BY <2>19, <2>20 DEF StartsOK
<1>5. ASSUME NEW w \in Analysts, NEW t \in Tasks, NEW c \in 1..MaxCases,
            AttachRead(w, t, c)
      PROVE  StartsOK'
  <2>18. analyst'[w].pc \in {"idle", "attach"}
    BY <1>5 DEF AttachRead, Rest
  <2>19. StartOK(w)'
    BY <2>18 DEF StartOK
  <2>20. ASSUME NEW v \in Analysts, v # w PROVE StartOK(v)'
    <3>1. analyst'[v] = analyst[v]
      BY <1>5, <2>20 DEF AttachRead
    <3>2. QED
      BY <3>1, CasesStay DEF CaseInv, StartsOK, StartOK
  <2>21. QED
    BY <2>19, <2>20 DEF StartsOK
<1>6. ASSUME NEW w \in Analysts, AttachInsert(w) PROVE StartsOK'
  <2>18. analyst'[w].pc \in {"idle", "attach"}
    BY <1>6 DEF AttachInsert, Rest
  <2>19. StartOK(w)'
    BY <2>18 DEF StartOK
  <2>20. ASSUME NEW v \in Analysts, v # w PROVE StartOK(v)'
    <3>1. analyst'[v] = analyst[v]
      BY <1>6, <2>20 DEF AttachInsert
    <3>2. QED
      BY <3>1, CasesStay DEF CaseInv, StartsOK, StartOK
  <2>21. QED
    BY <2>19, <2>20 DEF StartsOK
<1>7. ASSUME NEW c \in CaseIds, NEW l \in ByHand, AddEvidence(c, l)
      PROVE  StartsOK'
  BY <1>7, <1>same DEF AddEvidence
<1>8. ASSUME NEW c \in CaseIds, NEW status \in {None, "closed"},
             NEW p \in Priority, Patch(c, status, p)
      PROVE  StartsOK'
  <2>1. UNCHANGED analyst
    BY <1>8 DEF Patch
  <2>2. ASSUME NEW v \in Analysts PROVE StartOK(v)'
    BY <2>1, CasesStay DEF CaseInv, StartsOK, StartOK
  <2>3. QED
    BY <2>2 DEF StartsOK
<1>9. ASSUME NEW t \in Tasks, NEW r \in Reports, Report(t, r) PROVE StartsOK'
  BY <1>9, <1>same DEF Report
<1>10. CASE UNCHANGED casesVars
  BY <1>10, <1>same DEF casesVars
<1> QED
  BY <1>1, <1>2, <1>3, <1>4, <1>5, <1>6, <1>7, <1>8, <1>9, <1>10
  DEF CasesNext, Priority

\* A second case is made only where two writers overlapped.
LEMMA OneCaseStep == CaseInv /\ [CasesNext]_casesVars => OneCase'
<1> SUFFICES ASSUME CaseInv, [CasesNext]_casesVars PROVE OneCase'
  OBVIOUS
<1>same. CASE UNCHANGED <<cases, raced, analyst>>
  BY <1>same DEF CaseInv, OneCase, CasesOf, CaseIds, Creating
<1>1. ASSUME NEW a \in Alerts, CreateCase(a) PROVE OneCase'
  <2>1. Insert(a, None) /\ None \in Priority
    BY <1>1 DEF CreateCase, Priority
  <2>2. raced' = raced \cup {a} /\ UNCHANGED analyst
    BY <1>1 DEF CreateCase
  <2>3. ASSUME NEW b \in Alerts \ raced' PROVE CasesOf(b)' = CasesOf(b) /\ b \in Alerts \ raced
    <3>1. CaseIds' = CaseIds \cup {Len(cases) + 1}
      BY <2>1, InsertShape DEF CaseInv
    <3>2. cases'[Len(cases) + 1].alert # b
      BY <2>1, <2>2, InsertShape DEF CaseInv
    <3>3. \A d \in CaseIds : cases'[d] = cases[d]
      BY <2>1, InsertShape DEF CaseInv
    <3>4. QED
      BY <2>2, <3>1, <3>2, <3>3 DEF CasesOf
  <2>4. QED
    BY <2>2, <2>3 DEF CaseInv, OneCase, Creating
<1>2. ASSUME NEW w \in Analysts, NEW a \in Alerts,
            NEW p \in Priorities \cup {None}, StartRead(w, a, p)
      PROVE  OneCase'
  <2>1. UNCHANGED <<cases, raced>>
    BY <1>2 DEF StartRead
  <2>2. \A b : CasesOf(b)' = CasesOf(b)
    BY <2>1 DEF CasesOf, CaseIds
  <2>3. ASSUME NEW b \in Alerts \ raced, NEW v \in Analysts, Creating(v, b)'
        PROVE  CasesOf(b) = {}
    <3>1. CASE v = w
      BY <1>2, <2>3, <3>1 DEF StartRead, Creating, Rest
    <3>2. CASE v # w
      <4>1. Creating(v, b)
        BY <1>2, <2>3, <3>2 DEF StartRead, Creating
      <4>2. QED
        BY <4>1, <2>3 DEF CaseInv, OneCase
    <3>3. QED
      BY <3>1, <3>2
  <2>4. QED
    BY <2>1, <2>2, <2>3 DEF CaseInv, OneCase
<1>3. ASSUME NEW w \in Analysts, StartCreate(w) PROVE OneCase'
  <2> DEFINE a == analyst[w].alert
             q == IF analyst[w].wants = None THEN Severity[a] ELSE analyst[w].wants
  <2>1. analyst[w].pc = "create" /\ Insert(a, q)
    BY <1>3 DEF StartCreate
  <2>2. analyst[w] \in Job /\ a \in Alerts
    BY <2>1 DEF CaseInv, CaseTypes, StartsOK, StartOK
  <2>3. q \in Priority
    BY <2>2, CasesAssumption DEF Job, Priority
  <2>4. analyst' = [analyst EXCEPT ![w].pc = "update", ![w].read = q,
                                   ![w].case = Len(cases) + 1]
    BY <1>3 DEF StartCreate
  <2> DEFINE job == [analyst[w] EXCEPT !.pc = "update", !.read = q,
                                       !.case = Len(cases) + 1]
  <2>5. analyst' = [analyst EXCEPT ![w] = job]
    BY <2>2, <2>4
  <2>6. Len(cases) + 1 \in Nat
    BY DEF CaseTypes
  <2>7. raced' = raced \cup Overlaps(a, Analysts \ {w})
    BY <1>3 DEF StartCreate
  <2> HIDE DEF a, q
  <2>8. job \in Job /\ job.pc = "update" /\ job.alert = analyst[w].alert
        /\ job.read = q /\ job.case = Len(cases) + 1
    BY <2>2, <2>3, <2>6 DEF Job
  <2> HIDE DEF job
  <2>9. CaseIds' = CaseIds \cup {Len(cases) + 1}
    BY <2>1, <2>2, <2>3, InsertShape DEF CaseInv
  <2>10. /\ cases'[Len(cases) + 1].alert = a
         /\ \A d \in CaseIds : cases'[d] = cases[d]
    BY <2>1, <2>2, <2>3, InsertShape DEF CaseInv
  <2>11. ASSUME NEW v \in Analysts, NEW b, Creating(v, b)' PROVE v # w /\ Creating(v, b)
    BY <2>5, <2>8, <2>11 DEF Creating, CaseInv, CaseTypes
  <2>12. ASSUME NEW b \in Alerts \ raced', b # a
         PROVE  /\ \A d, f \in CasesOf(b)' : d = f
                /\ \A v \in Analysts : Creating(v, b)' => CasesOf(b)' = {}
    <3>1. CasesOf(b)' = CasesOf(b)
      BY <2>9, <2>10, <2>12 DEF CasesOf
    <3>2. b \in Alerts \ raced
      BY <2>7, <2>12
    <3>3. QED
      BY <2>11, <3>1, <3>2 DEF CaseInv, OneCase
  <2>13. ASSUME NEW b \in Alerts \ raced', b = a
         PROVE  /\ \A d, f \in CasesOf(b)' : d = f
                /\ \A v \in Analysts : Creating(v, b)' => CasesOf(b)' = {}
    <3>1. b \notin raced /\ Creating(w, b)
      BY <2>1, <2>7, <2>13 DEF Creating, a
    <3>2. CasesOf(b) = {}
      BY <3>1 DEF CaseInv, OneCase
    <3>3. CasesOf(b)' \subseteq {Len(cases) + 1}
      BY <2>9, <2>10, <3>2 DEF CasesOf
    <3>4. \A v \in Analysts \ {w} : ~InFlight(v, b)
      BY <2>7, <2>13 DEF Overlaps
    <3>5. \A v \in Analysts : ~Creating(v, b)'
      BY <2>11, <3>4 DEF Creating, InFlight
    <3>6. QED
      BY <3>3, <3>5
  <2>14. QED
    BY <2>12, <2>13 DEF OneCase
<1>4. ASSUME NEW w \in Analysts, StartUpdate(w) PROVE OneCase'
  <2> DEFINE c == analyst[w].case
             q == IF Chosen(w) = None THEN cases[c].priority ELSE Chosen(w)
  <2>1. Rewrites(c, q)
    BY <1>4, StartUpdateShape
  <2>2. /\ analyst[w].pc = "update" /\ analyst[w] \in Job /\ c \in CaseIds
        /\ cases[c].alert = analyst[w].alert
    BY <1>4 DEF StartUpdate, CaseInv, CaseTypes, StartsOK, StartOK
  <2>3. /\ asked' = IF analyst[w].wants = None THEN asked
                    ELSE [asked EXCEPT ![c] = analyst[w].wants]
        /\ analyst' = [analyst EXCEPT ![w] = Rest]
        /\ raced' = raced \cup (IF analyst[w].wants = None THEN {}
                                ELSE Overlaps(cases[c].alert, Analysts \ {w}))
        /\ UNCHANGED taskRow
    BY <1>4 DEF StartUpdate
  <2> HIDE DEF c, q
  <2>21. CaseIds' = CaseIds /\ raced \subseteq raced'
    BY <2>1, <2>3 DEF Rewrites, CaseIds
  <2>22. \A b : CasesOf(b)' = CasesOf(b)
    <3>1. \A d \in CaseIds : cases'[d].alert = cases[d].alert
      BY CasesStay
    <3>2. QED
      BY <2>21, <3>1 DEF CasesOf
  <2>23. ASSUME NEW v \in Analysts, NEW b, Creating(v, b)' PROVE Creating(v, b)
    BY <1>4, <2>23 DEF StartUpdate, Creating, Rest
  <2>24. QED
    BY <2>21, <2>22, <2>23 DEF CaseInv, OneCase
<1>5. ASSUME NEW w \in Analysts, NEW t \in Tasks, NEW c \in 1..MaxCases,
            AttachRead(w, t, c)
      PROVE  OneCase'
  <2>21. CaseIds' = CaseIds /\ raced \subseteq raced'
    BY <1>5 DEF AttachRead, CaseIds
  <2>22. \A b : CasesOf(b)' = CasesOf(b)
    <3>1. \A d \in CaseIds : cases'[d].alert = cases[d].alert
      BY CasesStay
    <3>2. QED
      BY <2>21, <3>1 DEF CasesOf
  <2>23. ASSUME NEW v \in Analysts, NEW b, Creating(v, b)' PROVE Creating(v, b)
    BY <1>5, <2>23 DEF AttachRead, Creating
  <2>24. QED
    BY <2>21, <2>22, <2>23 DEF CaseInv, OneCase
<1>6. ASSUME NEW w \in Analysts, AttachInsert(w) PROVE OneCase'
  <2>21. CaseIds' = CaseIds /\ raced \subseteq raced'
    BY <1>6 DEF AttachInsert, CaseIds
  <2>22. \A b : CasesOf(b)' = CasesOf(b)
    <3>1. \A d \in CaseIds : cases'[d].alert = cases[d].alert
      BY CasesStay
    <3>2. QED
      BY <2>21, <3>1 DEF CasesOf
  <2>23. ASSUME NEW v \in Analysts, NEW b, Creating(v, b)' PROVE Creating(v, b)
    BY <1>6, <2>23 DEF AttachInsert, Creating, Rest
  <2>24. QED
    BY <2>21, <2>22, <2>23 DEF CaseInv, OneCase
<1>7. ASSUME NEW c \in CaseIds, NEW l \in ByHand, AddEvidence(c, l)
      PROVE  OneCase'
  BY <1>7, <1>same DEF AddEvidence
<1>8. ASSUME NEW c \in CaseIds, NEW status \in {None, "closed"},
             NEW p \in Priority, Patch(c, status, p)
      PROVE  OneCase'
  <2> DEFINE q == IF p = None THEN cases[c].priority ELSE p
  <2>1. Rewrites(c, q)
    BY <1>8, PatchShape DEF CaseInv
  <2>2. /\ asked' = IF p = None THEN asked ELSE [asked EXCEPT ![c] = p]
        /\ raced' = raced \cup (IF p = None THEN {}
                                ELSE Overlaps(cases[c].alert, Analysts))
        /\ UNCHANGED <<taskRow, analyst>>
    BY <1>8 DEF Patch
  <2>21. CaseIds' = CaseIds /\ raced \subseteq raced'
    BY <2>1, <2>2 DEF Rewrites, CaseIds
  <2>22. \A b : CasesOf(b)' = CasesOf(b)
    <3>1. \A d \in CaseIds : cases'[d].alert = cases[d].alert
      BY CasesStay
    <3>2. QED
      BY <2>21, <3>1 DEF CasesOf
  <2>23. ASSUME NEW v \in Analysts, NEW b, Creating(v, b)' PROVE Creating(v, b)
    BY <1>8, <2>23 DEF Patch, Creating
  <2>24. QED
    BY <2>21, <2>22, <2>23 DEF CaseInv, OneCase
<1>9. ASSUME NEW t \in Tasks, NEW r \in Reports, Report(t, r) PROVE OneCase'
  BY <1>9, <1>same DEF Report
<1>10. CASE UNCHANGED casesVars
  BY <1>10, <1>same DEF casesVars
<1> QED
  BY <1>1, <1>2, <1>3, <1>4, <1>5, <1>6, <1>7, <1>8, <1>9, <1>10
  DEF CasesNext, Priority

\* An edit between the reading and the writing of a start is an overlap.
LEMMA EditsKeptStep == CaseInv /\ [CasesNext]_casesVars => EditsKept'
<1> SUFFICES ASSUME CaseInv, [CasesNext]_casesVars PROVE EditsKept'
  OBVIOUS
<1>same. CASE UNCHANGED <<cases, raced, analyst, asked>>
  BY <1>same DEF CaseInv, EditsKept, CaseIds, Changing
<1>1. ASSUME NEW a \in Alerts, CreateCase(a) PROVE EditsKept'
  <2>1. Insert(a, None) /\ None \in Priority
    BY <1>1 DEF CreateCase, Priority
  <2>2. raced' = raced \cup {a} /\ UNCHANGED analyst
    BY <1>1 DEF CreateCase
  <2>3. CaseIds' = CaseIds \cup {Len(cases) + 1}
    BY <2>1, InsertShape DEF CaseInv
  <2>4. /\ cases'[Len(cases) + 1].alert = a
        /\ \A d \in CaseIds : cases'[d] = cases[d] /\ asked'[d] = asked[d]
    BY <2>1, InsertShape DEF CaseInv
  <2>5. QED
    BY <2>2, <2>3, <2>4 DEF CaseInv, EditsKept, Changing
<1>2. ASSUME NEW w \in Analysts, NEW a \in Alerts,
            NEW p \in Priorities \cup {None}, StartRead(w, a, p)
      PROVE  EditsKept'
  <2>1. UNCHANGED <<cases, raced, asked>>
    BY <1>2 DEF StartRead
  <2>2. ASSUME NEW d \in CaseIds, cases[d].alert \notin raced,
              NEW v \in Analysts, Changing(v, d)'
        PROVE  analyst'[v].read = asked[d]
    <3>1. CASE v = w
      <4>1. CasesOf(a) # {}
        BY <1>2, <2>2, <3>1 DEF StartRead, Changing, Rest
      <4>2. d = Current(a) /\ analyst'[v].read = cases[d].priority
        BY <1>2, <2>2, <3>1, <4>1 DEF StartRead, Changing, Rest
      <4>3. QED
        BY <2>2, <4>2 DEF CaseInv, EditsKept
    <3>2. CASE v # w
      <4>1. analyst'[v] = analyst[v]
        BY <1>2, <3>2 DEF StartRead
      <4>2. QED
        BY <2>2, <4>1 DEF CaseInv, EditsKept, Changing
    <3>3. QED
      BY <3>1, <3>2
  <2>3. QED
    BY <2>1, <2>2 DEF CaseInv, EditsKept, CaseIds
<1>3. ASSUME NEW w \in Analysts, StartCreate(w) PROVE EditsKept'
  <2> DEFINE a == analyst[w].alert
             q == IF analyst[w].wants = None THEN Severity[a] ELSE analyst[w].wants
  <2>1. analyst[w].pc = "create" /\ Insert(a, q)
    BY <1>3 DEF StartCreate
  <2>2. analyst[w] \in Job /\ a \in Alerts
    BY <2>1 DEF CaseInv, CaseTypes, StartsOK, StartOK
  <2>3. q \in Priority
    BY <2>2, CasesAssumption DEF Job, Priority
  <2>4. analyst' = [analyst EXCEPT ![w].pc = "update", ![w].read = q,
                                   ![w].case = Len(cases) + 1]
    BY <1>3 DEF StartCreate
  <2> DEFINE job == [analyst[w] EXCEPT !.pc = "update", !.read = q,
                                       !.case = Len(cases) + 1]
  <2>5. analyst' = [analyst EXCEPT ![w] = job]
    BY <2>2, <2>4
  <2>6. Len(cases) + 1 \in Nat
    BY DEF CaseTypes
  <2>7. raced' = raced \cup Overlaps(a, Analysts \ {w})
    BY <1>3 DEF StartCreate
  <2> HIDE DEF a, q
  <2>8. job \in Job /\ job.pc = "update" /\ job.alert = analyst[w].alert
        /\ job.read = q /\ job.case = Len(cases) + 1
    BY <2>2, <2>3, <2>6 DEF Job
  <2> HIDE DEF job
  <2>9. CaseIds' = CaseIds \cup {Len(cases) + 1} /\ Len(cases) + 1 \notin CaseIds
    BY <2>1, <2>2, <2>3, InsertShape DEF CaseInv
  <2>10. /\ cases'[Len(cases) + 1].priority = q /\ asked'[Len(cases) + 1] = q
         /\ \A d \in CaseIds : cases'[d] = cases[d] /\ asked'[d] = asked[d]
    BY <2>1, <2>2, <2>3, InsertShape DEF CaseInv
  <2>11. analyst'[w] = job /\ \A v \in Analysts \ {w} : analyst'[v] = analyst[v]
    BY <2>5 DEF CaseInv, CaseTypes
  <2>12. ASSUME NEW d \in CaseIds, cases'[d].alert \notin raced'
         PROVE  /\ cases'[d].priority = asked'[d]
                /\ \A v \in Analysts : Changing(v, d)' => analyst'[v].read = asked'[d]
    <3>1. \A v \in Analysts : Changing(v, d)' => v # w
      BY <2>8, <2>9, <2>11 DEF Changing
    <3>2. cases[d].alert \notin raced
      BY <2>7, <2>10, <2>12
    <3>3. QED
      BY <2>10, <2>11, <3>1, <3>2 DEF CaseInv, EditsKept, Changing
  <2>13. ASSUME NEW d, d = Len(cases) + 1, NEW v \in Analysts, Changing(v, d)'
         PROVE  analyst'[v].read = q
    BY <2>13, <2>8, <2>9, <2>11 DEF Changing, CaseInv, StartsOK, StartOK
  <2>14. QED
    BY <2>9, <2>10, <2>12, <2>13 DEF EditsKept
<1>4. ASSUME NEW w \in Analysts, StartUpdate(w) PROVE EditsKept'
  <2> DEFINE c == analyst[w].case
             q == IF Chosen(w) = None THEN cases[c].priority ELSE Chosen(w)
  <2>1. Rewrites(c, q)
    BY <1>4, StartUpdateShape
  <2>2. /\ analyst[w].pc = "update" /\ analyst[w] \in Job /\ c \in CaseIds
        /\ cases[c].alert = analyst[w].alert
    BY <1>4 DEF StartUpdate, CaseInv, CaseTypes, StartsOK, StartOK
  <2>3. /\ asked' = IF analyst[w].wants = None THEN asked
                    ELSE [asked EXCEPT ![c] = analyst[w].wants]
        /\ analyst' = [analyst EXCEPT ![w] = Rest]
        /\ raced' = raced \cup (IF analyst[w].wants = None THEN {}
                                ELSE Overlaps(cases[c].alert, Analysts \ {w}))
        /\ UNCHANGED taskRow
    BY <1>4 DEF StartUpdate
  <2> HIDE DEF c, q
  <2>4. \A d \in CaseIds : asked'[d] = IF analyst[w].wants # None /\ d = c
                                   THEN analyst[w].wants ELSE asked[d]
    <3>1. /\ analyst[w].wants \in Priority
          /\ asked' = IF analyst[w].wants # None THEN [asked EXCEPT ![c] = analyst[w].wants]
                      ELSE asked
      BY <2>2, <2>3 DEF Job
    <3>2. (analyst[w].wants # None) \in BOOLEAN
      OBVIOUS
    <3>3. QED
      BY <2>2, <3>1, <3>2, AskedShape DEF CaseInv
  <2>9. CaseIds' = CaseIds /\ raced \subseteq raced'
    BY <2>1, <2>3 DEF Rewrites, CaseIds
  <2>10. \A d \in CaseIds : cases'[d].alert = cases[d].alert
    BY CasesStay
  <2>11. ASSUME NEW d \in CaseIds, d # c, cases'[d].alert \notin raced'
         PROVE  /\ cases'[d].priority = asked'[d]
                /\ \A v \in Analysts : Changing(v, d)' => analyst'[v].read = asked'[d]
    <3>1. cases'[d] = cases[d] /\ asked'[d] = asked[d]
      BY <2>1, <2>11, <2>4 DEF Rewrites
    <3>2. \A v \in Analysts : Changing(v, d)' => Changing(v, d) /\ analyst'[v] = analyst[v]
      BY <2>3 DEF Changing, Rest
    <3>3. QED
      BY <2>9, <2>11, <3>1, <3>2 DEF CaseInv, EditsKept
  <2>12. ASSUME NEW d \in CaseIds, d = c, cases'[d].alert \notin raced'
         PROVE  /\ cases'[d].priority = asked'[d]
                /\ \A v \in Analysts : Changing(v, d)' => analyst'[v].read = asked'[d]
    <3>1. cases[c].alert \notin raced /\ Changing(w, c)
      BY <2>2, <2>9, <2>10, <2>12 DEF Changing, c
    <3>2. cases[c].priority = asked[c] /\ analyst[w].read = asked[c]
      BY <2>2, <3>1 DEF CaseInv, EditsKept
    <3>3. cases'[c].priority = asked'[c]
      BY <2>1, <2>2, <2>4, <3>2 DEF Rewrites, q, Chosen
    <3>4. ASSUME NEW v \in Analysts, Changing(v, d)' PROVE analyst'[v].read = asked'[c]
      <4>1. v # w /\ analyst'[v] = analyst[v] /\ Changing(v, c)
        BY <2>3, <2>12, <3>4 DEF Changing, Rest, CaseInv, CaseTypes
      <4>2. CASE analyst[w].wants = None
        BY <2>2, <2>4, <3>1, <4>1, <4>2 DEF CaseInv, EditsKept
      <4>3. CASE analyst[w].wants # None
        <5>1. InFlight(v, cases[c].alert)
          BY <4>1 DEF Changing, InFlight, CaseInv, StartsOK, StartOK
        <5>2. cases[c].alert \in raced'
          BY <2>3, <4>1, <4>3, <5>1 DEF Overlaps
        <5>3. QED
          BY <2>2, <2>10, <2>12, <5>2
      <4>4. QED
        BY <4>2, <4>3
    <3>5. QED
      BY <2>12, <3>3, <3>4
  <2>13. QED
    BY <2>9, <2>11, <2>12 DEF EditsKept
<1>5. ASSUME NEW w \in Analysts, NEW t \in Tasks, NEW c \in 1..MaxCases,
            AttachRead(w, t, c)
      PROVE  EditsKept'
  <2>1. UNCHANGED <<cases, raced, asked>>
    BY <1>5 DEF AttachRead
  <2>2. ASSUME NEW v \in Analysts, NEW d, Changing(v, d)'
        PROVE  Changing(v, d) /\ analyst'[v] = analyst[v]
    BY <1>5, <2>2 DEF AttachRead, Changing
  <2>3. QED
    BY <2>1, <2>2 DEF CaseInv, EditsKept, CaseIds
<1>6. ASSUME NEW w \in Analysts, AttachInsert(w) PROVE EditsKept'
  <2>1. UNCHANGED <<cases, raced, asked>>
    BY <1>6 DEF AttachInsert
  <2>2. ASSUME NEW v \in Analysts, NEW d, Changing(v, d)'
        PROVE  Changing(v, d) /\ analyst'[v] = analyst[v]
    BY <1>6, <2>2 DEF AttachInsert, Changing, Rest
  <2>3. QED
    BY <2>1, <2>2 DEF CaseInv, EditsKept, CaseIds
<1>7. ASSUME NEW c \in CaseIds, NEW l \in ByHand, AddEvidence(c, l)
      PROVE  EditsKept'
  BY <1>7, <1>same DEF AddEvidence
<1>8. ASSUME NEW c \in CaseIds, NEW status \in {None, "closed"},
             NEW p \in Priority, Patch(c, status, p)
      PROVE  EditsKept'
  <2> DEFINE q == IF p = None THEN cases[c].priority ELSE p
  <2>1. Rewrites(c, q)
    BY <1>8, PatchShape DEF CaseInv
  <2>2. /\ asked' = IF p = None THEN asked ELSE [asked EXCEPT ![c] = p]
        /\ raced' = raced \cup (IF p = None THEN {}
                                ELSE Overlaps(cases[c].alert, Analysts))
        /\ UNCHANGED <<taskRow, analyst>>
    BY <1>8 DEF Patch
  <2>4. \A d \in CaseIds : asked'[d] = IF p # None /\ d = c THEN p ELSE asked[d]
    <3>1. asked' = IF p # None THEN [asked EXCEPT ![c] = p] ELSE asked
      BY <2>2
    <3>2. p \in Priority /\ (p # None) \in BOOLEAN
      BY DEF Priority
    <3>3. QED
      BY <3>1, <3>2, AskedShape DEF CaseInv
  <2>9. CaseIds' = CaseIds /\ raced \subseteq raced'
    BY <2>1, <2>2 DEF Rewrites, CaseIds
  <2>10. \A d \in CaseIds : cases'[d].alert = cases[d].alert
    BY CasesStay
  <2>11. ASSUME NEW d \in CaseIds, d # c, cases'[d].alert \notin raced'
         PROVE  /\ cases'[d].priority = asked'[d]
                /\ \A v \in Analysts : Changing(v, d)' => analyst'[v].read = asked'[d]
    <3>1. cases'[d] = cases[d] /\ asked'[d] = asked[d]
      BY <2>1, <2>11, <2>4 DEF Rewrites
    <3>2. \A v \in Analysts : Changing(v, d)' => Changing(v, d) /\ analyst'[v] = analyst[v]
      BY <2>2 DEF Changing
    <3>3. QED
      BY <2>9, <2>11, <3>1, <3>2 DEF CaseInv, EditsKept
  <2>12. ASSUME cases'[c].alert \notin raced'
         PROVE  /\ cases'[c].priority = asked'[c]
                /\ \A v \in Analysts : Changing(v, c)' => analyst'[v].read = asked'[c]
    <3>1. cases[c].alert \notin raced
      BY <2>9, <2>10, <2>12
    <3>2. cases'[c].priority = asked'[c]
      BY <2>1, <2>4, <3>1 DEF Rewrites, CaseInv, EditsKept
    <3>3. ASSUME NEW v \in Analysts, Changing(v, c)' PROVE analyst'[v].read = asked'[c]
      <4>1. Changing(v, c) /\ analyst'[v] = analyst[v]
        BY <2>2, <3>3 DEF Changing
      <4>2. CASE p = None
        BY <2>4, <3>1, <4>1, <4>2 DEF CaseInv, EditsKept
      <4>3. CASE p # None
        <5>1. InFlight(v, cases[c].alert)
          BY <4>1 DEF Changing, InFlight, CaseInv, StartsOK, StartOK
        <5>2. QED
          BY <2>2, <2>10, <2>12, <4>3, <5>1 DEF Overlaps
      <4>4. QED
        BY <4>2, <4>3
    <3>4. QED
      BY <3>2, <3>3
  <2>13. QED
    BY <2>9, <2>11, <2>12 DEF EditsKept
<1>9. ASSUME NEW t \in Tasks, NEW r \in Reports, Report(t, r) PROVE EditsKept'
  BY <1>9, <1>same DEF Report
<1>10. CASE UNCHANGED casesVars
  BY <1>10, <1>same DEF casesVars
<1> QED
  BY <1>1, <1>2, <1>3, <1>4, <1>5, <1>6, <1>7, <1>8, <1>9, <1>10
  DEF CasesNext, Priority

\* There are no cases at first.
LEMMA CasesStart == CasesInit => CaseInv
BY DEF CasesInit, CaseInv, CaseTypes, CaseIds, StartsOK, StartOK, OneCase,
    EditsKept, CasesOf, Rest, Job, Priority, TaskRow

\* The property follows from the last two parts.
LEMMA OneCaseFollows == CaseInv => OneCaseWithItsEdits
<1> SUFFICES ASSUME CaseInv, NEW a \in Alerts \ raced
             PROVE  /\ Cardinality(CasesOf(a)) <= 1
                    /\ \A c \in CasesOf(a) : cases[c].priority = asked[c]
  BY DEF OneCaseWithItsEdits
<1>1. CASE CasesOf(a) = {}
  BY <1>1, FS_EmptySet
<1>2. ASSUME NEW c \in CasesOf(a) PROVE CasesOf(a) = {c}
  BY DEF CaseInv, OneCase
<1>3. Cardinality(CasesOf(a)) <= 1
  <2>1. ASSUME NEW c \in CasesOf(a) PROVE Cardinality(CasesOf(a)) = 1
    BY <1>2, FS_Singleton
  <2>2. QED
    BY <1>1, <2>1
<1>4. \A c \in CasesOf(a) : cases[c].priority = asked[c]
  BY DEF CaseInv, EditsKept, CasesOf
<1>5. QED
  BY <1>3, <1>4

\* ... and so always.
LEMMA CasesInvariant == CasesSpec => []CaseInv
<1>1. CaseInv /\ [CasesNext]_casesVars => CaseInv'
  BY CaseTypesStep, StartsOKStep, OneCaseStep, EditsKeptStep DEF CaseInv
<1>2. QED
  BY <1>1, CasesStart, PTL DEF CasesSpec

-----------------------------------------------------------------------------
(* What is linked to a case *)

\* A link of create_case, of attach_workspace_task_evidence, and of the endpoint.
OwnTypes == {"alert", "raw_evidence"}
LinkRow ==
    {OwnLink(c, type, a) : c \in Nat, type \in OwnTypes, a \in Alerts}
    \cup {TaskLink(c, t, r) : c \in Nat, t \in Tasks, r \in Reports}
    \cup {HandLink(c, h) : c \in Nat, h \in ByHand}

\* A report of a task, to be linked to a case that the task may be linked to.
IsReport(c, t, r) == t \in Tasks /\ TaskCase[t] \in {0, c} /\ r \in taskRow[t].made

\* A link belongs to a case, and but for those made by hand it is to the case's
\* alert or to a report.
LinkOK(l) ==
    /\ l \in LinkRow /\ l.case \in CaseIds
    /\ \/ \E type \in OwnTypes : l = OwnLink(l.case, type, cases[l.case].alert)
       \/ \E t, r : l = TaskLink(l.case, t, r) /\ IsReport(l.case, t, r)
       \/ \E h \in ByHand : l = HandLink(l.case, h)
LinksOK == links \in Seq(LinkRow) /\ \A i \in DOMAIN links : LinkOK(links[i])

\* What is about to be linked to a case is a report.
JobsOK ==
    /\ \A w \in Analysts : analyst[w].pc = "attach" =>
          IsReport(analyst[w].case, analyst[w].task, analyst[w].raw)
    /\ \A t \in Tasks : taskRow[t].raw # None => taskRow[t].raw \in taskRow[t].made

\* A case has its alert and its alert's evidence, the alert before all else.
IsFirst(i, c) ==
    /\ links[i] = OwnLink(c, "alert", cases[c].alert)
    /\ \A j \in 1..(i - 1) : links[j].case # c
HasAlert(c) ==
    /\ \E i \in DOMAIN links : IsFirst(i, c)
    /\ \E i \in DOMAIN links : links[i] = OwnLink(c, "raw_evidence", cases[c].alert)
Linked == \A c \in CaseIds : HasAlert(c)

Bounds == edits \in 0..MaxEdits /\ \A c \in CaseIds : cases[c].at >= 1

LinkInv == CaseInv /\ LinksOK /\ JobsOK /\ Linked /\ Bounds

Adds(l) == links' = Append(links, l) /\ CaseIds' = CaseIds /\ LinkOK(l)
Opens(c, a) ==
    /\ links' = links \o AlertLinks(c, a) /\ CaseIds' = CaseIds \cup {c} /\ c \in Nat
    /\ c \notin CaseIds /\ a \in Alerts /\ cases'[c].alert = a /\ cases'[c].at >= 1

\* What a step does to the links: nothing, one more link, of a case there is, or
\* the two links of a new case.
LEMMA LinksStep ==
    ASSUME LinkInv, [CasesNext]_casesVars
    PROVE  \/ UNCHANGED links /\ CaseIds' = CaseIds
           \/ \E l : Adds(l)
           \/ \E c, a : Opens(c, a)
<1> DEFINE Shape == \/ UNCHANGED links /\ CaseIds' = CaseIds
                    \/ \E l : Adds(l)
                    \/ \E c, a : Opens(c, a)
<1> SUFFICES Shape
  OBVIOUS
<1>0. ASSUME NEW a \in Alerts, NEW q \in Priority, Insert(a, q) PROVE Shape
  <2>1. /\ CaseIds' = CaseIds \cup {Len(cases) + 1} /\ Len(cases) + 1 \notin CaseIds
        /\ cases'[Len(cases) + 1].alert = a
    BY <1>0, InsertShape DEF LinkInv, CaseInv
  <2>2. cases'[Len(cases) + 1].at = clock + 1 /\ Len(cases) + 1 \in Nat
    BY <1>0 DEF Insert, LinkInv, CaseInv, CaseTypes
  <2>3. Opens(Len(cases) + 1, a)
    BY <1>0, <2>1, <2>2 DEF Opens, Insert, LinkInv, CaseInv, CaseTypes
  <2>4. QED
    BY <2>3
<1>1. ASSUME NEW a \in Alerts, CreateCase(a) PROVE Shape
  BY <1>0, <1>1 DEF CreateCase, Priority
<1>2. ASSUME NEW w \in Analysts, StartCreate(w) PROVE Shape
  <2>1. analyst[w] \in Job /\ analyst[w].alert \in Alerts
    BY <1>2 DEF StartCreate, LinkInv, CaseInv, CaseTypes, StartsOK, StartOK
  <2>2. (IF analyst[w].wants = None THEN Severity[analyst[w].alert]
                                    ELSE analyst[w].wants) \in Priority
    BY <2>1, CasesAssumption DEF Job, Priority
  <2>3. QED
    BY <1>0, <1>2, <2>1, <2>2 DEF StartCreate
<1>3. ASSUME NEW w \in Analysts, AttachInsert(w) PROVE Shape
  <2> DEFINE job == analyst[w]
             l == TaskLink(job.case, job.task, job.raw)
  <2>1. IsReport(job.case, job.task, job.raw) /\ job \in Job
    BY <1>3 DEF AttachInsert, LinkInv, JobsOK, CaseInv, CaseTypes
  <2>2. CaseIds' = CaseIds
    BY <1>3 DEF AttachInsert, CaseIds
  <2>3. CASE job.case \in CaseIds
    <3>1. l \in LinkRow
      <4>1. job.task \in Tasks /\ job.raw \in taskRow[job.task].made /\ job.case \in Nat
        BY <2>1 DEF IsReport, Job
      <4>2. taskRow[job.task].made \subseteq Reports
        BY <4>1 DEF LinkInv, CaseInv, CaseTypes, TaskRow
      <4>3. QED
        BY <4>1, <4>2 DEF LinkRow
    <3>2. LinkOK(l)
      <4>1. l.case = job.case
        BY DEF TaskLink
      <4>2. QED
        BY <2>1, <2>3, <3>1, <4>1 DEF LinkOK
    <3>3. links' = Append(links, l)
      BY <1>3, <2>3 DEF AttachInsert, Link, Linkable, TaskLink
    <3>4. QED
      BY <2>2, <3>2, <3>3 DEF Adds
  <2>4. CASE job.case \notin CaseIds
    BY <1>3, <2>2, <2>4 DEF AttachInsert, Link, Linkable, TaskLink
  <2>5. QED
    BY <2>3, <2>4
<1>4. ASSUME NEW c \in CaseIds, NEW h \in ByHand, AddEvidence(c, h) PROVE Shape
  <2> DEFINE l == HandLink(c, h)
  <2>1. l \in LinkRow /\ l.case = c
    <3>1. c \in Nat
      BY DEF CaseIds, LinkInv, CaseInv, CaseTypes
    <3>2. l \in LinkRow
      BY <3>1 DEF LinkRow
    <3>3. QED
      BY <3>2 DEF HandLink
  <2>2. LinkOK(l)
    BY <2>1 DEF LinkOK
  <2>3. links' = Append(links, l) /\ CaseIds' = CaseIds
    BY <1>4, <2>1 DEF AddEvidence, Link, Linkable, CaseIds
  <2>4. QED
    BY <2>2, <2>3 DEF Adds
<1>5. ASSUME NEW w \in Analysts, StartUpdate(w) PROVE Shape
  BY <1>5, StartUpdateShape DEF StartUpdate, Rewrites, CaseIds, LinkInv, CaseInv, CaseTypes
<1>6. ASSUME NEW c \in CaseIds, NEW status \in {None, "closed"}, NEW p \in Priority,
             Patch(c, status, p)
      PROVE  Shape
  BY <1>6, PatchShape DEF Patch, Rewrites, CaseIds, LinkInv, CaseInv, CaseTypes
<1>7. CASE UNCHANGED <<links, cases>>
  BY <1>7 DEF CaseIds
<1>8. QED
  BY <1>1, <1>2, <1>3, <1>4, <1>5, <1>6, <1>7
  DEF CasesNext, Priority, StartRead, AttachRead, Report, casesVars

\* A report stays one.
LEMMA ReportsStay ==
    ASSUME LinkInv, [CasesNext]_casesVars
    PROVE  /\ \A t \in Tasks : taskRow'[t].raw # None => taskRow'[t].raw \in taskRow'[t].made
           /\ \A c, t, r : IsReport(c, t, r) => IsReport(c, t, r)'
<1>0. /\ taskRow \in [Tasks -> TaskRow]
      /\ \A t \in Tasks : taskRow[t].raw # None => taskRow[t].raw \in taskRow[t].made
  BY DEF LinkInv, JobsOK, CaseInv, CaseTypes
<1>1. ASSUME NEW u \in Tasks, NEW r \in Reports, Report(u, r), NEW t \in Tasks
      PROVE  /\ taskRow'[t].raw # None => taskRow'[t].raw \in taskRow'[t].made
             /\ taskRow[t].made \subseteq taskRow'[t].made
  BY <1>0, <1>1 DEF Report
<1>2. UNCHANGED taskRow \/ \E u \in Tasks, r \in Reports : Report(u, r)
  BY DEF CasesNext, CreateCase, StartRead, StartCreate, StartUpdate, AttachRead,
         AttachInsert, AddEvidence, Patch, casesVars
<1>3. ASSUME NEW t \in Tasks
      PROVE  /\ taskRow'[t].raw # None => taskRow'[t].raw \in taskRow'[t].made
             /\ taskRow[t].made \subseteq taskRow'[t].made
  BY <1>0, <1>1, <1>2
<1>4. ASSUME NEW c, NEW t, NEW r, IsReport(c, t, r) PROVE IsReport(c, t, r)'
  BY <1>3, <1>4 DEF IsReport
<1>5. QED
  BY <1>3, <1>4

\* The links stay what they should be.
LEMMA LinksOKStep == LinkInv /\ [CasesNext]_casesVars => LinksOK'
<1> SUFFICES ASSUME LinkInv, [CasesNext]_casesVars PROVE LinksOK'
  OBVIOUS
<1>1. /\ links \in Seq(LinkRow) /\ \A i \in DOMAIN links : LinkOK(links[i])
      /\ \A d \in CaseIds : d \in CaseIds'
  BY CasesStay DEF LinkInv, LinksOK
<1>2. ASSUME NEW l, LinkOK(l) PROVE LinkOK(l)'
  <2>1. l.case \in CaseIds' /\ cases'[l.case].alert = cases[l.case].alert
    BY <1>1, <1>2, CasesStay DEF LinkOK, LinkInv
  <2>2. \A t, r : IsReport(l.case, t, r) => IsReport(l.case, t, r)'
    BY ReportsStay
  <2>3. QED
    BY <1>2, <2>1, <2>2 DEF LinkOK
<1>3. CASE UNCHANGED links
  BY <1>1, <1>2, <1>3 DEF LinksOK
<1>4. ASSUME NEW l, Adds(l) PROVE LinksOK'
  <2>1. links' = Append(links, l) /\ LinkOK(l) /\ l \in LinkRow
    BY <1>4 DEF Adds, LinkOK
  <2>2. links' \in Seq(LinkRow) /\ \A i \in DOMAIN links' :
           links'[i] = l \/ (i \in DOMAIN links /\ links'[i] = links[i])
    <3>1. /\ links' \in Seq(LinkRow) /\ Len(links') = Len(links) + 1
          /\ \A i \in 1..Len(links) : links'[i] = links[i]
          /\ links'[Len(links) + 1] = l
      BY <1>1, <2>1
    <3>2. Len(links) \in Nat /\ DOMAIN links = 1..Len(links)
          /\ DOMAIN links' = 1..(Len(links) + 1)
      BY <1>1, <3>1
    <3>3. \A i \in DOMAIN links' : i \in DOMAIN links \/ i = Len(links) + 1
      BY <3>2
    <3>4. \A i \in DOMAIN links : links'[i] = links[i]
      BY <3>1, <3>2
    <3>5. QED
      BY <3>1, <3>3, <3>4
  <2>3. QED
    BY <1>1, <1>2, <2>1, <2>2 DEF LinksOK
<1>5. ASSUME NEW c, NEW a, Opens(c, a) PROVE LinksOK'
  <2> DEFINE one == OwnLink(c, "alert", a)
             two == OwnLink(c, "raw_evidence", a)
  <2>1. /\ links' = links \o <<one, two>> /\ c \in Nat /\ c \in CaseIds' /\ a \in Alerts
        /\ cases'[c].alert = a
    BY <1>5 DEF Opens, AlertLinks
  <2>2. one \in LinkRow /\ two \in LinkRow
    BY <2>1 DEF LinkRow, OwnTypes
  <2>3. LinkOK(one)' /\ LinkOK(two)'
    <3>1. one.case = c /\ two.case = c
      BY DEF OwnLink
    <3>2. QED
      BY <2>1, <2>2, <3>1 DEF LinkOK, OwnTypes
  <2> HIDE DEF one, two
  <2>4. links' \in Seq(LinkRow) /\ \A i \in DOMAIN links' :
           links'[i] \in {one, two} \/ (i \in DOMAIN links /\ links'[i] = links[i])
    <3>1. /\ links' \in Seq(LinkRow) /\ Len(links') = Len(links) + 2
          /\ \A i \in 1..Len(links) : links'[i] = links[i]
          /\ links'[Len(links) + 1] = one /\ links'[Len(links) + 2] = two
      BY <1>1, <2>1, <2>2
    <3>2. Len(links) \in Nat /\ DOMAIN links = 1..Len(links)
          /\ DOMAIN links' = 1..(Len(links) + 2)
      BY <1>1, <3>1
    <3>3. \A i \in DOMAIN links' :
             i \in DOMAIN links \/ i = Len(links) + 1 \/ i = Len(links) + 2
      BY <3>2
    <3>4. \A i \in DOMAIN links : links'[i] = links[i]
      BY <3>1, <3>2
    <3>5. QED
      BY <3>1, <3>3, <3>4
  <2>5. QED
    BY <1>1, <1>2, <2>3, <2>4 DEF LinksOK
<1>6. QED
  BY <1>3, <1>4, <1>5, LinksStep

\* What is read to be linked stays a report.
LEMMA JobsOKStep == LinkInv /\ [CasesNext]_casesVars => JobsOK'
<1> SUFFICES ASSUME LinkInv, [CasesNext]_casesVars PROVE JobsOK'
  OBVIOUS
<1>1. analyst \in [Analysts -> Job] /\ taskRow \in [Tasks -> TaskRow]
  BY DEF LinkInv, CaseInv, CaseTypes
<1>2. ASSUME NEW w \in Analysts, NEW t \in Tasks, NEW c \in 1..MaxCases, AttachRead(w, t, c)
      PROVE  IsReport(analyst[w].case, analyst[w].task, analyst[w].raw)'
  <2>1. /\ analyst' = [analyst EXCEPT ![w] = [Rest EXCEPT !.pc = "attach", !.case = c,
                                            !.task = t, !.raw = taskRow[t].raw]]
        /\ taskRow' = taskRow /\ taskRow[t].raw # None /\ TaskCase[t] \in {0, c}
    BY <1>2 DEF AttachRead, Attachable
  <2>2. analyst'[w].case = c /\ analyst'[w].task = t /\ analyst'[w].raw = taskRow[t].raw
    BY <1>1, <2>1 DEF Rest
  <2>3. taskRow[t].raw \in taskRow[t].made
    BY <2>1 DEF LinkInv, JobsOK
  <2>4. QED
    BY <2>1, <2>2, <2>3 DEF IsReport
<1>3. ASSUME NEW w \in Analysts, analyst'[w].pc = "attach"
      PROVE  \/ analyst'[w] = analyst[w]
             \/ \E t \in Tasks, c \in 1..MaxCases : AttachRead(w, t, c)
  <2>1. ASSUME NEW v \in Analysts, NEW job, analyst' = [analyst EXCEPT ![v] = job],
               job.pc # "attach"
        PROVE  analyst'[w] = analyst[w]
    BY <1>1, <1>3, <2>1
  <2>2. ASSUME NEW v \in Analysts, NEW a \in Alerts, NEW p \in Priorities \cup {None},
               StartRead(v, a, p)
        PROVE  analyst'[w] = analyst[w]
    <3>1. CASE CasesOf(a) = {}
      <4> DEFINE job == [Rest EXCEPT !.pc = "create", !.alert = a, !.wants = p]
      <4>1. analyst' = [analyst EXCEPT ![v] = job] /\ job.pc # "attach"
        BY <2>2, <3>1 DEF StartRead, Rest
      <4> HIDE DEF job
      <4>2. QED
        BY <2>1, <4>1
    <3>2. CASE CasesOf(a) # {}
      <4> DEFINE job == [Rest EXCEPT !.pc = "update", !.alert = a, !.wants = p,
                           !.case = Current(a), !.read = cases[Current(a)].priority]
      <4>1. analyst' = [analyst EXCEPT ![v] = job] /\ job.pc # "attach"
        BY <2>2, <3>2 DEF StartRead, Rest
      <4> HIDE DEF job
      <4>2. QED
        BY <2>1, <4>1
    <3>3. QED
      BY <3>1, <3>2
  <2>3. ASSUME NEW v \in Analysts, StartCreate(v) PROVE analyst'[w] = analyst[w]
    <3>1. analyst[v] \in Job
      BY <1>1
    <3>2. PICK q : analyst' = [analyst EXCEPT ![v].pc = "update", ![v].read = q,
                                            ![v].case = Len(cases) + 1]
      BY <2>3 DEF StartCreate
    <3> DEFINE job == [analyst[v] EXCEPT !.pc = "update", !.read = q,
                                         !.case = Len(cases) + 1]
    <3>3. analyst' = [analyst EXCEPT ![v] = job]
      BY <3>1, <3>2
    <3>4. job.pc = "update"
      BY <3>1 DEF Job
    <3> HIDE DEF job
    <3>5. QED
      BY <2>1, <3>3, <3>4
  <2>4. ASSUME NEW v \in Analysts, StartUpdate(v) \/ AttachInsert(v)
        PROVE  analyst'[w] = analyst[w]
    <3>1. analyst' = [analyst EXCEPT ![v] = Rest]
      BY <2>4 DEF StartUpdate, AttachInsert
    <3>2. Rest.pc # "attach"
      BY DEF Rest
    <3>3. QED
      BY <2>1, <3>1, <3>2
  <2>5. ASSUME NEW v \in Analysts, NEW t \in Tasks, NEW c \in 1..MaxCases,
               AttachRead(v, t, c), v # w
        PROVE  analyst'[w] = analyst[w]
    BY <1>1, <2>5 DEF AttachRead
  <2>6. CASE UNCHANGED analyst
    BY <2>6
  <2>7. QED
    BY <2>2, <2>3, <2>4, <2>5, <2>6
    DEF CasesNext, CreateCase, Patch, AddEvidence, Report, casesVars
<1>4. ASSUME NEW w \in Analysts, analyst'[w].pc = "attach"
      PROVE  IsReport(analyst[w].case, analyst[w].task, analyst[w].raw)'
  <2>1. CASE analyst'[w] = analyst[w]
    <3>1. IsReport(analyst[w].case, analyst[w].task, analyst[w].raw)
      BY <1>4, <2>1 DEF LinkInv, JobsOK
    <3>2. QED
      BY <2>1, <3>1, ReportsStay
  <2>2. QED
    BY <1>2, <1>3, <1>4, <2>1
<1>5. QED
  BY <1>4, ReportsStay DEF JobsOK

\* A case keeps its links, and a new one comes with them.
LEMMA LinkedStep == LinkInv /\ [CasesNext]_casesVars => Linked'
<1> SUFFICES ASSUME LinkInv, [CasesNext]_casesVars PROVE Linked'
  OBVIOUS
<1>1. /\ links \in Seq(LinkRow) /\ Len(links) \in Nat /\ DOMAIN links = 1..Len(links)
      /\ \A i \in DOMAIN links : links[i].case \in CaseIds
  BY DEF LinkInv, LinksOK, LinkOK
<1>2. \A d \in CaseIds : cases'[d].alert = cases[d].alert
  BY CasesStay DEF LinkInv
<1>3. ASSUME NEW d \in CaseIds,
             \A i \in DOMAIN links : i \in DOMAIN links' /\ links'[i] = links[i]
      PROVE  HasAlert(d)'
  <2>1. PICK i \in DOMAIN links : IsFirst(i, d)
    BY DEF LinkInv, Linked, HasAlert
  <2>2. \A j \in 1..(i - 1) : j \in DOMAIN links
    BY <1>1
  <2>3. IsFirst(i, d)'
    BY <1>2, <1>3, <2>1, <2>2 DEF IsFirst
  <2>4. PICK k \in DOMAIN links : links[k] = OwnLink(d, "raw_evidence", cases[d].alert)
    BY DEF LinkInv, Linked, HasAlert
  <2>5. QED
    BY <1>2, <1>3, <2>1, <2>3, <2>4 DEF HasAlert
<1>4. CASE UNCHANGED links /\ CaseIds' = CaseIds
  <2>1. \A i \in DOMAIN links : i \in DOMAIN links' /\ links'[i] = links[i]
    BY <1>4
  <2>2. QED
    BY <1>3, <1>4, <2>1 DEF Linked
<1>5. ASSUME NEW l, Adds(l) PROVE Linked'
  <2>1. links' = Append(links, l) /\ l \in LinkRow /\ CaseIds' = CaseIds
    BY <1>5 DEF Adds, LinkOK
  <2>2. \A i \in DOMAIN links : i \in DOMAIN links' /\ links'[i] = links[i]
    BY <1>1, <2>1
  <2>3. QED
    BY <1>3, <2>1, <2>2 DEF Linked
<1>6. ASSUME NEW c, NEW a, Opens(c, a) PROVE Linked'
  <2> DEFINE one == OwnLink(c, "alert", a)
             two == OwnLink(c, "raw_evidence", a)
             n == Len(links)
  <2>1. /\ links' = links \o <<one, two>> /\ c \in Nat /\ c \notin CaseIds /\ a \in Alerts
        /\ CaseIds' = CaseIds \cup {c} /\ cases'[c].alert = a
    BY <1>6 DEF Opens, AlertLinks
  <2>2. one \in LinkRow /\ two \in LinkRow
    BY <2>1 DEF LinkRow, OwnTypes
  <2> HIDE DEF one, two
  <2>3. /\ links' \in Seq(LinkRow) /\ Len(links') = n + 2
        /\ \A i \in 1..n : links'[i] = links[i]
        /\ links'[n + 1] = one /\ links'[n + 2] = two
    BY <1>1, <2>1, <2>2
  <2>4. DOMAIN links' = 1..(n + 2) /\ n + 1 \in DOMAIN links' /\ n + 2 \in DOMAIN links'
    BY <1>1, <2>3
  <2>5. \A i \in DOMAIN links : i \in DOMAIN links' /\ links'[i] = links[i]
    BY <1>1, <2>3, <2>4
  <2>6. PICK m, k : m = n + 1 /\ k = n + 2
    OBVIOUS
  <2>7. \A j \in 1..(m - 1) : links'[j].case # c
    <3>1. \A j \in 1..(m - 1) : j \in DOMAIN links
      BY <1>1, <2>6
    <3>2. QED
      BY <1>1, <2>1, <2>5, <3>1
  <2>8. /\ m \in DOMAIN links' /\ k \in DOMAIN links'
        /\ links'[m] = OwnLink(c, "alert", cases'[c].alert)
        /\ links'[k] = OwnLink(c, "raw_evidence", cases'[c].alert)
    BY <2>1, <2>3, <2>4, <2>6 DEF one, two
  <2>9. IsFirst(m, c)'
    BY <2>7, <2>8 DEF IsFirst
  <2>10. HasAlert(c)'
    BY <2>8, <2>9 DEF HasAlert
  <2>11. QED
    BY <1>3, <2>1, <2>5, <2>10 DEF Linked
<1>7. QED
  BY <1>4, <1>5, <1>6, LinksStep

\* Edits are counted, and every case was written at some time.
LEMMA BoundsStep == LinkInv /\ [CasesNext]_casesVars => Bounds'
<1> SUFFICES ASSUME LinkInv, [CasesNext]_casesVars PROVE Bounds'
  OBVIOUS
<1>0. MaxEdits \in Nat /\ edits \in 0..MaxEdits /\ clock \in Nat
      /\ \A c \in CaseIds : cases[c].at >= 1
  BY CasesAssumption DEF LinkInv, Bounds, CaseInv, CaseTypes
<1>1. edits' \in 0..MaxEdits
  <2>1. UNCHANGED edits \/ Edit
    BY DEF CasesNext, CreateCase, StartRead, StartCreate, StartUpdate, Patch, AttachRead,
           AttachInsert, AddEvidence, Report, casesVars
  <2>2. QED
    BY <1>0, <2>1 DEF Edit
<1>2. ASSUME NEW a \in Alerts, NEW q \in Priority, Insert(a, q)
      PROVE  \A c \in CaseIds' : cases'[c].at >= 1
  <2>1. /\ CaseIds' = CaseIds \cup {Len(cases) + 1}
        /\ \A c \in CaseIds : cases'[c] = cases[c]
    BY <1>2, InsertShape DEF LinkInv, CaseInv
  <2>2. cases'[Len(cases) + 1].at = clock + 1
    BY <1>2 DEF Insert, LinkInv, CaseInv, CaseTypes
  <2>3. QED
    BY <1>0, <2>1, <2>2
<1>3. ASSUME NEW a \in Alerts, CreateCase(a) PROVE \A c \in CaseIds' : cases'[c].at >= 1
  BY <1>2, <1>3 DEF CreateCase, Priority
<1>4. ASSUME NEW w \in Analysts, StartCreate(w) PROVE \A c \in CaseIds' : cases'[c].at >= 1
  <2>1. analyst[w] \in Job /\ analyst[w].alert \in Alerts
    BY <1>4 DEF StartCreate, LinkInv, CaseInv, CaseTypes, StartsOK, StartOK
  <2>2. (IF analyst[w].wants = None THEN Severity[analyst[w].alert]
                                    ELSE analyst[w].wants) \in Priority
    BY <2>1, CasesAssumption DEF Job, Priority
  <2>3. QED
    BY <1>2, <1>4, <2>1, <2>2 DEF StartCreate
<1>5. ASSUME NEW c \in CaseIds, NEW r, cases' = [cases EXCEPT ![c] = r], r.at = clock + 1
      PROVE  \A d \in CaseIds' : cases'[d].at >= 1
  BY <1>0, <1>5 DEF CaseIds, LinkInv, CaseInv, CaseTypes
<1>6. ASSUME NEW w \in Analysts, StartUpdate(w) PROVE \A c \in CaseIds' : cases'[c].at >= 1
  <2> DEFINE c == analyst[w].case
             q == IF Chosen(w) = None THEN cases[c].priority ELSE Chosen(w)
             r == [cases[c] EXCEPT !.status = "investigating", !.at = clock + 1, !.priority = q]
  <2>1. c \in CaseIds
    BY <1>6 DEF StartUpdate, LinkInv, CaseInv, StartsOK, StartOK
  <2>2. cases[c] \in Case
    BY <2>1, RowsOfCases DEF LinkInv, CaseInv
  <2>3. cases' = [cases EXCEPT ![c] = r]
    BY <1>6, <2>2 DEF StartUpdate
  <2>4. r.at = clock + 1
    BY <2>2 DEF Case
  <2> HIDE DEF c, r
  <2>5. QED
    BY <1>5, <2>1, <2>3, <2>4
<1>7. ASSUME NEW c \in CaseIds, NEW status \in {None, "closed"}, NEW p \in Priority,
             Patch(c, status, p)
      PROVE  \A d \in CaseIds' : cases'[d].at >= 1
  <2> DEFINE q == IF p = None THEN cases[c].priority ELSE p
             s == IF status = None THEN cases[c].status ELSE status
             r == [cases[c] EXCEPT !.at = clock + 1, !.status = s, !.priority = q]
  <2>1. cases[c] \in Case
    BY RowsOfCases DEF LinkInv, CaseInv
  <2>2. cases' = [cases EXCEPT ![c] = r]
    BY <1>7, <2>1 DEF Patch
  <2>3. r.at = clock + 1
    BY <2>1 DEF Case
  <2> HIDE DEF r
  <2>4. QED
    BY <1>5, <2>2, <2>3
<1>8. ASSUME UNCHANGED cases PROVE \A c \in CaseIds' : cases'[c].at >= 1
  BY <1>0, <1>8 DEF CaseIds
<1>9. \A c \in CaseIds' : cases'[c].at >= 1
  BY <1>3, <1>4, <1>6, <1>7, <1>8
  DEF CasesNext, Priority, StartRead, AttachRead, AttachInsert, AddEvidence, Report,
      casesVars
<1>10. QED
  BY <1>1, <1>9 DEF Bounds

\* ... and so always.
LEMMA LinksInvariant == CasesSpec => []LinkInv
<1>1. CasesInit => LinkInv
  BY CasesStart, CasesAssumption
  DEF CasesInit, LinkInv, LinksOK, JobsOK, Linked, Bounds, CaseIds, Rest
<1>2. LinkInv /\ [CasesNext]_casesVars => LinkInv'
  BY CaseTypesStep, StartsOKStep, OneCaseStep, EditsKeptStep, LinksOKStep, JobsOKStep,
     LinkedStep, BoundsStep
  DEF LinkInv, CaseInv
<1>3. QED
  BY <1>1, <1>2, PTL DEF CasesSpec

-----------------------------------------------------------------------------
(* What follows *)

\* Rows, links and counters have their types.
LEMMA CaseTypesFollow == LinkInv => CasesTypeOK
<1> SUFFICES ASSUME LinkInv PROVE CasesTypeOK
  OBVIOUS
<1> DEFINE Row == [alert : Alerts, status : {"open", "investigating", "closed"},
                   priority : Priorities \cup {None}, at : 1..clock]
           Kinds(c) ==
               {OwnLink(c, type, cases[c].alert) : type \in {"alert", "raw_evidence"}}
               \cup {TaskLink(c, t, report) : t \in Tasks, report \in Reports}
               \cup {HandLink(c, h) : h \in ByHand}
<1>1. cases \in Seq(Row)
  <2>1. ASSUME NEW c \in CaseIds PROVE cases[c] \in Row
    <3>1. cases[c] \in Case /\ cases[c].at <= clock /\ cases[c].at >= 1 /\ clock \in Nat
      BY RowsOfCases DEF LinkInv, CaseInv, CaseTypes, Bounds
    <3>2. QED
      BY <3>1 DEF Case, Priority
  <2> HIDE DEF Row
  <2>2. QED
    BY <2>1 DEF CaseIds, LinkInv, CaseInv, CaseTypes
<1>2. ASSUME NEW i \in DOMAIN links PROVE \E c \in CaseIds : links[i] \in Kinds(c)
  <2>1. LinkOK(links[i]) /\ links[i].case \in CaseIds
    BY DEF LinkInv, LinksOK, LinkOK
  <2>2. ASSUME NEW t, NEW r, IsReport(links[i].case, t, r) PROVE t \in Tasks /\ r \in Reports
    BY <2>2 DEF IsReport, LinkInv, CaseInv, CaseTypes, TaskRow
  <2>3. links[i] \in Kinds(links[i].case)
    BY <2>1, <2>2 DEF LinkOK, OwnTypes
  <2>4. QED
    BY <2>1, <2>3
<1>3. \A l \in ToSet(links) : \E c \in CaseIds : l \in Kinds(c)
  <2> HIDE DEF Kinds
  <2>1. QED
    BY <1>2 DEF ToSet
<1>4. \A w \in Starts : analyst[w].pc = "update" => analyst[w].case \in CaseIds
  BY DEF Starts, LinkInv, CaseInv, StartsOK, StartOK
<1>5. Len(asked) = Len(cases) /\ edits \in 0..MaxEdits
  BY DEF LinkInv, CaseInv, CaseTypes, Bounds
<1>6. taskRow \in [Tasks -> [raw : Reports \cup {None}, made : SUBSET Reports]]
  BY DEF LinkInv, CaseInv, CaseTypes, TaskRow
<1>7. QED
  BY <1>1, <1>3, <1>4, <1>5, <1>6 DEF CasesTypeOK

\* Of every reference the first mention is picked: each once, and the first one
\* first.
LEMMA MentionedOnce ==
    ASSUME NEW S, NEW refs \in Seq(S)
    PROVE  LET picked == Picked(refs, FirstMentions(refs)) IN
           /\ DOMAIN picked \subseteq Nat
           /\ \A m, n \in DOMAIN picked : picked[m] = picked[n] => m = n
           /\ \A n \in DOMAIN picked :
                 \E i \in DOMAIN refs : picked[n] = refs[i] /\ refs[i] # None
           /\ \A i \in DOMAIN refs : refs[i] # None => \E n \in DOMAIN picked : picked[n] = refs[i]
           /\ \A i \in DOMAIN refs :
                 refs[i] # None /\ (\A j \in 1..(i - 1) : refs[j] = None) =>
                     1 \in DOMAIN picked /\ picked[1] = refs[i]
<1> DEFINE first == FirstMentions(refs)
           picked == Picked(refs, first)
<1>1. first \in SUBSET (DOMAIN refs) /\ DOMAIN refs = 1..Len(refs) /\ Len(refs) \in Nat
  BY DEF FirstMentions
<1>2. /\ DOMAIN picked = 1..Cardinality(first)
      /\ \A n \in DOMAIN picked :
            \E i \in first : picked[n] = refs[i] /\ Rank(first, i) = n
      /\ \A i \in first : /\ Rank(first, i) \in DOMAIN picked
                          /\ picked[Rank(first, i)] = refs[i]
  BY <1>1, PickedByRank
<1>3. ASSUME NEW i \in first, NEW j \in first, refs[i] = refs[j] PROVE i = j
  <2>1. i \in Nat /\ j \in Nat /\ 1 <= i /\ 1 <= j
    BY <1>1
  <2>2. ~(i < j)
    BY <1>3, <2>1 DEF FirstMentions
  <2>3. ~(j < i)
    BY <1>3, <2>1 DEF FirstMentions
  <2>4. QED
    BY <2>1, <2>2, <2>3
<1>4. ASSUME NEW i \in DOMAIN refs, refs[i] # None PROVE \E j \in first : refs[j] = refs[i]
  <2> DEFINE same == {j \in DOMAIN refs : refs[j] = refs[i]}
  <2>1. same \subseteq Nat /\ same # {}
    BY <1>1
  <2>2. PICK j \in same : \A k \in same : <<k, j>> \notin OpToRel(<, Nat)
    BY <2>1, NatLessThanWellFounded, WFMin
  <2>3. \A k \in same : ~(k < j)
    BY <2>1, <2>2, Zenon DEF OpToRel
  <2>4. j \in first
    <3>1. ASSUME NEW k \in 1..(j - 1), refs[k] = refs[j] PROVE FALSE
      <4>0. j \in 1..Len(refs) /\ Len(refs) \in Nat
        BY <1>1, <2>2
      <4>1. k \in DOMAIN refs /\ k < j
        BY <1>1, <4>0
      <4>2. k \in same
        BY <2>2, <3>1, <4>1
      <4>3. QED
        BY <2>3, <4>1, <4>2
    <3>2. QED
      BY <1>4, <2>2, <3>1 DEF FirstMentions
  <2>5. QED
    BY <2>2, <2>4
<1>5. ASSUME NEW i \in DOMAIN refs, refs[i] # None, \A j \in 1..(i - 1) : refs[j] = None
      PROVE  1 \in DOMAIN picked /\ picked[1] = refs[i]
  <2>1. i \in first
    BY <1>5 DEF FirstMentions
  <2>2. {j \in first : j <= i} = {i}
    <3>1. ASSUME NEW j \in first, j <= i PROVE j = i
      <4>1. j \in Nat /\ i \in Nat /\ 1 <= j /\ refs[j] # None
        BY <1>1 DEF FirstMentions
      <4>2. ~(j \in 1..(i - 1))
        BY <1>5, <4>1
      <4>3. QED
        BY <3>1, <4>1, <4>2
    <3>2. i \in Nat
      BY <1>1
    <3> HIDE DEF first
    <3>3. QED
      BY <2>1, <3>1, <3>2
  <2>3. Rank(first, i) = 1
    BY <2>2, FS_Singleton DEF Rank
  <2>4. QED
    BY <1>2, <2>1, <2>3
<1>6. ASSUME NEW m \in DOMAIN picked, NEW n \in DOMAIN picked, picked[m] = picked[n]
      PROVE  m = n
  <2>1. PICK i \in first : picked[m] = refs[i] /\ Rank(first, i) = m
    BY <1>2
  <2>2. PICK j \in first : picked[n] = refs[j] /\ Rank(first, j) = n
    BY <1>2
  <2>3. i = j
    BY <1>3, <1>6, <2>1, <2>2
  <2>4. QED
    BY <2>1, <2>2, <2>3
<1>7. \A n \in DOMAIN picked : \E i \in DOMAIN refs : picked[n] = refs[i] /\ refs[i] # None
  <2>1. \A i \in first : i \in DOMAIN refs /\ refs[i] # None
    BY DEF FirstMentions
  <2>2. QED
    BY <1>2, <2>1
<1>8. \A i \in DOMAIN refs : refs[i] # None => \E n \in DOMAIN picked : picked[n] = refs[i]
  BY <1>2, <1>4
<1>9. DOMAIN picked \subseteq Nat
  BY <1>2
<1> HIDE DEF picked
<1>10. QED
  BY <1>5, <1>6, <1>7, <1>8, <1>9 DEF picked

\* The evidence of a case is the links that name it, its alert first.
LEMMA EvidenceIsLinks ==
    ASSUME LinkInv, NEW c \in CaseIds
    PROVE  LET evidence == EvidenceOf(c) IN
           /\ evidence \in Seq(LinkRow)
           /\ \A n \in DOMAIN evidence :
                 \E i \in DOMAIN links : links[i].case = c /\ evidence[n] = links[i]
           /\ \A i \in DOMAIN links :
                 links[i].case = c => \E n \in DOMAIN evidence : evidence[n] = links[i]
           /\ 1 \in DOMAIN evidence /\ evidence[1] = OwnLink(c, "alert", cases[c].alert)
<1> DEFINE at == {i \in DOMAIN links : links[i].case = c}
           evidence == Picked(links, at)
<1>1. /\ links \in Seq(LinkRow) /\ at \in SUBSET (DOMAIN links)
      /\ DOMAIN links = 1..Len(links) /\ Len(links) \in Nat
  BY DEF LinkInv, LinksOK
<1>2. /\ evidence \in Seq(LinkRow)
      /\ \A n \in DOMAIN evidence :
            \E i \in at : evidence[n] = links[i] /\ Rank(at, i) = n
      /\ \A i \in at : /\ Rank(at, i) \in DOMAIN evidence
                       /\ evidence[Rank(at, i)] = links[i]
  <2> HIDE DEF at
  <2>1. QED
    BY <1>1, PickedByRank
<1>3. PICK i \in DOMAIN links : IsFirst(i, c)
  BY DEF LinkInv, Linked, HasAlert
<1>4. i \in at /\ links[i] = OwnLink(c, "alert", cases[c].alert)
  BY <1>3 DEF IsFirst, OwnLink
<1>5. {j \in at : j <= i} = {i}
  <2>1. ASSUME NEW j \in at, j <= i, j # i PROVE FALSE
    <3>1. j \in 1..(i - 1)
      BY <1>1, <2>1
    <3>2. QED
      BY <1>3, <2>1, <3>1 DEF IsFirst
  <2>2. i <= i
    BY <1>1
  <2> HIDE DEF at
  <2>3. QED
    BY <1>4, <2>1, <2>2
<1>6. Rank(at, i) = 1
  BY <1>5, FS_Singleton DEF Rank
<1> HIDE DEF evidence
<1>7. /\ \A n \in DOMAIN evidence :
            \E j \in DOMAIN links : links[j].case = c /\ evidence[n] = links[j]
      /\ \A j \in DOMAIN links :
            links[j].case = c => \E n \in DOMAIN evidence : evidence[n] = links[j]
      /\ 1 \in DOMAIN evidence /\ evidence[1] = OwnLink(c, "alert", cases[c].alert)
  BY <1>2, <1>4, <1>6
<1>8. EvidenceOf(c) = evidence
  BY DEF EvidenceOf, evidence
<1>9. QED
  BY <1>2, <1>7, <1>8

\* A link is mentioned by the two positions that are its own, and by no others.
LEMMA MentionsOfLinks ==
    ASSUME LinkInv, NEW evidence \in Seq(LinkRow)
    PROVE  LET refs == Mentions(evidence) IN
           /\ \E S : refs \in Seq(S)
           /\ DOMAIN refs = 1..(2 * Len(evidence))
           /\ \A k \in DOMAIN refs : refs[k] # None =>
                 \E n \in DOMAIN evidence : refs[k] \in RefsOf(evidence[n])
           /\ \A n \in DOMAIN evidence : \A ref \in RefsOf(evidence[n]) :
                 ref # None /\ \E k \in DOMAIN refs : refs[k] = ref
           /\ 1 \in DOMAIN evidence =>
                 /\ 1 \in DOMAIN refs /\ 2 \in DOMAIN refs /\ refs[2] = evidence[1].raw
                 /\ evidence[1].type # "raw_evidence" => refs[1] = None
<1> DEFINE refs == Mentions(evidence)
           N == Len(evidence)
           At(k) == LET l == evidence[(k + 1) \div 2] IN
                    IF k % 2 = 0 THEN l.raw ELSE IF l.type = "raw_evidence" THEN l.ref ELSE None
<1>1. N \in Nat /\ DOMAIN evidence = 1..N /\ 2 * N \in Nat
  OBVIOUS
<1>2. DOMAIN refs = 1..(2 * N) /\ \A k \in 1..(2 * N) : refs[k] = At(k)
  BY DEF Mentions
<1>3. \A k \in 1..(2 * N) : (k + 1) \div 2 \in 1..N
  BY <1>1
<1>4. \A n \in 1..N : /\ 2 * n \in 1..(2 * N) /\ 2 * n - 1 \in 1..(2 * N)
                       /\ (2 * n + 1) \div 2 = n /\ (2 * n - 1 + 1) \div 2 = n
                       /\ (2 * n) % 2 = 0 /\ (2 * n - 1) % 2 # 0
  BY <1>1
<1>5. \E S : refs \in Seq(S)
  <2> DEFINE S == {refs[k] : k \in 1..(2 * N)}
  <2>1. refs = [k \in 1..(2 * N) |-> At(k)]
    BY DEF Mentions
  <2>2. \A k \in 1..(2 * N) : At(k) \in S
    BY <1>2
  <2> HIDE DEF S, At, refs
  <2>3. refs \in [1..(2 * N) -> S]
    BY <2>1, <2>2
  <2>4. refs \in Seq(S)
    BY <1>1, <2>3
  <2>5. QED
    BY <2>4
<1>6. ASSUME NEW k \in DOMAIN refs, refs[k] # None
      PROVE  \E n \in DOMAIN evidence : refs[k] \in RefsOf(evidence[n])
  <2>1. PICK n \in DOMAIN evidence : n = (k + 1) \div 2
    BY <1>1, <1>2, <1>3
  <2>2. refs[k] = IF k % 2 = 0 THEN evidence[n].raw
                  ELSE IF evidence[n].type = "raw_evidence" THEN evidence[n].ref ELSE None
    BY <1>2, <2>1
  <2> HIDE DEF refs
  <2>3. QED
    BY <1>6, <2>2 DEF RefsOf
<1>7. ASSUME NEW n \in DOMAIN evidence, NEW ref \in RefsOf(evidence[n])
      PROVE  ref # None /\ \E k \in DOMAIN refs : refs[k] = ref
  <2>1. evidence[n] \in LinkRow
    OBVIOUS
  <2>2. evidence[n].type = "raw_evidence" => evidence[n].ref # None
    BY <2>1, CasesAssumption DEF LinkRow, OwnLink, TaskLink, HandLink
  <2>3. CASE evidence[n].type = "raw_evidence" /\ ref = evidence[n].ref
    <3>1. refs[2 * n - 1] = ref
      BY <1>1, <1>2, <1>4, <2>3
    <3>2. QED
      BY <1>1, <1>2, <1>4, <2>2, <2>3, <3>1
  <2>4. CASE ref = evidence[n].raw /\ ref # None
    <3>1. refs[2 * n] = ref
      BY <1>1, <1>2, <1>4, <2>4
    <3>2. QED
      BY <1>1, <1>2, <1>4, <2>4, <3>1
  <2>5. QED
    BY <2>3, <2>4 DEF RefsOf
<1>8. ASSUME 1 \in DOMAIN evidence
      PROVE  /\ 1 \in DOMAIN refs /\ 2 \in DOMAIN refs /\ refs[2] = evidence[1].raw
             /\ evidence[1].type # "raw_evidence" => refs[1] = None
  <2>1. 1 \in 1..(2 * N) /\ 2 \in 1..(2 * N) /\ (1 + 1) \div 2 = 1 /\ (2 + 1) \div 2 = 1
        /\ 2 % 2 = 0 /\ 1 % 2 # 0
    BY <1>1, <1>8
  <2>2. QED
    BY <1>2, <2>1
<1> HIDE DEF refs
<1>9. QED
  BY <1>2, <1>5, <1>6, <1>7, <1>8 DEF refs

\* So the property follows.
LEMMA CarryFollows == LinkInv => CasesCarryTheirEvidence
<1> SUFFICES ASSUME LinkInv, NEW c \in CaseIds
             PROVE  LET a == cases[c].alert
                        linked == ToSet(EvidenceOf(c))
                    IN /\ ToSet(AlertLinks(c, a)) \subseteq linked
                       /\ RawRefs(c)[1] = a /\ IsInjective(RawRefs(c))
                       /\ ToSet(RawRefs(c)) = UNION {RefsOf(l) : l \in linked}
                       /\ \A ref \in ToSet(RawRefs(c)) \ ({a} \cup Reported(c)) :
                             \E l \in linked : l.by = "hand" /\ ref \in RefsOf(l)
  BY DEF CasesCarryTheirEvidence
<1> DEFINE a == cases[c].alert
           evidence == EvidenceOf(c)
           refs == Mentions(evidence)
           raw == Picked(refs, FirstMentions(refs))
<1>1. /\ evidence \in Seq(LinkRow)
      /\ \A n \in DOMAIN evidence :
            \E i \in DOMAIN links : links[i].case = c /\ evidence[n] = links[i]
      /\ \A i \in DOMAIN links :
            links[i].case = c => \E n \in DOMAIN evidence : evidence[n] = links[i]
      /\ 1 \in DOMAIN evidence /\ evidence[1] = OwnLink(c, "alert", a)
  BY EvidenceIsLinks
<1> HIDE DEF evidence
<1>2. /\ \E S : refs \in Seq(S)
      /\ DOMAIN refs = 1..(2 * Len(evidence))
      /\ \A k \in DOMAIN refs : refs[k] # None =>
            \E n \in DOMAIN evidence : refs[k] \in RefsOf(evidence[n])
      /\ \A n \in DOMAIN evidence : \A ref \in RefsOf(evidence[n]) :
            ref # None /\ \E k \in DOMAIN refs : refs[k] = ref
      /\ 1 \in DOMAIN evidence =>
            /\ 1 \in DOMAIN refs /\ 2 \in DOMAIN refs /\ refs[2] = evidence[1].raw
            /\ evidence[1].type # "raw_evidence" => refs[1] = None
  BY <1>1, MentionsOfLinks
<1> HIDE DEF refs
<1>3. /\ DOMAIN raw \subseteq Nat
      /\ \A m, n \in DOMAIN raw : raw[m] = raw[n] => m = n
      /\ \A n \in DOMAIN raw : \E i \in DOMAIN refs : raw[n] = refs[i] /\ refs[i] # None
      /\ \A i \in DOMAIN refs : refs[i] # None => \E n \in DOMAIN raw : raw[n] = refs[i]
      /\ \A i \in DOMAIN refs :
            refs[i] # None /\ (\A j \in 1..(i - 1) : refs[j] = None) =>
                1 \in DOMAIN raw /\ raw[1] = refs[i]
  BY <1>2, MentionedOnce
<1>4. RawRefs(c) = raw
  BY DEF RawRefs, evidence, refs
<1> HIDE DEF raw
<1>5. a \in Alerts /\ a # None
  BY RowsOfCases, CasesAssumption DEF Case, LinkInv, CaseInv
<1>6. ToSet(AlertLinks(c, a)) \subseteq ToSet(evidence)
  <2>1. ASSUME NEW type \in OwnTypes PROVE OwnLink(c, type, a) \in ToSet(evidence)
    <3>1. PICK i \in DOMAIN links : links[i] = OwnLink(c, type, a)
      BY DEF LinkInv, Linked, HasAlert, IsFirst, OwnTypes
    <3>2. links[i].case = c
      BY <3>1 DEF OwnLink
    <3>3. QED
      BY <1>1, <3>1, <3>2 DEF ToSet
  <2>2. ToSet(AlertLinks(c, a)) \subseteq
           {OwnLink(c, "alert", a), OwnLink(c, "raw_evidence", a)}
    BY DEF ToSet, AlertLinks
  <2>3. QED
    BY <2>1, <2>2 DEF OwnTypes
<1>7. raw[1] = a
  <2>1. refs[1] = None /\ refs[2] = a /\ 2 \in DOMAIN refs
    BY <1>1, <1>2 DEF OwnLink
  <2>2. \A j \in 1..(2 - 1) : refs[j] = None
    BY <2>1
  <2>3. QED
    BY <1>3, <1>5, <2>1, <2>2
<1>8. IsInjective(raw)
  BY <1>3 DEF IsInjective
<1>9. ToSet(raw) = {raw[n] : n \in DOMAIN raw} /\ ToSet(evidence) = {evidence[n] : n \in DOMAIN evidence}
  BY DEF ToSet
<1>10. ToSet(raw) = UNION {RefsOf(l) : l \in ToSet(evidence)}
  <2>1. \A n \in DOMAIN raw : \E m \in DOMAIN evidence : raw[n] \in RefsOf(evidence[m])
    BY <1>2, <1>3
  <2>2. \A m \in DOMAIN evidence : \A ref \in RefsOf(evidence[m]) :
           \E n \in DOMAIN raw : raw[n] = ref
    BY <1>2, <1>3
  <2>3. QED
    BY <1>9, <2>1, <2>2
<1>11. ASSUME NEW ref \in ToSet(raw), ref \notin {a} \cup Reported(c)
       PROVE  \E l \in ToSet(evidence) : l.by = "hand" /\ ref \in RefsOf(l)
  <2>1. PICK m \in DOMAIN evidence : ref \in RefsOf(evidence[m])
    BY <1>9, <1>10
  <2>2. PICK i \in DOMAIN links : links[i].case = c /\ evidence[m] = links[i]
    BY <1>1
  <2>3. LinkOK(links[i])
    BY DEF LinkInv, LinksOK
  <2>4. ASSUME NEW type \in OwnTypes, links[i] = OwnLink(c, type, a) PROVE FALSE
    BY <1>11, <2>1, <2>2, <2>4 DEF OwnLink, RefsOf
  <2>5. ASSUME NEW t, NEW r, links[i] = TaskLink(c, t, r), IsReport(c, t, r) PROVE FALSE
    <3>1. t \in Tasks /\ r \in Reports /\ TaskCase[t] \in {0, c} /\ r \in taskRow[t].made
      BY <2>5 DEF IsReport, LinkInv, CaseInv, CaseTypes, TaskRow
    <3>2. ref = <<t, r>>
      BY <2>1, <2>2, <2>5 DEF TaskLink, RefsOf
    <3>3. ref \in Reported(c)
      BY <3>1, <3>2 DEF Reported
    <3>4. QED
      BY <1>11, <3>3
  <2>6. PICK h \in ByHand : links[i] = HandLink(c, h)
    BY <2>2, <2>3, <2>4, <2>5 DEF LinkOK
  <2>7. evidence[m].by = "hand" /\ evidence[m] \in ToSet(evidence)
    BY <1>9, <2>2, <2>6 DEF HandLink
  <2>8. QED
    BY <2>1, <2>7
<1>12. QED
  BY <1>4, <1>6, <1>7, <1>8, <1>10, <1>11 DEF evidence

\* OneCaseWithItsEdits: with any number of alerts and analysts, a second case
\* for an alert, or a lost edit of its priority, is the work of two writers of
\* which one read before, and wrote after, the other wrote, or of POST /cases
\* (start_investigation_workspace, update_case).
THEOREM OneCaseForAnAlert == CasesSpec => []OneCaseWithItsEdits
BY CasesInvariant, OneCaseFollows, PTL

\* CasesCarryTheirEvidence: whatever starts, attachments and reports interleave, and
\* whatever analysts link by hand, a case has its alert and the alert's evidence;
\* its handoff names that first, and once each thing its links refer to; and what
\* it names beyond is a report of a task of no other case, or was linked by hand
\* (create_case, attach_workspace_task_evidence, add_case_evidence, complete_task,
\* _raw_refs_from_case_evidence).
THEOREM EvidenceStaysWithItsCase == CasesSpec => []CasesCarryTheirEvidence
BY LinksInvariant, CarryFollows, PTL

=============================================================================
